----------------------------- MODULE Tree_proofs -----------------------------
(***************************************************************************)
(* What the reductions of Tree do to the heap and to the stack of the      *)
(* parser: every tree stays linked both ways and counted, whatever the     *)
(* order of the reductions and however many nodes there are; and the       *)
(* functions of a pipe stay in the order of the text.                      *)
(***************************************************************************)
EXTENDS Heap_proofs

----------------------------------------------------------------------------
(* The inductive invariant *)

Values == [nt : Nonterminals, node : Nodes \cup {NULL}, names : Seq(Nodes)]

\* What the nonterminal of a value says of its tree.
Fits(h, v) ==
    IF v.node = NULL THEN v.nt \in {"stmt", "body"}
    ELSE /\ v.nt # "args" => h[v.node].next = NULL
         /\ v.nt \in {"stmt", "name"} => h[v.node].type = "node"
         /\ v.nt = "piped" => h[v.node].type = "piped"
         /\ v.nt = "call" => h[v.node].type = "call" /\ h[h[v.node].first].type # "piped"
         /\ v.nt = "linked" => Piped(h, v.node)
         /\ v.nt \in {"chain", "pipe"} => h[v.node].type = "pipe"

\* The trees below the last k values.
Below(s, k) == {s[i].node : i \in 1 .. Len(s) - k} \ {NULL}

Stacked(h, s) ==
    /\ s \in Seq(Values)
    /\ \A i, j \in 1 .. Len(s) : s[i].node = s[j].node => i = j \/ s[i].node = NULL
    /\ \A i \in 1 .. Len(s) : Fits(h, s[i])

Sound(h, s) == Whole(h, Below(s, 0)) /\ Stacked(h, s)

TreeInv ==
    /\ Sound(heap, stack)
    /\ Len(stack) <= MaxStack + 1
    /\ status \in {"parsing", "semantic error", "crash", "abort"}

----------------------------------------------------------------------------
(* A reduction: what it takes for the new stack to be sound *)

\* The tree of a value is what it was, as far as Fits can tell.
Steady(h, g, r) ==
    /\ g[r].type = h[r].type /\ g[r].next = h[r].next /\ g[r].first = h[r].first
    /\ h[r].first # NULL => g[h[r].first].type = h[h[r].first].type

LEMMA StillFits ==
    ASSUME NEW h, NEW roots, Whole(h, roots), NEW g, NEW v \in Values, Fits(h, v),
           v.node # NULL => Steady(h, g, v.node)
    PROVE  Fits(g, v)
<1>1. CASE v.node = NULL
  BY <1>1 DEF Fits
<1>2. CASE v.node # NULL
  <2> DEFINE r == v.node
  <2>1. Steady(h, g, r) /\ r \in Nodes
    BY <1>2 DEF Values
  <2>2. h[r].type = "call" => h[r].first # NULL
    BY <2>1 DEF Whole, Shaped
  <2>3. g[r].type = h[r].type /\ g[r].next = h[r].next /\ g[r].first = h[r].first
        /\ (h[r].first # NULL => g[g[r].first].type = h[h[r].first].type)
    BY <2>1 DEF Steady
  <2>4. Piped(h, r) => Piped(g, r)
    BY <2>3 DEF Piped
  <2>5. /\ v.nt # "args" => h[r].next = NULL
        /\ v.nt \in {"stmt", "name"} => h[r].type = "node"
        /\ v.nt = "piped" => h[r].type = "piped"
        /\ v.nt = "call" => h[r].type = "call" /\ h[h[r].first].type # "piped"
        /\ v.nt = "linked" => Piped(h, r)
        /\ v.nt \in {"chain", "pipe"} => h[r].type = "pipe"
    BY <1>2 DEF Fits
  <2>6. /\ v.nt # "args" => g[r].next = NULL
        /\ v.nt \in {"stmt", "name"} => g[r].type = "node"
        /\ v.nt = "piped" => g[r].type = "piped"
        /\ v.nt = "call" => g[r].type = "call" /\ g[g[r].first].type # "piped"
        /\ v.nt = "linked" => Piped(g, r)
        /\ v.nt \in {"chain", "pipe"} => g[r].type = "pipe"
    BY <2>2, <2>3, <2>4, <2>5
  <2> HIDE DEF r
  <2> QED
    BY <1>2, <2>6 DEF Fits, r
<1> QED
  BY <1>1, <1>2

\* What a step that keeps all but one node apart keeps of the others.
LEMMA ApartSteady ==
    ASSUME NEW h, NEW roots, Whole(h, roots), NEW g, NEW t \in Nodes, NEW rest,
           Apart(h, g, t, rest), rest \subseteq roots, t \notin rest, NEW r \in rest
    PROVE  Steady(h, g, r)
<1>1. r \in Nodes \ {t} /\ h \in Heaps /\ Wired(h, roots)
  BY DEF Whole, Wired
<1>2. g[r].type = h[r].type /\ g[r].next = h[r].next /\ g[r].first = h[r].first
  BY <1>1 DEF Apart
<1>3. h[r].first # NULL => h[r].first \in Nodes /\ h[h[r].first].type # "free"
  BY <1>1 DEF Heaps, Records, Wired
<1>4. \A n \in Nodes : h[n].type # "free" => g[n].type = h[n].type
  BY DEF Apart
<1> QED
  BY <1>2, <1>3, <1>4 DEF Steady

\* The stack with k values replaced by one.
Replaced(s, k, v) == Append(SubSeq(s, 1, Len(s) - k), v)

LEMMA ReplacedFacts ==
    ASSUME NEW s \in Seq(Values), NEW k \in 0 .. Len(s), NEW v \in Values
    PROVE  /\ Replaced(s, k, v) \in Seq(Values)
           /\ Len(Replaced(s, k, v)) = Len(s) - k + 1
           /\ \A i \in 1 .. Len(s) - k : Replaced(s, k, v)[i] = s[i]
           /\ Replaced(s, k, v)[Len(s) - k + 1] = v
<1> DEFINE m == Len(s) - k
           u == SubSeq(s, 1, m)
<1>1. Len(s) \in Nat /\ m \in Nat /\ m <= Len(s)
  OBVIOUS
<1>2. u \in Seq(Values) /\ Len(u) = m /\ \A i \in 1 .. m : u[i] = s[i]
  <2> HIDE DEF m
  <2> QED
    BY <1>1
<1> HIDE DEF u, m
<1> DEFINE w == Append(u, v)
<1>3. w \in Seq(Values) /\ Len(w) = Len(u) + 1
  BY <1>2
<1>4. w[Len(u) + 1] = v /\ \A i \in 1 .. Len(u) : w[i] = u[i]
  BY <1>2
<1>5. w = Replaced(s, k, v)
  BY DEF Replaced, u, m
<1> HIDE DEF w
<1>6. Len(w) = m + 1 /\ w[m + 1] = v /\ \A i \in 1 .. m : w[i] = s[i]
  BY <1>2, <1>3, <1>4
<1> QED
  BY <1>3, <1>5, <1>6 DEF m

\* What is on a stack with a value replaced.
LEMMA Reduces ==
    ASSUME NEW h, NEW s, Sound(h, s), NEW k \in 0 .. Len(s), NEW v \in Values, NEW g,
           Whole(g, IF v.node = NULL THEN Below(s, k) ELSE Plus(Below(s, k), v.node)),
           v.node \notin Below(s, k), Fits(g, v),
           \A r \in Below(s, k) : Steady(h, g, r)
    PROVE  Sound(g, Replaced(s, k, v))
<1> DEFINE m == Len(s) - k
           w == Replaced(s, k, v)
<1>1. s \in Seq(Values) /\ Len(s) \in Nat /\ k \in 0 .. Len(s)
  BY DEF Sound, Stacked
<1>2. m \in Nat /\ m <= Len(s)
  BY <1>1
<1>3. w \in Seq(Values) /\ Len(w) = m + 1 /\ w[m + 1] = v /\ \A i \in 1 .. m : w[i] = s[i]
  BY <1>1, ReplacedFacts
<1>4. Below(s, k) = {s[i].node : i \in 1 .. m} \ {NULL}
  BY DEF Below
<1>5. Below(w, 0) = {w[i].node : i \in 1 .. m + 1} \ {NULL}
  BY <1>2, <1>3 DEF Below
<1> HIDE DEF m, w
<1>6. Below(w, 0) = (Below(s, k) \cup {v.node}) \ {NULL}
  <2>1. \A x : x \in {w[i].node : i \in 1 .. m + 1} <=> x \in {s[i].node : i \in 1 .. m} \cup {v.node}
    <3>1. 1 .. m + 1 = (1 .. m) \cup {m + 1}
      BY <1>2
    <3> QED
      BY <1>3, <3>1
  <2> QED
    BY <1>4, <1>5, <2>1
<1>7. Below(w, 0) = IF v.node = NULL THEN Below(s, k) ELSE Plus(Below(s, k), v.node)
  <2>1. NULL \notin Below(s, k)
    BY <1>4
  <2> QED
    BY <1>6, <2>1 DEF Plus
<1>8. Whole(g, Below(w, 0))
  BY <1>7, Zenon
<1>9. ASSUME NEW i \in 1 .. Len(w)
      PROVE  Fits(g, w[i])
  <2>1. CASE i = m + 1
    BY <1>3, <2>1
  <2>2. CASE i # m + 1
    <3>1. i \in 1 .. m /\ i \in 1 .. Len(s)
      BY <1>2, <1>3, <2>2
    <3>2. w[i] = s[i] /\ s[i] \in Values
      BY <1>1, <1>3, <3>1
    <3>3. Whole(h, Below(s, 0)) /\ Fits(h, s[i])
      BY <3>1 DEF Sound, Stacked
    <3>4. s[i].node # NULL => Steady(h, g, s[i].node)
      BY <1>4, <3>1
    <3>5. Fits(g, s[i])
      BY <3>2, <3>3, <3>4, StillFits
    <3> QED
      BY <3>2, <3>5
  <2> QED
    BY <2>1, <2>2
<1>10. ASSUME NEW i \in 1 .. Len(w), NEW j \in 1 .. Len(w), w[i].node = w[j].node
       PROVE  i = j \/ w[i].node = NULL
  <2>1. \A a \in 1 .. m : w[a] = s[a] /\ a \in 1 .. Len(s)
        /\ (w[a].node = NULL \/ w[a].node \in Below(s, k))
    BY <1>2, <1>3, <1>4
  <2>2. CASE i \in 1 .. m /\ j \in 1 .. m
    <3>1. i \in 1 .. Len(s) /\ j \in 1 .. Len(s) /\ s[i].node = s[j].node
      BY <1>10, <2>1, <2>2
    <3> QED
      BY <2>1, <2>2, <3>1 DEF Sound, Stacked
  <2>3. i \in 1 .. m \/ i = m + 1
    BY <1>2, <1>3
  <2>4. j \in 1 .. m \/ j = m + 1
    BY <1>2, <1>3
  <2> QED
    BY <1>3, <1>10, <2>1, <2>2, <2>3, <2>4
<1>11. Stacked(g, w)
  BY <1>3, <1>9, <1>10 DEF Stacked
<1> QED
  BY <1>8, <1>11 DEF Sound, w

\* The last k values of a stack.
Nth(s, k, i) == s[Len(s) - k + i]

LEMMA Tops ==
    ASSUME NEW h, NEW s, Sound(h, s), NEW k \in Nat, k <= Len(s)
    PROVE  /\ k \in 0 .. Len(s)
           /\ \A i \in 1 .. k : /\ Nth(s, k, i) \in Values
                                /\ Fits(h, Nth(s, k, i))
                                /\ Nth(s, k, i).node = NULL \/ Nth(s, k, i).node \in Below(s, 0)
           /\ \A i, j \in 1 .. k :
                 Nth(s, k, i).node = Nth(s, k, j).node => i = j \/ Nth(s, k, i).node = NULL
           /\ Below(s, k) = Below(s, 0) \ {Nth(s, k, i).node : i \in 1 .. k}
<1> DEFINE m == Len(s) - k
<1>1. s \in Seq(Values) /\ Len(s) \in Nat
  BY DEF Sound, Stacked
<1>2. m \in Nat /\ m + k = Len(s)
  BY <1>1
<1>3. \A i \in 1 .. k : Nth(s, k, i) = s[m + i]
  BY DEF Nth
<1>4. /\ Below(s, k) = {s[i].node : i \in 1 .. m} \ {NULL}
      /\ Below(s, 0) = {s[i].node : i \in 1 .. Len(s)} \ {NULL}
  BY <1>1 DEF Below
<1> HIDE DEF m
<1>5. \A i \in 1 .. k : m + i \in 1 .. Len(s)
  BY <1>2
<1>6. \A i, j \in 1 .. k : m + i = m + j => i = j
  BY <1>2
<1>7. ASSUME NEW i \in 1 .. k
      PROVE  /\ Nth(s, k, i) \in Values
             /\ Fits(h, Nth(s, k, i))
             /\ Nth(s, k, i).node = NULL \/ Nth(s, k, i).node \in Below(s, 0)
  <2>1. s[m + i] \in Values
    BY <1>1, <1>5
  <2>2. Fits(h, s[m + i])
    BY <1>5 DEF Sound, Stacked
  <2> QED
    BY <1>3, <1>4, <1>5, <2>1, <2>2
<1>8. ASSUME NEW i \in 1 .. k, NEW j \in 1 .. k, Nth(s, k, i).node = Nth(s, k, j).node
      PROVE  i = j \/ Nth(s, k, i).node = NULL
  <2>1. s[m + i].node = s[m + j].node /\ m + i \in 1 .. Len(s) /\ m + j \in 1 .. Len(s)
    BY <1>3, <1>5, <1>8
  <2>2. m + i = m + j \/ s[m + i].node = NULL
    BY <2>1 DEF Sound, Stacked
  <2> QED
    BY <1>3, <1>6, <2>2
<1>9. Below(s, k) = Below(s, 0) \ {Nth(s, k, i).node : i \in 1 .. k}
  <2>1. ASSUME NEW x \in Below(s, k)
        PROVE  x \in Below(s, 0) \ {Nth(s, k, i).node : i \in 1 .. k}
    <3>1. PICK a \in 1 .. m : x = s[a].node
      BY <1>4
    <3>2. a \in 1 .. Len(s) /\ \A i \in 1 .. k : a # m + i
      BY <1>2
    <3>3. x # NULL /\ x \in Below(s, 0)
      BY <1>4, <3>1, <3>2
    <3>4. ASSUME NEW i \in 1 .. k
          PROVE  x # Nth(s, k, i).node
      BY <1>3, <1>5, <3>1, <3>2, <3>3 DEF Sound, Stacked
    <3> QED
      BY <3>3, <3>4
  <2>2. ASSUME NEW x \in Below(s, 0) \ {Nth(s, k, i).node : i \in 1 .. k}
        PROVE  x \in Below(s, k)
    <3>1. PICK a \in 1 .. Len(s) : x = s[a].node
      BY <1>4
    <3>2. a \in 1 .. m \/ \E i \in 1 .. k : a = m + i
      <4>1. a \in 1 .. m \/ (a - m \in 1 .. k /\ a = m + (a - m))
        BY <1>2
      <4> QED
        BY <4>1
    <3> QED
      BY <1>3, <1>4, <3>1, <3>2
  <2> QED
    BY <2>1, <2>2
<1> QED
  BY <1>1, <1>7, <1>8, <1>9

LEMMA TopOne ==
    ASSUME NEW A, Sound(heap, stack), On(<<A>>), NEW a, a = S(1, 1),
           NEW va, va = Nth(stack, 1, 1)
    PROVE  /\ 1 \in 0 .. Len(stack) /\ status = "parsing"
           /\ va \in Values /\ va.node = a /\ va.nt \in A /\ Fits(heap, va)
           /\ a = NULL \/ a \in Below(stack, 0)
           /\ Below(stack, 1) = Minus(Below(stack, 0), a)
<1>1. 1 <= Len(stack) /\ va.nt \in A /\ status = "parsing"
  BY DEF On, Nth
<1>2. va.node = a
  BY DEF S, Nth
<1>3. {Nth(stack, 1, i).node : i \in 1 .. 1} = {a}
  BY <1>2
<1> QED
  BY <1>1, <1>2, <1>3, Tops DEF Minus

LEMMA TopTwo ==
    ASSUME NEW A, NEW B, Sound(heap, stack), On(<<A, B>>), NEW a, a = S(2, 1), NEW b, b = S(2, 2),
           NEW va, va = Nth(stack, 2, 1), NEW vb, vb = Nth(stack, 2, 2)
    PROVE  /\ 2 \in 0 .. Len(stack) /\ status = "parsing"
           /\ va \in Values /\ va.node = a /\ va.nt \in A /\ Fits(heap, va)
           /\ vb \in Values /\ vb.node = b /\ vb.nt \in B /\ Fits(heap, vb)
           /\ a = NULL \/ a \in Below(stack, 0)
           /\ b = NULL \/ b \in Below(stack, 0)
           /\ a = b => a = NULL
           /\ Below(stack, 2) = Minus(Minus(Below(stack, 0), a), b)
<1>1. 2 <= Len(stack) /\ va.nt \in A /\ vb.nt \in B /\ status = "parsing"
  BY DEF On, Nth
<1>2. va.node = a /\ vb.node = b
  BY DEF S, Nth
<1>3. {Nth(stack, 2, i).node : i \in 1 .. 2} = {a, b}
  <2>1. 1 .. 2 = {1, 2}
    OBVIOUS
  <2> QED
    BY <1>2, <2>1
<1>4. 1 \in 1 .. 2 /\ 2 \in 1 .. 2
  OBVIOUS
<1> DEFINE below == {Nth(stack, 2, i).node : i \in 1 .. 2}
<1> HIDE DEF below
<1>5. /\ 2 \in 0 .. Len(stack)
      /\ \A i \in 1 .. 2 : /\ Nth(stack, 2, i) \in Values
                           /\ Fits(heap, Nth(stack, 2, i))
                           /\ Nth(stack, 2, i).node = NULL \/ Nth(stack, 2, i).node \in Below(stack, 0)
      /\ \A i, j \in 1 .. 2 :
            Nth(stack, 2, i).node = Nth(stack, 2, j).node => i = j \/ Nth(stack, 2, i).node = NULL
      /\ Below(stack, 2) = Below(stack, 0) \ below
  BY <1>1, Tops DEF below
<1>6. Below(stack, 2) = Minus(Minus(Below(stack, 0), a), b)
  BY <1>3, <1>5 DEF below, Minus
<1> QED
  BY <1>1, <1>2, <1>4, <1>5, <1>6

LEMMA TopThree ==
    ASSUME NEW A, NEW B, NEW C, Sound(heap, stack), On(<<A, B, C>>),
           NEW a, a = S(3, 1), NEW b, b = S(3, 2), NEW c, c = S(3, 3),
           NEW va, va = Nth(stack, 3, 1), NEW vb, vb = Nth(stack, 3, 2), NEW vc, vc = Nth(stack, 3, 3)
    PROVE  /\ 3 \in 0 .. Len(stack) /\ status = "parsing"
           /\ va \in Values /\ va.node = a /\ va.nt \in A /\ Fits(heap, va)
           /\ vb \in Values /\ vb.node = b /\ vb.nt \in B /\ Fits(heap, vb)
           /\ vc \in Values /\ vc.node = c /\ vc.nt \in C /\ Fits(heap, vc)
           /\ a = NULL \/ a \in Below(stack, 0)
           /\ b = NULL \/ b \in Below(stack, 0)
           /\ c = NULL \/ c \in Below(stack, 0)
           /\ (a = b => a = NULL) /\ (a = c => a = NULL) /\ (b = c => b = NULL)
           /\ Below(stack, 3) = Minus(Minus(Minus(Below(stack, 0), a), b), c)
<1>1. 3 <= Len(stack) /\ va.nt \in A /\ vb.nt \in B /\ vc.nt \in C /\ status = "parsing"
  BY DEF On, Nth
<1>2. va.node = a /\ vb.node = b /\ vc.node = c
  BY DEF S, Nth
<1>3. {Nth(stack, 3, i).node : i \in 1 .. 3} = {a, b, c}
  <2>1. 1 .. 3 = {1, 2, 3}
    OBVIOUS
  <2> QED
    BY <1>2, <2>1
<1>4. 1 \in 1 .. 3 /\ 2 \in 1 .. 3 /\ 3 \in 1 .. 3
  OBVIOUS
<1> DEFINE below == {Nth(stack, 3, i).node : i \in 1 .. 3}
<1> HIDE DEF below
<1>5. /\ 3 \in 0 .. Len(stack)
      /\ \A i \in 1 .. 3 : /\ Nth(stack, 3, i) \in Values
                           /\ Fits(heap, Nth(stack, 3, i))
                           /\ Nth(stack, 3, i).node = NULL \/ Nth(stack, 3, i).node \in Below(stack, 0)
      /\ \A i, j \in 1 .. 3 :
            Nth(stack, 3, i).node = Nth(stack, 3, j).node => i = j \/ Nth(stack, 3, i).node = NULL
      /\ Below(stack, 3) = Below(stack, 0) \ below
  BY <1>1, Tops DEF below
<1>6. Below(stack, 3) = Minus(Minus(Minus(Below(stack, 0), a), b), c)
  BY <1>3, <1>5 DEF below, Minus
<1> QED
  BY <1>1, <1>2, <1>4, <1>5, <1>6

LEMMA TopFour ==
    ASSUME NEW A, NEW B, NEW C, NEW D, Sound(heap, stack), On(<<A, B, C, D>>),
           NEW a, a = S(4, 1), NEW b, b = S(4, 2), NEW c, c = S(4, 3), NEW d, d = S(4, 4),
           NEW va, va = Nth(stack, 4, 1), NEW vb, vb = Nth(stack, 4, 2),
           NEW vc, vc = Nth(stack, 4, 3), NEW vd, vd = Nth(stack, 4, 4)
    PROVE  /\ 4 \in 0 .. Len(stack) /\ status = "parsing"
           /\ va \in Values /\ va.node = a /\ va.nt \in A /\ Fits(heap, va)
           /\ vb \in Values /\ vb.node = b /\ vb.nt \in B /\ Fits(heap, vb)
           /\ vc \in Values /\ vc.node = c /\ vc.nt \in C /\ Fits(heap, vc)
           /\ vd \in Values /\ vd.node = d /\ vd.nt \in D /\ Fits(heap, vd)
           /\ a = NULL \/ a \in Below(stack, 0)
           /\ b = NULL \/ b \in Below(stack, 0)
           /\ c = NULL \/ c \in Below(stack, 0)
           /\ d = NULL \/ d \in Below(stack, 0)
           /\ (a = b => a = NULL) /\ (a = c => a = NULL) /\ (b = c => b = NULL)
           /\ (a = d => a = NULL) /\ (b = d => b = NULL) /\ (c = d => c = NULL)
           /\ Below(stack, 4) = Minus(Minus(Minus(Minus(Below(stack, 0), a), b), c), d)
<1>1. 4 <= Len(stack) /\ va.nt \in A /\ vb.nt \in B /\ vc.nt \in C /\ vd.nt \in D
      /\ status = "parsing"
  BY DEF On, Nth
<1>2. va.node = a /\ vb.node = b /\ vc.node = c /\ vd.node = d
  BY DEF S, Nth
<1>3. {Nth(stack, 4, i).node : i \in 1 .. 4} = {a, b, c, d}
  <2>1. 1 .. 4 = {1, 2, 3, 4}
    OBVIOUS
  <2> QED
    BY <1>2, <2>1
<1>4. 1 \in 1 .. 4 /\ 2 \in 1 .. 4 /\ 3 \in 1 .. 4 /\ 4 \in 1 .. 4
  OBVIOUS
<1> DEFINE below == {Nth(stack, 4, i).node : i \in 1 .. 4}
<1> HIDE DEF below
<1>5. /\ 4 \in 0 .. Len(stack)
      /\ \A i \in 1 .. 4 : /\ Nth(stack, 4, i) \in Values
                           /\ Fits(heap, Nth(stack, 4, i))
                           /\ Nth(stack, 4, i).node = NULL \/ Nth(stack, 4, i).node \in Below(stack, 0)
      /\ \A i, j \in 1 .. 4 :
            Nth(stack, 4, i).node = Nth(stack, 4, j).node => i = j \/ Nth(stack, 4, i).node = NULL
      /\ Below(stack, 4) = Below(stack, 0) \ below
  BY <1>1, Tops DEF below
<1>6. Below(stack, 4) = Minus(Minus(Minus(Minus(Below(stack, 0), a), b), c), d)
  BY <1>3, <1>5 DEF below, Minus
<1> QED
  BY <1>1, <1>2, <1>4, <1>5, <1>6

----------------------------------------------------------------------------
(* Values on top of the stack *)

\* A value that is an expression, a chain, a name or a list of arguments has a
\* tree, and every value but arguments has a tree without siblings.
LEMMA HasTree ==
    ASSUME NEW h, NEW v \in Values, Fits(h, v)
    PROVE  /\ v.nt \notin {"stmt", "body"} => v.node # NULL
           /\ v.nt # "args" /\ v.node # NULL => h[v.node].next = NULL
           /\ v.nt \in Expression \/ v.nt \in Linked => v.node # NULL /\ h[v.node].next = NULL
BY DEF Fits, Expression, Linked

\* The tree of a command is counted: it is no function of a chain.
LEMMA CommandCounted ==
    ASSUME NEW h, NEW roots, Whole(h, roots), NEW v \in Values, Fits(h, v), v.nt \in Command,
           v.node # NULL
    PROVE  CountedIn(h, v.node)
<1>1. v.node \in Nodes
  BY DEF Values
<1>2. Kept(h, v.node)
  BY <1>1 DEF Whole
<1>3. ~Piped(h, v.node)
  BY DEF Fits, Command, Piped
<1> QED
  BY <1>2, <1>3 DEF Kept

\* A node that was free becomes the tree of the new value.
LEMMA Grows ==
    ASSUME NEW h, NEW s, Sound(h, s), NEW k \in 0 .. Len(s),
           NEW n \in Nodes, h[n].type = "free", NEW g \in Heaps,
           Wired(g, Plus(Below(s, k), n)), Apart(h, g, n, Below(s, k)), Kept(g, n), Shaped(g, n),
           NEW v \in Values, v.node = n, Fits(g, v)
    PROVE  Sound(g, Replaced(s, k, v))
<1>1. Whole(h, Below(s, 0)) /\ Len(s) \in Nat
  BY DEF Sound, Stacked
<1>2. Below(s, k) \subseteq Below(s, 0)
  BY <1>1 DEF Below
<1>3. n \notin Below(s, k)
  BY <1>1, <1>2 DEF Whole, Wired
<1>4. Whole(g, Plus(Below(s, k), n))
  BY <1>1, StaysWhole
<1>5. n # NULL
  BY NullIsNone
<1>6. Whole(g, IF v.node = NULL THEN Below(s, k) ELSE Plus(Below(s, k), v.node))
  BY <1>4, <1>5, Zenon
<1>7. \A r \in Below(s, k) : Steady(h, g, r)
  BY <1>1, <1>2, <1>3, ApartSteady
<1> QED
  BY <1>3, <1>6, <1>7, Reduces

\* The new value is a plain node, an expression or a command.
LEMMA GrowsNode ==
    ASSUME NEW h, NEW s, Sound(h, s), NEW k \in 0 .. Len(s),
           NEW n \in Nodes, h[n].type = "free", NEW g \in Heaps,
           Wired(g, Plus(Below(s, k), n)), Apart(h, g, n, Below(s, k)),
           NEW f, NEW l, NEW c, NEW ks, MadeOf(g, n, "node", f, l, c, ks), CountedIn(g, n),
           NEW nt \in {"exp", "stmt"}
    PROVE  Sound(g, Replaced(s, k, Value(nt, n, << >>)))
<1> DEFINE v == Value(nt, n, << >>)
<1>1. v \in Values /\ v.nt = nt /\ v.node = n
  BY DEF Value, Values, Nonterminals, Expression, Command, Linked
<1>2. Kept(g, n) /\ Shaped(g, n)
  BY DEF MadeOf, Kept, Shaped
<1>3. g[n].type = "node" /\ g[n].next = NULL
  BY DEF MadeOf
<1> HIDE DEF v
<1>4. Fits(g, v)
  BY <1>1, <1>3, NullIsNone DEF Fits
<1>5. Sound(g, Replaced(s, k, v))
  BY <1>1, <1>2, <1>4, Grows
<1> QED
  BY <1>5 DEF v

----------------------------------------------------------------------------
(* What a step of the parser needs *)

LEMMA CanGrowFree ==
    ASSUME NEW n \in Nat \ {0}, CanGrow(n)
    PROVE  Free(heap) # {} /\ New \in Nodes /\ heap[New].type = "free"
<1>1. Free(heap) # {}
  <2>1. SUFFICES ASSUME Free(heap) = {} PROVE FALSE
    OBVIOUS
  <2>2. Cardinality(Free(heap)) = 0
    BY <2>1, FS_EmptySet
  <2> QED
    BY <2>2 DEF CanGrow
<1> QED
  BY <1>1, Allocates DEF New

LEMMA CanBranchFree ==
    ASSUME NEW n \in Nat \ {0}, CanBranch(n)
    PROVE  Free(heap) # {} /\ New \in Nodes /\ heap[New].type = "free"
BY CanGrowFree DEF CanBranch

\* A sound reduction preserves the invariant.
LEMMA Reduced ==
    ASSUME TreeInv, NEW k \in 0 .. Len(stack), k = 0 => Len(stack) <= MaxStack,
           NEW v, NEW g, Sound(g, Replaced(stack, k, v)), v \in Values,
           heap' = g, Replace(k, v), UNCHANGED status
    PROVE  TreeInv'
<1>1. Sound(heap', stack')
  BY DEF Replace, Replaced
<1>2. stack \in Seq(Values) /\ Len(stack) <= MaxStack + 1
  BY DEF TreeInv, Sound, Stacked
<1>3. Len(stack') = Len(stack) - k + 1
  <2>1. Len(Replaced(stack, k, v)) = Len(stack) - k + 1
    BY <1>2, ReplacedFacts
  <2> QED
    BY <2>1 DEF Replace, Replaced
<1>4. Len(stack') <= MaxStack + 1
  BY <1>2, <1>3, TreeAssumption
<1> QED
  BY <1>1, <1>4 DEF TreeInv

LEMMA Follows ==
    ASSUME NEW nt, TreeInv, MayFollow(nt)
    PROVE  /\ Sound(heap, stack) /\ 0 \in 0 .. Len(stack) /\ Len(stack) <= MaxStack
           /\ Below(stack, 0) \subseteq Nodes
<1>1. Sound(heap, stack) /\ stack \in Seq(Values)
  BY DEF TreeInv, Sound, Stacked
<1>2. Len(stack) <= MaxStack
  BY <1>1, TreeAssumption DEF MayFollow
<1> QED
  BY <1>1, <1>2 DEF Sound, Whole, Wired

----------------------------------------------------------------------------
(* One lemma per action *)

LEMMA LeafStep ==
    ASSUME TreeInv, NEW nt \in {"exp", "name", "piped", "stmt"}, Leaf(nt)
    PROVE  TreeInv'
<1> DEFINE type == IF nt = "piped" THEN "piped" ELSE "node"
           v == Value(nt, New, << >>)
           g == createASTNode(heap, New, type)
<1>1. /\ Sound(heap, stack) /\ 0 \in 0 .. Len(stack) /\ Len(stack) <= MaxStack
  BY Follows DEF Leaf
<1>2. New \in Nodes /\ heap[New].type = "free"
  BY CanGrowFree DEF Leaf
<1>3. heap' = g /\ Replace(0, v) /\ UNCHANGED status
  BY DEF Leaf, Reduce
<1>4. v \in Values /\ v.nt = nt /\ v.node = New
  BY <1>2 DEF Value, Values, Nonterminals, Expression, Command, Linked
<1>5. type \in Types /\ (nt = "piped" => type = "piped") /\ (nt # "piped" => type = "node")
  BY DEF Types
<1> DEFINE new == New
<1>6. g = createASTNode(heap, new, type) /\ new \in Nodes /\ heap[new].type = "free" /\ v.node = new
  BY <1>2, <1>4
<1> HIDE DEF v, g, type, new
<1>7. heap \in Heaps /\ Wired(heap, Below(stack, 0)) /\ Whole(heap, Below(stack, 0))
  BY <1>1 DEF Sound, Whole
<1>8. /\ g \in Heaps /\ new \notin Below(stack, 0)
      /\ Wired(g, Plus(Below(stack, 0), new))
      /\ g[new] = Comp(type) /\ \A n \in Nodes \ {new} : g[n] = heap[n]
      /\ \A m \in Nodes \ {new} : Children(g, m) = Children(heap, m)
      /\ \A r \in Below(stack, 0) : Siblings(g, r) = Siblings(heap, r)
      /\ Children(g, new) = << >>
  BY <1>5, <1>6, <1>7, Created
<1>9. g[new].type = type /\ g[new].childnodes = 0 /\ g[new].last = NULL /\ g[new].next = NULL
  BY <1>8 DEF Comp
<1>10. Kept(g, new) /\ Shaped(g, new)
  BY <1>5, <1>8, <1>9 DEF Kept, CountedIn, Shaped
<1>11. Apart(heap, g, new, Below(stack, 0))
  <2>1. heap[new].first = NULL /\ heap[new].next = NULL
    BY <1>6, <1>7 DEF Wired
  <2>2. \A r \in Below(stack, 0) : r \in Nodes \ {new}
    BY <1>7, <1>8 DEF Wired
  <2> QED
    BY <1>6, <1>8, <2>1, <2>2 DEF Apart
<1>12. Fits(g, v)
  BY <1>4, <1>5, <1>6, <1>9, NullIsNone DEF Fits
<1>13. Sound(g, Replaced(stack, 0, v))
  BY <1>1, <1>4, <1>6, <1>8, <1>10, <1>11, <1>12, Grows
<1> QED
  BY <1>1, <1>3, <1>4, <1>13, Reduced

----------------------------------------------------------------------------
(* Plain nodes made of one to four trees of the stack *)

LEMMA NodeOfOne ==
    ASSUME NEW h, NEW s, Sound(h, s), NEW k \in 0 .. Len(s),
           NEW n \in Nodes, h[n].type = "free",
           NEW a \in Below(s, 0), h[a].next = NULL,
           Below(s, k) = Minus(Below(s, 0), a),
           NEW nt \in {"exp", "stmt"},
           NEW g, g = createASTUnaryNode(h, n, "node", a)
    PROVE  Sound(g, Replaced(s, k, Value(nt, n, << >>)))
<1> DEFINE roots == Below(s, 0)
           ks == Siblings(h, a)
<1>1. h \in Heaps /\ Wired(h, roots) /\ roots \subseteq Nodes
  BY DEF Sound, Whole, Wired
<1>2. Below(s, k) = Minus(roots, a) /\ a \in roots
  OBVIOUS
<1> HIDE DEF roots
<1>3. "node" \in Types
  BY DEF Types
<1>4. /\ g \in Heaps
      /\ Wired(g, Plus(Minus(roots, a), n))
      /\ Apart(h, g, n, Minus(roots, a))
      /\ MadeOf(g, n, "node", a, a, 1, ks)
  BY <1>1, <1>2, <1>3, MadeUnary
<1>5. ks = <<a>>
  BY <1>1, <1>2, Alone
<1> HIDE DEF ks
<1>6. ks # << >> /\ Len(ks) = 1 /\ ks[Len(ks)] = a
  BY <1>5
<1>7. CountedIn(g, n)
  BY <1>4, <1>6, CountedSoFar
<1>8. Wired(g, Plus(Below(s, k), n)) /\ Apart(h, g, n, Below(s, k))
  BY <1>2, <1>4, Zenon
<1> QED
  BY <1>4, <1>7, <1>8, GrowsNode

LEMMA NodeOfTwo ==
    ASSUME NEW h, NEW s, Sound(h, s), NEW k \in 0 .. Len(s),
           NEW n \in Nodes, h[n].type = "free",
           NEW a \in Below(s, 0), h[a].next = NULL, NEW b \in Below(s, 0), h[b].next = NULL, a # b,
           Below(s, k) = Minus(Minus(Below(s, 0), a), b),
           NEW nt \in {"exp", "stmt"},
           NEW g, g = createASTBinaryNode(h, n, "node", a, b)
    PROVE  Sound(g, Replaced(s, k, Value(nt, n, << >>)))
<1> DEFINE roots == Below(s, 0)
           ks == <<a>> \o Siblings(h, b)
<1>1. h \in Heaps /\ Wired(h, roots) /\ roots \subseteq Nodes
  BY DEF Sound, Whole, Wired
<1>2. Below(s, k) = Minus(Minus(roots, a), b) /\ a \in roots /\ b \in roots
  OBVIOUS
<1> HIDE DEF roots
<1>3. "node" \in Types
  BY DEF Types
<1>4. /\ g \in Heaps
      /\ Wired(g, Plus(Minus(Minus(roots, a), b), n))
      /\ Apart(h, g, n, Minus(Minus(roots, a), b))
      /\ MadeOf(g, n, "node", a, b, 2, ks)
  BY <1>1, <1>2, <1>3, MadeBinary
<1>5. ks = <<a, b>>
  <2>1. Siblings(h, b) = <<b>> /\ a \in Nodes /\ b \in Nodes
    BY <1>1, <1>2, Alone
  <2>2. <<a>> \o <<b>> = <<a, b>>
    BY <2>1, JoinedShort
  <2> QED
    BY <2>1, <2>2, Zenon
<1> HIDE DEF ks
<1>6. ks # << >> /\ Len(ks) = 2 /\ ks[Len(ks)] = b
  BY <1>5
<1>7. CountedIn(g, n)
  BY <1>4, <1>6, CountedSoFar
<1>8. Wired(g, Plus(Below(s, k), n)) /\ Apart(h, g, n, Below(s, k))
  BY <1>2, <1>4, Zenon
<1> QED
  BY <1>4, <1>7, <1>8, GrowsNode

LEMMA NodeOfThree ==
    ASSUME NEW h, NEW s, Sound(h, s), NEW k \in 0 .. Len(s),
           NEW n \in Nodes, h[n].type = "free",
           NEW a \in Below(s, 0), h[a].next = NULL, NEW b \in Below(s, 0), h[b].next = NULL,
           NEW c \in Below(s, 0), h[c].next = NULL, a # b, a # c, b # c,
           Below(s, k) = Minus(Minus(Minus(Below(s, 0), a), b), c),
           NEW nt \in {"exp", "stmt"},
           NEW g, g = createASTTernaryNode(h, n, "node", a, b, c)
    PROVE  Sound(g, Replaced(s, k, Value(nt, n, << >>)))
<1> DEFINE roots == Below(s, 0)
           ks == <<a, b>> \o Siblings(h, c)
<1>1. h \in Heaps /\ Wired(h, roots) /\ roots \subseteq Nodes
  BY DEF Sound, Whole, Wired
<1>2. Below(s, k) = Minus(Minus(Minus(roots, a), b), c) /\ a \in roots /\ b \in roots /\ c \in roots
  OBVIOUS
<1> HIDE DEF roots
<1>3. "node" \in Types
  BY DEF Types
<1>4. /\ g \in Heaps
      /\ Wired(g, Plus(Minus(Minus(Minus(roots, a), b), c), n))
      /\ Apart(h, g, n, Minus(Minus(Minus(roots, a), b), c))
      /\ MadeOf(g, n, "node", a, c, 3, ks)
  BY <1>1, <1>2, <1>3, MadeTernary
<1>5. ks = <<a, b, c>>
  <2>1. Siblings(h, c) = <<c>> /\ a \in Nodes /\ b \in Nodes /\ c \in Nodes
    BY <1>1, <1>2, Alone
  <2>2. <<a, b>> \o <<c>> = <<a, b, c>>
    BY <2>1, JoinedShort
  <2> QED
    BY <2>1, <2>2, Zenon
<1> HIDE DEF ks
<1>6. ks # << >> /\ Len(ks) = 3 /\ ks[Len(ks)] = c
  BY <1>5
<1>7. CountedIn(g, n)
  BY <1>4, <1>6, CountedSoFar
<1>8. Wired(g, Plus(Below(s, k), n)) /\ Apart(h, g, n, Below(s, k))
  BY <1>2, <1>4, Zenon
<1> QED
  BY <1>4, <1>7, <1>8, GrowsNode

LEMMA NodeOfFour ==
    ASSUME NEW h, NEW s, Sound(h, s), NEW k \in 0 .. Len(s),
           NEW n \in Nodes, h[n].type = "free",
           NEW a \in Below(s, 0), h[a].next = NULL, NEW b \in Below(s, 0), h[b].next = NULL,
           NEW c \in Below(s, 0), h[c].next = NULL, NEW d \in Below(s, 0), h[d].next = NULL,
           a # b, a # c, b # c, a # d, b # d, c # d,
           Below(s, k) = Minus(Minus(Minus(Minus(Below(s, 0), a), b), c), d),
           NEW nt \in {"exp", "stmt"},
           NEW g, g = createASTQuaternaryNode(h, n, "node", a, b, c, d)
    PROVE  Sound(g, Replaced(s, k, Value(nt, n, << >>)))
<1> DEFINE roots == Below(s, 0)
           ks == <<a, b, c>> \o Siblings(h, d)
<1>1. h \in Heaps /\ Wired(h, roots) /\ roots \subseteq Nodes
  BY DEF Sound, Whole, Wired
<1>2. /\ Below(s, k) = Minus(Minus(Minus(Minus(roots, a), b), c), d)
      /\ a \in roots /\ b \in roots /\ c \in roots /\ d \in roots
  OBVIOUS
<1> HIDE DEF roots
<1>3. "node" \in Types
  BY DEF Types
<1>4. /\ g \in Heaps
      /\ Wired(g, Plus(Minus(Minus(Minus(Minus(roots, a), b), c), d), n))
      /\ Apart(h, g, n, Minus(Minus(Minus(Minus(roots, a), b), c), d))
      /\ MadeOf(g, n, "node", a, d, 4, ks)
  BY <1>1, <1>2, <1>3, MadeQuaternary
<1>5. ks # << >> /\ Len(ks) = 4 /\ ks[Len(ks)] = d
  <2>1. Siblings(h, d) = <<d>> /\ a \in Nodes /\ b \in Nodes /\ c \in Nodes /\ d \in Nodes
    BY <1>1, <1>2, Alone
  <2> DEFINE front == <<a, b, c>>
  <2>2. front \in Seq(Nodes) /\ Len(front) = 3
    BY <2>1
  <2> HIDE DEF front
  <2>3. ks = front \o <<d>>
    BY <2>1, Zenon DEF front
  <2>4. front \o <<d>> = Append(front, d)
    BY <2>1, <2>2, OneMore
  <2>5. Len(ks) = 4 /\ ks[4] = d
    <3>1. ks = Append(front, d)
      BY <2>3, <2>4, Zenon
    <3>2. Len(Append(front, d)) = 4 /\ Append(front, d)[4] = d
      <4>1. Len(Append(front, d)) = Len(front) + 1 /\ Append(front, d)[Len(front) + 1] = d
        BY <2>1, <2>2, Appended
      <4>2. Len(front) + 1 = 4
        BY <2>2
      <4> QED
        BY <4>1, <4>2, Zenon
    <3> QED
      BY <3>1, <3>2, Zenon
  <2> HIDE DEF ks
  <2> QED
    BY <2>5
<1> HIDE DEF ks
<1>6. CountedIn(g, n)
  BY <1>4, <1>5, CountedSoFar
<1>7. Wired(g, Plus(Below(s, k), n)) /\ Apart(h, g, n, Below(s, k))
  BY <1>2, <1>4, Zenon
<1> QED
  BY <1>4, <1>6, <1>7, GrowsNode

----------------------------------------------------------------------------
(* Values with another tree, or none *)

LEMMA ReducesToNone ==
    ASSUME NEW h, NEW s, Sound(h, s), NEW k \in 0 .. Len(s), NEW g, Whole(g, Below(s, k)),
           \A r \in Below(s, k) : Steady(h, g, r),
           NEW nt \in {"stmt", "body"}
    PROVE  /\ Sound(g, Replaced(s, k, Value(nt, NULL, << >>)))
           /\ Value(nt, NULL, << >>) \in Values
<1> DEFINE v == Value(nt, NULL, << >>)
<1>1. v \in Values /\ v.node = NULL /\ v.nt = nt
  BY DEF Value, Values, Nonterminals, Expression, Command, Linked
<1> HIDE DEF v
<1>2. v.node \notin Below(s, k) /\ Fits(g, v)
  BY <1>1 DEF Below, Fits
<1>3. Whole(g, IF v.node = NULL THEN Below(s, k) ELSE Plus(Below(s, k), v.node))
  BY <1>1, Zenon
<1>4. Sound(g, Replaced(s, k, v))
  BY <1>1, <1>2, <1>3, Reduces
<1> QED
  BY <1>1, <1>4 DEF v

LEMMA ReducesToOne ==
    ASSUME NEW h, NEW s, Sound(h, s), NEW k \in 0 .. Len(s), NEW g,
           NEW x \in Nodes, x \notin Below(s, k), Whole(g, Plus(Below(s, k), x)),
           \A r \in Below(s, k) : Steady(h, g, r),
           NEW v \in Values, v.node = x, Fits(g, v)
    PROVE  Sound(g, Replaced(s, k, v))
<1>1. x # NULL
  BY NullIsNone
<1>2. Whole(g, IF v.node = NULL THEN Below(s, k) ELSE Plus(Below(s, k), v.node))
  BY <1>1, Zenon
<1> QED
  BY <1>2, Reduces

\* A heap is whole for fewer roots, and one without nodes for none.
LEMMA FewerRoots ==
    ASSUME NEW h, NEW roots, Whole(h, roots), NEW those, those \subseteq roots
    PROVE  Whole(h, those)
BY DEF Whole, Wired

LEMMA EmptyHeap ==
    ASSUME NEW h, h = [n \in Nodes |-> Comp("free")]
    PROVE  Sound(h, << >>)
<1>1. h \in Heaps
  BY NullIsNone DEF Heaps, Records, Comp
<1>2. \A n \in Nodes : /\ h[n].type = "free" /\ h[n].first = NULL /\ h[n].next = NULL
                       /\ h[n].childnodes = 0 /\ h[n].last = NULL
  BY DEF Comp
<1>3. Wired(h, {})
  BY <1>2 DEF Wired
<1>4. ASSUME NEW n \in Nodes
      PROVE  Kept(h, n) /\ Shaped(h, n)
  <2>1. Children(h, n) = << >> /\ Len(Children(h, n)) = 0
    BY <1>1, <1>2, <1>3, ChildrenFacts
  <2> QED
    BY <1>2, <2>1 DEF Kept, CountedIn, Shaped
<1>5. Below(<< >>, 0) = {}
  BY DEF Below
<1>6. Whole(h, {})
  BY <1>1, <1>3, <1>4 DEF Whole
<1>7. Whole(h, Below(<< >>, 0))
  BY <1>5, <1>6, Zenon
<1>8. Stacked(h, << >>)
  BY DEF Stacked
<1> QED
  BY <1>7, <1>8 DEF Sound

LEMMA StackBound == 0 <= MaxStack + 1
BY TreeAssumption

LEMMA EndsStep ==
    ASSUME TreeInv, NEW how \in {"semantic error", "crash", "abort"}, Ends(how)
    PROVE  TreeInv'
<1>1. Sound(heap', stack')
  <2>1. heap' = [n \in Nodes |-> Comp("free")] /\ stack' = << >>
    BY DEF Ends
  <2>2. Sound(heap', << >>)
    BY <2>1, EmptyHeap
  <2> QED
    BY <2>1, <2>2, Zenon
<1>2. Len(stack') <= MaxStack + 1 /\ status' \in {"parsing", "semantic error", "crash", "abort"}
  <2>1. stack' = << >> /\ status' = how
    BY DEF Ends
  <2>2. Len(stack') = 0
    BY <2>1
  <2>3. Len(stack') <= MaxStack + 1
    BY <2>2, StackBound, Zenon
  <2>4. how \in {"parsing", "semantic error", "crash", "abort"}
    OBVIOUS
  <2> QED
    BY <2>1, <2>3, <2>4, Zenon
<1> QED
  BY <1>1, <1>2 DEF TreeInv

----------------------------------------------------------------------------
(* Expressions *)

LEMMA AbsentStep ==
    ASSUME TreeInv, Declaration \/ EmptyBlock
    PROVE  TreeInv'
<1>1. PICK nt \in {"stmt", "body"} : MayFollow(nt) /\ Reduce(0, nt, NULL, heap)
  BY DEF Declaration, EmptyBlock
<1>2. Sound(heap, stack) /\ 0 \in 0 .. Len(stack) /\ Len(stack) <= MaxStack
  BY <1>1, Follows
<1>3. Whole(heap, Below(stack, 0)) /\ \A r \in Below(stack, 0) : Steady(heap, heap, r)
  BY <1>2 DEF Sound, Steady
<1> DEFINE v == Value(nt, NULL, << >>)
<1>4. v \in Values /\ Sound(heap, Replaced(stack, 0, v))
  BY <1>2, <1>3, ReducesToNone
<1>5. heap' = heap /\ Replace(0, v) /\ UNCHANGED status
  BY <1>1 DEF Reduce
<1> HIDE DEF v
<1> QED
  BY <1>2, <1>4, <1>5, Reduced

\* The value of a reduction that names nothing.
LEMMA PlainValue ==
    ASSUME NEW nt \in Nonterminals, NEW n \in Nodes \cup {NULL}
    PROVE  /\ Value(nt, n, << >>) \in Values
           /\ Value(nt, n, << >>).nt = nt /\ Value(nt, n, << >>).node = n
BY DEF Value, Values

\* Such a reduction of at least one value.
LEMMA ReducedToPlain ==
    ASSUME TreeInv, NEW k \in 0 .. Len(stack), k # 0, NEW nt \in {"exp", "stmt", "body", "list"},
           NEW n \in Nodes \cup {NULL},
           NEW g, Reduce(k, nt, n, g), Sound(g, Replaced(stack, k, Value(nt, n, << >>)))
    PROVE  TreeInv'
<1> DEFINE v == Value(nt, n, << >>)
<1>1. v \in Values
  BY PlainValue DEF Nonterminals, Expression, Command, Linked
<1>2. heap' = g /\ Replace(k, v) /\ UNCHANGED status
  BY DEF Reduce
<1> HIDE DEF v
<1>3. Sound(g, Replaced(stack, k, v))
  BY DEF v
<1> QED
  BY <1>1, <1>2, <1>3, Reduced

LEMMA UnaryStep ==
    ASSUME TreeInv, NEW nt \in {"exp", "stmt"}, Unary(nt)
    PROVE  TreeInv'
<1> DEFINE a == S(1, 1)
           va == Nth(stack, 1, 1)
           new == New
           g == createASTUnaryNode(heap, new, "node", a)
<1>1. Sound(heap, stack) /\ On(<<Expression>>) /\ Reduce(1, nt, new, g)
  BY DEF TreeInv, Unary
<1>2. new \in Nodes /\ heap[new].type = "free"
  BY CanBranchFree DEF Unary
<1>3. /\ 1 \in 0 .. Len(stack)
      /\ va \in Values /\ va.node = a /\ va.nt \in Expression /\ Fits(heap, va)
      /\ a = NULL \/ a \in Below(stack, 0)
      /\ Below(stack, 1) = Minus(Below(stack, 0), a)
  BY <1>1, TopOne
<1> HIDE DEF a, va, new
<1>4. a # NULL /\ heap[a].next = NULL
  BY <1>3, HasTree
<1>5. Sound(g, Replaced(stack, 1, Value(nt, new, << >>)))
  BY <1>1, <1>2, <1>3, <1>4, NodeOfOne
<1> HIDE DEF g
<1> QED
  BY <1>1, <1>2, <1>3, <1>5, ReducedToPlain

LEMMA BinaryStep ==
    ASSUME TreeInv, NEW nt \in {"exp", "stmt"}, Binary(nt)
    PROVE  TreeInv'
<1> DEFINE a == S(2, 1)
           b == S(2, 2)
           va == Nth(stack, 2, 1)
           vb == Nth(stack, 2, 2)
           new == New
           g == createASTBinaryNode(heap, new, "node", a, b)
<1>1. Sound(heap, stack) /\ On(<<Expression, Expression>>) /\ Reduce(2, nt, new, g)
  BY DEF TreeInv, Binary
<1>2. new \in Nodes /\ heap[new].type = "free"
  BY CanBranchFree DEF Binary
<1>3. /\ 2 \in 0 .. Len(stack)
      /\ va \in Values /\ va.node = a /\ va.nt \in Expression /\ Fits(heap, va)
      /\ vb \in Values /\ vb.node = b /\ vb.nt \in Expression /\ Fits(heap, vb)
      /\ a = NULL \/ a \in Below(stack, 0)
      /\ b = NULL \/ b \in Below(stack, 0)
      /\ a = b => a = NULL
      /\ Below(stack, 2) = Minus(Minus(Below(stack, 0), a), b)
  BY <1>1, TopTwo
<1> HIDE DEF a, b, va, vb, new
<1>4. a # NULL /\ heap[a].next = NULL /\ b # NULL /\ heap[b].next = NULL
  BY <1>3, HasTree
<1>5. Sound(g, Replaced(stack, 2, Value(nt, new, << >>)))
  BY <1>1, <1>2, <1>3, <1>4, NodeOfTwo
<1> HIDE DEF g
<1> QED
  BY <1>1, <1>2, <1>3, <1>5, ReducedToPlain

----------------------------------------------------------------------------
(* Calls *)

LEMMA LastArgumentStep ==
    ASSUME TreeInv, LastArgument
    PROVE  TreeInv'
<1> DEFINE a == S(1, 1)
           va == Nth(stack, 1, 1)
           v == Value("args", a, << >>)
<1>1. Sound(heap, stack) /\ On(<<Expression>>) /\ Reduce(1, "args", a, heap)
  BY DEF TreeInv, LastArgument
<1>2. /\ 1 \in 0 .. Len(stack)
      /\ va \in Values /\ va.node = a /\ va.nt \in Expression /\ Fits(heap, va)
      /\ a = NULL \/ a \in Below(stack, 0)
      /\ Below(stack, 1) = Minus(Below(stack, 0), a)
  BY <1>1, TopOne
<1>3. heap' = heap /\ Replace(1, v) /\ UNCHANGED status
  BY <1>1 DEF Reduce
<1> HIDE DEF a, va
<1>4. a # NULL /\ a \in Nodes /\ Whole(heap, Below(stack, 0))
  BY <1>1, <1>2, HasTree DEF Sound, Whole, Wired
<1>5. v \in Values /\ v.node = a /\ v.nt = "args"
  BY <1>4, PlainValue DEF Nonterminals
<1> HIDE DEF v
<1>6. Fits(heap, v)
  BY <1>4, <1>5 DEF Fits
<1>7. a \notin Below(stack, 1) /\ Plus(Below(stack, 1), a) = Below(stack, 0)
  BY <1>2, <1>4 DEF Minus, Plus
<1>8. Whole(heap, Plus(Below(stack, 1), a)) /\ \A r \in Below(stack, 1) : Steady(heap, heap, r)
  BY <1>4, <1>7 DEF Steady
<1>9. Sound(heap, Replaced(stack, 1, v))
  BY <1>1, <1>2, <1>4, <1>5, <1>6, <1>7, <1>8, ReducesToOne
<1> QED
  BY <1>2, <1>3, <1>5, <1>9, Reduced

\* A root whose next node is set is whole if it was.
LEMMA NextWhole ==
    ASSUME NEW h, NEW roots, Whole(h, roots),
           NEW t \in roots, NEW x \in roots, t # x, h[t].next = NULL,
           NEW g, g = tree_make_next(h, t, x)
    PROVE  /\ Whole(g, Minus(roots, x))
           /\ \A r \in Minus(Minus(roots, t), x) : Steady(h, g, r)
<1>1. h \in Heaps /\ Wired(h, roots) /\ Kept(h, t) /\ Shaped(h, t) /\ t \in Nodes
  BY DEF Whole, Wired
<1>2. /\ g \in Heaps
      /\ Wired(g, Minus(roots, x))
      /\ \A m \in Nodes : Children(g, m) = Children(h, m)
      /\ \A r \in roots \ {t, x} : Siblings(g, r) = Siblings(h, r)
      /\ \A n \in Nodes : /\ g[n].type = h[n].type /\ g[n].childnodes = h[n].childnodes
                          /\ g[n].first = h[n].first /\ g[n].last = h[n].last
      /\ \A n \in Nodes \ {t} : g[n].next = h[n].next
  <2>1. h \in Heaps /\ Wired(h, roots)
    BY <1>1
  <2>2. Siblings(g, t) = <<t>> \o Siblings(h, x)
    BY <2>1, MadeNext
  <2>3. g \in Heaps /\ Wired(g, Minus(roots, x))
    BY <2>1, MadeNext
  <2>4. \A m \in Nodes : Children(g, m) = Children(h, m)
    BY <2>1, <2>2, MadeNext
  <2>5. \A r \in roots \ {t, x} : Siblings(g, r) = Siblings(h, r)
    BY <2>1, <2>2, MadeNext
  <2>6. \A n \in Nodes : /\ g[n].type = h[n].type /\ g[n].childnodes = h[n].childnodes
                          /\ g[n].first = h[n].first /\ g[n].last = h[n].last
    BY <2>1, <2>2, MadeNext
  <2>7. \A n \in Nodes \ {t} : g[n].next = h[n].next
    BY <2>1, <2>2, MadeNext
  <2> QED
    BY <2>3, <2>4, <2>5, <2>6, <2>7
<1> DEFINE rest == Minus(Minus(roots, t), x)
<1>3. rest \subseteq roots /\ t \notin rest /\ \A r \in rest : r \in roots \ {t, x} /\ r \in Nodes \ {t}
  BY <1>1 DEF Minus, Wired
<1> HIDE DEF rest
<1>4. Apart(h, g, t, rest)
  <2>1. \A n \in Nodes \ {t} :
           /\ Children(g, n) = Children(h, n)
           /\ g[n].type = h[n].type /\ g[n].childnodes = h[n].childnodes
           /\ g[n].first = h[n].first /\ g[n].last = h[n].last
    BY <1>2
  <2>2. g[t].type = h[t].type /\ g[t].first = h[t].first
    BY <1>1, <1>2
  <2>3. \A n \in Nodes : h[n].next # NULL => g[n].next = h[n].next
    BY <1>2
  <2>4. \A r \in rest : g[r].next = h[r].next /\ Siblings(g, r) = Siblings(h, r)
    BY <1>2, <1>3
  <2> QED
    BY <2>1, <2>2, <2>3, <2>4 DEF Apart
<1>5. Kept(g, t)
  <2>1. /\ Children(g, t) = Children(h, t) /\ g[t].type = h[t].type /\ g[t].childnodes = h[t].childnodes
        /\ g[t].first = h[t].first /\ g[t].last = h[t].last
    BY <1>1, <1>2
  <2>2. CountedIn(h, t) => CountedIn(g, t)
    BY <2>1 DEF CountedIn
  <2>3. Loose(h, t) => Loose(g, t)
    BY <2>1 DEF Loose
  <2>4. Piped(h, t) => Piped(g, t)
    <3>1. h[t].first # NULL => g[h[t].first].type = h[h[t].first].type
      BY <1>1, <1>2 DEF Heaps, Records
    <3> QED
      BY <2>1, <3>1 DEF Piped
  <2> QED
    BY <1>1, <2>2, <2>3, <2>4 DEF Kept
<1>6. Shaped(g, t)
  <2>1. g[t].type = h[t].type /\ g[t].first = h[t].first
    BY <1>1, <1>2
  <2>2. CASE h[t].type = "pipe"
    <3> DEFINE call == h[t].first
               name == h[call].first
               before == h[name].next
    <3>1. /\ call # NULL /\ h[call].type = "call" /\ name # NULL /\ before # NULL
          /\ h[before].type \in {"call", "pipe"}
      BY <1>1, <2>2 DEF Shaped
    <3>2. call \in Nodes /\ name \in Nodes /\ before \in Nodes
      BY <1>1, <3>1 DEF Heaps, Records
    <3>3. name # t
      BY <1>1, <3>2 DEF Wired
    <3> HIDE DEF call, name, before
    <3>4. g[call].type = "call" /\ g[call].first = h[call].first /\ g[name].next = h[name].next
          /\ g[before].type \in {"call", "pipe"}
      BY <1>2, <3>1, <3>2, <3>3
    <3> QED
      BY <2>1, <2>2, <3>1, <3>4 DEF Shaped, call, name, before
  <2>3. CASE h[t].type # "pipe"
    BY <1>1, <2>1, <2>3 DEF Shaped
  <2> QED
    BY <2>2, <2>3
<1>7. Whole(g, Minus(roots, x))
  BY <1>1, <1>2, <1>4, <1>5, <1>6, StaysWhole
<1>8. \A r \in rest : Steady(h, g, r)
  BY <1>1, <1>3, <1>4, ApartSteady
<1> QED
  BY <1>7, <1>8 DEF rest

LEMMA MoreArgumentsStep ==
    ASSUME TreeInv, MoreArguments
    PROVE  TreeInv'
<1> DEFINE a == S(2, 1)
           b == S(2, 2)
           va == Nth(stack, 2, 1)
           vb == Nth(stack, 2, 2)
           v == Value("args", a, << >>)
           g == tree_make_next(heap, a, b)
<1>1. Sound(heap, stack) /\ On(<<Expression, {"args"}>>) /\ Reduce(2, "args", a, g)
  BY DEF TreeInv, MoreArguments
<1>2. /\ 2 \in 0 .. Len(stack)
      /\ va \in Values /\ va.node = a /\ va.nt \in Expression /\ Fits(heap, va)
      /\ vb \in Values /\ vb.node = b /\ vb.nt \in {"args"} /\ Fits(heap, vb)
      /\ a = NULL \/ a \in Below(stack, 0)
      /\ b = NULL \/ b \in Below(stack, 0)
      /\ a = b => a = NULL
      /\ Below(stack, 2) = Minus(Minus(Below(stack, 0), a), b)
  BY <1>1, TopTwo
<1>3. heap' = g /\ Replace(2, v) /\ UNCHANGED status
  BY <1>1 DEF Reduce
<1> HIDE DEF a, b, va, vb
<1>4. a # NULL /\ heap[a].next = NULL /\ b # NULL /\ a \in Nodes /\ Whole(heap, Below(stack, 0))
  BY <1>1, <1>2, HasTree DEF Sound, Whole, Wired
<1>5. v \in Values /\ v.node = a /\ v.nt = "args"
  BY <1>4, PlainValue DEF Nonterminals
<1> HIDE DEF v
<1>6. Fits(g, v)
  BY <1>4, <1>5 DEF Fits
<1>7. a \notin Below(stack, 2) /\ Plus(Below(stack, 2), a) = Minus(Below(stack, 0), b)
  BY <1>2, <1>4 DEF Minus, Plus
<1>8. /\ Whole(g, Minus(Below(stack, 0), b))
      /\ \A r \in Minus(Minus(Below(stack, 0), a), b) : Steady(heap, g, r)
  BY <1>2, <1>4, NextWhole
<1> HIDE DEF g
<1>9. Whole(g, Plus(Below(stack, 2), a)) /\ \A r \in Below(stack, 2) : Steady(heap, g, r)
  BY <1>2, <1>7, <1>8
<1>10. Sound(g, Replaced(stack, 2, v))
  BY <1>1, <1>2, <1>4, <1>5, <1>6, <1>7, <1>9, ReducesToOne
<1> QED
  BY <1>2, <1>3, <1>5, <1>10, Reduced

\* What a call is as a value: its first child is its name.
LEMMA CallFits ==
    ASSUME NEW g, NEW n \in Nodes, g[n].type = "call", g[n].next = NULL, g[n].first # NULL,
           NEW v, v.node = n, v.nt \in {"call", "linked"},
           v.nt = "call" => g[g[n].first].type # "piped",
           v.nt = "linked" => g[g[n].first].type = "piped"
    PROVE  Fits(g, v) /\ Shaped(g, n)
BY NullIsNone DEF Fits, Piped, Shaped

LEMMA CallOfOne ==
    ASSUME NEW h, NEW s, Sound(h, s), NEW k \in 0 .. Len(s),
           NEW n \in Nodes, h[n].type = "free",
           NEW a \in Below(s, 0), h[a].next = NULL,
           Below(s, k) = Minus(Below(s, 0), a),
           NEW v \in Values, v.node = n, v.nt \in {"call", "linked"},
           v.nt = "call" => h[a].type # "piped",
           v.nt = "linked" => h[a].type = "piped",
           NEW g, g = createASTUnaryNode(h, n, "call", a)
    PROVE  Sound(g, Replaced(s, k, v))
<1> DEFINE roots == Below(s, 0)
           ks == Siblings(h, a)
<1>1. h \in Heaps /\ Wired(h, roots) /\ roots \subseteq Nodes
  BY DEF Sound, Whole, Wired
<1>2. Below(s, k) = Minus(roots, a) /\ a \in roots
  OBVIOUS
<1> HIDE DEF roots
<1>3. "call" \in Types
  BY DEF Types
<1>4. /\ g \in Heaps
      /\ Wired(g, Plus(Minus(roots, a), n))
      /\ Apart(h, g, n, Minus(roots, a))
      /\ MadeOf(g, n, "call", a, a, 1, ks)
  BY <1>1, <1>2, <1>3, MadeUnary
<1>5. ks = <<a>>
  BY <1>1, <1>2, Alone
<1> HIDE DEF ks
<1>6. ks # << >> /\ Len(ks) = 1 /\ ks[Len(ks)] = a
  BY <1>5
<1>7. Kept(g, n)
  BY <1>4, <1>6, CountedSoFar DEF Kept
<1>8. Wired(g, Plus(Below(s, k), n)) /\ Apart(h, g, n, Below(s, k))
  BY <1>2, <1>4, Zenon
<1>9. g[n].type = "call" /\ g[n].next = NULL /\ g[n].first = a /\ a # NULL
  BY <1>1, <1>2, <1>4, NullIsNone DEF MadeOf
<1>10. g[a].type = h[a].type
  <2>1. a \in Nodes \ {n}
    BY <1>1, <1>2 DEF Wired
  <2> QED
    BY <1>8, <2>1 DEF Apart
<1>11. Fits(g, v) /\ Shaped(g, n)
  BY <1>9, <1>10, CallFits
<1> QED
  BY <1>4, <1>7, <1>8, <1>11, Grows

\* The arguments are a list of their own: the call has as many children as they
\* are, and one more.
LEMMA CallOfTwo ==
    ASSUME NEW h \in Heaps, NEW roots, Wired(h, roots),
           NEW n \in Nodes, h[n].type = "free",
           NEW a \in roots, h[a].next = NULL, NEW b \in roots, a # b,
           NEW g, g = createASTBinaryNode(h, n, "call", a, b),
           NEW rest, rest = Minus(Minus(roots, a), b)
    PROVE  /\ g \in Heaps
           /\ Wired(g, Plus(rest, n)) /\ Apart(h, g, n, rest)
           /\ g[n].type = "call" /\ g[n].next = NULL /\ g[n].first = a /\ a # NULL
           /\ g[n].childnodes = 2
           /\ Len(Children(g, n)) \in Nat /\ Len(Children(g, n)) >= 2
           /\ g[a].type = h[a].type
<1> DEFINE u == Siblings(h, b)
           ks == <<a>> \o u
<1>1. roots \subseteq Nodes /\ "call" \in Types
  BY DEF Wired, Types
<1>2. /\ g \in Heaps
      /\ Wired(g, Plus(Minus(Minus(roots, a), b), n))
      /\ Apart(h, g, n, Minus(Minus(roots, a), b))
      /\ MadeOf(g, n, "call", a, b, 2, ks)
  BY <1>1, MadeBinary
<1>3. u \in Seq(Nodes) /\ u # << >>
  BY RootsStartLists, NullIsNone DEF Lists
<1> HIDE DEF u
<1>4. Len(ks) \in Nat /\ Len(ks) >= 2
  <2> DEFINE first == <<a>>
  <2>1. first \in Seq(Nodes) /\ Len(first) = 1
    BY <1>1
  <2> HIDE DEF first
  <2>2. Len(first \o u) = Len(first) + Len(u)
    BY <1>3, <2>1, Joined
  <2>3. Len(u) \in Nat /\ Len(u) >= 1
    BY <1>3
  <2>4. ks = first \o u
    BY DEF first
  <2> HIDE DEF ks
  <2> QED
    BY <2>1, <2>2, <2>3, <2>4
<1> HIDE DEF ks
<1>5. /\ g[n].type = "call" /\ g[n].next = NULL /\ g[n].first = a /\ a # NULL
      /\ g[n].childnodes = 2 /\ Children(g, n) = ks
  BY <1>1, <1>2, NullIsNone DEF MadeOf
<1>6. g[a].type = h[a].type
  <2>1. a \in Nodes \ {n}
    BY DEF Wired
  <2> QED
    BY <1>2, <2>1 DEF Apart
<1>7. Wired(g, Plus(rest, n)) /\ Apart(h, g, n, rest)
  BY <1>2, Zenon
<1> QED
  BY <1>2, <1>4, <1>5, <1>6, <1>7

LEMMA CountedCallOfTwo ==
    ASSUME NEW h, NEW s, Sound(h, s), NEW k \in 0 .. Len(s),
           NEW n \in Nodes, h[n].type = "free",
           NEW a \in Below(s, 0), h[a].next = NULL, h[a].type # "piped",
           NEW b \in Below(s, 0), a # b,
           Below(s, k) = Minus(Minus(Below(s, 0), a), b),
           NEW v \in Values, v.node = n, v.nt = "call",
           NEW m, m = createASTBinaryNode(h, n, "call", a, b),
           NEW g, g = update_childs(m, n)
    PROVE  Sound(g, Replaced(s, k, v))
<1> DEFINE rest == Below(s, k)
<1>1. h \in Heaps /\ Wired(h, Below(s, 0)) /\ rest = Minus(Minus(Below(s, 0), a), b)
  BY DEF Sound, Whole
<1> HIDE DEF rest
<1>2. /\ m \in Heaps
      /\ Wired(m, Plus(rest, n)) /\ Apart(h, m, n, rest)
      /\ m[n].type = "call" /\ m[n].next = NULL /\ m[n].first = a /\ a # NULL
      /\ Len(Children(m, n)) \in Nat /\ Len(Children(m, n)) >= 2
      /\ m[a].type = h[a].type
  BY <1>1, CallOfTwo
<1>3. Children(m, n) # << >>
  BY <1>2, ChildrenFacts
<1> DEFINE those == Plus(rest, n)
<1>4. Wired(m, those) /\ \A r \in rest : r \in those
  BY <1>2 DEF Plus
<1> HIDE DEF those
<1>5. /\ g \in Heaps /\ Wired(g, those)
      /\ \A i \in Nodes : Children(g, i) = Children(m, i)
      /\ \A r \in those : Siblings(g, r) = Siblings(m, r)
      /\ CountedIn(g, n)
      /\ \A i \in Nodes \ {n} : g[i].childnodes = m[i].childnodes /\ g[i].last = m[i].last
      /\ \A i \in Nodes : g[i].type = m[i].type /\ g[i].first = m[i].first /\ g[i].next = m[i].next
  BY <1>2, <1>3, <1>4, ChildsUpdated
<1>6. rest \subseteq Nodes
  BY <1>1 DEF Wired, Minus
<1>7. Apart(m, g, n, rest)
  BY <1>4, <1>5, <1>6 DEF Apart
<1>8. Apart(h, g, n, rest)
  BY <1>2, <1>7, ApartTwice
<1>9. /\ g[n].type = "call" /\ g[n].next = NULL /\ g[n].first = a
      /\ g[a].type # "piped"
  <2>1. a \in Nodes
    BY <1>1 DEF Wired
  <2> QED
    BY <1>2, <1>5, <2>1
<1>10. Fits(g, v) /\ Shaped(g, n)
  BY <1>2, <1>9, CallFits
<1>11. Kept(g, n) /\ Wired(g, Plus(Below(s, k), n)) /\ Apart(h, g, n, Below(s, k))
  BY <1>5, <1>8 DEF Kept, rest, those
<1> QED
  BY <1>5, <1>10, <1>11, Grows

LEMMA LooseCallOfTwo ==
    ASSUME NEW h, NEW s, Sound(h, s), NEW k \in 0 .. Len(s),
           NEW n \in Nodes, h[n].type = "free",
           NEW a \in Below(s, 0), h[a].next = NULL, h[a].type = "piped",
           NEW b \in Below(s, 0), a # b,
           Below(s, k) = Minus(Minus(Below(s, 0), a), b),
           NEW v \in Values, v.node = n, v.nt = "linked",
           NEW g, g = createASTBinaryNode(h, n, "call", a, b)
    PROVE  Sound(g, Replaced(s, k, v))
<1> DEFINE rest == Below(s, k)
<1>1. h \in Heaps /\ Wired(h, Below(s, 0)) /\ rest = Minus(Minus(Below(s, 0), a), b)
  BY DEF Sound, Whole
<1> HIDE DEF rest
<1>2. /\ g \in Heaps
      /\ Wired(g, Plus(rest, n)) /\ Apart(h, g, n, rest)
      /\ g[n].type = "call" /\ g[n].next = NULL /\ g[n].first = a /\ a # NULL
      /\ g[n].childnodes = 2
      /\ Len(Children(g, n)) \in Nat /\ Len(Children(g, n)) >= 2
      /\ g[a].type = h[a].type
  BY <1>1, CallOfTwo
<1>3. Piped(g, n)
  BY <1>2 DEF Piped
<1>4. Loose(g, n)
  <2> DEFINE c == Len(Children(g, n))
  <2>1. c \in Nat /\ c >= 2 /\ g[n].childnodes = 2
    BY <1>2
  <2> HIDE DEF c
  <2>2. 2 \in 1 .. c /\ c # 1
    BY <2>1
  <2> QED
    BY <2>1, <2>2 DEF Loose, c
<1>5. Fits(g, v) /\ Shaped(g, n)
  BY <1>2, CallFits
<1>6. Kept(g, n) /\ Wired(g, Plus(Below(s, k), n)) /\ Apart(h, g, n, Below(s, k))
  BY <1>2, <1>3, <1>4 DEF Kept, rest
<1> QED
  BY <1>2, <1>5, <1>6, Grows

\* The value of a call or of a function of a chain.
LEMMA NamedValue ==
    ASSUME NEW nt \in Nonterminals, NEW n \in Nodes, NEW a \in Nodes
    PROVE  /\ Value(nt, n, <<a>>) \in Values
           /\ Value(nt, n, <<a>>).nt = nt /\ Value(nt, n, <<a>>).node = n
BY DEF Value, Values

LEMMA ReducedToNamed ==
    ASSUME TreeInv, NEW k \in 0 .. Len(stack), k # 0, NEW v \in Values, NEW g,
           heap' = g /\ Replace(k, v) /\ UNCHANGED status, Sound(g, Replaced(stack, k, v))
    PROVE  TreeInv'
BY Reduced

LEMMA OneNameStep ==
    ASSUME TreeInv, CallWithoutArguments \/ PipedFunction
    PROVE  TreeInv'
<1> DEFINE a == S(1, 1)
           va == Nth(stack, 1, 1)
           new == New
           g == createASTUnaryNode(heap, new, "call", a)
<1>1. PICK name \in {"name", "piped"}, nt \in {"call", "linked"} :
         /\ name = "name" <=> nt = "call"
         /\ On(<<{name}>>) /\ CanGrow(1)
         /\ Named(1, nt, g, <<a>>)
  BY DEF CallWithoutArguments, PipedFunction
<1>2. new \in Nodes /\ heap[new].type = "free"
  BY <1>1, CanGrowFree
<1>3. Sound(heap, stack)
  BY DEF TreeInv
<1>4. /\ 1 \in 0 .. Len(stack)
      /\ va \in Values /\ va.node = a /\ va.nt \in {name} /\ Fits(heap, va)
      /\ a = NULL \/ a \in Below(stack, 0)
      /\ Below(stack, 1) = Minus(Below(stack, 0), a)
  BY <1>1, <1>3, TopOne
<1> DEFINE v == Value(nt, new, <<a>>)
<1>5. heap' = g /\ Replace(1, v) /\ UNCHANGED status
  BY <1>1 DEF Named
<1> HIDE DEF a, va, new
<1>6. /\ a # NULL /\ heap[a].next = NULL /\ a \in Nodes
      /\ name = "name" => heap[a].type = "node"
      /\ name = "piped" => heap[a].type = "piped"
  BY <1>3, <1>4 DEF Fits, Sound, Whole, Wired
<1>7. v \in Values /\ v.nt = nt /\ v.node = new
  BY <1>2, <1>6, NamedValue DEF Nonterminals, Expression, Linked
<1> HIDE DEF v
<1>8. Sound(g, Replaced(stack, 1, v))
  BY <1>1, <1>2, <1>3, <1>4, <1>6, <1>7, CallOfOne
<1> HIDE DEF g
<1> QED
  BY <1>4, <1>5, <1>7, <1>8, ReducedToNamed

LEMMA TwoNamesStep ==
    ASSUME TreeInv, Call \/ PipedFunctionWithArguments
    PROVE  TreeInv'
<1> DEFINE a == S(2, 1)
           b == S(2, 2)
           va == Nth(stack, 2, 1)
           vb == Nth(stack, 2, 2)
           new == New
           m == createASTBinaryNode(heap, new, "call", a, b)
           u == update_childs(m, new)
<1>1. PICK name \in {"name", "piped"}, nt \in {"call", "linked"} :
         /\ name = "name" <=> nt = "call"
         /\ On(<<{name}, {"args"}>>) /\ CanGrow(1)
         /\ IF nt = "call" THEN Named(2, nt, u, <<a>>) ELSE Named(2, nt, m, <<a>>)
  BY DEF Call, PipedFunctionWithArguments
<1>2. new \in Nodes /\ heap[new].type = "free"
  BY <1>1, CanGrowFree
<1>3. Sound(heap, stack)
  BY DEF TreeInv
<1>4. /\ 2 \in 0 .. Len(stack)
      /\ va \in Values /\ va.node = a /\ va.nt \in {name} /\ Fits(heap, va)
      /\ vb \in Values /\ vb.node = b /\ vb.nt \in {"args"} /\ Fits(heap, vb)
      /\ a = NULL \/ a \in Below(stack, 0)
      /\ b = NULL \/ b \in Below(stack, 0)
      /\ a = b => a = NULL
      /\ Below(stack, 2) = Minus(Minus(Below(stack, 0), a), b)
  BY <1>1, <1>3, TopTwo
<1> DEFINE v == Value(nt, new, <<a>>)
<1>5. /\ nt = "call" => heap' = u /\ Replace(2, v) /\ UNCHANGED status
      /\ nt # "call" => heap' = m /\ Replace(2, v) /\ UNCHANGED status
  BY <1>1 DEF Named
<1> HIDE DEF a, b, va, vb, new
<1>6. /\ a # NULL /\ heap[a].next = NULL /\ a \in Nodes
      /\ name = "name" => heap[a].type = "node"
      /\ name = "piped" => heap[a].type = "piped"
      /\ b # NULL
  BY <1>3, <1>4 DEF Fits, Sound, Whole, Wired
<1>7. v \in Values /\ v.nt = nt /\ v.node = new
  BY <1>2, <1>6, NamedValue DEF Nonterminals, Expression, Linked
<1> HIDE DEF v
<1>8. CASE nt = "call"
  <2>1. heap[a].type # "piped" /\ a \in Below(stack, 0) /\ b \in Below(stack, 0) /\ a # b
    BY <1>1, <1>4, <1>6, <1>8
  <2>2. Sound(u, Replaced(stack, 2, v))
    BY <1>2, <1>3, <1>4, <1>6, <1>7, <1>8, <2>1, CountedCallOfTwo
  <2> HIDE DEF u, m
  <2> QED
    BY <1>4, <1>5, <1>7, <1>8, <2>2, ReducedToNamed
<1>9. CASE nt = "linked"
  <2>1. heap[a].type = "piped" /\ a \in Below(stack, 0) /\ b \in Below(stack, 0) /\ a # b
    BY <1>1, <1>4, <1>6, <1>9
  <2>2. Sound(m, Replaced(stack, 2, v))
    BY <1>2, <1>3, <1>4, <1>6, <1>7, <1>9, <2>1, LooseCallOfTwo
  <2> HIDE DEF u, m
  <2>3. nt # "call"
    BY <1>9
  <2> QED
    BY <1>4, <1>5, <1>7, <2>2, <2>3, ReducedToNamed
<1> QED
  BY <1>8, <1>9

----------------------------------------------------------------------------
(* Pipes *)

LEMMA SteadyTwice ==
    ASSUME NEW h, NEW m, NEW g, NEW r, Steady(h, m, r), Steady(m, g, r)
    PROVE  Steady(h, g, r)
BY DEF Steady

\* A function of a chain or a chain is a call or a pipe.
LEMMA LinkedTree ==
    ASSUME NEW h, NEW v \in Values, Fits(h, v), v.nt \in Linked
    PROVE  v.node # NULL /\ h[v.node].next = NULL /\ h[v.node].type \in {"call", "pipe"}
BY DEF Fits, Linked, Piped

\* One more function: what was chained becomes its argument, below a new pipe.
LEMMA Chained ==
    ASSUME NEW h, NEW s, Sound(h, s), NEW k \in 0 .. Len(s),
           NEW n \in Nodes, h[n].type = "free",
           NEW p \in Below(s, 0), h[p].next = NULL, h[p].type \in {"call", "pipe"},
           NEW c \in Below(s, 0), h[c].next = NULL, Piped(h, c), c # p,
           Below(s, k) = Minus(Minus(Below(s, 0), p), c),
           NEW m, m = tree_insert_node_as_second_child(h, c, p),
           NEW g, g = createASTUnaryNode(m, n, "pipe", c),
           NEW v \in Values, v.node = n, v.nt = "chain"
    PROVE  Sound(g, Replaced(s, k, v))
<1> DEFINE roots == Below(s, 0)
           those == Minus(roots, p)
           rest == Minus(those, c)
<1>1. /\ h \in Heaps /\ Wired(h, roots) /\ roots \subseteq Nodes
      /\ \A i \in Nodes : Kept(h, i) /\ Shaped(h, i)
  BY DEF Sound, Whole, Wired
<1>2. /\ p \in roots /\ c \in roots /\ rest = Below(s, k)
  OBVIOUS
<1>3. c \in those /\ rest \subseteq those /\ rest \subseteq roots /\ p \notin rest /\ c \notin rest
  BY <1>2 DEF Minus
<1> HIDE DEF rest, roots
<1>4. h[c].type = "call" /\ h[c].first # NULL /\ p \in Nodes /\ c \in Nodes
  BY <1>1, <1>2 DEF Piped
<1> DEFINE name == h[c].first
<1>5. name \in Nodes /\ name \notin roots /\ h[name].type # "free"
  BY <1>1, <1>4 DEF Heaps, Records, Wired
<1> HIDE DEF name
<1>6. /\ Whole(m, Minus(roots, p))
      /\ \A i \in Nodes : m[i].type = h[i].type /\ m[i].first = h[i].first
      /\ m[h[c].first].next = p
      /\ \A i \in Nodes \ {h[c].first, p} : m[i].next = h[i].next
  <2>1. \A i \in Nodes : Shaped(h, i) \/ (h[i].type = "pipe" /\ h[i].first = c)
    BY <1>1
  <2>2. \A i \in Nodes : Kept(h, i)
    BY <1>1
  <2>3. Whole(m, Minus(roots, p))
    BY <1>1, <1>2, <1>4, <2>1, <2>2, SecondWhole
  <2>4. Children(m, c) = <<h[c].first, p>> \o Tail(Children(h, c))
    BY <1>1, <1>2, <1>4, <2>1, <2>2, SecondWhole
  <2>5. \A i \in Nodes : m[i].type = h[i].type /\ m[i].first = h[i].first
    BY <1>1, <1>2, <1>4, <2>1, <2>2, <2>4, SecondWhole
  <2>6. \A i \in Nodes \ {h[c].first, p} : m[i].next = h[i].next
    BY <1>1, <1>2, <1>4, <2>1, <2>2, <2>4, SecondWhole
  <2>7. m[h[c].first].next = p
    BY <1>1, <1>2, <1>4, <2>1, <2>2, <2>4, SecondWhole
  <2> QED
    BY <2>3, <2>5, <2>6, <2>7
<1>7. /\ Whole(m, those) /\ m \in Heaps /\ Wired(m, those)
      /\ m[name].next = p /\ m[n].type = "free"
      /\ \A i \in Nodes \ {name, p} : m[i].next = h[i].next
  BY <1>6 DEF those, name, Whole
<1> HIDE DEF those
<1>8. m[c].next = NULL /\ m[c].type = "call" /\ m[c].first = name
  <2>1. c \in Nodes \ {name, p}
    BY <1>2, <1>4, <1>5
  <2> QED
    BY <1>4, <1>6, <1>7, <2>1 DEF name
<1>9. "pipe" \in Types
  BY DEF Types
<1>10. /\ g \in Heaps
       /\ Wired(g, Plus(Minus(those, c), n))
       /\ Apart(m, g, n, Minus(those, c))
       /\ MadeOf(g, n, "pipe", c, c, 1, Siblings(m, c))
  BY <1>3, <1>7, <1>9, MadeUnary
<1>11. CountedIn(g, n)
  <2> DEFINE ks == Siblings(m, c)
  <2>1. ks = <<c>>
    BY <1>3, <1>7, <1>8, Alone
  <2>2. MadeOf(g, n, "pipe", c, c, 1, ks)
    BY <1>10
  <2> HIDE DEF ks
  <2>3. ks # << >> /\ Len(ks) = 1 /\ ks[Len(ks)] = c
    BY <2>1
  <2> QED
    BY <2>2, <2>3, CountedSoFar
<1>12. /\ g[n].type = "pipe" /\ g[n].first = c /\ g[n].next = NULL
  BY <1>10 DEF MadeOf
<1>13. /\ g[c].type = "call" /\ g[c].first = name /\ g[name].next = p
       /\ g[p].type \in {"call", "pipe"}
  <2>1. c # n /\ p # n /\ name # n
    BY <1>4, <1>5
  <2>2. \A i \in Nodes \ {n} : g[i].type = m[i].type /\ g[i].first = m[i].first
    BY <1>10 DEF Apart
  <2>3. m[name].next # NULL => g[name].next = m[name].next
    BY <1>5, <1>10 DEF Apart
  <2>4. p # NULL
    BY <1>4, NullIsNone
  <2> QED
    BY <1>4, <1>6, <1>7, <1>8, <2>1, <2>2, <2>3, <2>4
<1>14. Shaped(g, n)
  <2>1. c # NULL /\ name # NULL /\ p # NULL
    BY <1>4, <1>5, NullIsNone
  <2> QED
    BY <1>12, <1>13, <2>1 DEF Shaped
<1>15. Kept(g, n)
  BY <1>11 DEF Kept
<1>16. Wired(g, Plus(rest, n)) /\ Apart(m, g, n, rest)
  BY <1>10, Zenon DEF rest
<1>17. Whole(g, Plus(rest, n))
  BY <1>7, <1>10, <1>14, <1>15, <1>16, StaysWhole
<1>18. n \notin rest
  BY <1>1, <1>3 DEF Wired
<1>19. ASSUME NEW r \in rest
       PROVE  Steady(h, g, r)
  <2>1. r \in Nodes \ {name, p} /\ r \in Nodes
    BY <1>1, <1>3, <1>5
  <2>2. m[r].type = h[r].type /\ m[r].first = h[r].first /\ m[r].next = h[r].next
    BY <1>6, <1>7, <2>1
  <2>3. h[r].first # NULL => m[h[r].first].type = h[h[r].first].type
    BY <1>1, <1>6, <2>1 DEF Heaps, Records
  <2>4. Steady(h, m, r)
    BY <2>2, <2>3 DEF Steady
  <2>5. Steady(m, g, r)
    BY <1>3, <1>7, <1>16, <1>18, ApartSteady
  <2> QED
    BY <2>4, <2>5, SteadyTwice
<1>20. Fits(g, v)
  BY <1>12, NullIsNone DEF Fits
<1>21. n \notin Below(s, k) /\ Whole(g, Plus(Below(s, k), n)) /\ \A r \in Below(s, k) : Steady(h, g, r)
  BY <1>2, <1>17, <1>18, <1>19
<1> QED
  BY <1>20, <1>21, ReducesToOne

LEMMA ChainStep ==
    ASSUME TreeInv, Chain
    PROVE  TreeInv'
<1> DEFINE p == S(2, 1)
           c == S(2, 2)
           vp == Nth(stack, 2, 1)
           vc == Nth(stack, 2, 2)
           new == New
           m == tree_insert_node_as_second_child(heap, c, p)
           g == createASTUnaryNode(m, new, "pipe", c)
           names == vp.names \o vc.names
           v == Value("chain", new, names)
<1>1. Sound(heap, stack) /\ On(<<Linked, {"linked"}>>) /\ CanGrow(1)
  BY DEF TreeInv, Chain
<1>2. heap' = g /\ Replace(2, v) /\ UNCHANGED status
  BY DEF Chain, Named, NamesOf, Nth
<1>3. new \in Nodes /\ heap[new].type = "free"
  BY <1>1, CanGrowFree
<1>4. /\ 2 \in 0 .. Len(stack)
      /\ vp \in Values /\ vp.node = p /\ vp.nt \in Linked /\ Fits(heap, vp)
      /\ vc \in Values /\ vc.node = c /\ vc.nt \in {"linked"} /\ Fits(heap, vc)
      /\ p = NULL \/ p \in Below(stack, 0)
      /\ c = NULL \/ c \in Below(stack, 0)
      /\ p = c => p = NULL
      /\ Below(stack, 2) = Minus(Minus(Below(stack, 0), p), c)
  BY <1>1, TopTwo
<1> HIDE DEF p, c, vp, vc, new
<1>5. p # NULL /\ heap[p].next = NULL /\ heap[p].type \in {"call", "pipe"}
  BY <1>4, LinkedTree
<1>6. c # NULL /\ heap[c].next = NULL /\ Piped(heap, c)
  BY <1>4 DEF Fits
<1>7. v \in Values /\ v.node = new /\ v.nt = "chain"
  <2>1. vp.names \in Seq(Nodes) /\ vc.names \in Seq(Nodes)
    BY <1>4 DEF Values
  <2>2. names \in Seq(Nodes)
    BY <2>1, Joined
  <2> HIDE DEF names
  <2> QED
    BY <1>3, <2>2 DEF Value, Values, Nonterminals, Linked
<1> HIDE DEF v
<1>8. Sound(g, Replaced(stack, 2, v))
  BY <1>1, <1>3, <1>4, <1>5, <1>6, <1>7, Chained
<1> HIDE DEF g
<1> QED
  BY <1>2, <1>4, <1>7, <1>8, ReducedToNamed

\* The call that starts a pipe goes below its chain.
LEMMA PipeFinished ==
    ASSUME NEW h, NEW s, Sound(h, s), NEW k \in 0 .. Len(s),
           NEW n \in Nodes, h[n].type = "free",
           NEW f \in Below(s, 0), h[f].next = NULL, h[f].type = "call",
           NEW p \in Below(s, 0), h[p].next = NULL, h[p].type \in {"call", "pipe"}, f # p,
           Below(s, k) = Minus(Minus(Below(s, 0), f), p),
           NEW g, g = tree_finish_pipe(h, f, p, n),
           NEW v \in Values, v.node = p, v.nt = "pipe"
    PROVE  Sound(g, Replaced(s, k, v))
<1> DEFINE roots == Below(s, 0)
<1>1. Whole(h, roots) /\ f \in roots /\ p \in roots /\ roots \subseteq Nodes
  BY DEF Sound, Whole, Wired
<1>2. Below(s, k) = Minus(Minus(roots, f), p)
  OBVIOUS
<1> HIDE DEF roots
<1>3. h[f].type \in {"call", "pipe"}
  OBVIOUS
<1>4. PipeMade(h, g, roots, p, f, n, SecondFunction(h, p))
  BY <1>1, <1>3, Finished
<1>5. /\ Whole(g, Minus(roots, f))
      /\ g[p].type = "pipe" /\ g[p].next = h[p].next
  BY <1>4 DEF PipeMade
<1>6. \A r \in roots \ {f, p} :
         /\ g[r].type = h[r].type /\ g[r].next = h[r].next /\ g[r].first = h[r].first
         /\ h[r].first # NULL => g[h[r].first].type = h[h[r].first].type
  BY <1>4 DEF PipeMade
<1>7. \A r \in Below(s, k) : Steady(h, g, r)
  BY <1>2, <1>6 DEF Minus, Steady
<1>8. p \notin Below(s, k) /\ Plus(Below(s, k), p) = Minus(roots, f)
  BY <1>1, <1>2 DEF Minus, Plus
<1>9. Whole(g, Plus(Below(s, k), p))
  BY <1>5, <1>8
<1>10. Fits(g, v)
  BY <1>1, <1>5, NullIsNone DEF Fits
<1> QED
  BY <1>1, <1>7, <1>8, <1>9, <1>10, ReducesToOne

LEMMA PipeStep ==
    ASSUME TreeInv, Pipe
    PROVE  TreeInv'
<1> DEFINE f == S(2, 1)
           p == S(2, 2)
           vf == Nth(stack, 2, 1)
           vp == Nth(stack, 2, 2)
           new == New
           g == tree_finish_pipe(heap, f, p, new)
           names == vf.names \o vp.names
           v == Value("pipe", p, names)
<1>1. Sound(heap, stack) /\ On(<<{"call"}, Linked>>) /\ CanGrow(1)
  BY DEF TreeInv, Pipe
<1>2. heap' = g /\ Replace(2, v) /\ UNCHANGED status
  BY DEF Pipe, NamesOf, Nth
<1>3. new \in Nodes /\ heap[new].type = "free"
  BY <1>1, CanGrowFree
<1>4. /\ 2 \in 0 .. Len(stack)
      /\ vf \in Values /\ vf.node = f /\ vf.nt \in {"call"} /\ Fits(heap, vf)
      /\ vp \in Values /\ vp.node = p /\ vp.nt \in Linked /\ Fits(heap, vp)
      /\ f = NULL \/ f \in Below(stack, 0)
      /\ p = NULL \/ p \in Below(stack, 0)
      /\ f = p => f = NULL
      /\ Below(stack, 2) = Minus(Minus(Below(stack, 0), f), p)
  BY <1>1, TopTwo
<1> HIDE DEF f, p, vf, vp, new
<1>5. p # NULL /\ heap[p].next = NULL /\ heap[p].type \in {"call", "pipe"}
  BY <1>4, LinkedTree
<1>6. f # NULL /\ heap[f].next = NULL /\ heap[f].type = "call"
  BY <1>4 DEF Fits
<1>7. v \in Values /\ v.node = p /\ v.nt = "pipe"
  <2>1. vf.names \in Seq(Nodes) /\ vp.names \in Seq(Nodes) /\ p \in Nodes
    BY <1>4, <1>5 DEF Values
  <2>2. names \in Seq(Nodes)
    BY <2>1, Joined
  <2> HIDE DEF names
  <2> QED
    BY <2>1, <2>2 DEF Value, Values, Nonterminals, Expression
<1> HIDE DEF v
<1>8. Sound(g, Replaced(stack, 2, v))
  BY <1>1, <1>3, <1>4, <1>5, <1>6, <1>7, PipeFinished
<1> HIDE DEF g
<1> QED
  BY <1>2, <1>4, <1>7, <1>8, ReducedToNamed

----------------------------------------------------------------------------
(* Commands *)

\* A root behind the children of another that is counted leaves the heap whole.
LEMMA InsertedWhole ==
    ASSUME NEW h, NEW roots, Whole(h, roots),
           NEW t \in roots, CountedIn(h, t), NEW x \in roots, x # t, h[x].next = NULL,
           NEW g, g = tree_insert_node(h, t, x)
    PROVE  /\ Whole(g, Minus(roots, x))
           /\ g[t].next = h[t].next /\ g[t].type = h[t].type
           /\ \A r \in Minus(Minus(roots, t), x) : Steady(h, g, r)
<1>1. /\ h \in Heaps /\ Wired(h, roots) /\ Shaped(h, t) /\ t \in Nodes /\ x \in Nodes
      /\ h[t].type # "free" /\ roots \subseteq Nodes
      /\ \A n \in Nodes : h[n].first # t
  BY DEF Whole, Wired
<1>2. Children(g, t) = Children(h, t) \o Siblings(h, x)
  BY <1>1, Inserted
<1>3. /\ g \in Heaps /\ Wired(g, Minus(roots, x))
      /\ g[t].childnodes = h[t].childnodes + 1 /\ g[t].last = x
      /\ h[t].first # NULL => g[t].first = h[t].first
  BY <1>1, <1>2, Inserted
<1>4. \A m \in Nodes \ {t} : Children(g, m) = Children(h, m)
  BY <1>1, <1>2, Inserted
<1>5. \A r \in roots \ {x} : Siblings(g, r) = Siblings(h, r)
  BY <1>1, <1>2, Inserted
<1>6. \A n \in Nodes \ {t} : /\ g[n].childnodes = h[n].childnodes /\ g[n].first = h[n].first
                             /\ g[n].last = h[n].last
  BY <1>1, <1>2, Inserted
<1>7. \A n \in Nodes : g[n].type = h[n].type
  BY <1>1, <1>2, Inserted
<1>8. \A n \in Nodes : h[n].next # NULL => g[n].next = h[n].next
  BY <1>1, <1>2, Inserted
<1>9. \A r \in roots \ {x} : g[r].next = h[r].next
  BY <1>1, <1>2, Inserted
<1> DEFINE rest == Minus(Minus(roots, t), x)
<1>10. rest \subseteq roots /\ t \notin rest /\ \A r \in rest : r \in roots \ {x}
  BY DEF Minus
<1> HIDE DEF rest
<1>11. Apart(h, g, t, rest)
  <2>1. g[t].type = h[t].type
    BY <1>1, <1>7
  <2>2. \A n \in Nodes \ {t} :
           /\ Children(g, n) = Children(h, n)
           /\ g[n].type = h[n].type /\ g[n].childnodes = h[n].childnodes
           /\ g[n].first = h[n].first /\ g[n].last = h[n].last
    BY <1>4, <1>6, <1>7
  <2>3. \A r \in rest : g[r].next = h[r].next /\ Siblings(g, r) = Siblings(h, r)
    BY <1>5, <1>9, <1>10
  <2> QED
    BY <1>3, <1>8, <2>1, <2>2, <2>3 DEF Apart
<1>12. CountedIn(g, t)
  <2> DEFINE old == Children(h, t)
             u == Siblings(h, x)
             ks == old \o u
  <2>1. old \in Seq(Nodes)
    BY <1>1, ChildrenFacts
  <2>2. u = <<x>>
    BY <1>1, Alone
  <2>3. h[t].childnodes = Len(old) /\ Children(g, t) = old \o u
    BY <1>2 DEF CountedIn
  <2> HIDE DEF old, u
  <2>4. old \o <<x>> = Append(old, x)
    BY <1>1, <2>1, OneMore
  <2>5. Children(g, t) = Append(old, x)
    BY <2>2, <2>3, <2>4, Zenon
  <2> DEFINE w == Append(old, x)
  <2>6. w \in Seq(Nodes) /\ Len(w) = Len(old) + 1 /\ w[Len(old) + 1] = x
    BY <1>1, <2>1, Appended
  <2> HIDE DEF w
  <2>7. Len(old) \in Nat
    BY <2>1
  <2>8. w # << >> /\ w[Len(w)] = x
    BY <2>6, <2>7
  <2>9. Children(g, t) = w /\ g[t].childnodes = Len(w) /\ g[t].last = w[Len(w)]
    <3>1. Children(g, t) = w
      BY <2>5 DEF w
    <3> QED
      BY <1>3, <2>3, <2>6, <2>8, <3>1
  <2> QED
    BY <2>8, <2>9 DEF CountedIn, Last
<1>13. Shaped(g, t)
  <2>1. g[t].type = h[t].type
    BY <1>1, <1>7
  <2>2. CASE h[t].type = "pipe"
    <3> DEFINE call == h[t].first
               name == h[call].first
               before == h[name].next
    <3>1. /\ call # NULL /\ h[call].type = "call" /\ name # NULL /\ before # NULL
          /\ h[before].type \in {"call", "pipe"}
      BY <1>1, <2>2 DEF Shaped
    <3>2. call \in Nodes /\ name \in Nodes /\ before \in Nodes /\ g[t].first = call
      BY <1>1, <1>3, <3>1 DEF Heaps, Records
    <3>3. call # t
      BY <1>1
    <3> HIDE DEF call, before
    <3>4. g[call].type = "call" /\ g[call].first = name
      BY <1>6, <1>7, <3>1, <3>2, <3>3
    <3> HIDE DEF name
    <3>5. g[name].next = before /\ g[before].type \in {"call", "pipe"}
      BY <1>7, <1>8, <3>1, <3>2 DEF before
    <3> QED
      BY <2>1, <2>2, <3>1, <3>2, <3>4, <3>5 DEF Shaped
  <2>3. CASE h[t].type # "pipe"
    BY <1>1, <1>3, <2>1, <2>3 DEF Shaped
  <2> QED
    BY <2>2, <2>3
<1>14. Whole(g, Minus(roots, x))
  BY <1>1, <1>3, <1>11, <1>12, <1>13, StaysWhole DEF Kept
<1>15. \A r \in rest : Steady(h, g, r)
  BY <1>1, <1>10, <1>11, ApartSteady
<1> QED
  BY <1>1, <1>7, <1>9, <1>14, <1>15 DEF rest

\* The rest of a block, or the next command of a list, below a command.
LEMMA InsertedBelow ==
    ASSUME NEW h, NEW s, Sound(h, s), NEW k \in 0 .. Len(s),
           NEW a \in Below(s, 0), CountedIn(h, a), h[a].next = NULL,
           NEW b \in Below(s, 0), a # b, h[b].next = NULL,
           Below(s, k) = Minus(Minus(Below(s, 0), a), b),
           NEW nt \in {"body", "list"},
           NEW g, g = tree_insert_node(h, a, b)
    PROVE  Sound(g, Replaced(s, k, Value(nt, a, << >>)))
<1> DEFINE roots == Below(s, 0)
           v == Value(nt, a, << >>)
<1>1. Whole(h, roots) /\ a \in roots /\ b \in roots /\ a \in Nodes
  BY DEF Sound, Whole, Wired
<1>2. Below(s, k) = Minus(Minus(roots, a), b)
  OBVIOUS
<1> HIDE DEF roots
<1>3. /\ Whole(g, Minus(roots, b)) /\ g[a].next = NULL
      /\ \A r \in Minus(Minus(roots, a), b) : Steady(h, g, r)
  BY <1>1, InsertedWhole
<1>4. v \in Values /\ v.nt = nt /\ v.node = a
  BY <1>1, PlainValue DEF Nonterminals
<1> HIDE DEF v
<1>5. Fits(g, v)
  BY <1>1, <1>3, <1>4, NullIsNone DEF Fits
<1>6. a \notin Below(s, k) /\ Plus(Below(s, k), a) = Minus(roots, b)
  BY <1>1, <1>2 DEF Minus, Plus
<1>7. Whole(g, Plus(Below(s, k), a)) /\ \A r \in Below(s, k) : Steady(h, g, r)
  BY <1>2, <1>3, <1>6
<1>8. Sound(g, Replaced(s, k, v))
  BY <1>1, <1>4, <1>5, <1>6, <1>7, ReducesToOne
<1> QED
  BY <1>8 DEF v

\* A value of a block or a list is a tree of the stack, as it is.
LEMMA ReducesToSame ==
    ASSUME NEW h, NEW s, Sound(h, s), NEW k \in 0 .. Len(s),
           NEW a \in Below(s, 0), h[a].next = NULL,
           Below(s, k) = Minus(Below(s, 0), a),
           NEW nt \in {"body", "list"}
    PROVE  Sound(h, Replaced(s, k, Value(nt, a, << >>)))
<1> DEFINE v == Value(nt, a, << >>)
<1>1. Whole(h, Below(s, 0)) /\ a \in Nodes
  BY DEF Sound, Whole, Wired
<1>2. v \in Values /\ v.nt = nt /\ v.node = a
  BY <1>1, PlainValue DEF Nonterminals
<1> HIDE DEF v
<1>3. Fits(h, v)
  BY <1>1, <1>2, NullIsNone DEF Fits
<1>4. a \notin Below(s, k) /\ Plus(Below(s, k), a) = Below(s, 0)
  BY DEF Minus, Plus
<1>5. Whole(h, Plus(Below(s, k), a)) /\ \A r \in Below(s, k) : Steady(h, h, r)
  BY <1>1, <1>4 DEF Steady
<1>6. Sound(h, Replaced(s, k, v))
  BY <1>1, <1>2, <1>3, <1>4, <1>5, ReducesToOne
<1> QED
  BY <1>6 DEF v

\* An absent tree is no root.
LEMMA NullIsNoRoot ==
    ASSUME NEW h, NEW s, Sound(h, s)
    PROVE  /\ Below(s, 0) \subseteq Nodes /\ NULL \notin Below(s, 0)
           /\ Minus(Below(s, 0), NULL) = Below(s, 0)
           /\ \A a : Minus(Minus(Below(s, 0), NULL), a) = Minus(Below(s, 0), a)
           /\ \A a : Minus(Minus(Below(s, 0), a), NULL) = Minus(Below(s, 0), a)
<1>1. Below(s, 0) \subseteq Nodes /\ NULL \notin Below(s, 0)
  BY NullIsNone DEF Sound, Whole, Wired
<1> QED
  BY <1>1 DEF Minus

LEMMA NothingChanges ==
    ASSUME NEW h, NEW s, Sound(h, s), NEW k \in 0 .. Len(s), NEW nt \in {"stmt", "body"}
    PROVE  Sound(h, Replaced(s, k, Value(nt, NULL, << >>)))
<1>1. Whole(h, Below(s, 0)) /\ Len(s) \in Nat
  BY DEF Sound, Stacked
<1>2. Below(s, k) \subseteq Below(s, 0)
  BY <1>1 DEF Below
<1>3. Whole(h, Below(s, k)) /\ \A r \in Below(s, k) : Steady(h, h, r)
  BY <1>1, <1>2, FewerRoots DEF Steady
<1> QED
  BY <1>3, ReducesToNone

LEMMA SequenceStep ==
    ASSUME TreeInv, Sequence
    PROVE  TreeInv'
<1> DEFINE a == S(2, 1)
           b == S(2, 2)
           va == Nth(stack, 2, 1)
           vb == Nth(stack, 2, 2)
           g == tree_insert_node(heap, a, b)
<1>1. Sound(heap, stack) /\ On(<<Command, {"body"}>>)
  BY DEF TreeInv, Sequence
<1>2. /\ a = NULL => Reduce(2, "body", b, heap)
      /\ a # NULL /\ b = NULL => Reduce(2, "body", a, heap)
      /\ a # NULL /\ b # NULL => Reduce(2, "body", a, g)
  BY DEF Sequence
<1>3. /\ 2 \in 0 .. Len(stack)
      /\ va \in Values /\ va.node = a /\ va.nt \in Command /\ Fits(heap, va)
      /\ vb \in Values /\ vb.node = b /\ vb.nt \in {"body"} /\ Fits(heap, vb)
      /\ a = NULL \/ a \in Below(stack, 0)
      /\ b = NULL \/ b \in Below(stack, 0)
      /\ a = b => a = NULL
      /\ Below(stack, 2) = Minus(Minus(Below(stack, 0), a), b)
  BY <1>1, TopTwo
<1> HIDE DEF a, b, va, vb
<1>4. va.nt # "args" /\ vb.nt # "args"
  BY <1>3 DEF Command
<1>5. /\ a # NULL => heap[a].next = NULL
      /\ b # NULL => heap[b].next = NULL
  BY <1>3, <1>4, HasTree
<1>6. a \in Nodes \cup {NULL} /\ b \in Nodes \cup {NULL}
  BY <1>3 DEF Values
<1>7. CASE a = NULL /\ b = NULL
  <2>1. Sound(heap, Replaced(stack, 2, Value("body", b, << >>)))
    BY <1>1, <1>3, <1>7, NothingChanges
  <2> QED
    BY <1>2, <1>3, <1>6, <1>7, <2>1, ReducedToPlain
<1>8. CASE a = NULL /\ b # NULL
  <2>1. Below(stack, 2) = Minus(Below(stack, 0), b) /\ b \in Below(stack, 0)
    BY <1>1, <1>3, <1>8, NullIsNoRoot
  <2>2. Sound(heap, Replaced(stack, 2, Value("body", b, << >>)))
    BY <1>1, <1>3, <1>5, <1>8, <2>1, ReducesToSame
  <2> QED
    BY <1>2, <1>3, <1>6, <1>8, <2>2, ReducedToPlain
<1>9. CASE a # NULL /\ b = NULL
  <2>1. Below(stack, 2) = Minus(Below(stack, 0), a) /\ a \in Below(stack, 0)
    BY <1>1, <1>3, <1>9, NullIsNoRoot
  <2>2. Sound(heap, Replaced(stack, 2, Value("body", a, << >>)))
    BY <1>1, <1>3, <1>5, <1>9, <2>1, ReducesToSame
  <2> QED
    BY <1>2, <1>3, <1>6, <1>9, <2>2, ReducedToPlain
<1>10. CASE a # NULL /\ b # NULL
  <2>1. CountedIn(heap, a)
    BY <1>1, <1>3, <1>10, CommandCounted DEF Sound
  <2>2. a \in Below(stack, 0) /\ b \in Below(stack, 0) /\ a # b
    BY <1>3, <1>10
  <2>3. Sound(g, Replaced(stack, 2, Value("body", a, << >>)))
    BY <1>1, <1>3, <1>5, <1>10, <2>1, <2>2, InsertedBelow
  <2> HIDE DEF g
  <2> QED
    BY <1>2, <1>3, <1>6, <1>10, <2>3, ReducedToPlain
<1> QED
  BY <1>7, <1>8, <1>9, <1>10

LEMMA MoreOfListStep ==
    ASSUME TreeInv, MoreOfList
    PROVE  TreeInv'
<1> DEFINE a == S(2, 1)
           b == S(2, 2)
           va == Nth(stack, 2, 1)
           vb == Nth(stack, 2, 2)
           g == tree_insert_node(heap, a, b)
<1>1. Sound(heap, stack) /\ On(<<Command, Commands>>)
  BY DEF TreeInv, MoreOfList
<1>2. /\ a = NULL \/ b = NULL => Ends("abort")
      /\ a # NULL /\ b # NULL => Reduce(2, "list", a, g)
  BY DEF MoreOfList
<1>3. /\ 2 \in 0 .. Len(stack)
      /\ va \in Values /\ va.node = a /\ va.nt \in Command /\ Fits(heap, va)
      /\ vb \in Values /\ vb.node = b /\ vb.nt \in Commands /\ Fits(heap, vb)
      /\ a = NULL \/ a \in Below(stack, 0)
      /\ b = NULL \/ b \in Below(stack, 0)
      /\ a = b => a = NULL
      /\ Below(stack, 2) = Minus(Minus(Below(stack, 0), a), b)
  BY <1>1, TopTwo
<1> HIDE DEF a, b, va, vb
<1>4. va.nt # "args" /\ vb.nt # "args"
  BY <1>3 DEF Command, Commands
<1>5. /\ a # NULL => heap[a].next = NULL
      /\ b # NULL => heap[b].next = NULL
  BY <1>3, <1>4, HasTree
<1>6. CASE a = NULL \/ b = NULL
  BY <1>2, <1>6, EndsStep
<1>7. CASE a # NULL /\ b # NULL
  <2>1. CountedIn(heap, a)
    BY <1>1, <1>3, <1>7, CommandCounted DEF Sound
  <2>2. a \in Below(stack, 0) /\ b \in Below(stack, 0) /\ a # b /\ a \in Nodes
    BY <1>3, <1>7 DEF Values
  <2>3. Sound(g, Replaced(stack, 2, Value("list", a, << >>)))
    BY <1>1, <1>3, <1>5, <1>7, <2>1, <2>2, InsertedBelow
  <2> HIDE DEF g
  <2> QED
    BY <1>2, <1>3, <1>7, <2>2, <2>3, ReducedToPlain
<1> QED
  BY <1>6, <1>7

LEMMA BlockStep ==
    ASSUME TreeInv, Block
    PROVE  TreeInv'
<1> DEFINE a == S(1, 1)
           va == Nth(stack, 1, 1)
           new == New
           g == createASTUnaryNode(heap, new, "node", a)
<1>1. Sound(heap, stack) /\ On(<<{"body"}>>)
  BY DEF TreeInv, Block
<1>2. /\ a # NULL => CanBranch(1) /\ Reduce(1, "stmt", new, g)
      /\ a = NULL => Reduce(1, "stmt", NULL, heap)
  BY DEF Block
<1>3. CanBranch(1) => new \in Nodes /\ heap[new].type = "free"
  BY CanBranchFree
<1>4. /\ 1 \in 0 .. Len(stack)
      /\ va \in Values /\ va.node = a /\ va.nt \in {"body"} /\ Fits(heap, va)
      /\ a = NULL \/ a \in Below(stack, 0)
      /\ Below(stack, 1) = Minus(Below(stack, 0), a)
  BY <1>1, TopOne
<1> HIDE DEF a, va, new
<1>5. CASE a = NULL
  <2>1. Sound(heap, Replaced(stack, 1, Value("stmt", NULL, << >>)))
    BY <1>1, <1>4, NothingChanges
  <2> QED
    BY <1>2, <1>4, <1>5, <2>1, ReducedToPlain
<1>6. CASE a # NULL
  <2>1. heap[a].next = NULL /\ a \in Below(stack, 0)
    BY <1>4, <1>6, HasTree
  <2>2. Sound(g, Replaced(stack, 1, Value("stmt", new, << >>)))
    BY <1>1, <1>2, <1>3, <1>4, <1>6, <2>1, NodeOfOne
  <2> HIDE DEF g
  <2> QED
    BY <1>2, <1>3, <1>4, <1>6, <2>2, ReducedToPlain
<1> QED
  BY <1>5, <1>6

\* What is freed is the tree of one value alone.
LEMMA FreedWhole ==
    ASSUME NEW h, NEW roots, Whole(h, roots), NEW t \in roots, NEW g, g = tree_free(h, t)
    PROVE  /\ Whole(g, Minus(roots, t))
           /\ \A r \in Minus(roots, t) : Steady(h, g, r)
<1>1. Whole(g, Minus(roots, t))
  BY Freed
<1>2. \A n \in Nodes : g[n] = Comp("free") \/ (g[n] = h[n] /\ Children(g, n) = Children(h, n))
  BY Freed
<1>3. \A r \in roots \ {t} : g[r] = h[r] /\ Siblings(g, r) = Siblings(h, r)
  BY Freed
<1>4. ASSUME NEW r \in Minus(roots, t)
      PROVE  Steady(h, g, r)
  <2>1. r \in roots \ {t} /\ r \in Nodes /\ h \in Heaps
    BY DEF Minus, Whole, Wired
  <2>2. g[r] = h[r]
    BY <1>3, <2>1
  <2>3. h[r].first # NULL => g[h[r].first].type = h[h[r].first].type
    <3>1. SUFFICES ASSUME h[r].first # NULL PROVE g[h[r].first].type = h[h[r].first].type
      OBVIOUS
    <3>2. h[r].first \in Nodes
      BY <2>1, <3>1 DEF Heaps, Records
    <3>3. g[g[r].first].type # "free"
      BY <1>1, <2>1, <2>2, <3>1 DEF Whole, Wired
    <3>4. g[h[r].first] # Comp("free")
      BY <2>2, <3>3 DEF Comp
    <3> QED
      BY <1>2, <3>2, <3>4
  <2> QED
    BY <2>2, <2>3 DEF Steady
<1> QED
  BY <1>1, <1>4

LEMMA DropsOne ==
    ASSUME NEW h, NEW s, Sound(h, s), NEW k \in 0 .. Len(s),
           NEW t \in Below(s, 0), Below(s, k) = Minus(Below(s, 0), t),
           NEW nt \in {"stmt", "body"}, NEW g, g = tree_free(h, t)
    PROVE  Sound(g, Replaced(s, k, Value(nt, NULL, << >>)))
<1> DEFINE roots == Below(s, 0)
<1>1. Whole(h, roots) /\ t \in roots /\ Below(s, k) = Minus(roots, t)
  BY DEF Sound
<1> HIDE DEF roots
<1>2. Whole(g, Minus(roots, t)) /\ \A r \in Minus(roots, t) : Steady(h, g, r)
  BY <1>1, FreedWhole
<1>3. Whole(g, Below(s, k)) /\ \A r \in Below(s, k) : Steady(h, g, r)
  BY <1>1, <1>2
<1> QED
  BY <1>3, ReducesToNone

LEMMA DropsTwo ==
    ASSUME NEW h, NEW s, Sound(h, s), NEW k \in 0 .. Len(s),
           NEW t \in Below(s, 0), NEW u \in Below(s, 0), t # u,
           Below(s, k) = Minus(Minus(Below(s, 0), t), u),
           NEW nt \in {"stmt", "body"}, NEW m, m = tree_free(h, t), NEW g, g = tree_free(m, u)
    PROVE  Sound(g, Replaced(s, k, Value(nt, NULL, << >>)))
<1> DEFINE roots == Below(s, 0)
           those == Minus(roots, t)
<1>1. Whole(h, roots) /\ t \in roots /\ Below(s, k) = Minus(those, u)
  BY DEF Sound
<1>2. u \in those /\ \A r \in Minus(those, u) : r \in those
  BY DEF Minus
<1> HIDE DEF roots
<1>3. Whole(m, those) /\ \A r \in those : Steady(h, m, r)
  BY <1>1, FreedWhole
<1> HIDE DEF those
<1>4. Whole(g, Minus(those, u)) /\ \A r \in Minus(those, u) : Steady(m, g, r)
  BY <1>2, <1>3, FreedWhole
<1>5. \A r \in Minus(those, u) : Steady(h, g, r)
  BY <1>2, <1>3, <1>4, SteadyTwice
<1>6. Whole(g, Below(s, k)) /\ \A r \in Below(s, k) : Steady(h, g, r)
  BY <1>1, <1>4, <1>5
<1> QED
  BY <1>6, ReducesToNone

\* The order of two trees does not matter to the rest.
LEMMA MinusSwap ==
    ASSUME NEW roots, NEW a, NEW b
    PROVE  Minus(Minus(roots, a), b) = Minus(Minus(roots, b), a)
BY DEF Minus

\* A condition a and a body b, in that order or the other: with a body they make
\* a node, in either order; without one the condition is freed.
LEMMA ConditionAndBody ==
    ASSUME TreeInv, NEW a, NEW b, NEW va \in Values, NEW vb \in Values,
           2 \in 0 .. Len(stack),
           va.node = a, va.nt \in Expression, Fits(heap, va),
           vb.node = b, vb.nt = "body", Fits(heap, vb),
           a = NULL \/ a \in Below(stack, 0), b = NULL \/ b \in Below(stack, 0),
           a = b => a = NULL,
           Below(stack, 2) = Minus(Minus(Below(stack, 0), a), b),
           NEW new, CanBranch(1) => new \in Nodes /\ heap[new].type = "free",
           NEW g, g = createASTBinaryNode(heap, new, "node", a, b),
           NEW d, d = createASTBinaryNode(heap, new, "node", b, a),
           NEW f, f = tree_free(heap, a),
           \/ b # NULL /\ CanBranch(1) /\ (Reduce(2, "stmt", new, g) \/ Reduce(2, "stmt", new, d))
           \/ b = NULL /\ Reduce(2, "stmt", NULL, f)
    PROVE  TreeInv'
<1>1. Sound(heap, stack)
  BY DEF TreeInv
<1>2. a # NULL /\ heap[a].next = NULL /\ a \in Below(stack, 0)
  BY HasTree
<1>3. b # NULL => heap[b].next = NULL /\ b \in Below(stack, 0) /\ a # b
  BY <1>2, HasTree
<1>4. CASE b = NULL
  <2>1. Below(stack, 2) = Minus(Below(stack, 0), a)
    BY <1>1, <1>4, NullIsNoRoot
  <2>2. Sound(f, Replaced(stack, 2, Value("stmt", NULL, << >>)))
    BY <1>1, <1>2, <2>1, DropsOne
  <2>3. Reduce(2, "stmt", NULL, f)
    BY <1>4
  <2> QED
    BY <2>2, <2>3, ReducedToPlain
<1>5. CASE b # NULL
  <2>1. new \in Nodes /\ heap[new].type = "free"
    BY <1>5
  <2>2. Sound(g, Replaced(stack, 2, Value("stmt", new, << >>)))
    BY <1>1, <1>2, <1>3, <1>5, <2>1, NodeOfTwo
  <2>3. Below(stack, 2) = Minus(Minus(Below(stack, 0), b), a)
    BY MinusSwap
  <2>4. Sound(d, Replaced(stack, 2, Value("stmt", new, << >>)))
    BY <1>1, <1>2, <1>3, <1>5, <2>1, <2>3, NodeOfTwo
  <2>5. Reduce(2, "stmt", new, g) \/ Reduce(2, "stmt", new, d)
    BY <1>5
  <2>6. CASE Reduce(2, "stmt", new, g)
    BY <2>1, <2>2, <2>6, ReducedToPlain
  <2>7. CASE Reduce(2, "stmt", new, d)
    BY <2>1, <2>4, <2>7, ReducedToPlain
  <2> QED
    BY <2>5, <2>6, <2>7
<1> QED
  BY <1>4, <1>5

LEMMA ConditionFirstStep ==
    ASSUME TreeInv, If \/ While
    PROVE  TreeInv'
<1> DEFINE a == S(2, 1)
           b == S(2, 2)
           va == Nth(stack, 2, 1)
           vb == Nth(stack, 2, 2)
           new == New
           g == createASTBinaryNode(heap, new, "node", a, b)
           d == createASTBinaryNode(heap, new, "node", b, a)
           f == tree_free(heap, a)
<1>1. Sound(heap, stack) /\ On(<<Expression, {"body"}>>)
  BY DEF TreeInv, If, While
<1>2. \/ b # NULL /\ CanBranch(1) /\ (Reduce(2, "stmt", new, g) \/ Reduce(2, "stmt", new, d))
      \/ b = NULL /\ Reduce(2, "stmt", NULL, f)
      \/ Ends("semantic error") \/ Ends("crash")
  BY DEF If, While
<1>3. CanBranch(1) => new \in Nodes /\ heap[new].type = "free"
  BY CanBranchFree
<1>4. /\ 2 \in 0 .. Len(stack)
      /\ va \in Values /\ va.node = a /\ va.nt \in Expression /\ Fits(heap, va)
      /\ vb \in Values /\ vb.node = b /\ vb.nt \in {"body"} /\ Fits(heap, vb)
      /\ a = NULL \/ a \in Below(stack, 0)
      /\ b = NULL \/ b \in Below(stack, 0)
      /\ a = b => a = NULL
      /\ Below(stack, 2) = Minus(Minus(Below(stack, 0), a), b)
  BY <1>1, TopTwo
<1>5. CASE Ends("semantic error") \/ Ends("crash")
  BY <1>5, EndsStep
<1> HIDE DEF a, b, va, vb, new, g, d, f
<1>6. CASE \/ b # NULL /\ CanBranch(1) /\ (Reduce(2, "stmt", new, g) \/ Reduce(2, "stmt", new, d))
           \/ b = NULL /\ Reduce(2, "stmt", NULL, f)
  BY <1>3, <1>4, <1>6, ConditionAndBody DEF g, d, f
<1> QED
  BY <1>2, <1>5, <1>6

LEMMA DoWhileStep ==
    ASSUME TreeInv, DoWhile
    PROVE  TreeInv'
<1> DEFINE b == S(2, 1)
           a == S(2, 2)
           vb == Nth(stack, 2, 1)
           va == Nth(stack, 2, 2)
           new == New
           g == createASTBinaryNode(heap, new, "node", a, b)
           d == createASTBinaryNode(heap, new, "node", b, a)
           f == tree_free(heap, a)
<1>1. Sound(heap, stack) /\ On(<<{"body"}, Expression>>)
  BY DEF TreeInv, DoWhile
<1>2. \/ b # NULL /\ CanBranch(1) /\ Reduce(2, "stmt", new, d)
      \/ b = NULL /\ Reduce(2, "stmt", NULL, f)
  BY DEF DoWhile
<1>3. CanBranch(1) => new \in Nodes /\ heap[new].type = "free"
  BY CanBranchFree
<1>4. /\ 2 \in 0 .. Len(stack)
      /\ vb \in Values /\ vb.node = b /\ vb.nt \in {"body"} /\ Fits(heap, vb)
      /\ va \in Values /\ va.node = a /\ va.nt \in Expression /\ Fits(heap, va)
      /\ b = NULL \/ b \in Below(stack, 0)
      /\ a = NULL \/ a \in Below(stack, 0)
      /\ b = a => b = NULL
      /\ Below(stack, 2) = Minus(Minus(Below(stack, 0), b), a)
  BY <1>1, TopTwo
<1> HIDE DEF a, b, va, vb, new, g, d, f
<1>5. Below(stack, 2) = Minus(Minus(Below(stack, 0), a), b)
  BY <1>4, MinusSwap
<1> QED
  BY <1>2, <1>3, <1>4, <1>5, ConditionAndBody DEF g, d, f

LEMMA ForeachStep ==
    ASSUME TreeInv, Foreach
    PROVE  TreeInv'
<1> DEFINE a == S(3, 1)
           b == S(3, 2)
           c == S(3, 3)
           va == Nth(stack, 3, 1)
           vb == Nth(stack, 3, 2)
           vc == Nth(stack, 3, 3)
           new == New
           g == createASTTernaryNode(heap, new, "node", a, b, c)
           m == tree_free(heap, a)
           f == tree_free(m, b)
<1>1. Sound(heap, stack) /\ On(<<Expression, Expression, {"body"}>>)
  BY DEF TreeInv, Foreach
<1>2. \/ c # NULL /\ CanBranch(1) /\ Reduce(3, "stmt", new, g)
      \/ c = NULL /\ Reduce(3, "stmt", NULL, f)
  BY DEF Foreach
<1>3. CanBranch(1) => new \in Nodes /\ heap[new].type = "free"
  BY CanBranchFree
<1>4. /\ 3 \in 0 .. Len(stack)
      /\ va \in Values /\ va.node = a /\ va.nt \in Expression /\ Fits(heap, va)
      /\ vb \in Values /\ vb.node = b /\ vb.nt \in Expression /\ Fits(heap, vb)
      /\ vc \in Values /\ vc.node = c /\ vc.nt \in {"body"} /\ Fits(heap, vc)
      /\ a = NULL \/ a \in Below(stack, 0)
      /\ b = NULL \/ b \in Below(stack, 0)
      /\ c = NULL \/ c \in Below(stack, 0)
      /\ (a = b => a = NULL) /\ (a = c => a = NULL) /\ (b = c => b = NULL)
      /\ Below(stack, 3) = Minus(Minus(Minus(Below(stack, 0), a), b), c)
  BY <1>1, TopThree
<1> HIDE DEF a, b, c, va, vb, vc, new
<1>5. a # NULL /\ heap[a].next = NULL /\ b # NULL /\ heap[b].next = NULL
  BY <1>4, HasTree
<1>6. c # NULL => heap[c].next = NULL
  BY <1>4, HasTree
<1>7. a \in Below(stack, 0) /\ b \in Below(stack, 0) /\ a # b /\ a # c /\ b # c
  BY <1>4, <1>5
<1>8. CASE c # NULL /\ CanBranch(1) /\ Reduce(3, "stmt", new, g)
  <2>1. c \in Below(stack, 0) /\ new \in Nodes /\ heap[new].type = "free"
    BY <1>3, <1>4, <1>8
  <2>2. Sound(g, Replaced(stack, 3, Value("stmt", new, << >>)))
    BY <1>1, <1>4, <1>5, <1>6, <1>7, <1>8, <2>1, NodeOfThree
  <2> HIDE DEF g
  <2> QED
    BY <1>4, <1>8, <2>1, <2>2, ReducedToPlain
<1>9. CASE c = NULL /\ Reduce(3, "stmt", NULL, f)
  <2>1. Below(stack, 3) = Minus(Minus(Below(stack, 0), a), b)
    BY <1>1, <1>4, <1>9, NullIsNoRoot DEF Minus
  <2>2. Sound(f, Replaced(stack, 3, Value("stmt", NULL, << >>)))
    BY <1>1, <1>4, <1>7, <2>1, DropsTwo
  <2> HIDE DEF f
  <2> QED
    BY <1>4, <1>9, <2>2, ReducedToPlain
<1> QED
  BY <1>2, <1>8, <1>9

LEMMA ForStep ==
    ASSUME TreeInv, For
    PROVE  TreeInv'
<1> DEFINE a == S(4, 1)
           b == S(4, 2)
           c == S(4, 3)
           d == S(4, 4)
           va == Nth(stack, 4, 1)
           vb == Nth(stack, 4, 2)
           vc == Nth(stack, 4, 3)
           vd == Nth(stack, 4, 4)
           new == New
           g == createASTQuaternaryNode(heap, new, "node", a, b, c, d)
<1>1. Sound(heap, stack) /\ On(<<Commands, Expression, Commands, {"body"}>>)
  BY DEF TreeInv, For
<1>2. \/ Ends("crash") \/ Ends("abort")
      \/ /\ a # NULL /\ b # NULL /\ c # NULL /\ d # NULL
         /\ CanBranch(1) /\ Reduce(4, "stmt", new, g)
  <2>1. 1 \in 1 .. 4 /\ 2 \in 1 .. 4 /\ 3 \in 1 .. 4 /\ 4 \in 1 .. 4
    OBVIOUS
  <2>2. NULL \notin {S(4, i) : i \in 1 .. 4} => a # NULL /\ b # NULL /\ c # NULL /\ d # NULL
    BY <2>1
  <2>3. \/ Ends("crash") \/ Ends("abort")
        \/ /\ NULL \notin {S(4, i) : i \in 1 .. 4}
           /\ CanBranch(1) /\ Reduce(4, "stmt", new, g)
    BY DEF For
  <2> HIDE DEF a, b, c, d, g, new
  <2> QED
    BY <2>2, <2>3
<1>3. CanBranch(1) => new \in Nodes /\ heap[new].type = "free"
  BY CanBranchFree
<1>4. /\ 4 \in 0 .. Len(stack)
      /\ va \in Values /\ va.node = a /\ va.nt \in Commands /\ Fits(heap, va)
      /\ vb \in Values /\ vb.node = b /\ vb.nt \in Expression /\ Fits(heap, vb)
      /\ vc \in Values /\ vc.node = c /\ vc.nt \in Commands /\ Fits(heap, vc)
      /\ vd \in Values /\ vd.node = d /\ vd.nt \in {"body"} /\ Fits(heap, vd)
      /\ a = NULL \/ a \in Below(stack, 0)
      /\ b = NULL \/ b \in Below(stack, 0)
      /\ c = NULL \/ c \in Below(stack, 0)
      /\ d = NULL \/ d \in Below(stack, 0)
      /\ (a = b => a = NULL) /\ (a = c => a = NULL) /\ (b = c => b = NULL)
      /\ (a = d => a = NULL) /\ (b = d => b = NULL) /\ (c = d => c = NULL)
      /\ Below(stack, 4) = Minus(Minus(Minus(Minus(Below(stack, 0), a), b), c), d)
  BY <1>1, TopFour
<1> HIDE DEF a, b, c, d, va, vb, vc, vd, new
<1>5. CASE Ends("crash") \/ Ends("abort")
  BY <1>5, EndsStep
<1>6. CASE /\ a # NULL /\ b # NULL /\ c # NULL /\ d # NULL
           /\ CanBranch(1) /\ Reduce(4, "stmt", new, g)
  <2>1. va.nt # "args" /\ vb.nt # "args" /\ vc.nt # "args" /\ vd.nt # "args"
    BY <1>4 DEF Commands, Command, Expression
  <2>2. heap[a].next = NULL /\ heap[b].next = NULL /\ heap[c].next = NULL /\ heap[d].next = NULL
    BY <1>4, <1>6, <2>1, HasTree
  <2>3. /\ a \in Below(stack, 0) /\ b \in Below(stack, 0) /\ c \in Below(stack, 0)
        /\ d \in Below(stack, 0)
        /\ a # b /\ a # c /\ b # c /\ a # d /\ b # d /\ c # d
        /\ new \in Nodes /\ heap[new].type = "free"
    BY <1>3, <1>4, <1>6
  <2>4. Sound(g, Replaced(stack, 4, Value("stmt", new, << >>)))
    BY <1>1, <1>4, <2>2, <2>3, NodeOfFour
  <2> HIDE DEF g
  <2> QED
    BY <1>4, <1>6, <2>3, <2>4, ReducedToPlain
<1> QED
  BY <1>2, <1>5, <1>6

\* Without a then branch the condition is negated first: one more node below the
\* new one.
LEMMA Negated ==
    ASSUME NEW h, NEW s, Sound(h, s), NEW k \in 0 .. Len(s),
           NEW n \in Nodes, h[n].type = "free",
           NEW a \in Below(s, 0), h[a].next = NULL, NEW b \in Below(s, 0), h[b].next = NULL, a # b,
           Below(s, k) = Minus(Minus(Below(s, 0), a), b),
           NEW m, m = createASTUnaryNode(h, n, "node", a),
           NEW i \in Nodes, m[i].type = "free",
           NEW g, g = createASTBinaryNode(m, i, "node", n, b)
    PROVE  /\ Sound(g, Replaced(s, k, Value("stmt", i, << >>)))
           /\ Apart(h, m, n, Minus(Below(s, 0), a)) /\ m[n].type = "node"
           /\ Children(m, n) = Siblings(h, a)
           /\ Apart(m, g, i, Below(s, k)) /\ g[i].type = "node"
           /\ Children(g, i) = <<n>> \o Siblings(h, b) /\ Siblings(g, i) = <<i>>
           /\ Below(s, k) \subseteq Minus(Below(s, 0), a)
<1> DEFINE roots == Below(s, 0)
           less == Minus(roots, a)
           those == Plus(less, n)
           rest == Minus(Minus(those, n), b)
<1>1. /\ h \in Heaps /\ Wired(h, roots) /\ roots \subseteq Nodes /\ Whole(h, roots)
      /\ \A r \in roots : r # n
  BY DEF Sound, Whole, Wired
<1>2. a \in roots /\ b \in less /\ Below(s, k) = Minus(less, b)
  BY DEF Minus
<1>3. /\ n \in those /\ b \in those /\ n # b /\ rest = Minus(less, b)
      /\ rest \subseteq less /\ rest \subseteq those /\ n \notin rest
      /\ less \subseteq roots /\ n \notin less
  BY <1>1, <1>2 DEF Minus, Plus
<1> HIDE DEF roots
<1>4. "node" \in Types
  BY DEF Types
<1>5. /\ m \in Heaps /\ Wired(m, those)
      /\ Apart(h, m, n, less)
      /\ MadeOf(m, n, "node", a, a, 1, Siblings(h, a))
  BY <1>1, <1>2, <1>4, MadeUnary
<1>6. CountedIn(m, n)
  <2> DEFINE ks == Siblings(h, a)
  <2>1. ks = <<a>>
    BY <1>1, <1>2, Alone
  <2>2. MadeOf(m, n, "node", a, a, 1, ks)
    BY <1>5
  <2> HIDE DEF ks
  <2>3. ks # << >> /\ Len(ks) = 1 /\ ks[Len(ks)] = a
    BY <2>1
  <2> QED
    BY <2>2, <2>3, CountedSoFar
<1>7. m[n].type = "node" /\ m[n].next = NULL
  BY <1>5 DEF MadeOf
<1>8. Kept(m, n) /\ Shaped(m, n)
  BY <1>6, <1>7 DEF Kept, Shaped
<1> HIDE DEF less, those, rest
<1>9. Whole(m, those)
  BY <1>1, <1>5, <1>8, StaysWhole
<1>10. \A r \in less : Steady(h, m, r)
  BY <1>1, <1>3, <1>5, ApartSteady
<1>11. m[b].next = NULL
  BY <1>2, <1>5 DEF Apart
<1>12. /\ g \in Heaps
       /\ Wired(g, Plus(Minus(Minus(those, n), b), i))
       /\ Apart(m, g, i, Minus(Minus(those, n), b))
       /\ MadeOf(g, i, "node", n, b, 2, <<n>> \o Siblings(m, b))
  BY <1>3, <1>4, <1>5, <1>7, <1>11, MadeBinary
<1>13. g[i].type = "node" /\ g[i].next = NULL
  BY <1>12 DEF MadeOf
<1>14. CountedIn(g, i)
  <2> DEFINE ks == <<n>> \o Siblings(m, b)
  <2>1. Siblings(m, b) = <<b>> /\ b \in Nodes
    BY <1>1, <1>2, <1>3, <1>5, <1>11, Alone
  <2>2. <<n>> \o <<b>> = <<n, b>>
    BY <2>1, JoinedShort
  <2>3. ks = <<n, b>>
    BY <2>1, <2>2, Zenon
  <2>4. MadeOf(g, i, "node", n, b, 2, ks)
    BY <1>12
  <2> HIDE DEF ks
  <2>5. ks # << >> /\ Len(ks) = 2 /\ ks[Len(ks)] = b
    BY <2>3
  <2> QED
    BY <2>4, <2>5, CountedSoFar
<1>15. Kept(g, i) /\ Shaped(g, i)
  BY <1>13, <1>14 DEF Kept, Shaped
<1>16. Wired(g, Plus(rest, i)) /\ Apart(m, g, i, rest)
  BY <1>12, Zenon DEF rest
<1>17. Whole(g, Plus(rest, i))
  BY <1>9, <1>12, <1>15, <1>16, StaysWhole
<1>18. i \notin rest
  BY <1>3, <1>5 DEF Wired
<1>19. \A r \in rest : Steady(m, g, r)
  BY <1>3, <1>9, <1>16, <1>18, ApartSteady
<1>20. \A r \in rest : Steady(h, g, r)
  BY <1>3, <1>10, <1>19, SteadyTwice
<1>21. rest = Below(s, k)
  BY <1>2, <1>3
<1> DEFINE v == Value("stmt", i, << >>)
<1>22. v \in Values /\ v.nt = "stmt" /\ v.node = i
  BY PlainValue DEF Nonterminals, Command
<1> HIDE DEF v
<1>23. Fits(g, v)
  BY <1>13, <1>22, NullIsNone DEF Fits
<1>24. Sound(g, Replaced(s, k, v))
  BY <1>17, <1>18, <1>20, <1>21, <1>22, <1>23, ReducesToOne
<1>25. Children(m, n) = Siblings(h, a) /\ Siblings(m, b) = Siblings(h, b)
  BY <1>2, <1>5 DEF MadeOf, Apart
<1>26. Children(g, i) = <<n>> \o Siblings(h, b)
  BY <1>12, <1>25 DEF MadeOf
<1>27. Siblings(g, i) = <<i>>
  <2>1. i \in Plus(rest, i)
    BY DEF Plus
  <2> QED
    BY <1>12, <1>13, <1>16, <2>1, Alone
<1>28. Apart(h, m, n, Minus(Below(s, 0), a)) /\ Below(s, k) \subseteq Minus(Below(s, 0), a)
  BY <1>3, <1>5, <1>21 DEF less, roots
<1>29. Apart(m, g, i, Below(s, k))
  BY <1>16, <1>21
<1> QED
  BY <1>7, <1>13, <1>24, <1>25, <1>26, <1>27, <1>28, <1>29 DEF v

\* The second of two nodes.
LEMMA SecondFree ==
    ASSUME TreeInv, CanBranch(2), NEW a \in Below(stack, 0),
           NEW m, m = createASTUnaryNode(heap, New, "node", a)
    PROVE  malloc(m) \in Nodes /\ m[malloc(m)].type = "free"
<1> DEFINE new == New
<1>1. new \in Nodes /\ heap[new].type = "free"
  BY CanBranchFree
<1>2. Cardinality(Free(heap)) >= 2
  BY DEF CanBranch, CanGrow
<1>3. heap \in Heaps /\ Wired(heap, Below(stack, 0)) /\ "node" \in Types
  BY DEF TreeInv, Sound, Whole, Types
<1> HIDE DEF new
<1>4. m = createASTUnaryNode(heap, new, "node", a)
  BY DEF new
<1>5. Apart(heap, m, new, Minus(Below(stack, 0), a))
  BY <1>1, <1>3, <1>4, MadeUnary
<1>6. IsFiniteSet(Free(heap)) /\ new \in Free(heap)
  BY <1>1, TreeAssumption, FS_Subset DEF Free
<1>7. Cardinality(Free(heap) \ {new}) = Cardinality(Free(heap)) - 1
  BY <1>6, FS_RemoveElement
<1>8. Cardinality(Free(heap)) \in Nat
  BY <1>6, FS_CardinalityType
<1>9. Free(heap) \ {new} # {}
  <2>1. SUFFICES ASSUME Free(heap) \ {new} = {} PROVE FALSE
    OBVIOUS
  <2>2. Cardinality(Free(heap) \ {new}) = 0
    BY <2>1, FS_EmptySet
  <2> QED
    BY <1>2, <1>7, <1>8, <2>2
<1>10. \A n \in Nodes \ {new} : m[n].type = heap[n].type
  BY <1>5 DEF Apart
<1>11. Free(m) # {}
  BY <1>9, <1>10 DEF Free
<1> QED
  BY <1>11, Allocates

LEMMA IfElseStep ==
    ASSUME TreeInv, IfElse
    PROVE  TreeInv'
<1> DEFINE a == S(3, 1)
           b == S(3, 2)
           c == S(3, 3)
           va == Nth(stack, 3, 1)
           vb == Nth(stack, 3, 2)
           vc == Nth(stack, 3, 3)
           new == New
           both == createASTTernaryNode(heap, new, "node", a, b, c)
           then == createASTBinaryNode(heap, new, "node", a, b)
           negated == createASTUnaryNode(heap, new, "node", a)
           if == malloc(negated)
           else == createASTBinaryNode(negated, if, "node", new, c)
<1>1. Sound(heap, stack) /\ On(<<Expression, {"body"}, {"body"}>>)
  BY DEF TreeInv, IfElse
<1>2. \/ b # NULL /\ c # NULL /\ CanBranch(1) /\ Reduce(3, "stmt", new, both)
      \/ b # NULL /\ c = NULL /\ CanBranch(1) /\ Reduce(3, "stmt", new, then)
      \/ b = NULL /\ c # NULL /\ CanBranch(2) /\ Reduce(3, "stmt", if, else)
      \/ b = NULL /\ c = NULL /\ Reduce(3, "stmt", NULL, heap)
  BY DEF IfElse
<1>3. CanBranch(1) \/ CanBranch(2) => new \in Nodes /\ heap[new].type = "free"
  BY CanBranchFree
<1>4. /\ 3 \in 0 .. Len(stack)
      /\ va \in Values /\ va.node = a /\ va.nt \in Expression /\ Fits(heap, va)
      /\ vb \in Values /\ vb.node = b /\ vb.nt \in {"body"} /\ Fits(heap, vb)
      /\ vc \in Values /\ vc.node = c /\ vc.nt \in {"body"} /\ Fits(heap, vc)
      /\ a = NULL \/ a \in Below(stack, 0)
      /\ b = NULL \/ b \in Below(stack, 0)
      /\ c = NULL \/ c \in Below(stack, 0)
      /\ (a = b => a = NULL) /\ (a = c => a = NULL) /\ (b = c => b = NULL)
      /\ Below(stack, 3) = Minus(Minus(Minus(Below(stack, 0), a), b), c)
  BY <1>1, TopThree
<1> HIDE DEF a, b, c, va, vb, vc, both, then, if, else
<1>5. a # NULL /\ heap[a].next = NULL /\ a \in Below(stack, 0)
  BY <1>4, HasTree
<1>6. b # NULL => heap[b].next = NULL /\ b \in Below(stack, 0) /\ a # b
  BY <1>4, <1>5, HasTree
<1>7. c # NULL => heap[c].next = NULL /\ c \in Below(stack, 0) /\ a # c /\ (b = c => b = NULL)
  BY <1>4, <1>5, HasTree
<1>8. CASE b # NULL /\ c # NULL /\ CanBranch(1) /\ Reduce(3, "stmt", new, both)
  <2> HIDE DEF new
  <2>1. new \in Nodes /\ heap[new].type = "free" /\ b # c
    BY <1>3, <1>7, <1>8
  <2>2. Sound(both, Replaced(stack, 3, Value("stmt", new, << >>)))
    BY <1>1, <1>4, <1>5, <1>6, <1>7, <1>8, <2>1, NodeOfThree DEF both
  <2> QED
    BY <1>4, <1>8, <2>1, <2>2, ReducedToPlain
<1>9. CASE b # NULL /\ c = NULL /\ CanBranch(1) /\ Reduce(3, "stmt", new, then)
  <2> HIDE DEF new
  <2>1. new \in Nodes /\ heap[new].type = "free"
    BY <1>3, <1>9
  <2>2. Below(stack, 3) = Minus(Minus(Below(stack, 0), a), b)
    BY <1>1, <1>4, <1>9, NullIsNoRoot DEF Minus
  <2>3. Sound(then, Replaced(stack, 3, Value("stmt", new, << >>)))
    BY <1>1, <1>4, <1>5, <1>6, <1>9, <2>1, <2>2, NodeOfTwo DEF then
  <2> QED
    BY <1>4, <1>9, <2>1, <2>3, ReducedToPlain
<1>10. CASE b = NULL /\ c # NULL /\ CanBranch(2) /\ Reduce(3, "stmt", if, else)
  <2>1. new \in Nodes /\ heap[new].type = "free"
    BY <1>3, <1>10
  <2>2. Below(stack, 3) = Minus(Minus(Below(stack, 0), a), c)
    BY <1>1, <1>4, <1>10, NullIsNoRoot
  <2>3. if \in Nodes /\ negated[if].type = "free"
    BY <1>5, <1>10, SecondFree DEF if
  <2> HIDE DEF new
  <2>4. else = createASTBinaryNode(negated, if, "node", new, c) /\ negated = createASTUnaryNode(heap, new, "node", a)
    BY DEF else
  <2>5. c \in Below(stack, 0) /\ heap[c].next = NULL /\ a # c /\ 3 \in 0 .. Len(stack)
    BY <1>4, <1>7, <1>10
  <2> HIDE DEF negated
  <2>6. Sound(else, Replaced(stack, 3, Value("stmt", if, << >>)))
    BY ZenonT(40), <1>1, <1>5, <2>1, <2>2, <2>4, <2>3, <2>5, Negated
  <2> QED
    BY <1>4, <1>10, <2>3, <2>6, ReducedToPlain
<1>11. CASE b = NULL /\ c = NULL /\ Reduce(3, "stmt", NULL, heap)
  <2>1. Sound(heap, Replaced(stack, 3, Value("stmt", NULL, << >>)))
    BY <1>1, <1>4, NothingChanges
  <2> QED
    BY <1>4, <1>11, <2>1, ReducedToPlain
<1> HIDE DEF new, negated
<1> QED
  BY <1>2, <1>8, <1>9, <1>10, <1>11

----------------------------------------------------------------------------
(* The invariant, and what follows from it *)

LEMMA TreeInit ==
    ASSUME Init
    PROVE  TreeInv
<1>1. Sound(heap, << >>)
  BY EmptyHeap DEF Init
<1>2. stack = << >> /\ status = "parsing"
  BY DEF Init
<1>3. Len(stack) = 0
  BY <1>2
<1>4. Len(stack) <= MaxStack + 1
  BY <1>3, StackBound, Zenon
<1>5. Sound(heap, stack)
  BY <1>1, <1>2, Zenon
<1> QED
  BY <1>2, <1>4, <1>5 DEF TreeInv

LEMMA TreeStep ==
    ASSUME TreeInv, [Next]_vars
    PROVE  TreeInv'
<1>1. CASE UNCHANGED vars
  <2>1. heap' = heap /\ stack' = stack /\ status' = status
    BY <1>1 DEF vars
  <2> QED
    BY <2>1 DEF TreeInv
<1>2. ASSUME NEW nt \in {"exp", "name", "piped", "stmt"}, Leaf(nt)
      PROVE  TreeInv'
  BY <1>2, LeafStep
<1>3. ASSUME NEW nt \in {"exp", "stmt"}, Unary(nt) \/ Binary(nt)
      PROVE  TreeInv'
  BY <1>3, UnaryStep, BinaryStep
<1>4. CASE Declaration \/ EmptyBlock
  BY <1>4, AbsentStep
<1>5. CASE LastArgument
  BY <1>5, LastArgumentStep
<1>6. CASE MoreArguments
  BY <1>6, MoreArgumentsStep
<1>7. CASE CallWithoutArguments \/ PipedFunction
  BY <1>7, OneNameStep
<1>8. CASE Call \/ PipedFunctionWithArguments
  BY <1>8, TwoNamesStep
<1>9. CASE Chain
  BY <1>9, ChainStep
<1>10. CASE Pipe
  BY <1>10, PipeStep
<1>11. CASE Sequence
  BY <1>11, SequenceStep
<1>12. CASE Block
  BY <1>12, BlockStep
<1>13. CASE If \/ While
  BY <1>13, ConditionFirstStep
<1>14. CASE IfElse
  BY <1>14, IfElseStep
<1>15. CASE DoWhile
  BY <1>15, DoWhileStep
<1>16. CASE Foreach
  BY <1>16, ForeachStep
<1>17. CASE MoreOfList
  BY <1>17, MoreOfListStep
<1>18. CASE For
  BY <1>18, ForStep
<1> QED
  BY <1>1, <1>2, <1>3, <1>4, <1>5, <1>6, <1>7, <1>8, <1>9, <1>10, <1>11, <1>12, <1>13, <1>14,
     <1>15, <1>16, <1>17, <1>18 DEF Next

\* Whatever the parser reduces, and in whatever order, the heap stays whole:
\* what is on its stack are the roots of trees whose lists are linked both ways,
\* end, share no node and are counted, the calls of chains apart; and a value's
\* nonterminal says what its tree is.
THEOREM HeapStaysWhole == Spec => []TreeInv
BY TreeInit, TreeStep, PTL DEF Spec

LEMMA SoundParts ==
    ASSUME TreeInv
    PROVE  /\ heap \in Heaps /\ Wired(heap, Below(stack, 0)) /\ \A n \in Nodes : Kept(heap, n)
           /\ stack \in Seq(Values) /\ Len(stack) \in Nat
<1>1. Whole(heap, Below(stack, 0)) /\ stack \in Seq(Values)
  BY DEF TreeInv, Sound, Stacked
<1>2. Len(stack) \in Nat
  BY <1>1
<1> QED
  BY <1>1, <1>2 DEF Whole

LEMMA SeqOfOthers ==
    ASSUME NEW A, NEW B, NEW s \in Seq(A), \A i \in 1 .. Len(s) : s[i] \in B
    PROVE  s \in Seq(B)
OBVIOUS

\* Every node and value has its type: counts stay within the number of nodes, no
\* list and no value keeps a node that was freed, and a value's tree is of its kind.
LEMMA InvTypeOK ==
    ASSUME TreeInv
    PROVE  TypeOK
<1>1. /\ heap \in Heaps /\ Wired(heap, Below(stack, 0)) /\ \A n \in Nodes : Kept(heap, n)
      /\ stack \in Seq(Values) /\ Len(stack) \in Nat
  BY SoundParts
<1>2. ASSUME NEW n \in Nodes
      PROVE  heap[n].childnodes \in 0 .. Cardinality(Nodes)
  <2> DEFINE k == Len(Children(heap, n))
             c == heap[n].childnodes
  <2>1. k \in Nat /\ k <= Bound /\ Bound \in Nat /\ c \in Nat
    BY <1>1, ChildrenFacts, BoundIsNat DEF Heaps, Records
  <2>2. c <= k
    <3>1. CASE CountedIn(heap, n)
      BY <2>1, <3>1 DEF CountedIn
    <3>2. CASE Loose(heap, n)
      <4>1. c \in 1 .. k
        BY <3>2 DEF Loose
      <4> HIDE DEF c, k
      <4> QED
        BY <2>1, <4>1
    <3> QED
      BY <1>1, <3>1, <3>2 DEF Kept
  <2> HIDE DEF c, k
  <2>3. c \in 0 .. Bound
    BY <2>1, <2>2
  <2> QED
    BY <2>3 DEF c, Bound
<1> DEFINE T == [type : Types \cup {"free"}, childnodes : 0..Cardinality(Nodes),
                 first : Nodes \cup {NULL}, last : Nodes \cup {NULL},
                 next : Nodes \cup {NULL}, prev : Nodes \cup {NULL}]
           V == [nt : Nonterminals, node : Allocated \cup {NULL}, names : Seq(Nodes)]
<1>3. heap \in [Nodes -> T]
  <2>1. \A n \in Nodes : heap[n] \in T
    BY <1>1, <1>2 DEF Heaps, Records
  <2> HIDE DEF T
  <2> QED
    BY <1>1, <2>1 DEF Heaps
<1>4. stack \in Seq(V)
  <2>1. ASSUME NEW i \in 1 .. Len(stack)
        PROVE  stack[i] \in V
    <3>1. stack[i] \in Values
      BY <1>1
    <3>2. stack[i].node # NULL => stack[i].node \in Below(stack, 0)
      BY <1>1 DEF Below
    <3>3. stack[i].node \in Allocated \cup {NULL}
      BY <1>1, <3>2 DEF Wired, Allocated, Free
    <3> QED
      BY <3>1, <3>3 DEF Values
  <2> HIDE DEF V
  <2> QED
    BY <1>1, <2>1, SeqOfOthers
<1>5. Len(stack) <= MaxStack + 1 /\ status \in {"parsing", "semantic error", "crash", "abort"}
  BY DEF TreeInv
<1>6. ASSUME NEW n \in Nodes
      PROVE  {heap[n].first, heap[n].next} \subseteq Allocated \cup {NULL}
  <2>1. heap[n].first \in Nodes \cup {NULL} /\ heap[n].next \in Nodes \cup {NULL}
    BY <1>1 DEF Heaps, Records
  <2> QED
    BY <1>1, <2>1 DEF Wired, Allocated, Free
<1>7. ASSUME NEW n \in Nodes, heap[n].first # NULL, heap[heap[n].first].type # "piped"
      PROVE  heap[n].last \in Allocated
  <2> DEFINE ks == Children(heap, n)
  <2>1. CountedIn(heap, n)
    BY <1>1, <1>7 DEF Kept, Piped
  <2>2. /\ ks \in Seq(Nodes) /\ Len(ks) \in Nat /\ ks # << >> /\ Len(ks) # 0
        /\ \A i \in 1 .. Len(ks) : ks[i] \in Nodes /\ heap[ks[i]].type # "free"
    BY <1>1, <1>7, ChildrenFacts
  <2>3. heap[n].last = Last(ks)
    BY <2>1, <2>2 DEF CountedIn
  <2> HIDE DEF ks
  <2>4. Len(ks) \in 1 .. Len(ks)
    BY <2>2
  <2>5. Last(ks) = ks[Len(ks)]
    BY DEF Last
  <2> QED
    BY <2>2, <2>3, <2>4, <2>5 DEF Allocated, Free
<1>8. ASSUME NEW i \in 1 .. Len(stack), stack[i].nt \in DOMAIN TypeOfTree
      PROVE  stack[i].node # NULL /\ heap[stack[i].node].type = TypeOfTree[stack[i].nt]
  <2>1. Fits(heap, stack[i])
    <3>1. Sound(heap, stack)
      BY DEF TreeInv
    <3> QED
      BY <3>1 DEF Sound, Stacked
  <2>2. stack[i].nt \in {"name", "piped", "call", "linked", "chain", "pipe"}
    BY <1>8 DEF TypeOfTree
  <2> QED
    BY <2>1, <2>2 DEF Fits, TypeOfTree, Piped
<1>9. \A n \in Nodes : /\ {heap[n].first, heap[n].next} \subseteq Allocated \cup {NULL}
                       /\ (heap[n].first # NULL /\ heap[heap[n].first].type # "piped") =>
                            heap[n].last \in Allocated
  BY <1>6, <1>7
<1>10. \A i \in DOMAIN stack :
          stack[i].nt \in DOMAIN TypeOfTree =>
            stack[i].node # NULL /\ heap[stack[i].node].type = TypeOfTree[stack[i].nt]
  <2>1. DOMAIN stack = 1 .. Len(stack)
    BY <1>1
  <2> QED
    BY <1>8, <2>1
<1> QED
  BY <1>3, <1>4, <1>5, <1>9, <1>10 DEF TypeOK

LEMMA InvBackwards ==
    ASSUME TreeInv
    PROVE  ListsReadBackwards
<1>1. /\ heap \in Heaps /\ Wired(heap, Below(stack, 0))
      /\ stack \in Seq(Values) /\ Len(stack) \in Nat
  BY SoundParts
<1>2. ASSUME NEW n \in Allocated
      PROVE  Backwards(heap, Children(heap, n))
  BY <1>1, ChildrenAreAList DEF Allocated
<1>3. ASSUME NEW i \in DOMAIN stack
      PROVE  Backwards(heap, Siblings(heap, stack[i].node))
  <2> DEFINE m == stack[i].node
  <2>1. m = NULL \/ m \in Below(stack, 0)
    BY <1>1 DEF Below
  <2>2. m \in Nodes \cup {NULL} /\ (m # NULL => heap[m].prev = NULL)
    BY <1>1, <2>1 DEF Wired
  <2> HIDE DEF m
  <2>3. Backwards(heap, Siblings(heap, m))
    BY <1>1, <2>2, SiblingsAreAList
  <2> QED
    BY <2>3 DEF m
<1>4. ASSUME NEW list \in {Children(heap, n) : n \in Allocated}
                          \cup {Siblings(heap, stack[i].node) : i \in DOMAIN stack}
      PROVE  Backwards(heap, list)
  BY <1>2, <1>3
<1>5. ASSUME NEW list \in {Children(heap, n) : n \in Allocated}
                          \cup {Siblings(heap, stack[i].node) : i \in DOMAIN stack}
      PROVE  list \in Seq(Nodes)
  <2>1. \A n \in Allocated : Children(heap, n) \in Seq(Nodes)
    BY <1>1, ChildrenFacts DEF Allocated
  <2>2. ASSUME NEW i \in DOMAIN stack
        PROVE  Siblings(heap, stack[i].node) \in Seq(Nodes)
    <3> DEFINE m == stack[i].node
    <3>1. m = NULL \/ m \in Below(stack, 0)
      BY <1>1 DEF Below
    <3>2. m \in Nodes \cup {NULL} /\ (m # NULL => heap[m].prev = NULL)
      BY <1>1, <3>1 DEF Wired
    <3> HIDE DEF m
    <3>3. Lists(heap, m, Siblings(heap, m))
      BY <1>1, <3>2, SiblingsAreAList
    <3> QED
      BY <3>3 DEF m, Lists
  <2> QED
    BY <2>1, <2>2
<1>6. ASSUME NEW list \in {Children(heap, n) : n \in Allocated}
                          \cup {Siblings(heap, stack[i].node) : i \in DOMAIN stack},
             NEW i \in DOMAIN list
      PROVE  heap[list[i]].prev = IF i = 1 THEN NULL ELSE list[i - 1]
  <2>1. Backwards(heap, list)
    BY <1>4
  <2>2. list \in Seq(Nodes)
    BY <1>5
  <2>3. i \in 1 .. Len(list)
    BY <2>2
  <2> QED
    BY <2>1, <2>3 DEF Backwards
<1> QED
  BY <1>6 DEF ListsReadBackwards

LEMMA InvCounted ==
    ASSUME TreeInv
    PROVE  PlainNodesCounted
<1>1. \A n \in Nodes : Kept(heap, n)
  BY DEF TreeInv, Sound, Whole
<1>2. ASSUME NEW n \in Allocated
      PROVE  Counted(n) \/ (heap[n].type = "call" /\ heap[heap[n].first].type = "piped")
  <2>1. Kept(heap, n)
    BY <1>1 DEF Allocated
  <2>2. CountedIn(heap, n) => Counted(n)
    BY DEF Counted, CountedIn
  <2> QED
    BY <2>1, <2>2 DEF Kept, Piped
<1> QED
  BY <1>2 DEF PlainNodesCounted

\* The state of the parser has its type: first and next of every node lead to
\* nodes in use, and every value is a tree of its kind or none, whatever the number
\* of nodes, the depth of the stack and the order of the reductions.
THEOREM TreeTypes == Spec => []TypeOK
<1>1. TreeInv => TypeOK
  BY InvTypeOK
<1> QED
  BY <1>1, HeapStaysWhole, PTL

\* prev undoes next and first in every list of the heap, and stops at its first
\* node, after every insertion, chaining, swap and removal of cc_tree.c.
THEOREM ListsStayLinkedBothWays == Spec => []ListsReadBackwards
<1>1. TreeInv => ListsReadBackwards
  BY InvBackwards
<1> QED
  BY <1>1, HeapStaysWhole, PTL

\* childnodes and last agree with the children of every node but the functions
\* of a chain, although tree_make_next and tree_finish_pipe count nothing.
THEOREM NodesStayCounted == Spec => []PlainNodesCounted
<1>1. TreeInv => PlainNodesCounted
  BY InvCounted
<1> QED
  BY <1>1, HeapStaysWhole, PTL

----------------------------------------------------------------------------
(* What the functions of cc_tree.c leave alone *)

\* The nodes outside R keep their type, their first child and what follows them.
Undisturbed(h, g, R) ==
    \A n \in Nodes \ R :
       /\ g[n].type = h[n].type /\ g[n].first = h[n].first
       /\ h[n].next # NULL => g[n].next = h[n].next

LEMMA UndisturbedTwice ==
    ASSUME NEW h, NEW m, NEW g, NEW R, Undisturbed(h, m, R), Undisturbed(m, g, R)
    PROVE  Undisturbed(h, g, R)
BY DEF Undisturbed

LEMMA CreatedSpares ==
    ASSUME NEW h \in Heaps, NEW n \in Nodes, NEW type \in Types, NEW R, n \in R,
           NEW g, g = createASTNode(h, n, type)
    PROVE  Undisturbed(h, g, R) /\ g \in Heaps /\ g[n] = Comp(type)
<1>1. Comp(type) \in Records
  BY NullIsNone DEF Comp, Records
<1> QED
  BY <1>1 DEF createASTNode, Undisturbed, Heaps

LEMMA LinkAssigned ==
    ASSUME NEW h \in Heaps, NEW t \in Nodes, NEW x \in Nodes, NEW l \in Nodes,
           NEW k, k = WithLast(WithNext(WithPrev(h, x, l), l, x), t, x)
    PROVE  /\ k \in Heaps
           /\ \A n \in Nodes : /\ k[n].type = h[n].type /\ k[n].first = h[n].first
                               /\ k[n].next = IF n = l THEN x ELSE h[n].next
                               /\ k[n].last = IF n = t THEN x ELSE h[n].last
<1> DEFINE p == WithPrev(h, x, l)
           q == WithNext(p, l, x)
<1>1. /\ p \in Heaps
      /\ \A n \in Nodes : /\ p[n].type = h[n].type /\ p[n].first = h[n].first
                          /\ p[n].next = h[n].next /\ p[n].last = h[n].last
  BY Assigned
<1> HIDE DEF p
<1>2. /\ q \in Heaps
      /\ \A n \in Nodes : /\ q[n].type = p[n].type /\ q[n].first = p[n].first
                          /\ q[n].next = IF n = l THEN x ELSE p[n].next
                          /\ q[n].last = p[n].last
  BY <1>1, Assigned
<1>3. k = WithLast(q, t, x)
  BY DEF p
<1>4. \A m \in Heaps : /\ WithLast(m, t, x) \in Heaps
                      /\ \A n \in Nodes : /\ WithLast(m, t, x)[n].type = m[n].type
                                          /\ WithLast(m, t, x)[n].first = m[n].first
                                          /\ WithLast(m, t, x)[n].next = m[n].next
                                          /\ WithLast(m, t, x)[n].last = IF n = t THEN x ELSE m[n].last
  BY Assigned
<1> HIDE DEF q
<1>5. /\ k \in Heaps
      /\ \A n \in Nodes : /\ k[n].type = q[n].type /\ k[n].first = q[n].first
                          /\ k[n].next = q[n].next
                          /\ k[n].last = IF n = t THEN x ELSE q[n].last
  BY <1>2, <1>3, <1>4
<1> QED
  BY <1>1, <1>2, <1>5

\* An insertion touches the parent, the child and the last child so far, which
\* nothing followed.
LEMMA InsertSpares ==
    ASSUME NEW h \in Heaps, NEW t \in Nodes, NEW x \in Nodes, NEW R, t \in R, x \in R,
           h[t].childnodes = 0 \/ (h[t].last \in Nodes /\ (h[t].last \in R \/ h[h[t].last].next = NULL)),
           NEW g, g = tree_insert_node(h, t, x)
    PROVE  Undisturbed(h, g, R) /\ g \in Heaps /\ g[t].last = x /\ g[t].type = h[t].type
<1>1. \A n \in Nodes : h[n] \in Records
  BY DEF Heaps
<1>2. CASE h[t].childnodes = 0
  <2>1. g = [h EXCEPT ![t].first = x, ![t].last = x, ![t].childnodes = @ + 1]
    BY <1>2 DEF tree_insert_node, tree_has_child_nodes
  <2>2. g \in Heaps
    BY <1>1, <2>1 DEF Heaps, Records
  <2>3. \A n \in Nodes \ {t} : g[n] = h[n]
    BY <2>1 DEF Heaps
  <2>4. g[t].last = x /\ g[t].type = h[t].type
    BY <1>1, <2>1 DEF Heaps, Records
  <2> QED
    BY <2>2, <2>3, <2>4 DEF Undisturbed
<1>3. CASE h[t].childnodes # 0
  <2> DEFINE l == h[t].last
  <2>1. g = [h EXCEPT ![x].prev = l, ![l].next = x, ![t].last = x, ![t].childnodes = @ + 1]
    BY <1>3 DEF tree_insert_node, tree_has_child_nodes
  <2>2. l \in Nodes
    BY <1>3
  <2> HIDE DEF l
  <2> DEFINE k == WithLast(WithNext(WithPrev(h, x, l), l, x), t, x)
  <2>3. /\ k \in Heaps /\ k[t].childnodes + 1 \in Nat
        /\ \A n \in Nodes : /\ k[n].type = h[n].type /\ k[n].first = h[n].first
                            /\ k[n].next = IF n = l THEN x ELSE h[n].next
                            /\ k[n].last = IF n = t THEN x ELSE h[n].last
    <3>1. /\ k \in Heaps
          /\ \A n \in Nodes : /\ k[n].type = h[n].type /\ k[n].first = h[n].first
                              /\ k[n].next = IF n = l THEN x ELSE h[n].next
                              /\ k[n].last = IF n = t THEN x ELSE h[n].last
      BY <2>2, LinkAssigned
    <3> HIDE DEF k
    <3>2. k[t].childnodes + 1 \in Nat
      BY <3>1 DEF Heaps, Records
    <3> QED
      BY <3>1, <3>2
  <2>4. g = WithCount(k, t, k[t].childnodes + 1)
    <3>1. SecondOnly(h, t, x, l, l) = WithCount(k, t, k[t].childnodes + 1)
      BY <2>2, SecondAssigned
    <3>2. g = SecondOnly(h, t, x, l, l)
      BY <2>1 DEF SecondOnly
    <3> QED
      BY <3>1, <3>2
  <2> HIDE DEF k
  <2>5. g \in Heaps /\ \A n \in Nodes : /\ g[n].type = k[n].type /\ g[n].first = k[n].first
                                      /\ g[n].next = k[n].next /\ g[n].last = k[n].last
    BY <2>3, <2>4, CountAssigned
  <2>6. /\ \A n \in Nodes : g[n].type = h[n].type /\ g[n].first = h[n].first
        /\ \A n \in Nodes \ {l} : g[n].next = h[n].next
        /\ g[t].last = x
    BY <2>3, <2>5
  <2>7. l \in R \/ h[l].next = NULL
    BY <1>3 DEF l
  <2> QED
    BY <2>5, <2>6, <2>7 DEF Undisturbed
<1> QED
  BY <1>2, <1>3

\* A new node over its children touches nothing else.
LEMMA UnarySpares ==
    ASSUME NEW h \in Heaps, NEW n \in Nodes, NEW type \in Types, NEW a \in Nodes, NEW R, n \in R, a \in R,
           NEW g, g = createASTUnaryNode(h, n, type, a)
    PROVE  Undisturbed(h, g, R) /\ g \in Heaps /\ g[n].last = a /\ g[n].type = type
<1> DEFINE m == createASTNode(h, n, type)
<1>1. Undisturbed(h, m, R) /\ m \in Heaps /\ m[n] = Comp(type)
  BY CreatedSpares
<1>2. g = tree_insert_node(m, n, a)
  BY DEF createASTUnaryNode
<1> HIDE DEF m
<1>3. m[n].childnodes = 0 /\ m[n].type = type
  BY <1>1 DEF Comp
<1>4. Undisturbed(m, g, R) /\ g \in Heaps /\ g[n].last = a /\ g[n].type = m[n].type
  BY <1>1, <1>2, <1>3, InsertSpares
<1> QED
  BY <1>1, <1>3, <1>4, UndisturbedTwice

LEMMA BinarySpares ==
    ASSUME NEW h \in Heaps, NEW n \in Nodes, NEW type \in Types, NEW a \in Nodes, NEW b \in Nodes,
           NEW R, n \in R, a \in R, b \in R,
           NEW g, g = createASTBinaryNode(h, n, type, a, b)
    PROVE  Undisturbed(h, g, R) /\ g \in Heaps /\ g[n].last = b /\ g[n].type = type
<1> DEFINE m == createASTUnaryNode(h, n, type, a)
<1>1. Undisturbed(h, m, R) /\ m \in Heaps /\ m[n].last = a /\ m[n].type = type
  BY UnarySpares
<1>2. g = tree_insert_node(m, n, b)
  BY DEF createASTBinaryNode
<1> HIDE DEF m
<1>3. m[n].last \in R /\ m[n].last \in Nodes
  BY <1>1
<1>4. Undisturbed(m, g, R) /\ g \in Heaps /\ g[n].last = b /\ g[n].type = m[n].type
  BY <1>1, <1>2, <1>3, InsertSpares
<1> QED
  BY <1>1, <1>4, UndisturbedTwice

LEMMA TernarySpares ==
    ASSUME NEW h \in Heaps, NEW n \in Nodes, NEW type \in Types, NEW a \in Nodes, NEW b \in Nodes,
           NEW c \in Nodes, NEW R, n \in R, a \in R, b \in R, c \in R,
           NEW g, g = createASTTernaryNode(h, n, type, a, b, c)
    PROVE  Undisturbed(h, g, R) /\ g \in Heaps /\ g[n].last = c /\ g[n].type = type
<1> DEFINE m == createASTBinaryNode(h, n, type, a, b)
<1>1. Undisturbed(h, m, R) /\ m \in Heaps /\ m[n].last = b /\ m[n].type = type
  BY BinarySpares
<1>2. g = tree_insert_node(m, n, c)
  BY DEF createASTTernaryNode
<1> HIDE DEF m
<1>3. m[n].last \in R /\ m[n].last \in Nodes
  BY <1>1
<1>4. Undisturbed(m, g, R) /\ g \in Heaps /\ g[n].last = c /\ g[n].type = m[n].type
  BY <1>1, <1>2, <1>3, InsertSpares
<1> QED
  BY <1>1, <1>4, UndisturbedTwice

LEMMA QuaternarySpares ==
    ASSUME NEW h \in Heaps, NEW n \in Nodes, NEW type \in Types, NEW a \in Nodes, NEW b \in Nodes,
           NEW c \in Nodes, NEW d \in Nodes, NEW R, n \in R, a \in R, b \in R, c \in R, d \in R,
           NEW g, g = createASTQuaternaryNode(h, n, type, a, b, c, d)
    PROVE  Undisturbed(h, g, R) /\ g \in Heaps
<1> DEFINE m == createASTTernaryNode(h, n, type, a, b, c)
<1>1. Undisturbed(h, m, R) /\ m \in Heaps /\ m[n].last = c /\ m[n].type = type
  BY TernarySpares
<1>2. g = tree_insert_node(m, n, d)
  BY DEF createASTQuaternaryNode
<1> HIDE DEF m
<1>3. m[n].last \in R /\ m[n].last \in Nodes
  BY <1>1
<1>4. Undisturbed(m, g, R) /\ g \in Heaps
  BY <1>1, <1>2, <1>3, InsertSpares
<1> QED
  BY <1>1, <1>4, UndisturbedTwice

\* What is chained behind a root touches the two only, and what is counted again
\* only the node counted.
LEMMA MakeNextSpares ==
    ASSUME NEW h \in Heaps, NEW a \in Nodes, NEW b \in Nodes, NEW R, a \in R, b \in R
    PROVE  Undisturbed(h, tree_make_next(h, a, b), R)
BY DEF Undisturbed, tree_make_next, Heaps, Records

LEMMA UpdateSpares ==
    ASSUME NEW h \in Heaps, NEW t \in Nodes, NEW R, t \in R
    PROVE  Undisturbed(h, update_childs(h, t), R)
BY DEF Undisturbed, update_childs, Heaps, Records

\* Freeing touches what is free afterwards.
LEMMA FreeSpares ==
    ASSUME NEW h \in Heaps, NEW t
    PROVE  Undisturbed(h, tree_free(h, t), Free(tree_free(h, t)))
<1> DEFINE g == tree_free(h, t)
<1>1. \A n \in Nodes : g[n] = Comp("free") \/ g[n] = h[n]
  BY DEF tree_free
<1> HIDE DEF g
<1>2. \A n \in Nodes : g[n] = Comp("free") => n \in Free(g)
  BY DEF Comp, Free
<1> QED
  BY <1>1, <1>2 DEF Undisturbed, g
----------------------------------------------------------------------------
(* The thread of a pipe: its functions in the order of the text *)

\* c[i] is the call of the i-th function of v, and q[i] the tree that the first i
\* functions make: the first function itself, then a pipe over the i-th one,
\* whose first argument is the tree before.
Thread(h, v, c, q) ==
    LET n == Len(v.names)
        plain == v.nt \in {"call", "pipe"}
    IN  /\ n \in Nat \ {0}
        /\ v.nt \in {"call", "linked"} => n = 1
        /\ v.nt = "pipe" => n # 1
        /\ \A i \in 1 .. n :
              /\ c[i] \in Nodes /\ q[i] \in Nodes
              /\ h[c[i]].type = "call" /\ h[c[i]].first = v.names[i]
              /\ h[v.names[i]].type = IF i = 1 /\ plain THEN "node" ELSE "piped"
        /\ q[1] = c[1] /\ q[n] = v.node
        /\ \A i \in 2 .. n :
              /\ h[q[i]].type = "pipe" /\ h[q[i]].first = c[i]
              /\ h[v.names[i]].next = q[i - 1]

Threaded(h, v) == \E c, q : Thread(h, v, c, q)

\* The values that have one.
Spun == {"call", "linked", "chain", "pipe"}

Threads(h, s) == \A i \in 1 .. Len(s) : s[i].nt \in Spun => Threaded(h, s[i])

\* No node of the thread is in R.
Clear(v, c, q, R) ==
    \A i \in 1 .. Len(v.names) : c[i] \notin R /\ q[i] \notin R /\ v.names[i] \notin R

LEMMA ThreadStays ==
    ASSUME NEW h, NEW g, NEW v \in Values, NEW c, NEW q, Thread(h, v, c, q),
           NEW R, Undisturbed(h, g, R), Clear(v, c, q, R)
    PROVE  Thread(g, v, c, q)
<1> DEFINE n == Len(v.names)
           plain == v.nt \in {"call", "pipe"}
<1>1. n \in Nat \ {0} /\ \A i \in 1 .. n : v.names[i] \in Nodes
  BY DEF Values, Thread
<1>2. \A i \in 1 .. n : c[i] \in Nodes \ R /\ q[i] \in Nodes \ R /\ v.names[i] \in Nodes \ R
  BY <1>1 DEF Thread, Clear
<1>3. \A m \in Nodes \ R : g[m].type = h[m].type /\ g[m].first = h[m].first
                           /\ (h[m].next # NULL => g[m].next = h[m].next)
  BY DEF Undisturbed
<1>4. /\ v.nt \in {"call", "linked"} => n = 1
      /\ v.nt = "pipe" => n # 1
      /\ q[1] = c[1] /\ q[n] = v.node
  BY DEF Thread
<1>5. \A i \in 1 .. n :
         /\ h[c[i]].type = "call" /\ h[c[i]].first = v.names[i]
         /\ h[v.names[i]].type = IF i = 1 /\ plain THEN "node" ELSE "piped"
  BY DEF Thread
<1>6. \A i \in 2 .. n :
         /\ h[q[i]].type = "pipe" /\ h[q[i]].first = c[i]
         /\ h[v.names[i]].next = q[i - 1]
  BY DEF Thread
<1>7. \A i \in 2 .. n : i \in 1 .. n /\ i - 1 \in 1 .. n
  BY <1>1
<1> HIDE DEF n, plain
<1>8. \A i \in 1 .. n :
         /\ g[c[i]].type = "call" /\ g[c[i]].first = v.names[i]
         /\ g[v.names[i]].type = IF i = 1 /\ plain THEN "node" ELSE "piped"
  BY <1>2, <1>3, <1>5
<1>9. ASSUME NEW i \in 2 .. n
      PROVE  /\ g[q[i]].type = "pipe" /\ g[q[i]].first = c[i]
             /\ g[v.names[i]].next = q[i - 1]
  <2>1. /\ i \in 1 .. n /\ i - 1 \in 1 .. n
        /\ h[q[i]].type = "pipe" /\ h[q[i]].first = c[i] /\ h[v.names[i]].next = q[i - 1]
    BY <1>6, <1>7
  <2>2. q[i - 1] # NULL /\ q[i] \in Nodes \ R /\ v.names[i] \in Nodes \ R
    BY <1>2, <2>1, NullIsNone
  <2> QED
    BY <1>3, <2>1, <2>2
<1> QED
  BY <1>1, <1>2, <1>4, <1>8, <1>9 DEF Thread, n, plain

\* A root of another tree is no part of the thread.
LEMMA ThreadAvoidsRoots ==
    ASSUME NEW h, NEW roots, Whole(h, roots), NEW v \in Values, NEW c, NEW q, Thread(h, v, c, q),
           NEW R, R \subseteq roots, v.node \notin R
    PROVE  Clear(v, c, q, R)
<1> DEFINE n == Len(v.names)
<1>1. n \in Nat \ {0} /\ \A i \in 1 .. n : v.names[i] \in Nodes /\ c[i] \in Nodes /\ q[i] \in Nodes
  BY DEF Values, Thread
<1>2. \A r \in R : r \in Nodes /\ h[r].prev = NULL /\ \A m \in Nodes : h[m].first # r
  BY DEF Whole, Wired
<1>3. q[1] = c[1] /\ q[n] = v.node /\ \A i \in 1 .. n : h[c[i]].first = v.names[i]
  BY DEF Thread
<1>4. \A i \in 2 .. n : h[q[i]].first = c[i] /\ h[v.names[i]].next = q[i - 1]
  BY DEF Thread
<1>5. \A m \in Nodes : h[m].next # NULL => h[h[m].next].prev = m
  BY DEF Whole, Wired
<1> HIDE DEF n
<1>6. ASSUME NEW i \in 1 .. n PROVE q[i] \notin R
  <2>1. CASE i = n
    BY <1>3, <2>1
  <2>2. CASE i # n
    <3>1. i + 1 \in 2 .. n /\ i + 1 \in 1 .. n /\ (i + 1) - 1 = i
      BY <1>1, <2>2
    <3>2. h[v.names[i + 1]].next = q[i] /\ v.names[i + 1] \in Nodes /\ q[i] \in Nodes
      BY <1>1, <1>4, <3>1
    <3>3. h[q[i]].prev = v.names[i + 1]
      BY <1>5, <3>2, NullIsNone
    <3> QED
      BY <1>2, <3>2, <3>3, NullIsNone
  <2> QED
    BY <2>1, <2>2
<1>7. ASSUME NEW i \in 1 .. n PROVE c[i] \notin R
  <2>1. CASE i = 1
    BY <1>3, <1>6, <2>1
  <2>2. CASE i # 1
    <3>1. i \in 2 .. n
      BY <1>1, <2>2
    <3> QED
      BY <1>1, <1>2, <1>4, <3>1
  <2> QED
    BY <2>1, <2>2
<1>8. \A i \in 1 .. n : v.names[i] \notin R
  BY <1>1, <1>2, <1>3
<1> QED
  BY <1>6, <1>7, <1>8 DEF Clear, n

\* Nor is a node that is free before, or after where the rest stays as it is.
LEMMA ThreadIsUsed ==
    ASSUME NEW h, NEW v \in Values, NEW c, NEW q, Thread(h, v, c, q)
    PROVE  Clear(v, c, q, Free(h))
<1>1. \A i \in 1 .. Len(v.names) : v.names[i] \in Nodes /\ h[v.names[i]].type # "free"
  BY DEF Values, Thread
<1>2. \A i \in 1 .. Len(v.names) : h[c[i]].type # "free"
  BY DEF Thread
<1>3. ASSUME NEW i \in 1 .. Len(v.names) PROVE h[q[i]].type # "free"
  <2>1. CASE i = 1
    <3>1. q[1] = c[1] /\ h[c[1]].type = "call"
      BY <2>1 DEF Thread
    <3> QED
      BY <2>1, <3>1
  <2>2. CASE i # 1
    <3>1. i \in 2 .. Len(v.names)
      BY <2>2 DEF Thread
    <3> QED
      BY <3>1 DEF Thread
  <2> QED
    BY <2>1, <2>2
<1> QED
  BY <1>1, <1>2, <1>3 DEF Clear, Free

LEMMA ThreadStaysUsed ==
    ASSUME NEW h, NEW g, NEW rest, Whole(g, rest),
           NEW v \in Values, v.node \in rest, NEW c, NEW q, Thread(h, v, c, q),
           NEW R, Undisturbed(h, g, R \cup Free(g)), Clear(v, c, q, R)
    PROVE  Clear(v, c, q, Free(g))
<1> DEFINE n == Len(v.names)
           Ks == {k \in Nat : k < n => g[q[n - k]].type # "free"}
<1>1. n \in Nat \ {0} /\ \A i \in 1 .. n : v.names[i] \in Nodes /\ c[i] \in Nodes /\ q[i] \in Nodes
  BY DEF Values, Thread
<1>2. \A m \in Nodes : m \notin R /\ g[m].type # "free" =>
         g[m].first = h[m].first /\ (h[m].next # NULL => g[m].next = h[m].next)
  BY DEF Undisturbed, Free
<1>3. \A m \in Nodes : /\ g[m].first # NULL => g[g[m].first].type # "free"
                       /\ g[m].next # NULL => g[g[m].next].type # "free"
  BY DEF Whole, Wired
<1>4. \A i \in 1 .. n : c[i] \notin R /\ q[i] \notin R /\ v.names[i] \notin R
  BY DEF Clear
<1>5. q[1] = c[1] /\ q[n] = v.node /\ \A i \in 1 .. n : h[c[i]].first = v.names[i]
  BY DEF Thread
<1>6. \A i \in 2 .. n : h[q[i]].first = c[i] /\ h[v.names[i]].next = q[i - 1]
  BY DEF Thread
<1>7. g[v.node].type # "free"
  BY DEF Whole, Wired
<1> HIDE DEF n
<1>8. ASSUME NEW i \in 1 .. n, g[q[i]].type # "free"
      PROVE  g[c[i]].type # "free" /\ g[v.names[i]].type # "free"
  <2>1. g[c[i]].type # "free"
    <3>1. CASE i = 1
      BY <1>5, <1>8, <3>1
    <3>2. CASE i # 1
      <4>1. i \in 2 .. n
        BY <1>1, <3>2
      <4>2. h[q[i]].first = c[i] /\ c[i] # NULL
        BY <1>1, <1>6, <4>1, NullIsNone
      <4>3. g[q[i]].first = c[i]
        BY <1>1, <1>2, <1>4, <1>8, <4>2
      <4> QED
        BY <1>1, <1>3, <4>2, <4>3
    <3> QED
      BY <3>1, <3>2
  <2>2. g[c[i]].first = v.names[i] /\ v.names[i] # NULL
    BY <1>1, <1>2, <1>4, <1>5, <2>1, NullIsNone
  <2> QED
    BY <1>1, <1>3, <2>1, <2>2
<1>9. 0 \in Ks
  BY <1>1, <1>5, <1>7
<1>10. ASSUME NEW k \in Nat, k \in Ks PROVE k + 1 \in Ks
  <2> SUFFICES ASSUME k + 1 < n PROVE g[q[n - (k + 1)]].type # "free"
    OBVIOUS
  <2> DEFINE i == n - k
  <2>1. i \in 1 .. n /\ i \in 2 .. n /\ i - 1 = n - (k + 1) /\ i - 1 \in 1 .. n /\ k < n
    BY <1>1
  <2>2. g[q[i]].type # "free"
    BY <1>10, <2>1
  <2> HIDE DEF i, Ks
  <2>3. g[v.names[i]].type # "free"
    BY <1>8, <2>1, <2>2
  <2>4. h[v.names[i]].next = q[i - 1] /\ q[i - 1] # NULL
    BY <1>1, <1>6, <2>1, NullIsNone
  <2>5. g[v.names[i]].next = q[i - 1]
    BY <1>1, <1>2, <1>4, <2>1, <2>3, <2>4
  <2>6. g[q[i - 1]].type # "free"
    BY <1>1, <1>3, <2>1, <2>4, <2>5
  <2> QED
    BY <2>1, <2>6
<1> HIDE DEF Ks
<1>11. Nat \subseteq Ks
  BY <1>9, <1>10, SetInduction
<1>12. ASSUME NEW i \in 1 .. n PROVE g[q[i]].type # "free"
  <2>1. n - i \in Nat /\ n - i < n /\ n - (n - i) = i
    BY <1>1
  <2>2. n - i \in Ks
    BY <1>11, <2>1
  <2> QED
    BY <2>1, <2>2 DEF Ks
<1> QED
  BY <1>8, <1>12 DEF Clear, Free, n

----------------------------------------------------------------------------
(* A reduction: what it takes for the threads of the other values to stay *)

\* The trees of the last k values.
Taken(s, k) == Below(s, 0) \ Below(s, k)

LEMMA OthersClear ==
    ASSUME NEW h, NEW s, Sound(h, s), NEW k \in 0 .. Len(s), NEW i \in 1 .. Len(s) - k,
           NEW c, NEW q, Thread(h, s[i], c, q), NEW R, R \subseteq Taken(s, k) \cup Free(h)
    PROVE  Clear(s[i], c, q, R)
<1>1. Whole(h, Below(s, 0)) /\ s[i] \in Values /\ i \in 1 .. Len(s)
  BY DEF Sound, Stacked
<1>2. s[i].node \in Nodes
  BY DEF Thread
<1>3. s[i].node \in Below(s, k)
  BY <1>2, NullIsNone DEF Below
<1>4. Clear(s[i], c, q, R \cap Taken(s, k))
  <2>1. R \cap Taken(s, k) \subseteq Below(s, 0) /\ s[i].node \notin R \cap Taken(s, k)
    BY <1>3 DEF Taken
  <2> QED
    BY <1>1, <2>1, ThreadAvoidsRoots
<1>5. Clear(s[i], c, q, Free(h))
  BY <1>1, ThreadIsUsed
<1> QED
  BY <1>4, <1>5 DEF Clear

LEMMA ThreadsKept ==
    ASSUME NEW h, NEW s, Sound(h, s), Threads(h, s), NEW k \in 0 .. Len(s), NEW v \in Values,
           NEW g, Sound(g, Replaced(s, k, v)), NEW R, Undisturbed(h, g, R \cup Free(g)),
           \A i \in 1 .. Len(s) - k : \A c, q :
              s[i].nt \in Spun /\ Thread(h, s[i], c, q) => Clear(s[i], c, q, R),
           v.nt \in Spun => Threaded(g, v)
    PROVE  Threads(g, Replaced(s, k, v))
<1> DEFINE w == Replaced(s, k, v)
           m == Len(s) - k
<1>1. s \in Seq(Values) /\ Len(s) \in Nat /\ m \in Nat /\ 1 .. m \subseteq 1 .. Len(s)
  BY DEF Sound, Stacked
<1>2. Len(w) = m + 1 /\ w[m + 1] = v /\ \A i \in 1 .. m : w[i] = s[i]
  BY <1>1, ReplacedFacts
<1>3. Whole(g, Below(w, 0)) /\ w \in Seq(Values)
  BY DEF Sound, Stacked
<1> HIDE DEF w, m
<1>4. ASSUME NEW i \in 1 .. m, s[i].nt \in Spun PROVE Threaded(g, s[i])
  <2>1. i \in 1 .. Len(s) /\ s[i] \in Values /\ i \in 1 .. Len(w) - 0
    BY <1>1, <1>2
  <2>2. PICK c, q : Thread(h, s[i], c, q)
    BY <1>4, <2>1 DEF Threads, Threaded
  <2>3. Clear(s[i], c, q, R)
    BY <1>4, <2>2 DEF m
  <2>4. s[i].node \in Below(w, 0)
    <3>1. s[i].node \in Nodes
      BY <2>2 DEF Thread
    <3> QED
      BY <1>2, <2>1, <3>1, NullIsNone DEF Below
  <2>5. Clear(s[i], c, q, Free(g))
    BY <1>3, <2>1, <2>2, <2>3, <2>4, ThreadStaysUsed
  <2>6. Clear(s[i], c, q, R \cup Free(g))
    BY <2>3, <2>5 DEF Clear
  <2>7. Thread(g, s[i], c, q)
    BY <2>1, <2>2, <2>6, ThreadStays
  <2> QED
    BY <2>7 DEF Threaded
<1>5. \A i \in 1 .. Len(w) : i \in 1 .. m \/ i = m + 1
  BY <1>1, <1>2
<1>6. \A i \in 1 .. Len(w) : w[i].nt \in Spun => Threaded(g, w[i])
  BY <1>2, <1>4, <1>5
<1> QED
  BY <1>6 DEF Threads, w

\* A reduction that touches only the trees it takes, what was free and what is
\* freed.
LEMMA ThreadsReduced ==
    ASSUME TreeInv, TreeInv', Threads(heap, stack), NEW k \in 0 .. Len(stack), NEW v \in Values,
           Replace(k, v), NEW R, R \subseteq Taken(stack, k) \cup Free(heap),
           Undisturbed(heap, heap', R \cup Free(heap')),
           v.nt \in Spun => Threaded(heap', v)
    PROVE  Threads(heap', stack')
<1>1. stack' = Replaced(stack, k, v)
  BY DEF Replace, Replaced
<1>2. Sound(heap, stack) /\ Sound(heap', Replaced(stack, k, v))
  BY <1>1 DEF TreeInv
<1>3. \A i \in 1 .. Len(stack) - k : \A c, q :
         stack[i].nt \in Spun /\ Thread(heap, stack[i], c, q) => Clear(stack[i], c, q, R)
  BY <1>2, OthersClear
<1>4. Threads(heap', Replaced(stack, k, v))
  BY <1>2, <1>3, ThreadsKept
<1> QED
  BY <1>1, <1>4

\* The same for a value without a thread.
LEMMA ThreadsPlain ==
    ASSUME TreeInv, TreeInv', Threads(heap, stack), NEW k \in 0 .. Len(stack),
           NEW nt \in {"exp", "name", "piped", "stmt", "body", "list", "args"},
           NEW n \in Nodes \cup {NULL}, NEW g, Reduce(k, nt, n, g),
           NEW R, R \subseteq Taken(stack, k) \cup Free(heap), Undisturbed(heap, g, R \cup Free(g))
    PROVE  Threads(heap', stack')
<1> DEFINE v == Value(nt, n, << >>)
<1>1. v \in Values /\ v.nt = nt
  BY PlainValue DEF Nonterminals, Expression, Command, Linked
<1>2. heap' = g /\ Replace(k, v)
  BY DEF Reduce
<1> HIDE DEF v
<1>3. v.nt \notin Spun
  BY <1>1 DEF Spun
<1> QED
  BY <1>1, <1>2, <1>3, ThreadsReduced

\* Nothing of the heap changes.
LEMMA SameSpares ==
    ASSUME NEW h
    PROVE  Undisturbed(h, h, {} \cup Free(h))
BY DEF Undisturbed

\* More may be touched than is.
LEMMA SparesMore ==
    ASSUME NEW h, NEW g, NEW R, Undisturbed(h, g, R)
    PROVE  Undisturbed(h, g, R \cup Free(g))
BY DEF Undisturbed

LEMMA TakenOne ==
    ASSUME NEW s, NEW k, NEW a \in Below(s, 0), Below(s, k) = Minus(Below(s, 0), a)
    PROVE  a \in Taken(s, k)
BY DEF Taken, Minus

LEMMA TakenTwo ==
    ASSUME NEW s, NEW k, NEW a \in Below(s, 0), NEW b \in Below(s, 0),
           Below(s, k) = Minus(Minus(Below(s, 0), a), b)
    PROVE  a \in Taken(s, k) /\ b \in Taken(s, k)
BY DEF Taken, Minus

LEMMA FreeIsFree ==
    ASSUME NEW n \in Nodes, heap[n].type = "free"
    PROVE  n \in Free(heap)
BY DEF Free

----------------------------------------------------------------------------
(* The reductions to a value without a thread *)

LEMMA InvHeaps ==
    ASSUME TreeInv
    PROVE  /\ heap \in Heaps /\ Whole(heap, Below(stack, 0)) /\ Below(stack, 0) \subseteq Nodes
           /\ "node" \in Types /\ "call" \in Types /\ "pipe" \in Types /\ "piped" \in Types
BY DEF TreeInv, Sound, Whole, Wired, Types

LEMMA LeafThreads ==
    ASSUME TreeInv, TreeInv', Threads(heap, stack), NEW nt \in {"exp", "name", "piped", "stmt"}, Leaf(nt)
    PROVE  Threads(heap', stack')
<1> DEFINE new == New
           type == IF nt = "piped" THEN "piped" ELSE "node"
           g == createASTNode(heap, new, type)
<1>1. Reduce(0, nt, new, g) /\ new \in Nodes /\ heap[new].type = "free"
  BY CanGrowFree DEF Leaf
<1>2. type \in Types
  BY DEF Types
<1>3. 0 \in 0 .. Len(stack)
  BY Follows DEF Leaf
<1> HIDE DEF new, type
<1>4. Undisturbed(heap, g, {new})
  BY <1>1, <1>2, InvHeaps, CreatedSpares
<1> HIDE DEF g
<1>5. Undisturbed(heap, g, {new} \cup Free(g)) /\ {new} \subseteq Free(heap)
  BY <1>1, <1>4, SparesMore, FreeIsFree
<1> QED
  BY <1>1, <1>5, <1>3, ThreadsPlain

\* A node over one to four trees, as the new value.
LEMMA NodeThreads ==
    ASSUME TreeInv, TreeInv', Threads(heap, stack), NEW k \in 0 .. Len(stack),
           NEW nt \in {"exp", "stmt"}, NEW new \in Nodes, heap[new].type = "free", NEW g,
           Reduce(k, nt, new, g), NEW R, R \subseteq Taken(stack, k),
           Undisturbed(heap, g, {new} \cup R)
    PROVE  Threads(heap', stack')
<1>1. {new} \cup R \subseteq Taken(stack, k) \cup Free(heap)
  BY FreeIsFree
<1>2. Undisturbed(heap, g, ({new} \cup R) \cup Free(g))
  BY SparesMore
<1> QED
  BY <1>1, <1>2, ThreadsPlain

LEMMA UnaryThreads ==
    ASSUME TreeInv, TreeInv', Threads(heap, stack), NEW nt \in {"exp", "stmt"}, Unary(nt)
    PROVE  Threads(heap', stack')
<1> DEFINE a == S(1, 1)
           va == Nth(stack, 1, 1)
           new == New
           g == createASTUnaryNode(heap, new, "node", a)
<1>1. Sound(heap, stack) /\ On(<<Expression>>) /\ Reduce(1, nt, new, g)
  BY DEF TreeInv, Unary
<1>2. new \in Nodes /\ heap[new].type = "free"
  BY CanBranchFree DEF Unary
<1>3. /\ 1 \in 0 .. Len(stack)
      /\ va \in Values /\ va.node = a /\ va.nt \in Expression /\ Fits(heap, va)
      /\ a = NULL \/ a \in Below(stack, 0)
      /\ Below(stack, 1) = Minus(Below(stack, 0), a)
  BY <1>1, TopOne
<1> HIDE DEF a, va, new
<1>4. a \in Taken(stack, 1) /\ a \in Nodes
  BY <1>3, HasTree, InvHeaps DEF Taken, Minus
<1>5. Undisturbed(heap, g, {new} \cup {a})
  BY <1>2, <1>4, InvHeaps, UnarySpares
<1> HIDE DEF g
<1> QED
  BY <1>1, <1>2, <1>3, <1>4, <1>5, NodeThreads

LEMMA BinaryThreads ==
    ASSUME TreeInv, TreeInv', Threads(heap, stack), NEW nt \in {"exp", "stmt"}, Binary(nt)
    PROVE  Threads(heap', stack')
<1> DEFINE a == S(2, 1)
           b == S(2, 2)
           va == Nth(stack, 2, 1)
           vb == Nth(stack, 2, 2)
           new == New
           g == createASTBinaryNode(heap, new, "node", a, b)
<1>1. Sound(heap, stack) /\ On(<<Expression, Expression>>) /\ Reduce(2, nt, new, g)
  BY DEF TreeInv, Binary
<1>2. new \in Nodes /\ heap[new].type = "free"
  BY CanBranchFree DEF Binary
<1>3. /\ 2 \in 0 .. Len(stack)
      /\ va \in Values /\ va.node = a /\ va.nt \in Expression /\ Fits(heap, va)
      /\ vb \in Values /\ vb.node = b /\ vb.nt \in Expression /\ Fits(heap, vb)
      /\ a = NULL \/ a \in Below(stack, 0)
      /\ b = NULL \/ b \in Below(stack, 0)
      /\ a = b => a = NULL
      /\ Below(stack, 2) = Minus(Minus(Below(stack, 0), a), b)
  BY <1>1, TopTwo
<1> HIDE DEF a, b, va, vb, new
<1>4. {a, b} \subseteq Taken(stack, 2) /\ a \in Nodes /\ b \in Nodes
  BY <1>3, HasTree, InvHeaps DEF Taken, Minus
<1>5. Undisturbed(heap, g, {new} \cup {a, b})
  BY SMTT(30), <1>2, <1>4, InvHeaps, BinarySpares
<1> HIDE DEF g
<1> QED
  BY <1>1, <1>2, <1>3, <1>4, <1>5, NodeThreads

LEMMA SameHeapThreads ==
    ASSUME TreeInv, TreeInv', Threads(heap, stack), NEW k \in 0 .. Len(stack),
           NEW nt \in {"stmt", "body", "args"}, NEW n \in Nodes \cup {NULL}, Reduce(k, nt, n, heap)
    PROVE  Threads(heap', stack')
<1>1. Undisturbed(heap, heap, {} \cup Free(heap))
  BY SameSpares
<1>2. nt \in {"exp", "name", "piped", "stmt", "body", "list", "args"}
  OBVIOUS
<1>3. {} \subseteq Taken(stack, k) \cup Free(heap)
  OBVIOUS
<1> DEFINE g == heap
<1>4. Reduce(k, nt, n, g) /\ Undisturbed(heap, g, {} \cup Free(g))
  BY <1>1
<1> HIDE DEF g
<1> QED
  BY <1>2, <1>3, <1>4, ThreadsPlain

LEMMA AbsentThreads ==
    ASSUME TreeInv, TreeInv', Threads(heap, stack), Declaration \/ EmptyBlock
    PROVE  Threads(heap', stack')
<1>1. PICK nt \in {"stmt", "body"} : MayFollow(nt) /\ Reduce(0, nt, NULL, heap)
  BY DEF Declaration, EmptyBlock
<1>2. 0 \in 0 .. Len(stack)
  BY <1>1, Follows
<1> QED
  BY <1>1, <1>2, SameHeapThreads

LEMMA LastArgumentThreads ==
    ASSUME TreeInv, TreeInv', Threads(heap, stack), LastArgument
    PROVE  Threads(heap', stack')
<1> DEFINE a == S(1, 1)
           va == Nth(stack, 1, 1)
<1>1. Sound(heap, stack) /\ On(<<Expression>>) /\ Reduce(1, "args", a, heap)
  BY DEF TreeInv, LastArgument
<1>2. 1 \in 0 .. Len(stack) /\ va \in Values /\ va.node = a
  BY <1>1, TopOne
<1>3. a \in Nodes \cup {NULL}
  BY <1>2 DEF Values
<1> HIDE DEF a, va
<1> QED
  BY <1>1, <1>2, <1>3, SameHeapThreads

LEMMA MoreArgumentsThreads ==
    ASSUME TreeInv, TreeInv', Threads(heap, stack), MoreArguments
    PROVE  Threads(heap', stack')
<1> DEFINE a == S(2, 1)
           b == S(2, 2)
           va == Nth(stack, 2, 1)
           vb == Nth(stack, 2, 2)
           g == tree_make_next(heap, a, b)
<1>1. Sound(heap, stack) /\ On(<<Expression, {"args"}>>) /\ Reduce(2, "args", a, g)
  BY DEF TreeInv, MoreArguments
<1>2. /\ 2 \in 0 .. Len(stack)
      /\ va \in Values /\ va.node = a /\ va.nt \in Expression /\ Fits(heap, va)
      /\ vb \in Values /\ vb.node = b /\ vb.nt \in {"args"} /\ Fits(heap, vb)
      /\ a = NULL \/ a \in Below(stack, 0)
      /\ b = NULL \/ b \in Below(stack, 0)
      /\ a = b => a = NULL
      /\ Below(stack, 2) = Minus(Minus(Below(stack, 0), a), b)
  BY <1>1, TopTwo
<1> HIDE DEF a, b, va, vb
<1>3. {a, b} \subseteq Taken(stack, 2) /\ a \in Nodes /\ b \in Nodes
  BY <1>2, HasTree, InvHeaps DEF Taken, Minus
<1>4. Undisturbed(heap, g, {a, b} \cup Free(g))
  BY <1>3, InvHeaps, MakeNextSpares, SparesMore
<1> HIDE DEF g
<1> QED
  BY <1>1, <1>2, <1>3, <1>4, ThreadsPlain

\* A command that gets one more child: nothing follows its last one.
LEMMA CommandThreads ==
    ASSUME TreeInv, TreeInv', Threads(heap, stack), 2 \in 0 .. Len(stack),
           NEW va \in Values, Fits(heap, va), va.nt \in Command,
           NEW a, NEW b, va.node = a, a \in Below(stack, 0), b \in Below(stack, 0),
           Below(stack, 2) = Minus(Minus(Below(stack, 0), a), b),
           NEW g, g = tree_insert_node(heap, a, b),
           NEW nt \in {"body", "list"}, Reduce(2, nt, a, g)
    PROVE  Threads(heap', stack')
<1>1. /\ heap \in Heaps /\ Whole(heap, Below(stack, 0)) /\ a \in Nodes /\ b \in Nodes
      /\ Wired(heap, Below(stack, 0)) /\ a # NULL
  BY InvHeaps, NullIsNone DEF Whole
<1>2. CountedIn(heap, a)
  BY <1>1, CommandCounted
<1>3. {a, b} \subseteq Taken(stack, 2)
  BY DEF Taken, Minus
<1> DEFINE ks == Children(heap, a)
<1>4. Lists(heap, heap[a].first, ks)
  BY <1>1, ChildrenAreAList
<1>5. heap[a].childnodes = 0 \/ (heap[a].last \in Nodes /\ heap[heap[a].last].next = NULL)
  <2>1. CASE ks = << >>
    <3>1. heap[a].childnodes = Len(ks) /\ Len(ks) = 0
      BY <1>2, <2>1 DEF CountedIn
    <3> QED
      BY <3>1
  <2>2. CASE ks # << >>
    <3>1. heap[a].last = Last(ks)
      BY <1>2, <2>2 DEF CountedIn
    <3>2. ks \in Seq(Nodes) /\ \A i \in 1 .. Len(ks) : heap[ks[i]].next = IF i = Len(ks) THEN NULL ELSE ks[i + 1]
      BY <1>4 DEF Lists
    <3> HIDE DEF ks
    <3>3. Len(ks) \in 1 .. Len(ks) /\ ks[Len(ks)] \in Nodes
      BY <2>2, <3>2
    <3> QED
      BY <3>1, <3>2, <3>3 DEF Last
  <2> QED
    BY <2>1, <2>2
<1> HIDE DEF ks
<1>6. Undisturbed(heap, g, {a, b})
  BY <1>1, <1>5, InsertSpares
<1>7. Undisturbed(heap, g, {a, b} \cup Free(g))
  BY <1>6, SparesMore
<1>8. {a, b} \subseteq Taken(stack, 2) \cup Free(heap)
  BY <1>3
<1>9. nt \in {"exp", "name", "piped", "stmt", "body", "list", "args"} /\ a \in Nodes \cup {NULL}
  BY <1>1
<1> QED
  <2> DEFINE R == {a, b}
  <2>1. R \subseteq Taken(stack, 2) \cup Free(heap) /\ Undisturbed(heap, g, R \cup Free(g))
    BY <1>7, <1>8
  <2>2. Reduce(2, nt, a, g) /\ 2 \in 0 .. Len(stack)
    OBVIOUS
  <2> HIDE DEF R
  <2> QED
    BY <1>9, <2>1, <2>2, ThreadsPlain

LEMMA SequenceThreads ==
    ASSUME TreeInv, TreeInv', Threads(heap, stack), Sequence
    PROVE  Threads(heap', stack')
<1> DEFINE a == S(2, 1)
           b == S(2, 2)
           va == Nth(stack, 2, 1)
           vb == Nth(stack, 2, 2)
           g == tree_insert_node(heap, a, b)
<1>1. Sound(heap, stack) /\ On(<<Command, {"body"}>>)
  BY DEF TreeInv, Sequence
<1>2. \/ a = NULL /\ Reduce(2, "body", b, heap)
      \/ b = NULL /\ Reduce(2, "body", a, heap)
      \/ a # NULL /\ b # NULL /\ Reduce(2, "body", a, g)
  BY DEF Sequence
<1>3. /\ 2 \in 0 .. Len(stack)
      /\ va \in Values /\ va.node = a /\ va.nt \in Command /\ Fits(heap, va)
      /\ vb \in Values /\ vb.node = b /\ vb.nt \in {"body"} /\ Fits(heap, vb)
      /\ a = NULL \/ a \in Below(stack, 0)
      /\ b = NULL \/ b \in Below(stack, 0)
      /\ a = b => a = NULL
      /\ Below(stack, 2) = Minus(Minus(Below(stack, 0), a), b)
  BY <1>1, TopTwo
<1> HIDE DEF a, b, va, vb
<1>4. a \in Nodes \cup {NULL} /\ b \in Nodes \cup {NULL}
  BY <1>3 DEF Values
<1>5. CASE Reduce(2, "body", b, heap)
  BY <1>3, <1>4, <1>5, SameHeapThreads
<1>6. CASE Reduce(2, "body", a, heap)
  BY <1>3, <1>4, <1>6, SameHeapThreads
<1>7. CASE a # NULL /\ b # NULL /\ Reduce(2, "body", a, g)
  <2>1. a \in Below(stack, 0) /\ b \in Below(stack, 0)
    BY <1>3, <1>7
  <2> HIDE DEF g
  <2>2. g = tree_insert_node(heap, a, b)
    BY DEF g
  <2> QED
    BY <1>3, <1>7, <2>1, <2>2, CommandThreads
<1> HIDE DEF g
<1> QED
  BY <1>2, <1>5, <1>6, <1>7

\* The process is over.
LEMMA EndsThreads ==
    ASSUME NEW how, Ends(how)
    PROVE  Threads(heap', stack')
<1>1. stack' = << >>
  BY DEF Ends
<1>2. Len(stack') = 0
  BY <1>1
<1> QED
  BY <1>2 DEF Threads

LEMMA MoreOfListThreads ==
    ASSUME TreeInv, TreeInv', Threads(heap, stack), MoreOfList
    PROVE  Threads(heap', stack')
<1> DEFINE a == S(2, 1)
           b == S(2, 2)
           va == Nth(stack, 2, 1)
           vb == Nth(stack, 2, 2)
           g == tree_insert_node(heap, a, b)
<1>1. Sound(heap, stack) /\ On(<<Command, Commands>>)
  BY DEF TreeInv, MoreOfList
<1>2. Ends("abort") \/ (a # NULL /\ b # NULL /\ Reduce(2, "list", a, g))
  BY DEF MoreOfList
<1>3. /\ 2 \in 0 .. Len(stack)
      /\ va \in Values /\ va.node = a /\ va.nt \in Command /\ Fits(heap, va)
      /\ vb \in Values /\ vb.node = b /\ vb.nt \in Commands /\ Fits(heap, vb)
      /\ a = NULL \/ a \in Below(stack, 0)
      /\ b = NULL \/ b \in Below(stack, 0)
      /\ a = b => a = NULL
      /\ Below(stack, 2) = Minus(Minus(Below(stack, 0), a), b)
  BY <1>1, TopTwo
<1> HIDE DEF a, b, va, vb
<1>4. CASE Ends("abort")
  BY <1>4, EndsThreads
<1>5. CASE a # NULL /\ b # NULL /\ Reduce(2, "list", a, g)
  <2>1. a \in Below(stack, 0) /\ b \in Below(stack, 0)
    BY <1>3, <1>5
  <2> HIDE DEF g
  <2>2. g = tree_insert_node(heap, a, b)
    BY DEF g
  <2> QED
    BY <1>3, <1>5, <2>1, <2>2, CommandThreads
<1> HIDE DEF g
<1> QED
  BY <1>2, <1>4, <1>5

LEMMA BlockThreads ==
    ASSUME TreeInv, TreeInv', Threads(heap, stack), Block
    PROVE  Threads(heap', stack')
<1> DEFINE a == S(1, 1)
           va == Nth(stack, 1, 1)
           new == New
           g == createASTUnaryNode(heap, new, "node", a)
<1>1. Sound(heap, stack) /\ On(<<{"body"}>>)
  BY DEF TreeInv, Block
<1>2. \/ a # NULL /\ CanBranch(1) /\ Reduce(1, "stmt", new, g)
      \/ Reduce(1, "stmt", NULL, heap)
  BY DEF Block
<1>3. CanBranch(1) => new \in Nodes /\ heap[new].type = "free"
  BY CanBranchFree
<1>4. /\ 1 \in 0 .. Len(stack)
      /\ va \in Values /\ va.node = a /\ va.nt \in {"body"} /\ Fits(heap, va)
      /\ a = NULL \/ a \in Below(stack, 0)
      /\ Below(stack, 1) = Minus(Below(stack, 0), a)
  BY <1>1, TopOne
<1> HIDE DEF a, va, new
<1>5. CASE Reduce(1, "stmt", NULL, heap)
  BY <1>4, <1>5, SameHeapThreads
<1>6. CASE a # NULL /\ CanBranch(1) /\ Reduce(1, "stmt", new, g)
  <2>1. {a} \subseteq Taken(stack, 1) /\ a \in Nodes
    BY <1>4, <1>6, InvHeaps DEF Taken, Minus
  <2>2. Undisturbed(heap, g, {new} \cup {a})
    BY <1>3, <1>6, <2>1, InvHeaps, UnarySpares
  <2> HIDE DEF g
  <2> QED
    BY <1>3, <1>4, <1>6, <2>1, <2>2, NodeThreads
<1> HIDE DEF g
<1> QED
  BY <1>2, <1>5, <1>6

\* What is freed is no part of another thread.
LEMMA FreedThreads ==
    ASSUME TreeInv, TreeInv', Threads(heap, stack), NEW k \in 0 .. Len(stack),
           NEW g, Undisturbed(heap, g, Free(g)), Reduce(k, "stmt", NULL, g)
    PROVE  Threads(heap', stack')
<1>1. Undisturbed(heap, g, {} \cup Free(g))
  BY DEF Undisturbed
<1>2. {} \subseteq Taken(stack, k) \cup Free(heap) /\ NULL \in Nodes \cup {NULL}
  OBVIOUS
<1> QED
  BY <1>1, <1>2, ThreadsPlain

\* An if, a while or a do-while: the condition a and the body b, in either order.
LEMMA ConditionThreads ==
    ASSUME TreeInv, TreeInv', Threads(heap, stack), 2 \in 0 .. Len(stack), NEW a, NEW b,
           a \in Below(stack, 0), b = NULL \/ b \in Below(stack, 0),
           Below(stack, 2) = Minus(Minus(Below(stack, 0), a), b),
           NEW new, CanBranch(1) => new \in Nodes /\ heap[new].type = "free",
           NEW g, g = createASTBinaryNode(heap, new, "node", a, b),
           NEW d, d = createASTBinaryNode(heap, new, "node", b, a),
           NEW f, f = tree_free(heap, a),
           \/ b # NULL /\ CanBranch(1) /\ (Reduce(2, "stmt", new, g) \/ Reduce(2, "stmt", new, d))
           \/ b = NULL /\ Reduce(2, "stmt", NULL, f)
    PROVE  Threads(heap', stack')
<1>1. CASE b = NULL /\ Reduce(2, "stmt", NULL, f)
  <2>1. Undisturbed(heap, f, Free(f))
    BY InvHeaps, FreeSpares
  <2> QED
    BY <1>1, <2>1, FreedThreads
<1>2. CASE b # NULL /\ CanBranch(1) /\ (Reduce(2, "stmt", new, g) \/ Reduce(2, "stmt", new, d))
  <2>1. {a, b} \subseteq Taken(stack, 2) /\ a \in Nodes /\ b \in Nodes
    BY <1>2, InvHeaps DEF Taken, Minus
  <2>2. new \in Nodes /\ heap[new].type = "free"
    BY <1>2
  <2> DEFINE R == {new} \cup {a, b}
  <2>3. new \in R /\ a \in R /\ b \in R /\ heap \in Heaps /\ "node" \in Types
    BY InvHeaps
  <2> HIDE DEF R
  <2>4. Undisturbed(heap, g, R)
    BY <2>1, <2>2, <2>3, BinarySpares
  <2>5. Undisturbed(heap, d, R)
    BY <2>1, <2>2, <2>3, BinarySpares
  <2>6. CASE Reduce(2, "stmt", new, g)
    BY ZenonT(40), <2>1, <2>2, <2>4, <2>6, NodeThreads DEF R
  <2>7. CASE Reduce(2, "stmt", new, d)
    BY ZenonT(40), <2>1, <2>2, <2>5, <2>7, NodeThreads DEF R
  <2> QED
    BY <1>2, <2>6, <2>7
<1> QED
  BY <1>1, <1>2

LEMMA ConditionFirstThreads ==
    ASSUME TreeInv, TreeInv', Threads(heap, stack), If \/ While
    PROVE  Threads(heap', stack')
<1> DEFINE a == S(2, 1)
           b == S(2, 2)
           va == Nth(stack, 2, 1)
           vb == Nth(stack, 2, 2)
           new == New
           g == createASTBinaryNode(heap, new, "node", a, b)
           d == createASTBinaryNode(heap, new, "node", b, a)
           f == tree_free(heap, a)
<1>1. Sound(heap, stack) /\ On(<<Expression, {"body"}>>)
  BY DEF TreeInv, If, While
<1>2. \/ b # NULL /\ CanBranch(1) /\ (Reduce(2, "stmt", new, g) \/ Reduce(2, "stmt", new, d))
      \/ b = NULL /\ Reduce(2, "stmt", NULL, f)
      \/ Ends("semantic error") \/ Ends("crash")
  BY DEF If, While
<1>3. CanBranch(1) => new \in Nodes /\ heap[new].type = "free"
  BY CanBranchFree
<1>4. /\ 2 \in 0 .. Len(stack)
      /\ va \in Values /\ va.node = a /\ va.nt \in Expression /\ Fits(heap, va)
      /\ vb \in Values /\ vb.node = b /\ vb.nt \in {"body"} /\ Fits(heap, vb)
      /\ a = NULL \/ a \in Below(stack, 0)
      /\ b = NULL \/ b \in Below(stack, 0)
      /\ a = b => a = NULL
      /\ Below(stack, 2) = Minus(Minus(Below(stack, 0), a), b)
  BY <1>1, TopTwo
<1>5. CASE Ends("semantic error") \/ Ends("crash")
  BY <1>5, EndsThreads
<1> HIDE DEF a, b, va, vb, new, g, d, f
<1>6. CASE \/ b # NULL /\ CanBranch(1) /\ (Reduce(2, "stmt", new, g) \/ Reduce(2, "stmt", new, d))
           \/ b = NULL /\ Reduce(2, "stmt", NULL, f)
  <2>1. a \in Below(stack, 0)
    BY <1>4, HasTree
  <2> QED
    BY <1>3, <1>4, <1>6, <2>1, ConditionThreads DEF g, d, f
<1> QED
  BY <1>2, <1>5, <1>6

LEMMA DoWhileThreads ==
    ASSUME TreeInv, TreeInv', Threads(heap, stack), DoWhile
    PROVE  Threads(heap', stack')
<1> DEFINE b == S(2, 1)
           a == S(2, 2)
           vb == Nth(stack, 2, 1)
           va == Nth(stack, 2, 2)
           new == New
           g == createASTBinaryNode(heap, new, "node", a, b)
           d == createASTBinaryNode(heap, new, "node", b, a)
           f == tree_free(heap, a)
<1>1. Sound(heap, stack) /\ On(<<{"body"}, Expression>>)
  BY DEF TreeInv, DoWhile
<1>2. \/ b # NULL /\ CanBranch(1) /\ Reduce(2, "stmt", new, d)
      \/ b = NULL /\ Reduce(2, "stmt", NULL, f)
  BY DEF DoWhile
<1>3. CanBranch(1) => new \in Nodes /\ heap[new].type = "free"
  BY CanBranchFree
<1>4. /\ 2 \in 0 .. Len(stack)
      /\ vb \in Values /\ vb.node = b /\ vb.nt \in {"body"} /\ Fits(heap, vb)
      /\ va \in Values /\ va.node = a /\ va.nt \in Expression /\ Fits(heap, va)
      /\ b = NULL \/ b \in Below(stack, 0)
      /\ a = NULL \/ a \in Below(stack, 0)
      /\ b = a => b = NULL
      /\ Below(stack, 2) = Minus(Minus(Below(stack, 0), b), a)
  BY <1>1, TopTwo
<1> HIDE DEF a, b, va, vb, new, g, d, f
<1>5. Below(stack, 2) = Minus(Minus(Below(stack, 0), a), b) /\ a \in Below(stack, 0)
  BY <1>4, MinusSwap, HasTree
<1> QED
  BY <1>2, <1>3, <1>4, <1>5, ConditionThreads DEF g, d, f

LEMMA IfElseThreads ==
    ASSUME TreeInv, TreeInv', Threads(heap, stack), IfElse
    PROVE  Threads(heap', stack')
<1> DEFINE a == S(3, 1)
           b == S(3, 2)
           c == S(3, 3)
           va == Nth(stack, 3, 1)
           vb == Nth(stack, 3, 2)
           vc == Nth(stack, 3, 3)
           new == New
           both == createASTTernaryNode(heap, new, "node", a, b, c)
           then == createASTBinaryNode(heap, new, "node", a, b)
           negated == createASTUnaryNode(heap, new, "node", a)
           if == malloc(negated)
           else == createASTBinaryNode(negated, if, "node", new, c)
<1>1. Sound(heap, stack) /\ On(<<Expression, {"body"}, {"body"}>>)
  BY DEF TreeInv, IfElse
<1>2. \/ b # NULL /\ c # NULL /\ CanBranch(1) /\ Reduce(3, "stmt", new, both)
      \/ b # NULL /\ c = NULL /\ CanBranch(1) /\ Reduce(3, "stmt", new, then)
      \/ c # NULL /\ CanBranch(2) /\ Reduce(3, "stmt", if, else)
      \/ Reduce(3, "stmt", NULL, heap)
  BY DEF IfElse
<1>3. CanBranch(1) \/ CanBranch(2) => new \in Nodes /\ heap[new].type = "free"
  BY CanBranchFree
<1>4. /\ 3 \in 0 .. Len(stack)
      /\ va \in Values /\ va.node = a /\ va.nt \in Expression /\ Fits(heap, va)
      /\ vb \in Values /\ vb.node = b /\ vb.nt \in {"body"} /\ Fits(heap, vb)
      /\ vc \in Values /\ vc.node = c /\ vc.nt \in {"body"} /\ Fits(heap, vc)
      /\ a = NULL \/ a \in Below(stack, 0)
      /\ b = NULL \/ b \in Below(stack, 0)
      /\ c = NULL \/ c \in Below(stack, 0)
      /\ (a = b => a = NULL) /\ (a = c => a = NULL) /\ (b = c => b = NULL)
      /\ Below(stack, 3) = Minus(Minus(Minus(Below(stack, 0), a), b), c)
  BY <1>1, TopThree
<1> HIDE DEF a, b, c, va, vb, vc, both, then, if, else
<1>5. /\ a \in Taken(stack, 3) /\ a \in Nodes /\ a \in Below(stack, 0)
      /\ b # NULL => b \in Taken(stack, 3) /\ b \in Nodes
      /\ c # NULL => c \in Taken(stack, 3) /\ c \in Nodes
  BY <1>4, HasTree, InvHeaps DEF Taken, Minus
<1>6. heap \in Heaps /\ "node" \in Types
  BY InvHeaps
<1>7. CASE b # NULL /\ c # NULL /\ CanBranch(1) /\ Reduce(3, "stmt", new, both)
  <2> HIDE DEF new
  <2> DEFINE R == {a, b, c}
             T == {new} \cup R
  <2>1. /\ new \in Nodes /\ heap[new].type = "free"
        /\ R \subseteq Taken(stack, 3)
        /\ new \in T /\ a \in T /\ b \in T /\ c \in T
    BY <1>3, <1>5, <1>7
  <2> HIDE DEF T
  <2>2. Undisturbed(heap, both, T)
    BY <1>5, <1>6, <1>7, <2>1, TernarySpares DEF both
  <2> HIDE DEF R
  <2>3. Undisturbed(heap, both, {new} \cup R)
    BY <2>2 DEF T
  <2> QED
    BY <1>4, <1>7, <2>1, <2>3, NodeThreads
<1>8. CASE b # NULL /\ c = NULL /\ CanBranch(1) /\ Reduce(3, "stmt", new, then)
  <2> HIDE DEF new
  <2> DEFINE R == {a, b}
             T == {new} \cup R
  <2>1. /\ new \in Nodes /\ heap[new].type = "free"
        /\ R \subseteq Taken(stack, 3)
        /\ new \in T /\ a \in T /\ b \in T
    BY <1>3, <1>5, <1>8
  <2> HIDE DEF T
  <2>2. Undisturbed(heap, then, T)
    BY <1>5, <1>6, <1>8, <2>1, BinarySpares DEF then
  <2> HIDE DEF R
  <2>3. Undisturbed(heap, then, {new} \cup R)
    BY <2>2 DEF T
  <2> QED
    BY <1>4, <1>8, <2>1, <2>3, NodeThreads
<1>9. CASE c # NULL /\ CanBranch(2) /\ Reduce(3, "stmt", if, else)
  <2>1. new \in Nodes /\ heap[new].type = "free"
    BY <1>3, <1>9
  <2>2. if \in Nodes /\ negated[if].type = "free"
    BY <1>5, <1>9, SecondFree DEF if
  <2>3. else = createASTBinaryNode(negated, if, "node", new, c)
    BY DEF else
  <2> HIDE DEF new
  <2>4. negated = createASTUnaryNode(heap, new, "node", a)
    OBVIOUS
  <2> HIDE DEF negated
  <2> DEFINE R == {new, if, a, c}
  <2>5. new \in R /\ if \in R /\ a \in R /\ c \in R
    OBVIOUS
  <2>6. if # new /\ heap[if].type = "free"
    <3>1. negated[new].type = "node" /\ Undisturbed(heap, negated, {new, a})
      BY <1>5, <1>6, <2>1, <2>4, UnarySpares
    <3>2. heap[a].type # "free"
      BY <1>5, InvHeaps DEF Whole, Wired
    <3>3. negated[a].type = heap[a].type
      <4>1. Apart(heap, negated, new, Minus(Below(stack, 0), a))
        BY <1>5, <1>6, <2>1, <2>4, InvHeaps, MadeUnary DEF Whole
      <4> QED
        BY <1>5, <2>1, <3>2, <4>1 DEF Apart
    <3> QED
      BY <2>2, <3>1, <3>2, <3>3 DEF Undisturbed
  <2> HIDE DEF R
  <2>7. Undisturbed(heap, negated, R) /\ negated \in Heaps
    BY <1>5, <1>6, <2>1, <2>4, <2>5, UnarySpares
  <2>8. Undisturbed(negated, else, R)
    BY <1>5, <1>6, <1>9, <2>1, <2>2, <2>3, <2>5, <2>7, BinarySpares
  <2>9. Undisturbed(heap, else, R \cup Free(else))
    BY <2>7, <2>8, UndisturbedTwice, SparesMore
  <2>10. R \subseteq Taken(stack, 3) \cup Free(heap)
    BY <1>5, <1>9, <2>1, <2>2, <2>6 DEF R, Free
  <2>11. if \in Nodes \cup {NULL}
    BY <2>2
  <2> QED
    BY <1>4, <1>9, <2>9, <2>10, <2>11, ThreadsPlain
<1>10. CASE Reduce(3, "stmt", NULL, heap)
  BY <1>4, <1>10, SameHeapThreads
<1> HIDE DEF new, negated
<1> QED
  BY <1>2, <1>7, <1>8, <1>9, <1>10

LEMMA ForeachThreads ==
    ASSUME TreeInv, TreeInv', Threads(heap, stack), Foreach
    PROVE  Threads(heap', stack')
<1> DEFINE a == S(3, 1)
           b == S(3, 2)
           c == S(3, 3)
           va == Nth(stack, 3, 1)
           vb == Nth(stack, 3, 2)
           vc == Nth(stack, 3, 3)
           new == New
           g == createASTTernaryNode(heap, new, "node", a, b, c)
           m == tree_free(heap, a)
           f == tree_free(m, b)
<1>1. Sound(heap, stack) /\ On(<<Expression, Expression, {"body"}>>)
  BY DEF TreeInv, Foreach
<1>2. \/ c # NULL /\ CanBranch(1) /\ Reduce(3, "stmt", new, g)
      \/ c = NULL /\ Reduce(3, "stmt", NULL, f)
  BY DEF Foreach
<1>3. CanBranch(1) => new \in Nodes /\ heap[new].type = "free"
  BY CanBranchFree
<1>4. /\ 3 \in 0 .. Len(stack)
      /\ va \in Values /\ va.node = a /\ va.nt \in Expression /\ Fits(heap, va)
      /\ vb \in Values /\ vb.node = b /\ vb.nt \in Expression /\ Fits(heap, vb)
      /\ vc \in Values /\ vc.node = c /\ vc.nt \in {"body"} /\ Fits(heap, vc)
      /\ a = NULL \/ a \in Below(stack, 0)
      /\ b = NULL \/ b \in Below(stack, 0)
      /\ c = NULL \/ c \in Below(stack, 0)
      /\ (a = b => a = NULL) /\ (a = c => a = NULL) /\ (b = c => b = NULL)
      /\ Below(stack, 3) = Minus(Minus(Minus(Below(stack, 0), a), b), c)
  BY <1>1, TopThree
<1> HIDE DEF a, b, c, va, vb, vc, new
<1>5. /\ a \in Taken(stack, 3) /\ a \in Nodes
      /\ b \in Taken(stack, 3) /\ b \in Nodes
      /\ c # NULL => c \in Taken(stack, 3) /\ c \in Nodes
  BY <1>4, HasTree, InvHeaps DEF Taken, Minus
<1>6. heap \in Heaps /\ "node" \in Types
  BY InvHeaps
<1>7. CASE c # NULL /\ CanBranch(1) /\ Reduce(3, "stmt", new, g)
  <2> DEFINE R == {a, b, c}
             T == {new} \cup R
  <2>1. /\ new \in Nodes /\ heap[new].type = "free"
        /\ R \subseteq Taken(stack, 3)
        /\ new \in T /\ a \in T /\ b \in T /\ c \in T
    BY <1>3, <1>5, <1>7
  <2> HIDE DEF T
  <2>2. Undisturbed(heap, g, T)
    BY <1>5, <1>6, <1>7, <2>1, TernarySpares
  <2> HIDE DEF R, g
  <2>3. Undisturbed(heap, g, {new} \cup R)
    BY <2>2 DEF T
  <2> QED
    BY <1>4, <1>7, <2>1, <2>3, NodeThreads
<1>8. CASE c = NULL /\ Reduce(3, "stmt", NULL, f)
  <2>1. m \in Heaps /\ \A n \in Nodes : m[n] = Comp("free") \/ m[n] = heap[n]
    <3>1. Comp("free") \in Records
      BY NullIsNone DEF Comp, Records
    <3> QED
      BY <1>6, <3>1 DEF tree_free, Heaps
  <2> HIDE DEF m
  <2>2. \A n \in Nodes : f[n] = Comp("free") \/ f[n] = m[n]
    BY DEF tree_free
  <2> HIDE DEF f
  <2>3. \A n \in Nodes : f[n] = Comp("free") => n \in Free(f)
    BY DEF Comp, Free
  <2>4. Undisturbed(heap, f, Free(f))
    BY <2>1, <2>2, <2>3 DEF Undisturbed
  <2> QED
    BY <1>4, <1>8, <2>4, FreedThreads
<1> HIDE DEF g, m, f
<1> QED
  BY <1>2, <1>7, <1>8

LEMMA ForThreads ==
    ASSUME TreeInv, TreeInv', Threads(heap, stack), For
    PROVE  Threads(heap', stack')
<1> DEFINE a == S(4, 1)
           b == S(4, 2)
           c == S(4, 3)
           d == S(4, 4)
           va == Nth(stack, 4, 1)
           vb == Nth(stack, 4, 2)
           vc == Nth(stack, 4, 3)
           vd == Nth(stack, 4, 4)
           new == New
           g == createASTQuaternaryNode(heap, new, "node", a, b, c, d)
<1>1. Sound(heap, stack) /\ On(<<Commands, Expression, Commands, {"body"}>>)
  BY DEF TreeInv, For
<1>2. \/ Ends("crash") \/ Ends("abort")
      \/ /\ a # NULL /\ b # NULL /\ c # NULL /\ d # NULL
         /\ CanBranch(1) /\ Reduce(4, "stmt", new, g)
  <2>1. 1 \in 1 .. 4 /\ 2 \in 1 .. 4 /\ 3 \in 1 .. 4 /\ 4 \in 1 .. 4
    OBVIOUS
  <2>2. NULL \notin {S(4, i) : i \in 1 .. 4} => a # NULL /\ b # NULL /\ c # NULL /\ d # NULL
    BY <2>1
  <2>3. \/ Ends("crash") \/ Ends("abort")
        \/ /\ NULL \notin {S(4, i) : i \in 1 .. 4}
           /\ CanBranch(1) /\ Reduce(4, "stmt", new, g)
    BY DEF For
  <2> HIDE DEF a, b, c, d, g, new
  <2> QED
    BY <2>2, <2>3
<1>3. CanBranch(1) => new \in Nodes /\ heap[new].type = "free"
  BY CanBranchFree
<1>4. /\ 4 \in 0 .. Len(stack)
      /\ va \in Values /\ va.node = a /\ va.nt \in Commands /\ Fits(heap, va)
      /\ vb \in Values /\ vb.node = b /\ vb.nt \in Expression /\ Fits(heap, vb)
      /\ vc \in Values /\ vc.node = c /\ vc.nt \in Commands /\ Fits(heap, vc)
      /\ vd \in Values /\ vd.node = d /\ vd.nt \in {"body"} /\ Fits(heap, vd)
      /\ a = NULL \/ a \in Below(stack, 0)
      /\ b = NULL \/ b \in Below(stack, 0)
      /\ c = NULL \/ c \in Below(stack, 0)
      /\ d = NULL \/ d \in Below(stack, 0)
      /\ (a = b => a = NULL) /\ (a = c => a = NULL) /\ (b = c => b = NULL)
      /\ (a = d => a = NULL) /\ (b = d => b = NULL) /\ (c = d => c = NULL)
      /\ Below(stack, 4) = Minus(Minus(Minus(Minus(Below(stack, 0), a), b), c), d)
  BY <1>1, TopFour
<1> HIDE DEF a, b, c, d, va, vb, vc, vd, new
<1>5. CASE Ends("crash") \/ Ends("abort")
  BY <1>5, EndsThreads
<1>6. CASE /\ a # NULL /\ b # NULL /\ c # NULL /\ d # NULL
           /\ CanBranch(1) /\ Reduce(4, "stmt", new, g)
  <2> DEFINE R == {a, b, c, d}
             T == {new} \cup R
  <2>1. /\ a \in Taken(stack, 4) /\ b \in Taken(stack, 4) /\ c \in Taken(stack, 4) /\ d \in Taken(stack, 4)
        /\ a \in Nodes /\ b \in Nodes /\ c \in Nodes /\ d \in Nodes
    BY <1>4, <1>6, InvHeaps DEF Taken, Minus
  <2>2. /\ new \in Nodes /\ heap[new].type = "free"
        /\ R \subseteq Taken(stack, 4)
        /\ new \in T /\ a \in T /\ b \in T /\ c \in T /\ d \in T
        /\ heap \in Heaps /\ "node" \in Types
    BY <1>3, <1>6, <2>1, InvHeaps
  <2> HIDE DEF T
  <2>3. Undisturbed(heap, g, T)
    BY <2>1, <2>2, QuaternarySpares
  <2> HIDE DEF R, g
  <2>4. Undisturbed(heap, g, {new} \cup R)
    BY <2>3 DEF T
  <2> QED
    BY <1>4, <1>6, <2>2, <2>4, NodeThreads
<1> HIDE DEF g
<1> QED
  BY <1>2, <1>5, <1>6
----------------------------------------------------------------------------
(* The reductions to a value with a thread: the calls *)

\* A call or a function of a chain is a thread of its own.
LEMMA NewThread ==
    ASSUME NEW g, NEW nt \in {"call", "linked"}, NEW n \in Nodes, NEW a \in Nodes,
           NEW v, v = Value(nt, n, <<a>>),
           g[n].type = "call", g[n].first = a,
           g[a].type = IF nt = "call" THEN "node" ELSE "piped"
    PROVE  Threaded(g, v)
<1> DEFINE c == <<n>>
           names == <<a>>
<1>1. /\ Len(names) = 1 /\ names[1] = a /\ c[1] = n
      /\ v.names = names /\ v.nt = nt /\ v.node = n
  BY DEF Value
<1> HIDE DEF c, names
<1> DEFINE k == Len(v.names)
<1>2. k = 1
  BY <1>1
<1> HIDE DEF k
<1>3. \A i \in 1 .. k : i = 1
  BY <1>2
<1>4. \A i \in 2 .. k : FALSE
  BY <1>2
<1>5. /\ k = 1 /\ v.names[1] = a
      /\ v.nt \in {"call", "pipe"} <=> nt = "call"
  BY <1>1, <1>2
<1>6. /\ k \in Nat \ {0}
      /\ v.nt \in {"call", "linked"} => k = 1
      /\ v.nt = "pipe" => k # 1
      /\ c[1] = c[1] /\ c[k] = v.node
  BY <1>1, <1>2
<1>7. \A i \in 1 .. k :
         /\ c[i] \in Nodes /\ c[i] \in Nodes
         /\ g[c[i]].type = "call" /\ g[c[i]].first = v.names[i]
         /\ g[v.names[i]].type = IF i = 1 /\ v.nt \in {"call", "pipe"} THEN "node" ELSE "piped"
  BY <1>1, <1>3, <1>5
<1>8. Thread(g, v, c, c)
  BY <1>4, <1>6, <1>7 DEF Thread, k
<1> QED
  BY <1>8 DEF Threaded

LEMMA OneNameThreads ==
    ASSUME TreeInv, TreeInv', Threads(heap, stack), CallWithoutArguments \/ PipedFunction
    PROVE  Threads(heap', stack')
<1> DEFINE a == S(1, 1)
           va == Nth(stack, 1, 1)
           new == New
           g == createASTUnaryNode(heap, new, "call", a)
<1>1. PICK name \in {"name", "piped"}, nt \in {"call", "linked"} :
         /\ name = "name" <=> nt = "call"
         /\ On(<<{name}>>) /\ CanGrow(1)
         /\ Named(1, nt, g, <<a>>)
  BY DEF CallWithoutArguments, PipedFunction
<1>2. new \in Nodes /\ heap[new].type = "free"
  BY <1>1, CanGrowFree
<1>3. Sound(heap, stack)
  BY DEF TreeInv
<1>4. /\ 1 \in 0 .. Len(stack)
      /\ va \in Values /\ va.node = a /\ va.nt \in {name} /\ Fits(heap, va)
      /\ a = NULL \/ a \in Below(stack, 0)
      /\ Below(stack, 1) = Minus(Below(stack, 0), a)
  BY <1>1, <1>3, TopOne
<1> DEFINE v == Value(nt, new, <<a>>)
<1>5. heap' = g /\ Replace(1, v)
  BY <1>1 DEF Named
<1> HIDE DEF a, va, new
<1>6. /\ a # NULL /\ a \in Nodes /\ a \in Below(stack, 0) /\ heap[a].type # "free"
      /\ heap[a].type = IF nt = "call" THEN "node" ELSE "piped"
  BY <1>1, <1>3, <1>4 DEF Fits, Sound, Whole, Wired
<1>7. v \in Values
  BY <1>2, <1>6, NamedValue DEF Nonterminals, Expression, Linked
<1>8. Wired(heap, Below(stack, 0)) /\ heap \in Heaps /\ "call" \in Types
  BY InvHeaps DEF Whole
<1>9. Undisturbed(heap, g, {new} \cup {a})
  BY <1>2, <1>6, <1>8, UnarySpares
<1>10. Apart(heap, g, new, Minus(Below(stack, 0), a)) /\ MadeOf(g, new, "call", a, a, 1, Siblings(heap, a))
  BY <1>2, <1>6, <1>8, MadeUnary
<1>11. g[new].type = "call" /\ g[new].first = a
  BY <1>10 DEF MadeOf
<1>12. g[a].type = heap[a].type
  <2>1. a \in Nodes \ {new}
    BY <1>2, <1>6
  <2> QED
    BY <1>10, <2>1 DEF Apart
<1> HIDE DEF g
<1>13. Threaded(g, v)
  BY <1>2, <1>6, <1>11, <1>12, NewThread
<1> DEFINE R == {new} \cup {a}
<1>14. R \subseteq Taken(stack, 1) \cup Free(heap)
  BY <1>2, <1>4, <1>6, TakenOne, FreeIsFree
<1> HIDE DEF R, v
<1>15. Undisturbed(heap, g, R \cup Free(g))
  BY <1>9, SparesMore DEF R
<1> QED
  BY <1>4, <1>5, <1>7, <1>13, <1>14, <1>15, ThreadsReduced

LEMMA TwoNamesThreads ==
    ASSUME TreeInv, TreeInv', Threads(heap, stack), Call \/ PipedFunctionWithArguments
    PROVE  Threads(heap', stack')
<1> DEFINE a == S(2, 1)
           b == S(2, 2)
           va == Nth(stack, 2, 1)
           vb == Nth(stack, 2, 2)
           new == New
           m == createASTBinaryNode(heap, new, "call", a, b)
           u == update_childs(m, new)
<1>1. PICK name \in {"name", "piped"}, nt \in {"call", "linked"} :
         /\ name = "name" <=> nt = "call"
         /\ On(<<{name}, {"args"}>>) /\ CanGrow(1)
         /\ IF nt = "call" THEN Named(2, nt, u, <<a>>) ELSE Named(2, nt, m, <<a>>)
  BY DEF Call, PipedFunctionWithArguments
<1>2. new \in Nodes /\ heap[new].type = "free"
  BY <1>1, CanGrowFree
<1>3. Sound(heap, stack)
  BY DEF TreeInv
<1>4. /\ 2 \in 0 .. Len(stack)
      /\ va \in Values /\ va.node = a /\ va.nt \in {name} /\ Fits(heap, va)
      /\ vb \in Values /\ vb.node = b /\ vb.nt \in {"args"} /\ Fits(heap, vb)
      /\ a = NULL \/ a \in Below(stack, 0)
      /\ b = NULL \/ b \in Below(stack, 0)
      /\ a = b => a = NULL
      /\ Below(stack, 2) = Minus(Minus(Below(stack, 0), a), b)
  BY <1>1, <1>3, TopTwo
<1> DEFINE v == Value(nt, new, <<a>>)
           g == IF nt = "call" THEN u ELSE m
<1>5. heap' = g /\ Replace(2, v)
  BY <1>1 DEF Named
<1> HIDE DEF a, b, va, vb, new
<1>6. /\ a # NULL /\ heap[a].next = NULL /\ a \in Nodes /\ a \in Below(stack, 0)
      /\ heap[a].type # "free"
      /\ heap[a].type = IF nt = "call" THEN "node" ELSE "piped"
      /\ b # NULL /\ b \in Nodes /\ b \in Below(stack, 0) /\ a # b
  BY <1>1, <1>3, <1>4 DEF Fits, Sound, Whole, Wired
<1>7. v \in Values
  BY <1>2, <1>6, NamedValue DEF Nonterminals, Expression, Linked
<1>8. Wired(heap, Below(stack, 0)) /\ heap \in Heaps /\ "call" \in Types
  BY InvHeaps DEF Whole
<1> DEFINE R == {new, a, b}
           rest == Minus(Minus(Below(stack, 0), a), b)
<1>9. R \subseteq Taken(stack, 2) \cup Free(heap) /\ new \in R /\ a \in R /\ b \in R
  BY <1>2, <1>4, <1>6, TakenTwo, FreeIsFree
<1> HIDE DEF R
<1>10. Undisturbed(heap, m, R) /\ m \in Heaps
  BY <1>2, <1>6, <1>8, <1>9, BinarySpares
<1>11. /\ Wired(m, Plus(rest, new))
       /\ m[new].type = "call" /\ m[new].first = a
       /\ Len(Children(m, new)) \in Nat /\ Len(Children(m, new)) >= 2
       /\ m[a].type = heap[a].type
  BY <1>2, <1>6, <1>8, CallOfTwo
<1> HIDE DEF m, rest
<1>12. Children(m, new) # << >>
  BY <1>2, <1>10, <1>11, ChildrenFacts
<1>13. \A n \in Nodes : u[n].type = m[n].type /\ u[n].first = m[n].first
  BY <1>2, <1>10, <1>11, <1>12, ChildsUpdated
<1>14. Undisturbed(m, u, R)
  BY <1>2, <1>9, <1>10, UpdateSpares
<1> HIDE DEF u
<1>15. Undisturbed(heap, g, R)
  <2>1. Undisturbed(heap, u, R)
    BY <1>10, <1>14, UndisturbedTwice
  <2> QED
    BY <1>10, <2>1
<1>16. g[new].type = "call" /\ g[new].first = a /\ g[a].type = heap[a].type
  BY <1>2, <1>6, <1>11, <1>13
<1> HIDE DEF g
<1>17. Threaded(g, v)
  BY <1>2, <1>6, <1>16, NewThread
<1> HIDE DEF v
<1>18. Undisturbed(heap, g, R \cup Free(g))
  BY <1>15, SparesMore
<1> QED
  BY <1>4, <1>5, <1>7, <1>9, <1>17, <1>18, ThreadsReduced
----------------------------------------------------------------------------
(* Threads of different values have no node in common *)

\* What the wiring of the heap says of the nodes of a thread.
LEMMA ThreadWired ==
    ASSUME NEW h, NEW roots, Whole(h, roots), NEW v \in Values, v.node \in roots,
           NEW c, NEW q, Thread(h, v, c, q)
    PROVE  /\ Len(v.names) \in Nat \ {0}
           /\ \A i \in 1 .. Len(v.names) :
                 /\ q[i] \in Nodes /\ c[i] \in Nodes /\ v.names[i] \in Nodes
                 /\ h[q[i]].prev = IF i = Len(v.names) THEN NULL ELSE v.names[i + 1]
                 /\ \A m \in Nodes : h[m].first # q[i]
           /\ h[v.node].prev = NULL
<1> DEFINE n == Len(v.names)
<1>1. n \in Nat \ {0} /\ \A i \in 1 .. n : v.names[i] \in Nodes /\ c[i] \in Nodes /\ q[i] \in Nodes
  BY DEF Values, Thread
<1>2. q[n] = v.node
  BY DEF Thread
<1>3. \A i \in 2 .. n : h[v.names[i]].next = q[i - 1]
  BY DEF Thread
<1>4. /\ h[v.node].prev = NULL
      /\ \A m \in Nodes : h[m].first # v.node
      /\ \A m \in Nodes : h[m].next # NULL => h[h[m].next].prev = m
      /\ \A m \in Nodes : h[m].first # NULL => h[h[m].first].prev = NULL
  BY DEF Whole, Wired
<1> HIDE DEF n
<1>5. ASSUME NEW i \in 1 .. n
      PROVE  /\ h[q[i]].prev = IF i = n THEN NULL ELSE v.names[i + 1]
             /\ \A m \in Nodes : h[m].first # q[i]
  <2>1. CASE i = n
    BY <1>2, <1>4, <2>1
  <2>2. CASE i # n
    <3>1. i + 1 \in 2 .. n /\ i + 1 \in 1 .. n /\ (i + 1) - 1 = i
      BY <1>1, <2>2
    <3>2. h[v.names[i + 1]].next = q[i] /\ v.names[i + 1] \in Nodes /\ q[i] \in Nodes
      BY <1>1, <1>3, <3>1
    <3>3. h[q[i]].prev = v.names[i + 1] /\ h[q[i]].prev # NULL /\ q[i] # NULL
      BY <1>4, <3>2, NullIsNone
    <3>4. \A m \in Nodes : h[m].first # q[i]
      BY <1>4, <3>3
    <3> QED
      BY <2>2, <3>3, <3>4
  <2> QED
    BY <2>1, <2>2
<1> QED
  BY <1>1, <1>4, <1>5 DEF n

\* Two threads that meet are one, from there up.
LEMMA Meet ==
    ASSUME NEW h, NEW roots, Whole(h, roots),
           NEW v \in Values, v.node \in roots, NEW c, NEW q, Thread(h, v, c, q),
           NEW w \in Values, w.node \in roots, NEW d, NEW r, Thread(h, w, d, r),
           NEW i \in 1 .. Len(v.names), NEW j \in 1 .. Len(w.names), q[i] = r[j]
    PROVE  v.node = w.node /\ Len(v.names) - i = Len(w.names) - j
<1> DEFINE n == Len(v.names)
           m == Len(w.names)
           Ks == {k \in Nat : \A a \in 1 .. n, b \in 1 .. m :
                                (n - a = k /\ q[a] = r[b]) => v.node = w.node /\ m - b = k}
<1>1. /\ n \in Nat \ {0}
      /\ \A a \in 1 .. n : /\ q[a] \in Nodes /\ c[a] \in Nodes /\ v.names[a] \in Nodes
                           /\ h[q[a]].prev = IF a = n THEN NULL ELSE v.names[a + 1]
  BY ThreadWired
<1>2. /\ m \in Nat \ {0}
      /\ \A b \in 1 .. m : /\ r[b] \in Nodes /\ d[b] \in Nodes /\ w.names[b] \in Nodes
                           /\ h[r[b]].prev = IF b = m THEN NULL ELSE w.names[b + 1]
  BY ThreadWired
<1>3. q[n] = v.node /\ \A a \in 1 .. n : h[c[a]].first = v.names[a]
  BY DEF Thread
<1>4. \A a \in 2 .. n : h[q[a]].first = c[a]
  BY DEF Thread
<1>5. r[m] = w.node /\ \A b \in 1 .. m : h[d[b]].first = w.names[b]
  BY DEF Thread
<1>6. \A b \in 2 .. m : h[r[b]].first = d[b]
  BY DEF Thread
<1>7. \A a, b \in Nodes : h[a].first = h[b].first => a = b \/ h[a].first = NULL
  BY DEF Whole, Wired
<1> HIDE DEF n, m
<1>8. 0 \in Ks
  <2> SUFFICES ASSUME NEW a \in 1 .. n, NEW b \in 1 .. m, n - a = 0, q[a] = r[b]
               PROVE  v.node = w.node /\ m - b = 0
    OBVIOUS
  <2>1. a = n
    BY <1>1
  <2>2. h[r[b]].prev = NULL
    BY <1>1, <2>1
  <2>3. CASE b # m
    <3>1. b + 1 \in 1 .. m
      BY <1>2, <2>3
    <3>2. h[r[b]].prev = w.names[b + 1] /\ w.names[b + 1] \in Nodes
      BY <1>2, <2>3, <3>1
    <3> QED
      BY <2>2, <3>2, NullIsNone
  <2>4. CASE b = m
    BY <1>2, <1>3, <1>5, <2>1, <2>4
  <2> QED
    BY <2>3, <2>4
<1>9. ASSUME NEW k \in Nat, k \in Ks PROVE k + 1 \in Ks
  <2> SUFFICES ASSUME NEW a \in 1 .. n, NEW b \in 1 .. m, n - a = k + 1, q[a] = r[b]
               PROVE  v.node = w.node /\ m - b = k + 1
    OBVIOUS
  <2>1. a # n /\ a + 1 \in 1 .. n /\ a + 1 \in 2 .. n /\ n - (a + 1) = k
    BY <1>1
  <2>2. h[q[a]].prev = v.names[a + 1] /\ v.names[a + 1] \in Nodes
    BY <1>1, <2>1
  <2>3. b # m
    BY <1>2, <2>2, NullIsNone
  <2>4. b + 1 \in 1 .. m /\ b + 1 \in 2 .. m
    BY <1>2, <2>3
  <2>5. w.names[b + 1] = v.names[a + 1]
    BY <1>2, <2>2, <2>3
  <2>6. /\ c[a + 1] \in Nodes /\ h[c[a + 1]].first = v.names[a + 1]
        /\ d[b + 1] \in Nodes /\ h[d[b + 1]].first = w.names[b + 1]
    BY <1>1, <1>2, <1>3, <1>5, <2>1, <2>4
  <2>7. c[a + 1] = d[b + 1]
    BY <1>7, <2>2, <2>5, <2>6, NullIsNone
  <2>8. /\ q[a + 1] \in Nodes /\ h[q[a + 1]].first = c[a + 1]
        /\ r[b + 1] \in Nodes /\ h[r[b + 1]].first = d[b + 1]
    BY <1>1, <1>2, <1>4, <1>6, <2>1, <2>4
  <2>9. q[a + 1] = r[b + 1]
    BY <1>7, <2>6, <2>7, <2>8, NullIsNone
  <2>10. v.node = w.node /\ m - (b + 1) = k
    BY <1>9, <2>1, <2>4, <2>9
  <2>11. m - b = k + 1
    BY <1>2, <2>10
  <2> QED
    BY <2>10, <2>11
<1> HIDE DEF Ks
<1>10. Nat \subseteq Ks
  BY <1>8, <1>9, SetInduction
<1>11. n - i \in Nat
  BY <1>1 DEF n
<1>12. n - i \in Ks
  BY <1>10, <1>11
<1>13. v.node = w.node /\ m - j = n - i
  <2>1. i \in 1 .. n /\ j \in 1 .. m
    BY DEF n, m
  <2> QED
    BY <1>12, <2>1 DEF Ks
<1> QED
  BY <1>13 DEF n, m

\* A thread has no part in the first call of a chain, nor in its name.
LEMMA ThreadsApart ==
    ASSUME NEW h, NEW roots, Whole(h, roots),
           NEW v \in Values, v.node \in roots, NEW c, NEW q, Thread(h, v, c, q), v.nt \in Linked,
           NEW w \in Values, w.node \in roots, NEW d, NEW r, Thread(h, w, d, r),
           v.node # w.node
    PROVE  Clear(w, d, r, {q[1], v.names[1]})
<1>1. /\ 1 \in 1 .. Len(v.names) /\ c[1] = q[1] /\ q[1] \in Nodes
      /\ h[q[1]].type = "call" /\ h[q[1]].first = v.names[1] /\ h[v.names[1]].type = "piped"
      /\ \A m \in Nodes : h[m].first # q[1]
  <2>1. 1 \in 1 .. Len(v.names) /\ q[1] \in Nodes /\ \A m \in Nodes : h[m].first # q[1]
    BY ThreadWired
  <2>2. c[1] = q[1]
    BY DEF Thread
  <2>3. v.nt \notin {"call", "pipe"}
    BY DEF Linked
  <2>4. h[c[1]].type = "call" /\ h[c[1]].first = v.names[1] /\ h[v.names[1]].type = "piped"
    BY <2>1, <2>3 DEF Thread
  <2> QED
    BY <2>1, <2>2, <2>4
<1>2. v.names[1] \in Nodes
  BY <1>1 DEF Values
<1> SUFFICES ASSUME NEW j \in 1 .. Len(w.names)
             PROVE  /\ d[j] \notin {q[1], v.names[1]} /\ r[j] \notin {q[1], v.names[1]}
                    /\ w.names[j] \notin {q[1], v.names[1]}
  BY DEF Clear
<1>3. /\ r[j] \in Nodes /\ d[j] \in Nodes /\ w.names[j] \in Nodes
      /\ h[d[j]].type = "call" /\ h[d[j]].first = w.names[j]
  <2>1. r[j] \in Nodes /\ d[j] \in Nodes /\ w.names[j] \in Nodes
    BY ThreadWired
  <2>2. h[d[j]].type = "call" /\ h[d[j]].first = w.names[j]
    BY DEF Thread
  <2> QED
    BY <2>1, <2>2
<1>4. r[j] # q[1]
  BY <1>1, Meet
<1>5. d[j] # q[1] /\ r[j] # v.names[1]
  <2>1. CASE j = 1
    <3>1. d[1] = r[1]
      BY DEF Thread
    <3> QED
      BY <1>1, <1>3, <1>4, <2>1, <3>1
  <2>2. CASE j # 1
    <3>1. j \in 2 .. Len(w.names)
      BY <2>2, ThreadWired
    <3>2. h[r[j]].first = d[j] /\ h[r[j]].type = "pipe"
      BY <3>1 DEF Thread
    <3> QED
      BY <1>1, <1>3, <3>2
  <2> QED
    BY <2>1, <2>2
<1>6. d[j] # v.names[1] /\ w.names[j] # q[1]
  BY <1>1, <1>3
<1>7. w.names[j] # v.names[1]
  <2>1. \A a, b \in Nodes : h[a].first = h[b].first => a = b \/ h[a].first = NULL
    BY DEF Whole, Wired
  <2> QED
    BY <1>1, <1>2, <1>3, <1>5, <2>1, NullIsNone
<1> QED
  BY <1>4, <1>5, <1>6, <1>7
----------------------------------------------------------------------------
(* A chain *)

\* A thread with one more function.
LEMMA ExtendThread ==
    ASSUME NEW g, NEW vp \in Values, vp.nt \in Linked, NEW c, NEW q, Thread(g, vp, c, q),
           NEW v \in Values, v.nt = "chain", NEW x \in Nodes, NEW one, one = <<x>>,
           v.names = vp.names \o one,
           NEW f \in Nodes, g[f].type = "call", g[f].first = x, g[x].type = "piped",
           g[x].next = vp.node,
           v.node \in Nodes, g[v.node].type = "pipe", g[v.node].first = f
    PROVE  Threaded(g, v)
<1> DEFINE n == Len(vp.names)
           c1 == [i \in Nat |-> IF i = n + 1 THEN f ELSE c[i]]
           q1 == [i \in Nat |-> IF i = n + 1 THEN v.node ELSE q[i]]
           k == Len(v.names)
<1>1. n \in Nat \ {0} /\ \A i \in 1 .. n : c[i] \in Nodes /\ q[i] \in Nodes
  BY DEF Thread
<1>2. vp.names \in Seq(Nodes) /\ one \in Seq(Nodes) /\ Len(one) = 1 /\ one[1] = x
  BY DEF Values
<1>3. /\ k = n + 1 /\ v.names[n + 1] = x
      /\ \A i \in 1 .. n : v.names[i] = vp.names[i]
  BY <1>2, Joined
<1>4. \A i \in 1 .. n :
         /\ g[c[i]].type = "call" /\ g[c[i]].first = vp.names[i]
         /\ g[vp.names[i]].type = "piped"
  BY DEF Thread, Linked
<1>5. q[1] = c[1] /\ q[n] = vp.node
  BY DEF Thread
<1>6. \A i \in 2 .. n :
         /\ g[q[i]].type = "pipe" /\ g[q[i]].first = c[i]
         /\ g[vp.names[i]].next = q[i - 1]
  BY DEF Thread
<1> HIDE DEF n, k
<1>7. /\ \A i \in 1 .. n : c1[i] = c[i] /\ q1[i] = q[i]
      /\ c1[n + 1] = f /\ q1[n + 1] = v.node
  BY <1>1
<1> HIDE DEF c1, q1
<1>8. v.nt \notin {"call", "linked", "pipe"} /\ k \in Nat \ {0}
  BY <1>1, <1>3
<1>9. ASSUME NEW i \in 1 .. k
      PROVE  /\ c1[i] \in Nodes /\ q1[i] \in Nodes
             /\ g[c1[i]].type = "call" /\ g[c1[i]].first = v.names[i]
             /\ g[v.names[i]].type = "piped"
  <2>1. CASE i = n + 1
    BY <1>3, <1>7, <2>1
  <2>2. CASE i # n + 1
    <3>1. i \in 1 .. n
      BY <1>1, <1>3, <2>2
    <3>2. c1[i] = c[i] /\ q1[i] = q[i] /\ v.names[i] = vp.names[i]
      BY <1>3, <1>7, <3>1
    <3>3. c[i] \in Nodes /\ q[i] \in Nodes
      BY <1>1, <3>1
    <3> QED
      BY ZenonT(40), <1>4, <3>1, <3>2, <3>3
  <2> QED
    BY <2>1, <2>2
<1>10. ASSUME NEW i \in 2 .. k
       PROVE  /\ g[q1[i]].type = "pipe" /\ g[q1[i]].first = c1[i]
              /\ g[v.names[i]].next = q1[i - 1]
  <2>1. CASE i = n + 1
    <3>1. i - 1 = n /\ n \in 1 .. n
      BY <1>1, <2>1
    <3>2. q1[i - 1] = vp.node
      BY <1>5, <1>7, <3>1
    <3> QED
      BY <1>3, <1>7, <2>1, <3>2
  <2>2. CASE i # n + 1
    <3>1. i \in 1 .. n /\ i \in 2 .. n /\ i - 1 \in 1 .. n
      BY <1>1, <1>3, <2>2
    <3>2. c1[i] = c[i] /\ q1[i] = q[i] /\ q1[i - 1] = q[i - 1] /\ v.names[i] = vp.names[i]
      BY <1>3, <1>7, <3>1
    <3> QED
      BY ZenonT(40), <1>6, <3>1, <3>2
  <2> QED
    BY <2>1, <2>2
<1>11. q1[1] = c1[1] /\ q1[k] = v.node
  <2>1. 1 \in 1 .. n
    BY <1>1
  <2> QED
    BY <1>3, <1>5, <1>7, <2>1
<1>12. Thread(g, v, c1, q1)
  BY <1>8, <1>9, <1>10, <1>11 DEF Thread, k
<1> QED
  BY <1>12 DEF Threaded

\* What chaining makes of the heap: f takes p behind its name x, below the pipe n.
LEMMA ChainSpares ==
    ASSUME NEW h, NEW roots, Whole(h, roots), NEW n \in Nodes, h[n].type = "free",
           NEW p \in roots, h[p].next = NULL, h[p].type \in {"call", "pipe"},
           NEW f \in roots, h[f].type = "call", NEW x \in Nodes, h[f].first = x, f # p,
           NEW m, m = tree_insert_node_as_second_child(h, f, p),
           NEW g, g = createASTUnaryNode(m, n, "pipe", f),
           NEW R, n \in R, f \in R, x \in R
    PROVE  /\ Undisturbed(h, g, R)
           /\ g[n].type = "pipe" /\ g[n].first = f
           /\ g[f].type = "call" /\ g[f].first = x
           /\ g[x].type = h[x].type /\ g[x].next = p
<1>1. /\ h \in Heaps /\ Wired(h, roots) /\ roots \subseteq Nodes
      /\ \A i \in Nodes : Kept(h, i)
      /\ \A i \in Nodes : Shaped(h, i) \/ (h[i].type = "pipe" /\ h[i].first = f)
  BY DEF Whole, Wired
<1>2. f \in Nodes /\ p \in Nodes /\ x # NULL /\ h[x].type # "free" /\ h[f].type # "free"
      /\ f # n /\ x # n /\ "pipe" \in Types
  BY <1>1, NullIsNone DEF Wired, Types
<1> DEFINE rest == Minus(roots, p)
<1>3. /\ Whole(m, rest)
      /\ \A i \in Nodes : m[i].type = h[i].type /\ m[i].first = h[i].first
      /\ m[x].next = p
      /\ \A i \in Nodes \ {x, p} : m[i].next = h[i].next
  <2>1. h[f].first # NULL
    BY <1>2
  <2>2. Whole(m, rest)
    BY <1>1, <1>2, <2>1, SecondWhole
  <2>3. Children(m, f) = <<h[f].first, p>> \o Tail(Children(h, f))
    BY <1>1, <1>2, <2>1, SecondWhole
  <2>4. \A i \in Nodes : m[i].type = h[i].type /\ m[i].first = h[i].first
    BY <1>1, <1>2, <2>1, <2>3, SecondWhole
  <2>5. m[h[f].first].next = p
    BY <1>1, <1>2, <2>1, <2>3, SecondWhole
  <2>6. \A i \in Nodes \ {h[f].first, p} : m[i].next = h[i].next
    BY <1>1, <1>2, <2>1, <2>3, SecondWhole
  <2> HIDE DEF rest
  <2> QED
    BY <2>2, <2>4, <2>5, <2>6
<1>4. f \in rest
  BY DEF Minus
<1> HIDE DEF rest
<1>5. Undisturbed(h, m, R)
  BY <1>3 DEF Undisturbed
<1>6. m \in Heaps /\ Wired(m, rest) /\ m[n].type = "free"
  BY <1>3 DEF Whole
<1>7. Undisturbed(m, g, R)
  BY <1>2, <1>6, UnarySpares
<1>8. Apart(m, g, n, Minus(rest, f)) /\ MadeOf(g, n, "pipe", f, f, 1, Siblings(m, f))
  BY <1>2, <1>4, <1>6, MadeUnary
<1>9. g[n].type = "pipe" /\ g[n].first = f
  BY <1>8 DEF MadeOf
<1>10. /\ g[f].type = m[f].type /\ g[f].first = m[f].first
       /\ g[x].type = m[x].type /\ g[x].next = m[x].next
  <2>1. f \in Nodes \ {n} /\ x \in Nodes \ {n} /\ m[x].next # NULL
    BY <1>2, <1>3, NullIsNone
  <2> QED
    BY <1>8, <2>1 DEF Apart
<1>11. Undisturbed(h, g, R)
  BY <1>5, <1>7, UndisturbedTwice
<1> QED
  BY <1>2, <1>3, <1>9, <1>10, <1>11

LEMMA ChainThreads ==
    ASSUME TreeInv, TreeInv', Threads(heap, stack), Chain
    PROVE  Threads(heap', stack')
<1> DEFINE p == S(2, 1)
           f == S(2, 2)
           vp == Nth(stack, 2, 1)
           vf == Nth(stack, 2, 2)
           new == New
           m == tree_insert_node_as_second_child(heap, f, p)
           g == createASTUnaryNode(m, new, "pipe", f)
           names == vp.names \o vf.names
           v == Value("chain", new, names)
           roots == Below(stack, 0)
<1>1. Sound(heap, stack) /\ On(<<Linked, {"linked"}>>) /\ CanGrow(1)
  BY DEF TreeInv, Chain
<1>2. heap' = g /\ Replace(2, v)
  BY DEF Chain, Named, NamesOf, Nth
<1>3. new \in Nodes /\ heap[new].type = "free"
  BY <1>1, CanGrowFree
<1>4. /\ 2 \in 0 .. Len(stack)
      /\ vp \in Values /\ vp.node = p /\ vp.nt \in Linked /\ Fits(heap, vp)
      /\ vf \in Values /\ vf.node = f /\ vf.nt \in {"linked"} /\ Fits(heap, vf)
      /\ p = NULL \/ p \in roots
      /\ f = NULL \/ f \in roots
      /\ p = f => p = NULL
      /\ Below(stack, 2) = Minus(Minus(roots, p), f)
  BY <1>1, TopTwo
<1>5. Threaded(heap, vp) /\ Threaded(heap, vf)
  <2>1. Len(stack) - 2 + 1 \in 1 .. Len(stack) /\ Len(stack) - 2 + 2 \in 1 .. Len(stack)
    BY <1>1, <1>4 DEF Sound, Stacked
  <2>2. vp = stack[Len(stack) - 2 + 1] /\ vf = stack[Len(stack) - 2 + 2]
    BY DEF Nth
  <2>3. vp.nt \in Spun /\ vf.nt \in Spun
    BY <1>4 DEF Spun, Linked
  <2> HIDE DEF vp, vf
  <2> QED
    BY <2>1, <2>2, <2>3 DEF Threads
<1> HIDE DEF p, f, vp, vf, new, roots
<1>6. p # NULL /\ heap[p].next = NULL /\ heap[p].type \in {"call", "pipe"} /\ p \in roots
  BY <1>4, LinkedTree
<1>7. f # NULL /\ heap[f].type = "call" /\ f \in roots /\ f # p
  BY <1>4, <1>6 DEF Fits, Piped
<1>8. v \in Values /\ v.node = new /\ v.nt = "chain" /\ v.names = names
  <2>1. vp.names \in Seq(Nodes) /\ vf.names \in Seq(Nodes)
    BY <1>4 DEF Values
  <2>2. names \in Seq(Nodes)
    BY <2>1, Joined
  <2> HIDE DEF names
  <2> QED
    BY <1>3, <2>2 DEF Value, Values, Nonterminals, Linked
<1>9. PICK cp, qp : Thread(heap, vp, cp, qp)
  BY <1>5 DEF Threaded
<1>10. PICK cf, qf : Thread(heap, vf, cf, qf)
  BY <1>5 DEF Threaded
<1> DEFINE x == vf.names[1]
           one == <<x>>
<1>11. /\ qf[1] = f /\ heap[f].first = x /\ heap[x].type = "piped" /\ x \in Nodes
       /\ vf.names = one
  <2>1. Len(vf.names) = 1 /\ vf.names \in Seq(Nodes)
    BY <1>4, <1>10 DEF Thread, Values
  <2>2. x \in Nodes /\ vf.names = one
    BY <2>1
  <2>3. vf.nt \notin {"call", "pipe"} /\ 1 \in 1 .. Len(vf.names)
    BY <1>4, <2>1
  <2>4. qf[1] = cf[1] /\ qf[Len(vf.names)] = vf.node
    BY <1>10 DEF Thread
  <2>5. heap[cf[1]].first = x /\ heap[x].type = "piped"
    BY <1>10, <2>3 DEF Thread
  <2> HIDE DEF x
  <2> QED
    BY <1>4, <2>1, <2>2, <2>4, <2>5
<1> HIDE DEF v, names, x, one
<1>12. Whole(heap, roots)
  BY InvHeaps DEF roots
<1> DEFINE R == {new, f, x}
<1>13. new \in R /\ f \in R /\ x \in R
  OBVIOUS
<1> HIDE DEF R
<1>14. /\ Undisturbed(heap, g, R)
       /\ g[new].type = "pipe" /\ g[new].first = f
       /\ g[f].type = "call" /\ g[f].first = x
       /\ g[x].type = heap[x].type /\ g[x].next = p
  BY <1>3, <1>6, <1>7, <1>11, <1>12, <1>13, ChainSpares
<1> HIDE DEF g
<1>15. ASSUME NEW w \in Values, w.node \in roots, w.node # f, NEW d, NEW r, Thread(heap, w, d, r)
       PROVE  Clear(w, d, r, R)
  <2>1. vf.nt \in Linked /\ vf.node \in roots /\ vf.node # w.node
    BY <1>4, <1>7, <1>15 DEF Linked
  <2>2. Clear(w, d, r, {qf[1], vf.names[1]})
    BY <1>4, <1>10, <1>12, <1>15, <2>1, ThreadsApart
  <2>3. Clear(w, d, r, Free(heap))
    BY <1>15, ThreadIsUsed
  <2>4. R \subseteq {qf[1], vf.names[1]} \cup Free(heap)
    BY <1>3, <1>11, FreeIsFree DEF R, x
  <2> QED
    BY <2>2, <2>3, <2>4 DEF Clear
<1>16. Thread(g, vp, cp, qp)
  <2>1. Clear(vp, cp, qp, R)
    BY <1>4, <1>6, <1>7, <1>9, <1>15
  <2> QED
    BY <1>4, <1>9, <1>14, <2>1, ThreadStays
<1>17. Threaded(g, v)
  <2>1. v.names = vp.names \o one
    BY <1>8, <1>11 DEF names
  <2>2. f \in Nodes
    BY <1>7, InvHeaps DEF roots
  <2> QED
    BY <1>3, <1>4, <1>8, <1>11, <1>14, <1>16, <2>1, <2>2, ExtendThread DEF one
<1>18. \A i \in 1 .. Len(stack) - 2 : \A c, q :
          stack[i].nt \in Spun /\ Thread(heap, stack[i], c, q) => Clear(stack[i], c, q, R)
  <2> SUFFICES ASSUME NEW i \in 1 .. Len(stack) - 2, NEW c, NEW q, Thread(heap, stack[i], c, q)
               PROVE  Clear(stack[i], c, q, R)
    OBVIOUS
  <2>1. stack[i] \in Values
    BY <1>1, <1>4 DEF Sound, Stacked
  <2>2. stack[i].node \in Nodes
    BY DEF Thread
  <2>3. stack[i].node \in Below(stack, 2)
    BY <2>2, NullIsNone DEF Below
  <2>4. stack[i].node \in roots /\ stack[i].node # f
    BY <1>4, <2>3 DEF Minus
  <2> QED
    BY <1>15, <2>1, <2>4
<1>19. stack' = Replaced(stack, 2, v)
  BY <1>2 DEF Replace, Replaced
<1>20. Sound(g, Replaced(stack, 2, v))
  BY <1>2, <1>19 DEF TreeInv
<1>21. Undisturbed(heap, g, R \cup Free(g))
  BY <1>14, SparesMore
<1>22. Threads(g, Replaced(stack, 2, v))
  BY <1>1, <1>4, <1>8, <1>17, <1>18, <1>20, <1>21, ThreadsKept
<1> QED
  BY <1>2, <1>19, <1>22
----------------------------------------------------------------------------
(* What Path reads along a thread *)

\* s follows step to its end, without repetition.
Walks(step, s) ==
    /\ s \in Seq(Nodes) /\ s # << >>
    /\ \A i, j \in 1 .. Len(s) : s[i] = s[j] => i = j
    /\ \A i \in 1 .. Len(s) - 1 : step[s[i]] = s[i + 1]
    /\ step[s[Len(s)]] = NULL

\* Then it is what Path reads.
LEMMA PathIs ==
    ASSUME NEW step, NEW s, Walks(step, s)
    PROVE  Path(step, s[1]) = s
<1> SUFFICES ASSUME NEW N, N = {s[i] : i \in 1 .. Len(s)}, NEW b, b = s[1]
             PROVE  Path(step, b) = s
  OBVIOUS
<1> DEFINE k == Len(s)
           P == Path(step, b)
           l == Len(P)
<1>1. k \in Nat /\ k >= 1 /\ \A i \in 1 .. k : s[i] \in Nodes /\ s[i] \in N
  BY DEF Walks
<1>2. \A i \in 1 .. k - 1 : step[s[i]] = s[i + 1]
  BY DEF Walks
<1>3. k <= Bound
  <2>1. s \in Injection(1 .. k, Nodes)
    BY DEF Injection, IsInjective, Walks
  <2>2. Cardinality(1 .. k) <= Cardinality(Nodes)
    BY <2>1, FS_Injection, TreeAssumption
  <2>3. Cardinality(1 .. k) = k
    <3> HIDE DEF k
    <3> QED
      BY SMTT(30), <1>1, FS_Interval
  <2> QED
    BY <2>2, <2>3 DEF Bound
<1>4. N \in SUBSET Nodes /\ \A m \in N : m \in Nodes
  BY <1>1
<1>5. \A m \in N : step[m] \in N \cup {NULL}
  <2> SUFFICES ASSUME NEW i \in 1 .. k PROVE step[s[i]] \in N \cup {NULL}
    OBVIOUS
  <2>1. CASE i = k
    BY <2>1 DEF Walks
  <2>2. CASE i # k
    <3>1. i \in 1 .. k - 1 /\ i + 1 \in 1 .. k
      BY <1>1, <2>2
    <3>2. step[s[i]] = s[i + 1]
      BY <1>2, <3>1
    <3> QED
      BY <1>1, <3>1, <3>2
  <2> QED
    BY <2>1, <2>2
<1>6. b \in N \cup {NULL} /\ b # NULL /\ b = s[1]
  BY <1>1, NullIsNone
<1>7. N \in SUBSET Nodes
  BY <1>4
<1>8. b \in N \cup {NULL}
  BY <1>6
<1>9. b # NULL
  BY <1>6
<1>10. /\ P \in Seq(N) /\ P # << >> /\ P[1] = b
       /\ \A i \in 1 .. l - 1 : P[i + 1] = step[P[i]]
       /\ l <= Bound => step[P[l]] = NULL
  <2>1. /\ Path(step, b) \in Seq(N)
        /\ b # NULL => Path(step, b) # << >> /\ Path(step, b)[1] = b
        /\ \A i \in 1 .. Len(Path(step, b)) - 1 : Path(step, b)[i + 1] = step[Path(step, b)[i]]
        /\ (b # NULL /\ Len(Path(step, b)) <= Bound) => step[Path(step, b)[Len(Path(step, b))]] = NULL
    BY ZenonT(60), <1>5, <1>7, <1>8, PathFacts
  <2> QED
    BY <1>9, <2>1
<1> HIDE DEF P
<1>11. l \in Nat /\ l >= 1 /\ \A i \in 1 .. l : P[i] \in N
  BY <1>10
<1> HIDE DEF l
<1>12. \A i \in 1 .. k - 1 : step[s[i]] = s[i + 1]
  BY <1>2
<1>13. step[s[k]] = NULL
  BY DEF k, Walks
<1> HIDE DEF k
<1> DEFINE Is == {i \in Nat : i + 1 \in 1 .. k /\ i + 1 \in 1 .. l => P[i + 1] = s[i + 1]}
<1>14. 0 \in Is
  BY <1>6, <1>10
<1>15. ASSUME NEW i \in Nat, i \in Is PROVE i + 1 \in Is
  <2> SUFFICES ASSUME (i + 1) + 1 \in 1 .. k, (i + 1) + 1 \in 1 .. l
               PROVE  P[(i + 1) + 1] = s[(i + 1) + 1]
    OBVIOUS
  <2>1. i + 1 \in 1 .. k - 1 /\ i + 1 \in 1 .. l - 1 /\ i + 1 \in 1 .. k /\ i + 1 \in 1 .. l
    BY <1>1, <1>11
  <2>2. P[i + 1] = s[i + 1]
    BY <1>15, <2>1
  <2> QED
    BY <1>10, <1>12, <2>1, <2>2
<1> HIDE DEF Is
<1>16. Nat \subseteq Is
  BY <1>14, <1>15, SetInduction
<1>17. ASSUME NEW i \in 1 .. k, i \in 1 .. l PROVE P[i] = s[i]
  <2>1. i - 1 \in Nat /\ (i - 1) + 1 = i
    BY <1>1
  <2>2. i - 1 \in Is
    BY <1>16, <2>1
  <2> QED
    BY <1>17, <2>1, <2>2 DEF Is
<1>18. l <= k
  <2> SUFFICES ASSUME l > k PROVE FALSE
    BY <1>1, <1>11
  <2>1. k \in 1 .. k /\ k \in 1 .. l /\ k \in 1 .. l - 1 /\ k + 1 \in 1 .. l
    BY <1>1, <1>11
  <2>2. P[k] = s[k] /\ P[k + 1] = step[P[k]]
    BY <1>10, <1>17, <2>1
  <2>3. P[k + 1] = NULL /\ P[k + 1] \in N
    BY <1>11, <1>13, <2>1, <2>2
  <2> QED
    BY <1>4, <2>3, NullIsNone
<1>19. l = k
  <2> SUFFICES ASSUME l < k PROVE FALSE
    BY <1>1, <1>11, <1>18
  <2>1. l \in 1 .. l /\ l \in 1 .. k /\ l \in 1 .. k - 1 /\ l + 1 \in 1 .. k
    BY <1>1, <1>11
  <2>2. l <= Bound
    BY <1>1, <1>3, <1>11, <1>18, BoundIsNat
  <2>3. P[l] = s[l] /\ step[P[l]] = NULL
    BY <1>10, <1>17, <2>1, <2>2
  <2>4. s[l + 1] = NULL /\ s[l + 1] \in Nodes
    BY <1>1, <1>12, <2>1, <2>3
  <2> QED
    BY <2>4, NullIsNone
<1>20. P \in Seq(Nodes)
  BY <1>4, <1>10
<1>21. Len(P) = Len(s) /\ \A i \in 1 .. Len(s) : P[i] = s[i]
  BY <1>17, <1>19 DEF k, l
<1>22. P = s
  <2>1. s \in Seq(Nodes)
    BY DEF Walks
  <2> QED
    BY <1>20, <1>21, <2>1, SameSequence
<1> QED
  BY <1>22 DEF P

\* No node of a thread occurs twice above its start.
LEMMA ThreadDistinct ==
    ASSUME NEW h, NEW roots, Whole(h, roots), NEW v \in Values, v.node \in roots,
           NEW c, NEW q, Thread(h, v, c, q)
    PROVE  /\ \A i, j \in 1 .. Len(v.names) : q[i] = q[j] => i = j
           /\ \A i, j \in 2 .. Len(v.names) : c[i] = c[j] => i = j
<1> DEFINE n == Len(v.names)
<1>1. n \in Nat \ {0} /\ \A i \in 1 .. n : q[i] \in Nodes /\ c[i] \in Nodes
  BY ThreadWired
<1>2. ASSUME NEW i \in 1 .. n, NEW j \in 1 .. n, q[i] = q[j] PROVE i = j
  <2>1. n - i = n - j
    BY <1>2, Meet
  <2> QED
    BY <1>1, <2>1
<1>3. \A i \in 2 .. n : h[q[i]].first = c[i]
  BY DEF Thread
<1>4. \A a, b \in Nodes : h[a].first = h[b].first => a = b \/ h[a].first = NULL
  BY DEF Whole, Wired
<1> HIDE DEF n
<1>5. ASSUME NEW i \in 2 .. n, NEW j \in 2 .. n, c[i] = c[j] PROVE i = j
  <2>1. i \in 1 .. n /\ j \in 1 .. n
    BY <1>1
  <2>2. q[i] \in Nodes /\ q[j] \in Nodes /\ c[i] # NULL /\ h[q[i]].first = c[i] /\ h[q[j]].first = c[j]
    BY <1>1, <1>3, <2>1, NullIsNone
  <2>3. q[i] = q[j]
    BY <1>4, <1>5, <2>2
  <2> QED
    BY <1>2, <2>1, <2>3
<1> QED
  BY <1>2, <1>5 DEF n

\* What tree_finish_pipe finds below the pipes of a chain.
LEMMA FirstFunction ==
    ASSUME NEW h, NEW roots, Whole(h, roots), NEW v \in Values, v.node \in roots,
           NEW c, NEW q, Thread(h, v, c, q), v.nt \in Linked
    PROVE  SecondFunction(h, v.node) = q[1]
<1> DEFINE n == Len(v.names)
           s == [k \in 1 .. n |-> q[n + 1 - k]]
           step == [m \in Nodes |-> IF h[m].type = "call" THEN NULL ELSE h[h[h[m].first].first].next]
<1>1. n \in Nat \ {0} /\ \A i \in 1 .. n : q[i] \in Nodes /\ c[i] \in Nodes
  BY ThreadWired
<1>2. q[1] = c[1] /\ q[n] = v.node
  BY DEF Thread
<1>3. \A i \in 1 .. n : h[c[i]].type = "call" /\ h[c[i]].first = v.names[i]
  BY DEF Thread
<1>4. \A i \in 2 .. n : h[q[i]].type = "pipe" /\ h[q[i]].first = c[i] /\ h[v.names[i]].next = q[i - 1]
  BY DEF Thread
<1>5. \A i, j \in 1 .. n : q[i] = q[j] => i = j
  BY ThreadDistinct
<1> HIDE DEF n
<1>6. \A k \in 1 .. n : n + 1 - k \in 1 .. n
  BY <1>1
<1>7. s \in Seq(Nodes) /\ Len(s) = n /\ s # << >> /\ \A k \in 1 .. n : s[k] = q[n + 1 - k]
  BY <1>1, <1>6
<1>8. s[1] = v.node /\ s[n] = q[1]
  <2>1. 1 \in 1 .. n /\ n \in 1 .. n /\ n + 1 - 1 = n /\ n + 1 - n = 1
    BY <1>1
  <2> HIDE DEF s
  <2> QED
    BY <1>2, <1>7, <2>1
<1> HIDE DEF s
<1>9. ASSUME NEW i \in 1 .. Len(s), NEW j \in 1 .. Len(s), s[i] = s[j] PROVE i = j
  <2>1. i \in 1 .. n /\ j \in 1 .. n
    BY <1>7
  <2>2. q[n + 1 - i] = q[n + 1 - j]
    BY <1>7, <1>9, <2>1
  <2>3. n + 1 - i = n + 1 - j
    BY <1>5, <1>6, <2>1, <2>2
  <2> QED
    BY <1>1, <1>7, <2>3
<1>10. \A m \in Nodes : step[m] = IF h[m].type = "call" THEN NULL ELSE h[h[h[m].first].first].next
  OBVIOUS
<1> HIDE DEF step
<1>11. ASSUME NEW k \in 1 .. Len(s) - 1 PROVE step[s[k]] = s[k + 1]
  <2> DEFINE i == n + 1 - k
  <2>1. k \in 1 .. n /\ k + 1 \in 1 .. n /\ i \in 2 .. n /\ i \in 1 .. n /\ n + 1 - (k + 1) = i - 1
    BY <1>1, <1>7
  <2>2. s[k] = q[i] /\ s[k + 1] = q[i - 1]
    BY <1>7, <2>1
  <2> HIDE DEF i
  <2>3. q[i] \in Nodes /\ h[q[i]].type = "pipe" /\ h[h[h[q[i]].first].first].next = q[i - 1]
    BY <1>1, <1>3, <1>4, <2>1
  <2> QED
    BY <1>10, <2>2, <2>3
<1>12. step[s[Len(s)]] = NULL
  <2>1. 1 \in 1 .. n /\ q[1] \in Nodes /\ h[q[1]].type = "call"
    BY <1>1, <1>2, <1>3
  <2> QED
    BY <1>7, <1>8, <1>10, <2>1
<1>13. Path(step, s[1]) = s
  <2>1. Walks(step, s)
    BY <1>7, <1>9, <1>11, <1>12 DEF Walks
  <2> QED
    BY <2>1, PathIs
<1>14. SecondFunction(h, v.node) = Last(Path(step, v.node))
  BY DEF SecondFunction, step
<1>15. SecondFunction(h, v.node) = s[Len(s)]
  BY <1>8, <1>13, <1>14 DEF Last
<1> QED
  BY <1>7, <1>8, <1>15
----------------------------------------------------------------------------
(* A pipe *)

\* The calls of a value that is still linked are piped.
LEMMA LinkedCalls ==
    ASSUME NEW h, NEW v, v.nt \in Linked, NEW c, NEW q, Thread(h, v, c, q)
    PROVE  \A i \in 1 .. Len(v.names) :
              /\ h[c[i]].type = "call" /\ h[c[i]].first = v.names[i]
              /\ h[v.names[i]].type = "piped"
<1>1. v.nt \notin {"call", "pipe"}
  BY DEF Linked
<1> QED
  BY <1>1 DEF Thread

\* Below its start a thread has no node of it, nor its name.
LEMMA ThreadAboveStart ==
    ASSUME NEW h, NEW roots, Whole(h, roots), NEW v \in Values, v.node \in roots,
           NEW c, NEW q, Thread(h, v, c, q), v.nt \in Linked
    PROVE  \A i \in 2 .. Len(v.names) :
              c[i] \notin {q[1], v.names[1]} /\ q[i] \notin {q[1], v.names[1]}
              /\ v.names[i] \notin {q[1], v.names[1]}
<1> DEFINE n == Len(v.names)
<1>1. /\ n \in Nat \ {0}
      /\ \A i \in 1 .. n : /\ q[i] \in Nodes /\ c[i] \in Nodes /\ v.names[i] \in Nodes
                           /\ \A m \in Nodes : h[m].first # q[i]
  BY ThreadWired
<1>2. q[1] = c[1]
  BY DEF Thread
<1>3. \A i \in 1 .. n : h[c[i]].type = "call" /\ h[c[i]].first = v.names[i] /\ h[v.names[i]].type = "piped"
  BY DEF Thread, Linked
<1>4. \A i \in 2 .. n : h[q[i]].type = "pipe" /\ h[q[i]].first = c[i]
  BY DEF Thread
<1>5. \A i, j \in 1 .. n : q[i] = q[j] => i = j
  BY ThreadDistinct
<1>6. \A a, b \in Nodes : h[a].first = h[b].first => a = b \/ h[a].first = NULL
  BY DEF Whole, Wired
<1> HIDE DEF n
<1> SUFFICES ASSUME NEW i \in 2 .. n
             PROVE  c[i] \notin {q[1], v.names[1]} /\ q[i] \notin {q[1], v.names[1]}
                    /\ v.names[i] \notin {q[1], v.names[1]}
  BY DEF n
<1>7. i \in 1 .. n /\ 1 \in 1 .. n /\ i # 1
  BY <1>1
<1>8. /\ q[i] # q[1] /\ c[i] # q[1] /\ v.names[i] # q[1]
  <2>1. q[i] # q[1]
    BY <1>5, <1>7
  <2>2. h[q[i]].first = c[i] /\ h[c[i]].first = v.names[i] /\ q[i] \in Nodes /\ c[i] \in Nodes
    BY <1>1, <1>3, <1>4, <1>7
  <2>3. \A m \in Nodes : h[m].first # q[1]
    BY <1>1, <1>7
  <2> QED
    BY <2>1, <2>2, <2>3
<1>9. c[i] # v.names[1] /\ q[i] # v.names[1]
  BY <1>3, <1>4, <1>7
<1>10. v.names[i] # v.names[1]
  <2>1. /\ h[c[i]].first = v.names[i] /\ c[i] \in Nodes /\ v.names[i] # NULL
        /\ h[q[1]].first = v.names[1] /\ q[1] \in Nodes
    BY <1>1, <1>2, <1>3, <1>7, NullIsNone
  <2> QED
    BY <1>6, <1>8, <2>1
<1> QED
  BY <1>8, <1>9, <1>10

\* Above its start the thread is as it was.
SameAbove(h, g, v, c, q) ==
    \A i \in 2 .. Len(v.names) :
       /\ g[c[i]].type = h[c[i]].type /\ g[c[i]].first = h[c[i]].first
       /\ g[q[i]].type = h[q[i]].type /\ g[q[i]].first = h[q[i]].first
       /\ g[v.names[i]].type = h[v.names[i]].type
       /\ g[v.names[i]].next = h[v.names[i]].next

\* The thread of a chain with the call that starts the pipe: in place of its
\* first call, which the node new holds now, comes a pipe over new.
LEMMA PipeThread ==
    ASSUME NEW h, NEW vp \in Values, vp.nt \in Linked, NEW c, NEW q, Thread(h, vp, c, q),
           NEW g, NEW f \in Nodes, NEW y \in Nodes, NEW new \in Nodes, NEW one, one = <<y>>,
           NEW v \in Values, v.nt = "pipe", v.node = vp.node, v.names = one \o vp.names,
           g[f].type = "call", g[f].first = y, g[y].type = "node",
           g[new].type = "call", g[new].first = vp.names[1], g[vp.names[1]].type = "piped",
           g[vp.names[1]].next = f, g[q[1]].type = "pipe", g[q[1]].first = new,
           SameAbove(h, g, vp, c, q)
    PROVE  Threaded(g, v)
<1> DEFINE n == Len(vp.names)
           c1 == [i \in Nat |-> IF i = 1 THEN f ELSE IF i = 2 THEN new ELSE c[i - 1]]
           q1 == [i \in Nat |-> IF i = 1 THEN f ELSE q[i - 1]]
           k == Len(v.names)
<1>1. n \in Nat \ {0} /\ \A i \in 1 .. n : c[i] \in Nodes /\ q[i] \in Nodes
  BY DEF Thread
<1>2. vp.names \in Seq(Nodes) /\ one \in Seq(Nodes) /\ Len(one) = 1 /\ one[1] = y
  BY DEF Values
<1>3. /\ k = n + 1 /\ v.names[1] = y
      /\ \A i \in 1 .. n : v.names[i + 1] = vp.names[i]
  <2>1. 1 \in 1 .. 1
    OBVIOUS
  <2>2. /\ Len(one \o vp.names) = Len(one) + Len(vp.names)
        /\ \A i \in 1 .. Len(one) : (one \o vp.names)[i] = one[i]
        /\ \A i \in 1 .. Len(vp.names) : (one \o vp.names)[Len(one) + i] = vp.names[i]
    BY <1>2, Joined
  <2>3. \A i \in 1 .. n : 1 + i = i + 1
    BY <1>1
  <2> QED
    BY <1>1, <1>2, <2>1, <2>2, <2>3
<1>4. \A i \in 1 .. n :
         /\ h[c[i]].type = "call" /\ h[c[i]].first = vp.names[i]
         /\ h[vp.names[i]].type = "piped"
  BY LinkedCalls
<1>5. q[1] = c[1] /\ q[n] = vp.node
  BY DEF Thread
<1>6. \A i \in 2 .. n :
         /\ h[q[i]].type = "pipe" /\ h[q[i]].first = c[i]
         /\ h[vp.names[i]].next = q[i - 1]
  BY DEF Thread
<1>7. \A i \in 2 .. n :
         /\ g[c[i]].type = "call" /\ g[c[i]].first = vp.names[i] /\ g[vp.names[i]].type = "piped"
         /\ g[q[i]].type = "pipe" /\ g[q[i]].first = c[i]
         /\ g[vp.names[i]].next = q[i - 1]
  <2>1. \A i \in 2 .. n : i \in 1 .. n
    BY <1>1
  <2>2. \A i \in 2 .. n :
           /\ g[c[i]].type = h[c[i]].type /\ g[c[i]].first = h[c[i]].first
           /\ g[q[i]].type = h[q[i]].type /\ g[q[i]].first = h[q[i]].first
           /\ g[vp.names[i]].type = h[vp.names[i]].type
           /\ g[vp.names[i]].next = h[vp.names[i]].next
    BY DEF SameAbove
  <2> HIDE DEF n
  <2> SUFFICES ASSUME NEW i \in 2 .. n
               PROVE  /\ g[c[i]].type = "call" /\ g[c[i]].first = vp.names[i]
                      /\ g[vp.names[i]].type = "piped"
                      /\ g[q[i]].type = "pipe" /\ g[q[i]].first = c[i]
                      /\ g[vp.names[i]].next = q[i - 1]
    OBVIOUS
  <2>3. i \in 1 .. n
    BY <2>1
  <2>4. h[c[i]].type = "call" /\ h[c[i]].first = vp.names[i] /\ h[vp.names[i]].type = "piped"
    BY <1>4, <2>3
  <2>5. h[q[i]].type = "pipe" /\ h[q[i]].first = c[i] /\ h[vp.names[i]].next = q[i - 1]
    BY <1>6
  <2> QED
    BY <2>2, <2>4, <2>5
<1> HIDE DEF n, k
<1>8. /\ c1[1] = f /\ c1[2] = new /\ q1[1] = f
      /\ \A i \in 2 .. n : c1[i + 1] = c[i]
      /\ \A i \in 1 .. n : q1[i + 1] = q[i]
  <2>1. c1[1] = f /\ c1[2] = new /\ q1[1] = f
    OBVIOUS
  <2>2. ASSUME NEW i \in 2 .. n PROVE c1[i + 1] = c[i]
    <3>1. i + 1 \in Nat /\ i + 1 # 1 /\ i + 1 # 2 /\ (i + 1) - 1 = i
      BY SMTT(30), <1>1
    <3> QED
      BY <3>1
  <2>3. ASSUME NEW i \in 1 .. n PROVE q1[i + 1] = q[i]
    <3>1. i + 1 \in Nat /\ i + 1 # 1 /\ (i + 1) - 1 = i
      BY SMTT(30), <1>1
    <3> QED
      BY <3>1
  <2> HIDE DEF c1, q1
  <2> QED
    BY <2>1, <2>2, <2>3
<1> HIDE DEF c1, q1
<1>9. v.names[2] = vp.names[1] /\ q1[2] = q[1] /\ q[1] \in Nodes
  <2>1. 1 \in 1 .. n /\ 1 + 1 = 2
    BY <1>1
  <2>2. v.names[1 + 1] = vp.names[1] /\ q1[1 + 1] = q[1] /\ q[1] \in Nodes
    BY <1>1, <1>3, <1>8, <2>1
  <2> QED
    BY <2>1, <2>2
<1>10. v.nt \notin {"call", "linked"} /\ k \in Nat \ {0} /\ k # 1 /\ v.nt \in {"call", "pipe"}
  BY <1>1, <1>3
<1>11. ASSUME NEW i \in 1 .. k
       PROVE  /\ c1[i] \in Nodes /\ q1[i] \in Nodes
              /\ g[c1[i]].type = "call" /\ g[c1[i]].first = v.names[i]
              /\ g[v.names[i]].type = IF i = 1 THEN "node" ELSE "piped"
  <2>1. CASE i = 1
    BY <1>3, <1>8, <2>1
  <2>2. CASE i = 2
    <3>1. i # 1
      BY <2>2
    <3>2. c1[i] = new /\ q1[i] = q[1]
      BY <1>8, <1>9, <2>2
    <3>3. v.names[i] = vp.names[1]
      BY <1>9, <2>2
    <3> QED
      BY <1>9, <3>1, <3>2, <3>3
  <2>3. CASE i # 1 /\ i # 2
    <3> DEFINE j == i - 1
    <3>1. j \in 2 .. n /\ j \in 1 .. n /\ i = j + 1
      BY <1>1, <1>3, <2>3
    <3> HIDE DEF j
    <3>2. c1[i] = c[j] /\ q1[i] = q[j] /\ v.names[i] = vp.names[j]
      BY <1>3, <1>8, <3>1
    <3>3. c[j] \in Nodes /\ q[j] \in Nodes
      BY <1>1, <3>1
    <3>4. g[c[j]].type = "call" /\ g[c[j]].first = vp.names[j] /\ g[vp.names[j]].type = "piped"
      BY <1>7, <3>1
    <3> QED
      BY <2>3, <3>2, <3>3, <3>4
  <2> QED
    BY <2>1, <2>2, <2>3
<1>12. ASSUME NEW i \in 2 .. k
       PROVE  /\ g[q1[i]].type = "pipe" /\ g[q1[i]].first = c1[i]
              /\ g[v.names[i]].next = q1[i - 1]
  <2>1. CASE i = 2
    <3>1. i - 1 = 1
      BY <2>1
    <3>2. c1[i] = new /\ q1[i] = q[1] /\ v.names[i] = vp.names[1] /\ q1[i - 1] = f
      BY <1>8, <1>9, <2>1, <3>1
    <3> QED
      BY <3>2
  <2>2. CASE i # 2
    <3> DEFINE j == i - 1
    <3>1. j \in 2 .. n /\ j \in 1 .. n /\ i = j + 1 /\ j - 1 \in 1 .. n /\ j = (j - 1) + 1
      BY <1>1, <1>3, <2>2
    <3>2. i - 1 = j
      OBVIOUS
    <3> HIDE DEF j
    <3>3. c1[i] = c[j] /\ q1[i] = q[j] /\ v.names[i] = vp.names[j]
      BY <1>3, <1>8, <3>1
    <3>4. q1[i - 1] = q[j - 1]
      BY <1>8, <3>1, <3>2
    <3>5. g[q[j]].type = "pipe" /\ g[q[j]].first = c[j] /\ g[vp.names[j]].next = q[j - 1]
      BY <1>7, <3>1
    <3> QED
      BY <3>3, <3>4, <3>5
  <2> QED
    BY <2>1, <2>2
<1>13. q1[1] = c1[1] /\ q1[k] = v.node
  <2>1. n \in 1 .. n
    BY <1>1
  <2> QED
    BY <1>3, <1>5, <1>8, <2>1
<1>14. Thread(g, v, c1, q1)
  BY <1>10, <1>11, <1>12, <1>13 DEF Thread, k
<1> QED
  BY <1>14 DEF Threaded

LEMMA PipeThreads ==
    ASSUME TreeInv, TreeInv', Threads(heap, stack), Pipe
    PROVE  Threads(heap', stack')
<1> DEFINE f == S(2, 1)
           p == S(2, 2)
           vf == Nth(stack, 2, 1)
           vp == Nth(stack, 2, 2)
           new == New
           g == tree_finish_pipe(heap, f, p, new)
           names == vf.names \o vp.names
           v == Value("pipe", p, names)
           roots == Below(stack, 0)
<1>1. Sound(heap, stack) /\ On(<<{"call"}, Linked>>) /\ CanGrow(1)
  BY DEF TreeInv, Pipe
<1>2. heap' = g /\ Replace(2, v)
  BY DEF Pipe, NamesOf, Nth
<1>3. new \in Nodes /\ heap[new].type = "free"
  BY <1>1, CanGrowFree
<1>4. /\ 2 \in 0 .. Len(stack)
      /\ vf \in Values /\ vf.node = f /\ vf.nt \in {"call"} /\ Fits(heap, vf)
      /\ vp \in Values /\ vp.node = p /\ vp.nt \in Linked /\ Fits(heap, vp)
      /\ f = NULL \/ f \in roots
      /\ p = NULL \/ p \in roots
      /\ f = p => f = NULL
      /\ Below(stack, 2) = Minus(Minus(roots, f), p)
  BY <1>1, TopTwo
<1>5. Threaded(heap, vf) /\ Threaded(heap, vp)
  <2>1. Len(stack) - 2 + 1 \in 1 .. Len(stack) /\ Len(stack) - 2 + 2 \in 1 .. Len(stack)
    BY <1>1, <1>4 DEF Sound, Stacked
  <2>2. vf = stack[Len(stack) - 2 + 1] /\ vp = stack[Len(stack) - 2 + 2]
    BY DEF Nth
  <2>3. vf.nt \in Spun /\ vp.nt \in Spun
    BY <1>4 DEF Spun, Linked
  <2> HIDE DEF vp, vf
  <2> QED
    BY <2>1, <2>2, <2>3 DEF Threads
<1> HIDE DEF p, f, vp, vf, new, roots
<1>6. p # NULL /\ heap[p].next = NULL /\ heap[p].type \in {"call", "pipe"} /\ p \in roots
  BY <1>4, LinkedTree
<1>7. f # NULL /\ heap[f].next = NULL /\ heap[f].type = "call" /\ f \in roots /\ f # p
  BY <1>4, <1>6 DEF Fits
<1>8. v \in Values /\ v.node = p /\ v.nt = "pipe" /\ v.names = names
  <2>1. vf.names \in Seq(Nodes) /\ vp.names \in Seq(Nodes) /\ p \in Nodes
    BY <1>4, <1>6 DEF Values
  <2>2. names \in Seq(Nodes)
    BY <2>1, Joined
  <2> HIDE DEF names
  <2> QED
    BY <2>1, <2>2 DEF Value, Values, Nonterminals, Expression
<1>9. PICK cp, qp : Thread(heap, vp, cp, qp)
  BY <1>5 DEF Threaded
<1>10. PICK cf, qf : Thread(heap, vf, cf, qf)
  BY <1>5 DEF Threaded
<1>11. Whole(heap, roots)
  BY InvHeaps DEF roots
<1> DEFINE t == qp[1]
           x == vp.names[1]
           y == vf.names[1]
           one == <<y>>
           R == {t, new, x}
<1>12. SecondFunction(heap, p) = t
  <2> HIDE DEF t
  <2>1. vp.node = p /\ vp.node \in roots
    BY <1>4, <1>6
  <2>2. SecondFunction(heap, vp.node) = qp[1]
    BY <1>4, <1>9, <1>11, <2>1, FirstFunction
  <2> QED
    BY <2>1, <2>2 DEF t
<1>13. PipeMade(heap, g, roots, p, f, new, t)
  <2>1. heap[f].type \in {"call", "pipe"}
    BY <1>7
  <2> HIDE DEF g, t
  <2> QED
    BY <1>3, <1>6, <1>7, <1>11, <1>12, <2>1, Finished DEF g
<1> HIDE DEF g, names, v
<1>14. /\ t \in Nodes /\ heap[t].first = x /\ heap[x].type = "piped" /\ x \in Nodes /\ x # t
       /\ heap[t].type = "call" /\ Len(vp.names) \in Nat \ {0}
  <2>1. Len(vp.names) \in Nat \ {0} /\ vp.names \in Seq(Nodes) /\ qp[1] = cp[1]
    BY <1>4, <1>9 DEF Thread, Values
  <2>2. 1 \in 1 .. Len(vp.names) /\ vp.nt \notin {"call", "pipe"}
    BY <1>4, <2>1 DEF Linked
  <2>3. heap[cp[1]].type = "call" /\ heap[cp[1]].first = x /\ heap[x].type = "piped" /\ cp[1] \in Nodes
    BY <1>9, <2>2 DEF Thread
  <2>4. x \in Nodes
    BY <2>1, <2>2
  <2> HIDE DEF x
  <2> QED
    BY <2>1, <2>3, <2>4
<1>15. /\ qf[1] = f /\ heap[f].first = y /\ heap[y].type = "node" /\ y \in Nodes
       /\ vf.names = one
  <2>1. Len(vf.names) = 1 /\ vf.names \in Seq(Nodes)
    BY <1>4, <1>10 DEF Thread, Values
  <2>2. y \in Nodes /\ vf.names = one
    BY <2>1
  <2>3. vf.nt \in {"call", "pipe"} /\ 1 \in 1 .. Len(vf.names)
    BY <1>4, <2>1
  <2>4. qf[1] = cf[1] /\ qf[Len(vf.names)] = vf.node
    BY <1>10 DEF Thread
  <2>5. heap[cf[1]].first = y /\ heap[y].type = "node"
    BY <1>10, <2>3 DEF Thread
  <2> HIDE DEF y
  <2> QED
    BY <1>4, <2>1, <2>2, <2>4, <2>5
<1>16. /\ g[t].type = "pipe" /\ g[t].first = new
       /\ g[new].type = "call" /\ g[new].first = x /\ g[x].next = f
       /\ \A n \in Nodes \ {t, new} : g[n].type = heap[n].type /\ g[n].first = heap[n].first
       /\ \A n \in Nodes \ {new, x, f} : g[n].next = heap[n].next
  <2> HIDE DEF t, x
  <2> QED
    BY <1>13, <1>14 DEF PipeMade
<1>17. Undisturbed(heap, g, R)
  <2> HIDE DEF t, x
  <2>1. \A n \in Nodes \ R : g[n].type = heap[n].type /\ g[n].first = heap[n].first
    BY <1>16
  <2>2. \A n \in Nodes \ R : heap[n].next # NULL => g[n].next = heap[n].next
    BY <1>7, <1>16
  <2> HIDE DEF R
  <2> QED
    BY <2>1, <2>2 DEF Undisturbed
<1>18. ASSUME NEW w \in Values, w.node \in roots, w.node # p, NEW d, NEW r, Thread(heap, w, d, r)
       PROVE  Clear(w, d, r, R)
  <2>1. vp.node \in roots /\ vp.node # w.node
    BY <1>4, <1>6, <1>18
  <2>2. Clear(w, d, r, {qp[1], vp.names[1]})
    BY <1>4, <1>9, <1>11, <1>18, <2>1, ThreadsApart
  <2>3. Clear(w, d, r, Free(heap))
    BY <1>18, ThreadIsUsed
  <2>4. R \subseteq {qp[1], vp.names[1]} \cup Free(heap)
    BY <1>3, FreeIsFree
  <2> HIDE DEF R
  <2> QED
    BY <2>2, <2>3, <2>4 DEF Clear
<1>19. f \notin R /\ y \notin R /\ f \in Nodes
  <2>1. Clear(vf, cf, qf, R)
    BY <1>4, <1>7, <1>10, <1>18
  <2>2. 1 \in 1 .. Len(vf.names) /\ f \in Nodes
    BY <1>4, <1>7, <1>10 DEF Thread, Values
  <2> HIDE DEF R
  <2>3. qf[1] \notin R /\ vf.names[1] \notin R
    BY <2>1, <2>2 DEF Clear
  <2> QED
    BY <1>15, <2>2, <2>3
<1>20. g[f].type = "call" /\ g[f].first = y /\ g[y].type = "node" /\ g[x].type = "piped"
  <2>1. f \in Nodes \ {t, new} /\ y \in Nodes \ {t, new}
    BY <1>15, <1>19
  <2>2. x \in Nodes \ {t, new}
    BY <1>3, <1>14
  <2> HIDE DEF t, x, y
  <2> QED
    BY <1>7, <1>14, <1>15, <1>16, <2>1, <2>2
<1>21. \A i \in 2 .. Len(vp.names) :
          /\ g[cp[i]].type = heap[cp[i]].type /\ g[cp[i]].first = heap[cp[i]].first
          /\ g[qp[i]].type = heap[qp[i]].type /\ g[qp[i]].first = heap[qp[i]].first
          /\ g[vp.names[i]].type = heap[vp.names[i]].type
          /\ g[vp.names[i]].next = heap[vp.names[i]].next
  <2> SUFFICES ASSUME NEW i \in 2 .. Len(vp.names)
               PROVE  /\ g[cp[i]].type = heap[cp[i]].type /\ g[cp[i]].first = heap[cp[i]].first
                      /\ g[qp[i]].type = heap[qp[i]].type /\ g[qp[i]].first = heap[qp[i]].first
                      /\ g[vp.names[i]].type = heap[vp.names[i]].type
                      /\ g[vp.names[i]].next = heap[vp.names[i]].next
    OBVIOUS
  <2>1. vp.node \in roots
    BY <1>4, <1>6
  <2>2. /\ cp[i] \notin {qp[1], vp.names[1]} /\ qp[i] \notin {qp[1], vp.names[1]}
        /\ vp.names[i] \notin {qp[1], vp.names[1]}
    BY <1>4, <1>9, <1>11, <2>1, ThreadAboveStart
  <2>3. Clear(vp, cp, qp, Free(heap)) /\ new \in Free(heap)
    BY <1>3, <1>4, <1>9, ThreadIsUsed, FreeIsFree
  <2>4. i \in 1 .. Len(vp.names)
    BY <1>14
  <2>5. cp[i] # new /\ qp[i] # new /\ vp.names[i] # new
    BY <2>3, <2>4 DEF Clear
  <2>6. cp[i] \in Nodes /\ qp[i] \in Nodes /\ vp.names[i] \in Nodes
        /\ heap[vp.names[i]].next = qp[i - 1] /\ i - 1 \in 1 .. Len(vp.names)
    <3>1. cp[i] \in Nodes /\ qp[i] \in Nodes
      BY <1>9, <2>4 DEF Thread
    <3>2. vp.names[i] \in Nodes
      BY <1>4, <2>4 DEF Values
    <3>3. heap[vp.names[i]].next = qp[i - 1]
      BY <1>9 DEF Thread
    <3>4. i - 1 \in 1 .. Len(vp.names)
      BY <1>14
    <3> QED
      BY <3>1, <3>2, <3>3, <3>4
  <2>7. qp[i - 1] \in Nodes
    BY <1>9, <2>6 DEF Thread
  <2>8. cp[i] \in Nodes \ R /\ qp[i] \in Nodes \ R /\ vp.names[i] \in Nodes \ R
    BY <2>2, <2>5, <2>6
  <2>9. heap[vp.names[i]].next # NULL
    BY <2>6, <2>7, NullIsNone
  <2> HIDE DEF R
  <2> QED
    BY <1>17, <2>8, <2>9 DEF Undisturbed
<1>22. SameAbove(heap, g, vp, cp, qp)
  BY <1>21 DEF SameAbove
<1>23. v.names = one \o vp.names
  BY <1>8, <1>15 DEF names
<1> HIDE DEF one
<1>24. Threaded(g, v)
  <2>1. v.node = vp.node /\ one = <<y>>
    BY <1>4, <1>8 DEF one
  <2>2. g[vp.names[1]].type = "piped" /\ g[vp.names[1]].next = f /\ g[new].first = vp.names[1]
    BY <1>16, <1>20
  <2>3. g[qp[1]].type = "pipe" /\ g[qp[1]].first = new
    BY <1>16
  <2>4. g[f].type = "call" /\ g[f].first = y /\ g[y].type = "node" /\ g[new].type = "call"
    BY <1>16, <1>20
  <2>5. /\ f \in Nodes /\ y \in Nodes /\ new \in Nodes /\ v \in Values /\ v.nt = "pipe"
        /\ vp \in Values /\ vp.nt \in Linked
    BY <1>3, <1>4, <1>8, <1>15, <1>19
  <2> HIDE DEF t, x, y, R
  <2> QED
    BY <1>9, <1>23, <1>22, <2>1, <2>2, <2>3, <2>4, <2>5, PipeThread
<1> HIDE DEF R
<1>25. \A i \in 1 .. Len(stack) - 2 : \A c, q :
          stack[i].nt \in Spun /\ Thread(heap, stack[i], c, q) => Clear(stack[i], c, q, R)
  <2> SUFFICES ASSUME NEW i \in 1 .. Len(stack) - 2, NEW c, NEW q, Thread(heap, stack[i], c, q)
               PROVE  Clear(stack[i], c, q, R)
    OBVIOUS
  <2>1. stack[i] \in Values
    BY <1>1, <1>4 DEF Sound, Stacked
  <2>2. stack[i].node \in Nodes
    BY DEF Thread
  <2>3. stack[i].node \in Below(stack, 2)
    BY <2>2, NullIsNone DEF Below
  <2>4. stack[i].node \in roots /\ stack[i].node # p
    BY <1>4, <2>3 DEF Minus
  <2> QED
    BY <1>18, <2>1, <2>4
<1>26. stack' = Replaced(stack, 2, v)
  BY <1>2 DEF Replace, Replaced
<1>27. Sound(g, Replaced(stack, 2, v))
  BY <1>2, <1>26 DEF TreeInv
<1>28. Undisturbed(heap, g, R \cup Free(g))
  BY <1>17, SparesMore
<1>29. Threads(g, Replaced(stack, 2, v))
  BY <1>1, <1>4, <1>8, <1>24, <1>25, <1>27, <1>28, ThreadsKept
<1> QED
  BY <1>2, <1>26, <1>29
----------------------------------------------------------------------------
(* Pipes stay in the order of the text *)

\* The calls check_pipe visits follow the thread down.
LEMMA CheckedCallsFollow ==
    ASSUME NEW roots, Whole(heap, roots), NEW v \in Values, v.node \in roots, v.nt = "pipe",
           NEW c, NEW q, Thread(heap, v, c, q)
    PROVE  LET s == CheckedCalls(heap[v.node].first)
               n == Len(v.names)
           IN  /\ n \in Nat /\ n >= 2
               /\ s \in Seq(Nodes) /\ Len(s) = n - 1
               /\ \A k \in 1 .. n - 1 : s[k] = c[n + 1 - k]
<1> DEFINE n == Len(v.names)
           s == [k \in 1 .. n - 1 |-> c[n + 1 - k]]
           Below1(m) == heap[heap[heap[m].first].next].first
           step == [m \in Nodes |-> LET below == heap[heap[heap[m].first].next].first
                                    IN  IF heap[below].type = "call" THEN below ELSE NULL]
<1>1. n \in Nat \ {0} /\ \A i \in 1 .. n : q[i] \in Nodes /\ c[i] \in Nodes
  BY ThreadWired
<1>2. n # 1 /\ q[1] = c[1] /\ q[n] = v.node
  BY DEF Thread
<1>3. \A i \in 1 .. n : /\ heap[c[i]].type = "call" /\ heap[c[i]].first = v.names[i]
                        /\ heap[v.names[i]].type = IF i = 1 THEN "node" ELSE "piped"
  BY DEF Thread
<1>4. \A i \in 2 .. n : heap[q[i]].first = c[i] /\ heap[v.names[i]].next = q[i - 1]
  BY DEF Thread
<1>5. \A i, j \in 2 .. n : c[i] = c[j] => i = j
  BY ThreadDistinct
<1> HIDE DEF n
<1>6. \A k \in 1 .. n - 1 : n + 1 - k \in 2 .. n /\ n + 1 - k \in 1 .. n
  BY <1>1
<1>7. s \in Seq(Nodes) /\ Len(s) = n - 1 /\ \A k \in 1 .. n - 1 : s[k] = c[n + 1 - k]
  BY <1>1, <1>6
<1>8. /\ n >= 2 /\ 1 \in 1 .. n - 1 /\ n - 1 \in 1 .. n - 1 /\ n + 1 - 1 = n /\ n + 1 - (n - 1) = 2
      /\ n \in 2 .. n /\ 2 \in 2 .. n
  BY <1>1, <1>2
<1>9. s # << >> /\ s[1] = c[n] /\ s[n - 1] = c[2]
  <2> HIDE DEF s
  <2>1. s[1] = c[n] /\ s[n - 1] = c[2]
    BY <1>7, <1>8
  <2>2. s # << >>
    BY <1>7, <1>8
  <2> QED
    BY <2>1, <2>2
<1> HIDE DEF s
<1>10. ASSUME NEW i \in 1 .. Len(s), NEW j \in 1 .. Len(s), s[i] = s[j] PROVE i = j
  <2>1. i \in 1 .. n - 1 /\ j \in 1 .. n - 1
    BY <1>7
  <2>2. c[n + 1 - i] = c[n + 1 - j]
    BY <1>7, <1>10, <2>1
  <2>3. n + 1 - i = n + 1 - j
    BY <1>5, <1>6, <2>1, <2>2
  <2> QED
    BY <1>1, <2>3, <2>1
<1>11. \A m \in Nodes : step[m] = IF heap[Below1(m)].type = "call" THEN Below1(m) ELSE NULL
  OBVIOUS
<1> HIDE DEF step
<1>12. ASSUME NEW k \in 1 .. Len(s) - 1 PROVE step[s[k]] = s[k + 1]
  <2> DEFINE i == n + 1 - k
  <2>1. /\ k \in 1 .. n - 1 /\ k + 1 \in 1 .. n - 1 /\ i \in 2 .. n /\ i \in 1 .. n
        /\ n + 1 - (k + 1) = i - 1 /\ i - 1 \in 2 .. n /\ i - 1 \in 1 .. n
    BY <1>1, <1>7
  <2>2. s[k] = c[i] /\ s[k + 1] = c[i - 1]
    BY <1>7, <2>1
  <2> HIDE DEF i
  <2>3. c[i] \in Nodes /\ heap[c[i]].first = v.names[i] /\ heap[v.names[i]].next = q[i - 1]
    BY <1>1, <1>3, <1>4, <2>1
  <2>4. heap[q[i - 1]].first = c[i - 1] /\ heap[c[i - 1]].type = "call"
    BY <1>3, <1>4, <2>1
  <2> QED
    BY <1>11, <2>2, <2>3, <2>4
<1>13. step[s[Len(s)]] = NULL
  <2>1. 1 \in 1 .. n /\ 2 \in 1 .. n /\ 2 - 1 = 1
    BY <1>8
  <2>2. c[2] \in Nodes /\ heap[c[2]].first = v.names[2] /\ heap[v.names[2]].next = q[1]
    BY <1>1, <1>3, <1>4, <1>8, <2>1
  <2>3. heap[q[1]].first = v.names[1] /\ heap[v.names[1]].type = "node"
    BY <1>2, <1>3, <2>1
  <2>4. s[Len(s)] = c[2]
    BY <1>7, <1>9
  <2> QED
    BY <1>11, <2>2, <2>3, <2>4
<1>14. Path(step, s[1]) = s
  <2>1. Walks(step, s)
    BY <1>7, <1>9, <1>10, <1>12, <1>13 DEF Walks
  <2> QED
    BY <2>1, PathIs
<1>15. heap[v.node].first = s[1]
  BY <1>2, <1>4, <1>8, <1>9
<1>16. CheckedCalls(heap[v.node].first) = Path(step, heap[v.node].first)
  BY DEF CheckedCalls, step
<1>17. CheckedCalls(heap[v.node].first) = s
  BY <1>14, <1>15, <1>16
<1> QED
  BY <1>1, <1>7, <1>8, <1>17 DEF n

\* A sequence without its first element, backwards.
LEMMA ReversedTail ==
    ASSUME NEW names \in Seq(Nodes), Len(names) >= 2
    PROVE  Reverse(Tail(names)) = [j \in 1 .. Len(names) - 1 |-> names[Len(names) + 1 - j]]
<1> DEFINE n == Len(names)
           t == Tail(names)
<1>1. n \in Nat /\ n >= 2
  OBVIOUS
<1>2. Len(t) = n - 1 /\ \A k \in 1 .. n - 1 : t[k] = names[k + 1]
  OBVIOUS
<1> HIDE DEF t, n
<1>3. \A j \in 1 .. n - 1 : ((n - 1) - j) + 1 \in 1 .. n - 1 /\ (((n - 1) - j) + 1) + 1 = n + 1 - j
  BY <1>1
<1>4. \A j \in 1 .. n - 1 : t[((n - 1) - j) + 1] = names[n + 1 - j]
  BY <1>2, <1>3
<1>5. Reverse(t) = [j \in 1 .. n - 1 |-> t[((n - 1) - j) + 1]]
  BY <1>2 DEF Reverse
<1>6. Reverse(t) = [j \in 1 .. n - 1 |-> names[n + 1 - j]]
  BY <1>4, <1>5
<1> QED
  BY <1>6 DEF t, n

LEMMA ThreadsInOrder ==
    ASSUME TreeInv, Threads(heap, stack)
    PROVE  PipesInTextOrder
<1> SUFFICES ASSUME NEW i \in DOMAIN stack, stack[i].nt = "pipe"
             PROVE  LET calls == CheckedCalls(heap[stack[i].node].first)
                        Name(c) == heap[c].first
                        Argument(c) == heap[Name(c)].next
                    IN  /\ [j \in DOMAIN calls |-> Name(calls[j])] = Reverse(Tail(stack[i].names))
                        /\ Name(Argument(Last(calls))) = stack[i].names[1]
  BY DEF PipesInTextOrder
<1> DEFINE v == stack[i]
           calls == CheckedCalls(heap[v.node].first)
           names == v.names
           n == Len(names)
<1>1. i \in 1 .. Len(stack) /\ v \in Values /\ Whole(heap, Below(stack, 0)) /\ v.nt = "pipe"
  <2>1. stack \in Seq(Values) /\ Whole(heap, Below(stack, 0))
    BY DEF TreeInv, Sound, Stacked
  <2>2. i \in 1 .. Len(stack)
    BY <2>1
  <2> QED
    BY <2>1, <2>2
<1>2. PICK c, q : Thread(heap, v, c, q)
  <2>1. v.nt \in Spun
    BY DEF Spun
  <2> QED
    BY <1>1, <2>1 DEF Threads, Threaded
<1>3. v.node \in Below(stack, 0)
  <2>1. v.node \in Nodes
    BY <1>2 DEF Thread
  <2>2. i \in 1 .. Len(stack) - 0
    BY <1>1
  <2> QED
    BY <2>1, <2>2, NullIsNone DEF Below
<1> HIDE DEF v
<1>4. /\ n \in Nat /\ n >= 2
      /\ calls \in Seq(Nodes) /\ Len(calls) = n - 1
      /\ \A k \in 1 .. n - 1 : calls[k] = c[n + 1 - k]
  BY <1>1, <1>2, <1>3, CheckedCallsFollow
<1> HIDE DEF calls
<1>5. names \in Seq(Nodes)
  BY <1>1 DEF Values
<1>6. q[1] = c[1] /\ \A k \in 1 .. n : heap[c[k]].first = names[k]
  BY <1>2 DEF Thread
<1>7. \A k \in 2 .. n : heap[names[k]].next = q[k - 1]
  BY <1>2 DEF Thread
<1> HIDE DEF n
<1>8. DOMAIN calls = 1 .. n - 1
  BY <1>4
<1>9. \A j \in 1 .. n - 1 : heap[calls[j]].first = names[n + 1 - j]
  <2>1. \A j \in 1 .. n - 1 : n + 1 - j \in 1 .. n
    BY <1>4
  <2> QED
    BY <1>4, <1>6, <2>1
<1>10. [j \in DOMAIN calls |-> heap[calls[j]].first] = [j \in 1 .. n - 1 |-> names[n + 1 - j]]
  BY <1>8, <1>9
<1>11. Reverse(Tail(names)) = [j \in 1 .. n - 1 |-> names[n + 1 - j]]
  BY <1>4, <1>5, ReversedTail DEF n
<1>12. heap[heap[heap[Last(calls)].first].next].first = names[1]
  <2>1. n - 1 \in 1 .. n - 1 /\ n + 1 - (n - 1) = 2 /\ 2 \in 1 .. n /\ 1 \in 1 .. n /\ 2 \in 2 .. n /\ 2 - 1 = 1
    BY <1>4
  <2>2. Last(calls) = c[2]
    BY <1>4, <2>1 DEF Last
  <2>3. heap[c[2]].first = names[2] /\ heap[names[2]].next = q[1]
    BY <1>6, <1>7, <2>1
  <2> QED
    BY <1>6, <2>1, <2>2, <2>3
<1> QED
  BY <1>10, <1>11, <1>12 DEF calls, v

LEMMA ThreadsStep ==
    ASSUME TreeInv, TreeInv', Threads(heap, stack), [Next]_vars
    PROVE  Threads(heap', stack')
<1>1. CASE UNCHANGED vars
  <2>1. heap' = heap /\ stack' = stack
    BY <1>1 DEF vars
  <2> QED
    BY <2>1
<1>2. ASSUME NEW nt \in {"exp", "name", "piped", "stmt"}, Leaf(nt)
      PROVE  Threads(heap', stack')
  BY <1>2, LeafThreads
<1>3. ASSUME NEW nt \in {"exp", "stmt"}, Unary(nt) \/ Binary(nt)
      PROVE  Threads(heap', stack')
  BY <1>3, UnaryThreads, BinaryThreads
<1>4. CASE Declaration \/ EmptyBlock
  BY <1>4, AbsentThreads
<1>5. CASE LastArgument
  BY <1>5, LastArgumentThreads
<1>6. CASE MoreArguments
  BY <1>6, MoreArgumentsThreads
<1>7. CASE CallWithoutArguments \/ PipedFunction
  BY <1>7, OneNameThreads
<1>8. CASE Call \/ PipedFunctionWithArguments
  BY <1>8, TwoNamesThreads
<1>9. CASE Chain
  BY <1>9, ChainThreads
<1>10. CASE Pipe
  BY <1>10, PipeThreads
<1>11. CASE Sequence
  BY <1>11, SequenceThreads
<1>12. CASE Block
  BY <1>12, BlockThreads
<1>13. CASE If \/ While
  BY <1>13, ConditionFirstThreads
<1>14. CASE IfElse
  BY <1>14, IfElseThreads
<1>15. CASE DoWhile
  BY <1>15, DoWhileThreads
<1>16. CASE Foreach
  BY <1>16, ForeachThreads
<1>17. CASE MoreOfList
  BY <1>17, MoreOfListThreads
<1>18. CASE For
  BY <1>18, ForThreads
<1> QED
  BY <1>1, <1>2, <1>3, <1>4, <1>5, <1>6, <1>7, <1>8, <1>9, <1>10, <1>11, <1>12, <1>13, <1>14,
     <1>15, <1>16, <1>17, <1>18 DEF Next

\* However the functions of a pipe are parsed, chained and finished, with
\* whatever arguments and among whatever other values, check_pipe visits them
\* from the last one in the text to the second, and the first is the argument
\* of the second.
THEOREM PipesStayInTextOrder == Spec => []PipesInTextOrder
<1>1. Init => TreeInv /\ Threads(heap, stack)
  <2> SUFFICES ASSUME Init PROVE TreeInv /\ Threads(heap, stack)
    OBVIOUS
  <2>1. Len(stack) = 0
    BY DEF Init
  <2>2. Threads(heap, stack)
    BY <2>1 DEF Threads
  <2> QED
    BY <2>2, TreeInit
<1>2. (TreeInv /\ Threads(heap, stack)) /\ [Next]_vars => (TreeInv /\ Threads(heap, stack))'
  <2> SUFFICES ASSUME TreeInv, Threads(heap, stack), [Next]_vars
               PROVE  TreeInv' /\ Threads(heap', stack')
    OBVIOUS
  <2>1. TreeInv'
    BY TreeStep
  <2> QED
    BY <2>1, ThreadsStep
<1>3. (TreeInv /\ Threads(heap, stack)) => PipesInTextOrder
  BY ThreadsInOrder
<1> QED
  BY <1>1, <1>2, <1>3, PTL DEF Spec
=============================================================================
