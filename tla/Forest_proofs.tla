---------------------------- MODULE Forest_proofs ----------------------------
(***************************************************************************)
(* The linked lists of Tree implement the ordered forest of Forest: each   *)
(* production of parser.y, as the functions of cc_tree.c carry it out,     *)
(* does to the children of the nodes and to the trees on the stack what    *)
(* an action of Forest does.                                               *)
(***************************************************************************)
EXTENDS Tree_proofs

----------------------------------------------------------------------------
(* Sequences of trees *)

\* FlattenSeq joins up to four sequences, from the left.
LEMMA Flattened ==
    ASSUME NEW s \in Seq(Seq(Nodes)), Len(s) <= 4
    PROVE  /\ Len(s) = 0 => F!FlattenSeq(s) = << >>
           /\ Len(s) = 1 => F!FlattenSeq(s) = s[1]
           /\ Len(s) = 2 => F!FlattenSeq(s) = s[1] \o s[2]
           /\ Len(s) = 3 => F!FlattenSeq(s) = (s[1] \o s[2]) \o s[3]
           /\ Len(s) = 4 => F!FlattenSeq(s) = ((s[1] \o s[2]) \o s[3]) \o s[4]
<1>1. Len(s) \in Nat /\ Len(s) <= 4
  OBVIOUS
<1>2. \A i \in 1 .. Len(s) : i = 1 \/ i = 2 \/ i = 3 \/ i = 4
  BY <1>1
<1> DEFINE n == Len(s)
           Sums(f) == [i \in 1 .. n |-> IF i = 1 THEN s[i] ELSE f[i - 1] \o s[i]]
           sums == CHOOSE f : f = Sums(f)
           two == s[1] \o s[2]
           three == two \o s[3]
           four == three \o s[4]
           g == [i \in 1 .. n |-> IF i = 1 THEN s[1] ELSE IF i = 2 THEN two
                                  ELSE IF i = 3 THEN three ELSE four]
<1>3. F!FlattenSeq(s) = IF n = 0 THEN s ELSE sums[n]
  BY DEF F!FlattenSeq
<1>4. \A i \in 1 .. n : g[i] = IF i = 1 THEN s[i] ELSE g[i - 1] \o s[i]
  <2> SUFFICES ASSUME NEW i \in 1 .. n
               PROVE  g[i] = IF i = 1 THEN s[i] ELSE g[i - 1] \o s[i]
    OBVIOUS
  <2>1. g[i] = IF i = 1 THEN s[1] ELSE IF i = 2 THEN two ELSE IF i = 3 THEN three ELSE four
    OBVIOUS
  <2>2. CASE i = 1
    BY <2>1, <2>2
  <2>3. CASE i # 1
    <3>1. i - 1 \in 1 .. n
      BY <1>1, <2>3
    <3>2. g[i - 1] = IF i - 1 = 1 THEN s[1] ELSE IF i - 1 = 2 THEN two
                     ELSE IF i - 1 = 3 THEN three ELSE four
      BY <3>1
    <3>3. \/ i = 2 /\ i - 1 = 1
          \/ i = 3 /\ i - 1 = 2
          \/ i = 4 /\ i - 1 = 3
      BY <1>2, <2>3
    <3> HIDE DEF g, two, three, four
    <3>4. CASE i = 2 /\ i - 1 = 1
      BY <2>1, <3>2, <3>4 DEF two
    <3>5. CASE i = 3 /\ i - 1 = 2
      BY <2>1, <3>2, <3>5 DEF three
    <3>6. CASE i = 4 /\ i - 1 = 3
      BY <2>1, <3>2, <3>6 DEF four
    <3> QED
      BY <3>3, <3>4, <3>5, <3>6
  <2> QED
    BY <2>2, <2>3
<1>5. g = Sums(g)
  BY <1>4
<1>6. sums = Sums(sums)
  BY <1>5
<1>7. \A i \in 1 .. n : sums[i] = IF i = 1 THEN s[i] ELSE sums[i - 1] \o s[i]
  <2> HIDE DEF sums
  <2> QED
    BY <1>6
<1> HIDE DEF sums, Sums, g, two, three, four
<1>8. n >= 1 => sums[1] = s[1]
  BY <1>1, <1>7
<1>9. n >= 2 => sums[2] = s[1] \o s[2]
  <2> SUFFICES ASSUME n >= 2 PROVE sums[2] = s[1] \o s[2]
    OBVIOUS
  <2>1. 2 \in 1 .. n /\ 2 - 1 = 1 /\ n >= 1
    BY <1>1
  <2>2. sums[2] = IF 2 = 1 THEN s[2] ELSE sums[2 - 1] \o s[2]
    BY <1>7, <2>1, Zenon
  <2>3. sums[2] = sums[1] \o s[2]
    BY <2>1, <2>2
  <2> QED
    BY <1>8, <2>1, <2>3
<1>10. n >= 3 => sums[3] = (s[1] \o s[2]) \o s[3]
  <2> SUFFICES ASSUME n >= 3 PROVE sums[3] = (s[1] \o s[2]) \o s[3]
    OBVIOUS
  <2>1. 3 \in 1 .. n /\ 3 - 1 = 2 /\ n >= 2
    BY <1>1
  <2>2. sums[3] = IF 3 = 1 THEN s[3] ELSE sums[3 - 1] \o s[3]
    BY <1>7, <2>1, Zenon
  <2>3. sums[3] = sums[2] \o s[3]
    BY <2>1, <2>2
  <2> QED
    BY <1>9, <2>1, <2>3
<1>11. n >= 4 => sums[4] = ((s[1] \o s[2]) \o s[3]) \o s[4]
  <2> SUFFICES ASSUME n >= 4 PROVE sums[4] = ((s[1] \o s[2]) \o s[3]) \o s[4]
    OBVIOUS
  <2>1. 4 \in 1 .. n /\ 4 - 1 = 3 /\ n >= 3
    BY <1>1
  <2>2. sums[4] = IF 4 = 1 THEN s[4] ELSE sums[4 - 1] \o s[4]
    BY <1>7, <2>1, Zenon
  <2>3. sums[4] = sums[3] \o s[4]
    BY <2>1, <2>2
  <2> QED
    BY <1>10, <2>1, <2>3
<1>12. n = 0 => s = << >>
  OBVIOUS
<1> HIDE DEF n
<1>13. n = 0 => F!FlattenSeq(s) = << >>
  BY <1>3, <1>12
<1>14. n # 0 => F!FlattenSeq(s) = sums[n]
  BY <1>3
<1>15. \A i \in 1 .. 4 : n = i => n >= i /\ n # 0
  BY <1>1
<1>16. /\ n = 1 => F!FlattenSeq(s) = sums[1]
       /\ n = 2 => F!FlattenSeq(s) = sums[2]
       /\ n = 3 => F!FlattenSeq(s) = sums[3]
       /\ n = 4 => F!FlattenSeq(s) = sums[4]
  BY <1>14, <1>15
<1>17. (n = 1 => n >= 1) /\ (n = 2 => n >= 2) /\ (n = 3 => n >= 3) /\ (n = 4 => n >= 4)
  BY <1>1
<1> QED
  BY <1>8, <1>9, <1>10, <1>11, <1>13, <1>16, <1>17, Zenon DEF n

\* Two sequences of trees are equal when they are as long and hold the same.
LEMMA SameTrees ==
    ASSUME NEW s \in Seq(Seq(Nodes)), NEW u \in Seq(Seq(Nodes)), Len(s) = Len(u),
           \A i \in 1 .. Len(s) : s[i] = u[i]
    PROVE  s = u
  BY SMTT(30)

----------------------------------------------------------------------------
(* The trees on the stack *)

LEMMA NothingRead ==
    ASSUME NEW h \in Heaps
    PROVE  Siblings(h, NULL) = << >>
<1> DEFINE step == [m \in Nodes |-> h[m].next]
<1>1. \A m \in Nodes : step[m] \in Nodes \cup {NULL}
  BY DEF Heaps, Records
<1>2. Siblings(h, NULL) = Path(step, NULL)
  BY DEF Siblings
<1> HIDE DEF step
<1>3. Nodes \in SUBSET Nodes /\ NULL \in Nodes \cup {NULL}
  OBVIOUS
<1>4. Path(step, NULL) = << >>
  BY <1>1, <1>3, PathFacts
<1> QED
  BY <1>2, <1>4

LEMMA TreesFacts ==
    ASSUME NEW h, NEW s, Sound(h, s)
    PROVE  /\ Trees(h, s) \in Seq(Seq(Nodes)) /\ Len(Trees(h, s)) = Len(s)
           /\ Len(s) \in Nat
           /\ \A i \in 1 .. Len(s) : /\ Trees(h, s)[i] = Siblings(h, s[i].node)
                                     /\ Siblings(h, s[i].node) \in Seq(Nodes)
<1>1. h \in Heaps /\ Wired(h, Below(s, 0)) /\ s \in Seq(Values) /\ Len(s) \in Nat
  BY DEF Sound, Whole, Stacked
<1>2. ASSUME NEW i \in 1 .. Len(s) PROVE Siblings(h, s[i].node) \in Seq(Nodes)
  <2>1. s[i].node = NULL \/ s[i].node \in Below(s, 0)
    BY <1>1 DEF Below
  <2>2. CASE s[i].node = NULL
    <3>1. Siblings(h, NULL) = << >>
      BY <1>1, NothingRead
    <3> QED
      BY <2>2, <3>1
  <2>3. CASE s[i].node \in Below(s, 0)
    BY <1>1, <2>3, RootsStartLists DEF Lists
  <2> QED
    BY <2>1, <2>2, <2>3
<1>3. DOMAIN s = 1 .. Len(s)
  BY <1>1
<1>4. Trees(h, s) = [i \in 1 .. Len(s) |-> Siblings(h, s[i].node)]
  BY <1>3 DEF Trees
<1> QED
  BY <1>1, <1>2, <1>4

\* A value replaces the last k: the trees of the others stay on the stack.
LEMMA TreesReplaced ==
    ASSUME NEW h, NEW s, Sound(h, s), NEW k \in 0 .. Len(s), NEW v \in Values, NEW g,
           Sound(g, Replaced(s, k, v)),
           \A r \in Below(s, k) : Siblings(g, r) = Siblings(h, r)
    PROVE  Trees(g, Replaced(s, k, v)) =
             Append(SubSeq(Trees(h, s), 1, Len(Trees(h, s)) - k), Siblings(g, v.node))
<1> DEFINE w == Replaced(s, k, v)
           t == Trees(h, s)
           u == Trees(g, w)
           m == Len(s) - k
           x == SubSeq(t, 1, Len(t) - k)
           new == Siblings(g, v.node)
<1>1. /\ t \in Seq(Seq(Nodes)) /\ Len(t) = Len(s) /\ Len(s) \in Nat
      /\ \A i \in 1 .. Len(s) : t[i] = Siblings(h, s[i].node)
  BY TreesFacts
<1>2. /\ u \in Seq(Seq(Nodes)) /\ Len(u) = Len(w)
      /\ \A i \in 1 .. Len(w) : u[i] = Siblings(g, w[i].node) /\ Siblings(g, w[i].node) \in Seq(Nodes)
  BY TreesFacts
<1>3. s \in Seq(Values) /\ h \in Heaps /\ g \in Heaps
  BY DEF Sound, Whole, Stacked
<1>4. Len(w) = m + 1 /\ (\A i \in 1 .. m : w[i] = s[i]) /\ w[m + 1] = v
  BY <1>3, ReplacedFacts
<1>5. m \in Nat /\ m <= Len(s)
  BY <1>1
<1>6. \A i \in 1 .. m : i \in 1 .. Len(s) /\ i \in 1 .. m + 1
  BY <1>1, <1>5
<1> HIDE DEF t, u, w
<1>7. x \in Seq(Seq(Nodes)) /\ Len(x) = m /\ \A i \in 1 .. m : x[i] = t[i]
  <2>1. x = SubSeq(t, 1, m)
    BY <1>1
  <2> HIDE DEF m, x
  <2> QED
    BY <1>1, <1>5, <2>1
<1>8. m + 1 \in 1 .. m + 1
  BY <1>5
<1>9. new \in Seq(Nodes) /\ u[m + 1] = new
  BY <1>2, <1>4, <1>8
<1>10. ASSUME NEW i \in 1 .. m PROVE u[i] = t[i]
  <2>1. u[i] = Siblings(g, s[i].node) /\ t[i] = Siblings(h, s[i].node)
    BY <1>1, <1>2, <1>4, <1>6
  <2>2. s[i].node = NULL \/ s[i].node \in Below(s, k)
    BY DEF Below
  <2>3. CASE s[i].node = NULL
    BY <1>3, <2>1, <2>3, NothingRead
  <2>4. CASE s[i].node \in Below(s, k)
    BY <2>1, <2>4
  <2> QED
    BY <2>2, <2>3, <2>4
<1> HIDE DEF x, new, m
<1>11. /\ Append(x, new) \in Seq(Seq(Nodes)) /\ Len(Append(x, new)) = m + 1
       /\ Append(x, new)[m + 1] = new /\ \A i \in 1 .. m : Append(x, new)[i] = x[i]
  BY <1>5, <1>7, <1>9
<1>12. \A i \in 1 .. m + 1 : i = m + 1 \/ i \in 1 .. m
  BY <1>5
<1>13. ASSUME NEW i \in 1 .. m + 1 PROVE u[i] = Append(x, new)[i]
  BY <1>7, <1>9, <1>10, <1>11, <1>12, Zenon
<1>14. u = Append(x, new)
  BY <1>2, <1>4, <1>11, <1>13, SameTrees
<1> QED
  BY <1>14 DEF u, w, x, t, new

\* The step of the stack of Forest, and what it finds on top.
LEMMA Pushed ==
    ASSUME TreeInv, TreeInv', NEW k \in 0 .. Len(stack), NEW v \in Values, Replace(k, v),
           \A r \in Below(stack, k) : Siblings(heap', r) = Siblings(heap, r)
    PROVE  F!Push(k, Siblings(heap', v.node))
<1>1. stack' = Replaced(stack, k, v)
  BY DEF Replace, Replaced
<1>2. Sound(heap, stack) /\ Sound(heap', Replaced(stack, k, v))
  BY <1>1 DEF TreeInv
<1>3. Trees(heap', stack') = Append(SubSeq(Trees(heap, stack), 1, Len(Trees(heap, stack)) - k),
                                    Siblings(heap', v.node))
  BY <1>1, <1>2, TreesReplaced
<1> QED
  BY <1>3 DEF F!Push, F!Below

LEMMA TopTrees ==
    ASSUME TreeInv, NEW k \in 0 .. Len(stack)
    PROVE  /\ k <= Len(Trees(heap, stack))
           /\ F!Top(k) \in Seq(Seq(Nodes)) /\ Len(F!Top(k)) = k
           /\ \A i \in 1 .. k : F!Top(k)[i] = Siblings(heap, S(k, i))
<1> DEFINE t == Trees(heap, stack)
           m == Len(stack) - k
<1>1. /\ t \in Seq(Seq(Nodes)) /\ Len(t) = Len(stack) /\ Len(stack) \in Nat
      /\ \A i \in 1 .. Len(stack) : t[i] = Siblings(heap, stack[i].node)
  BY TreesFacts DEF TreeInv
<1>2. F!Top(k) = SubSeq(t, Len(t) - k + 1, Len(t))
  BY DEF F!Top
<1>3. \A i \in 1 .. k : S(k, i) = stack[m + i].node /\ m + i \in 1 .. Len(stack)
  BY <1>1 DEF S
<1> HIDE DEF t
<1>4. /\ F!Top(k) \in Seq(Seq(Nodes)) /\ Len(F!Top(k)) = k
      /\ \A i \in 1 .. k : F!Top(k)[i] = t[m + i]
  BY SMTT(30), <1>1, <1>2
<1>5. k <= Len(t)
  BY <1>1
<1> HIDE DEF m
<1> QED
  BY <1>1, <1>3, <1>4, <1>5 DEF t
----------------------------------------------------------------------------
(* A node in use that was free, over the last k values *)

Grown(h, g, s, k, n, ks) ==
    /\ n \in Nodes /\ h[n].type = "free" /\ g[n].type # "free"
    /\ \A m \in Nodes \ {n} : /\ g[m].type = h[m].type
                              /\ Children(g, m) = Children(h, m)
    /\ Children(g, n) = ks /\ Siblings(g, n) = <<n>>
    /\ \A r \in Below(s, k) : Siblings(g, r) = Siblings(h, r)

\* The children of all nodes are those of before and of the new one.
GrownKids(kids, n, ks) == [m \in DOMAIN kids \cup {n} |-> IF m = n THEN ks ELSE kids[m]]

LEMMA KidsGrown ==
    ASSUME NEW h, NEW g, NEW s, NEW k, NEW n, NEW ks, Grown(h, g, s, k, n, ks)
    PROVE  /\ n \in Nodes \ DOMAIN Kids(h)
           /\ Kids(g) = GrownKids(Kids(h), n, ks)
<1>1. DOMAIN Kids(h) = Nodes \ Free(h) /\ \A m \in Nodes \ Free(h) : Kids(h)[m] = Children(h, m)
  BY DEF Kids
<1>2. n \in Nodes /\ n \in Free(h) /\ n \notin Free(g) /\ Children(g, n) = ks
  BY DEF Grown, Free
<1>3. \A m \in Nodes \ {n} : (m \in Free(g) <=> m \in Free(h)) /\ Children(g, m) = Children(h, m)
  BY DEF Grown, Free
<1>4. Nodes \ Free(g) = (Nodes \ Free(h)) \cup {n}
  BY <1>2, <1>3
<1>5. Kids(g) = [m \in (Nodes \ Free(h)) \cup {n} |-> Children(g, m)]
  BY <1>4 DEF Kids
<1>6. ASSUME NEW m \in (Nodes \ Free(h)) \cup {n}
      PROVE  Children(g, m) = IF m = n THEN ks ELSE Kids(h)[m]
  BY <1>1, <1>2, <1>3
<1>7. Kids(g) = [m \in (Nodes \ Free(h)) \cup {n} |-> IF m = n THEN ks ELSE Kids(h)[m]]
  BY <1>5, <1>6
<1> QED
  BY <1>1, <1>2, <1>7 DEF GrownKids

LEMMA Grew ==
    ASSUME TreeInv, TreeInv', NEW k \in 0 .. 4, k \in 0 .. Len(stack), NEW n, NEW ks,
           Grown(heap, heap', stack, k, n, ks), ks = F!FlattenSeq(F!Top(k)),
           NEW v \in Values, v.node = n, Replace(k, v)
    PROVE  F!ForestNext
<1>1. F!Push(k, Siblings(heap', v.node))
  BY Pushed DEF Grown
<1>2. F!Push(k, <<n>>)
  BY <1>1 DEF Grown
<1>3. /\ n \in Nodes \ DOMAIN Kids(heap)
      /\ Kids(heap') = GrownKids(Kids(heap), n, ks)
  BY KidsGrown
<1>4. Kids(heap)' = F!With(n, F!FlattenSeq(F!Top(k)))
  BY <1>3 DEF GrownKids, F!With
<1>5. F!Grow(n, k)
  BY <1>2, <1>4 DEF F!Grow
<1>6. k <= Len(Trees(heap, stack))
  BY TopTrees
<1> QED
  BY <1>3, <1>5, <1>6 DEF F!ForestNext

\* A node made of trees that were on the stack.
LEMMA MadeGrown ==
    ASSUME NEW h \in Heaps, NEW s, NEW k, NEW n \in Nodes, h[n].type = "free",
           NEW g \in Heaps, Wired(g, Plus(Below(s, k), n)), Apart(h, g, n, Below(s, k)),
           NEW type \in Types, NEW f, NEW l, NEW c, NEW ks, MadeOf(g, n, type, f, l, c, ks)
    PROVE  Grown(h, g, s, k, n, ks)
<1>1. g[n].type = type /\ g[n].next = NULL /\ Children(g, n) = ks /\ type # "free"
  BY DEF MadeOf, Types
<1>2. n \in Plus(Below(s, k), n)
  BY DEF Plus
<1>3. Siblings(g, n) = <<n>>
  BY <1>1, <1>2, Alone
<1>4. /\ \A m \in Nodes \ {n} : Children(g, m) = Children(h, m) /\ g[m].type = h[m].type
      /\ \A r \in Below(s, k) : Siblings(g, r) = Siblings(h, r)
  BY DEF Apart
<1> QED
  BY <1>1, <1>3, <1>4 DEF Grown

LEMMA GrownOne ==
    ASSUME NEW h, NEW s, Sound(h, s), NEW k,
           NEW n \in Nodes, h[n].type = "free",
           NEW a \in Below(s, 0), Below(s, k) = Minus(Below(s, 0), a),
           NEW type \in Types, NEW g, g = createASTUnaryNode(h, n, type, a)
    PROVE  Grown(h, g, s, k, n, Siblings(h, a))
<1> DEFINE roots == Below(s, 0)
           ks == Siblings(h, a)
<1>1. h \in Heaps /\ Wired(h, roots)
  BY DEF Sound, Whole
<1>2. Below(s, k) = Minus(roots, a) /\ a \in roots
  OBVIOUS
<1> HIDE DEF roots
<1>3. /\ g \in Heaps
      /\ Wired(g, Plus(Minus(roots, a), n))
      /\ Apart(h, g, n, Minus(roots, a))
      /\ MadeOf(g, n, type, a, a, 1, ks)
  BY <1>1, <1>2, MadeUnary
<1> HIDE DEF ks
<1>4. Wired(g, Plus(Below(s, k), n)) /\ Apart(h, g, n, Below(s, k))
  BY <1>2, <1>3, Zenon
<1>5. Grown(h, g, s, k, n, ks)
  BY <1>1, <1>3, <1>4, MadeGrown
<1> QED
  BY <1>5 DEF ks

LEMMA GrownTwo ==
    ASSUME NEW h, NEW s, Sound(h, s), NEW k,
           NEW n \in Nodes, h[n].type = "free",
           NEW a \in Below(s, 0), h[a].next = NULL, NEW b \in Below(s, 0), a # b,
           Below(s, k) = Minus(Minus(Below(s, 0), a), b),
           NEW type \in Types, NEW g, g = createASTBinaryNode(h, n, type, a, b)
    PROVE  Grown(h, g, s, k, n, Siblings(h, a) \o Siblings(h, b))
<1> DEFINE roots == Below(s, 0)
           ks == <<a>> \o Siblings(h, b)
<1>1. h \in Heaps /\ Wired(h, roots)
  BY DEF Sound, Whole
<1>2. Below(s, k) = Minus(Minus(roots, a), b) /\ a \in roots /\ b \in roots
  OBVIOUS
<1> HIDE DEF roots
<1>3. /\ g \in Heaps
      /\ Wired(g, Plus(Minus(Minus(roots, a), b), n))
      /\ Apart(h, g, n, Minus(Minus(roots, a), b))
      /\ MadeOf(g, n, type, a, b, 2, ks)
  BY <1>1, <1>2, MadeBinary
<1>4. Siblings(h, a) = <<a>>
  BY <1>1, <1>2, Alone
<1>5. ks = Siblings(h, a) \o Siblings(h, b)
  BY <1>4
<1> HIDE DEF ks
<1>6. Wired(g, Plus(Below(s, k), n)) /\ Apart(h, g, n, Below(s, k))
  BY <1>2, <1>3, Zenon
<1>7. Grown(h, g, s, k, n, ks)
  BY <1>1, <1>3, <1>6, MadeGrown
<1> QED
  BY <1>5, <1>7, Zenon

LEMMA GrownThree ==
    ASSUME NEW h, NEW s, Sound(h, s), NEW k,
           NEW n \in Nodes, h[n].type = "free",
           NEW a \in Below(s, 0), h[a].next = NULL, NEW b \in Below(s, 0), h[b].next = NULL,
           NEW c \in Below(s, 0), a # b, a # c, b # c,
           Below(s, k) = Minus(Minus(Minus(Below(s, 0), a), b), c),
           NEW type \in Types, NEW g, g = createASTTernaryNode(h, n, type, a, b, c)
    PROVE  Grown(h, g, s, k, n, (Siblings(h, a) \o Siblings(h, b)) \o Siblings(h, c))
<1> DEFINE roots == Below(s, 0)
           ks == <<a, b>> \o Siblings(h, c)
<1>1. h \in Heaps /\ Wired(h, roots) /\ a \in Nodes /\ b \in Nodes /\ c \in Nodes
  BY DEF Sound, Whole, Wired
<1>2. Below(s, k) = Minus(Minus(Minus(roots, a), b), c) /\ a \in roots /\ b \in roots /\ c \in roots
  OBVIOUS
<1> HIDE DEF roots
<1>3. /\ g \in Heaps
      /\ Wired(g, Plus(Minus(Minus(Minus(roots, a), b), c), n))
      /\ Apart(h, g, n, Minus(Minus(Minus(roots, a), b), c))
      /\ MadeOf(g, n, type, a, c, 3, ks)
  BY <1>1, <1>2, MadeTernary
<1>4. Siblings(h, a) = <<a>> /\ Siblings(h, b) = <<b>>
  BY <1>1, <1>2, Alone
<1>5. <<a>> \o <<b>> = <<a, b>>
  BY <1>1, JoinedShort
<1>6. ks = (Siblings(h, a) \o Siblings(h, b)) \o Siblings(h, c)
  BY <1>4, <1>5, Zenon
<1> HIDE DEF ks
<1>7. Wired(g, Plus(Below(s, k), n)) /\ Apart(h, g, n, Below(s, k))
  BY <1>2, <1>3, Zenon
<1>8. Grown(h, g, s, k, n, ks)
  BY <1>1, <1>3, <1>7, MadeGrown
<1> QED
  BY <1>6, <1>8, Zenon

LEMMA GrownFour ==
    ASSUME NEW h, NEW s, Sound(h, s), NEW k,
           NEW n \in Nodes, h[n].type = "free",
           NEW a \in Below(s, 0), h[a].next = NULL, NEW b \in Below(s, 0), h[b].next = NULL,
           NEW c \in Below(s, 0), h[c].next = NULL, NEW d \in Below(s, 0),
           a # b, a # c, b # c, a # d, b # d, c # d,
           Below(s, k) = Minus(Minus(Minus(Minus(Below(s, 0), a), b), c), d),
           NEW type \in Types, NEW g, g = createASTQuaternaryNode(h, n, type, a, b, c, d)
    PROVE  Grown(h, g, s, k, n,
                 ((Siblings(h, a) \o Siblings(h, b)) \o Siblings(h, c)) \o Siblings(h, d))
<1> DEFINE roots == Below(s, 0)
           ks == <<a, b, c>> \o Siblings(h, d)
<1>1. h \in Heaps /\ Wired(h, roots) /\ a \in Nodes /\ b \in Nodes /\ c \in Nodes
  BY DEF Sound, Whole, Wired
<1>2. /\ Below(s, k) = Minus(Minus(Minus(Minus(roots, a), b), c), d)
      /\ a \in roots /\ b \in roots /\ c \in roots /\ d \in roots
  OBVIOUS
<1> HIDE DEF roots
<1>3. /\ g \in Heaps
      /\ Wired(g, Plus(Minus(Minus(Minus(Minus(roots, a), b), c), d), n))
      /\ Apart(h, g, n, Minus(Minus(Minus(Minus(roots, a), b), c), d))
      /\ MadeOf(g, n, type, a, d, 4, ks)
  BY <1>1, <1>2, MadeQuaternary
<1>4. Siblings(h, a) = <<a>> /\ Siblings(h, b) = <<b>> /\ Siblings(h, c) = <<c>>
  BY <1>1, <1>2, Alone
<1>5. <<a>> \o <<b>> = <<a, b>> /\ <<a, b>> \o <<c>> = <<a, b, c>>
  BY <1>1, JoinedShort
<1>6. ks = ((Siblings(h, a) \o Siblings(h, b)) \o Siblings(h, c)) \o Siblings(h, d)
  BY <1>4, <1>5, Zenon
<1> HIDE DEF ks
<1>7. Wired(g, Plus(Below(s, k), n)) /\ Apart(h, g, n, Below(s, k))
  BY <1>2, <1>3, Zenon
<1>8. Grown(h, g, s, k, n, ks)
  BY <1>1, <1>3, <1>7, MadeGrown
<1> QED
  BY <1>6, <1>8, Zenon
----------------------------------------------------------------------------
(* What lies on top, put together *)

LEMMA TopJoined ==
    ASSUME TreeInv
    PROVE  /\ 0 \in 0 .. Len(stack) => F!FlattenSeq(F!Top(0)) = << >>
           /\ 1 \in 0 .. Len(stack) => F!FlattenSeq(F!Top(1)) = Siblings(heap, S(1, 1))
           /\ 2 \in 0 .. Len(stack) =>
                F!FlattenSeq(F!Top(2)) = Siblings(heap, S(2, 1)) \o Siblings(heap, S(2, 2))
           /\ 3 \in 0 .. Len(stack) =>
                F!FlattenSeq(F!Top(3)) =
                  (Siblings(heap, S(3, 1)) \o Siblings(heap, S(3, 2))) \o Siblings(heap, S(3, 3))
           /\ 4 \in 0 .. Len(stack) =>
                F!FlattenSeq(F!Top(4)) =
                  ((Siblings(heap, S(4, 1)) \o Siblings(heap, S(4, 2))) \o Siblings(heap, S(4, 3)))
                    \o Siblings(heap, S(4, 4))
<1>1. \A k \in 0 .. 4 : k \in 0 .. Len(stack) =>
         /\ F!Top(k) \in Seq(Seq(Nodes)) /\ Len(F!Top(k)) = k /\ Len(F!Top(k)) <= 4
         /\ \A i \in 1 .. k : F!Top(k)[i] = Siblings(heap, S(k, i))
  <2> SUFFICES ASSUME NEW k \in 0 .. 4, k \in 0 .. Len(stack)
               PROVE  /\ F!Top(k) \in Seq(Seq(Nodes)) /\ Len(F!Top(k)) = k /\ Len(F!Top(k)) <= 4
                      /\ \A i \in 1 .. k : F!Top(k)[i] = Siblings(heap, S(k, i))
    OBVIOUS
  <2>1. /\ F!Top(k) \in Seq(Seq(Nodes)) /\ Len(F!Top(k)) = k
        /\ \A i \in 1 .. k : F!Top(k)[i] = Siblings(heap, S(k, i))
    BY TopTrees
  <2>2. k <= 4
    OBVIOUS
  <2> QED
    BY <2>1, <2>2
<1>2. ASSUME 0 \in 0 .. Len(stack) PROVE F!FlattenSeq(F!Top(0)) = << >>
  <2>1. F!Top(0) \in Seq(Seq(Nodes)) /\ Len(F!Top(0)) = 0 /\ Len(F!Top(0)) <= 4
    BY <1>1, <1>2
  <2> QED
    BY <2>1, Flattened
<1>3. ASSUME 1 \in 0 .. Len(stack) PROVE F!FlattenSeq(F!Top(1)) = Siblings(heap, S(1, 1))
  <2>1. /\ F!Top(1) \in Seq(Seq(Nodes)) /\ Len(F!Top(1)) = 1 /\ Len(F!Top(1)) <= 4
        /\ F!Top(1)[1] = Siblings(heap, S(1, 1))
    BY <1>1, <1>3
  <2>2. F!FlattenSeq(F!Top(1)) = F!Top(1)[1]
    BY <2>1, Flattened
  <2> QED
    BY <2>1, <2>2
<1>4. ASSUME 2 \in 0 .. Len(stack)
      PROVE  F!FlattenSeq(F!Top(2)) = Siblings(heap, S(2, 1)) \o Siblings(heap, S(2, 2))
  <2>1. /\ F!Top(2) \in Seq(Seq(Nodes)) /\ Len(F!Top(2)) = 2 /\ Len(F!Top(2)) <= 4
        /\ F!Top(2)[1] = Siblings(heap, S(2, 1)) /\ F!Top(2)[2] = Siblings(heap, S(2, 2))
    BY <1>1, <1>4
  <2>2. F!FlattenSeq(F!Top(2)) = F!Top(2)[1] \o F!Top(2)[2]
    BY <2>1, Flattened
  <2> QED
    BY <2>1, <2>2, Zenon
<1>5. ASSUME 3 \in 0 .. Len(stack)
      PROVE  F!FlattenSeq(F!Top(3)) =
               (Siblings(heap, S(3, 1)) \o Siblings(heap, S(3, 2))) \o Siblings(heap, S(3, 3))
  <2>1. /\ F!Top(3) \in Seq(Seq(Nodes)) /\ Len(F!Top(3)) = 3 /\ Len(F!Top(3)) <= 4
        /\ F!Top(3)[1] = Siblings(heap, S(3, 1)) /\ F!Top(3)[2] = Siblings(heap, S(3, 2))
        /\ F!Top(3)[3] = Siblings(heap, S(3, 3))
    BY <1>1, <1>5
  <2>2. F!FlattenSeq(F!Top(3)) = (F!Top(3)[1] \o F!Top(3)[2]) \o F!Top(3)[3]
    BY <2>1, Flattened
  <2> QED
    BY <2>1, <2>2, Zenon
<1>6. ASSUME 4 \in 0 .. Len(stack)
      PROVE  F!FlattenSeq(F!Top(4)) =
               ((Siblings(heap, S(4, 1)) \o Siblings(heap, S(4, 2))) \o Siblings(heap, S(4, 3)))
                 \o Siblings(heap, S(4, 4))
  <2>1. /\ F!Top(4) \in Seq(Seq(Nodes)) /\ Len(F!Top(4)) = 4 /\ Len(F!Top(4)) <= 4
        /\ F!Top(4)[1] = Siblings(heap, S(4, 1)) /\ F!Top(4)[2] = Siblings(heap, S(4, 2))
        /\ F!Top(4)[3] = Siblings(heap, S(4, 3)) /\ F!Top(4)[4] = Siblings(heap, S(4, 4))
    BY <1>1, <1>6
  <2>2. F!FlattenSeq(F!Top(4)) = ((F!Top(4)[1] \o F!Top(4)[2]) \o F!Top(4)[3]) \o F!Top(4)[4]
    BY <2>1, Flattened
  <2> QED
    BY <2>1, <2>2, Zenon
<1> QED
  BY <1>2, <1>3, <1>4, <1>5, <1>6, Zenon

----------------------------------------------------------------------------
(* Terminals, expressions and calls *)

LEMMA LeafGrows ==
    ASSUME TreeInv, TreeInv', NEW nt \in {"exp", "name", "piped", "stmt"}, Leaf(nt)
    PROVE  F!ForestNext
<1> DEFINE type == IF nt = "piped" THEN "piped" ELSE "node"
           new == New
           v == Value(nt, new, << >>)
           g == createASTNode(heap, new, type)
<1>1. Sound(heap, stack) /\ 0 \in 0 .. Len(stack)
  BY Follows DEF Leaf
<1>2. new \in Nodes /\ heap[new].type = "free"
  BY CanGrowFree DEF Leaf
<1>3. heap' = g /\ Replace(0, v)
  BY DEF Leaf, Reduce
<1>4. v \in Values /\ v.node = new
  BY <1>2, PlainValue DEF Nonterminals, Expression, Command, Linked
<1>5. type \in Types /\ type # "free"
  BY DEF Types
<1> HIDE DEF v, type, new
<1>6. heap \in Heaps /\ Wired(heap, Below(stack, 0))
  BY <1>1 DEF Sound, Whole
<1> DEFINE roots == Below(stack, 0)
<1>7. /\ g[new] = Comp(type) /\ \A n \in Nodes \ {new} : g[n] = heap[n]
      /\ \A m \in Nodes \ {new} : Children(g, m) = Children(heap, m)
      /\ \A r \in roots : Siblings(g, r) = Siblings(heap, r)
      /\ Children(g, new) = << >> /\ Siblings(g, new) = <<new>>
  BY <1>2, <1>5, <1>6, Created
<1> HIDE DEF g
<1>8. g[new].type # "free" /\ \A n \in Nodes \ {new} : g[n].type = heap[n].type
  BY <1>5, <1>7 DEF Comp
<1>9. Grown(heap, g, stack, 0, new, << >>)
  BY <1>2, <1>7, <1>8, Zenon DEF Grown
<1>10. << >> = F!FlattenSeq(F!Top(0))
  BY <1>1, TopJoined
<1>11. 0 \in 0 .. 4
  OBVIOUS
<1> QED
  BY <1>1, <1>3, <1>4, <1>9, <1>10, <1>11, Grew

\* A production over the tree on top.
LEMMA OneGrows ==
    ASSUME TreeInv, TreeInv', NEW A, On(<<A>>), S(1, 1) # NULL,
           NEW new \in Nodes, heap[new].type = "free", NEW type \in Types,
           heap' = createASTUnaryNode(heap, new, type, S(1, 1)),
           NEW v \in Values, v.node = new, Replace(1, v)
    PROVE  F!ForestNext
<1> DEFINE a == S(1, 1)
           va == Nth(stack, 1, 1)
           g == createASTUnaryNode(heap, new, type, a)
           ks == Siblings(heap, a)
<1>1. Sound(heap, stack) /\ heap' = g /\ a # NULL
  BY DEF TreeInv
<1>2. 1 \in 0 .. Len(stack) /\ (a = NULL \/ a \in Below(stack, 0))
      /\ Below(stack, 1) = Minus(Below(stack, 0), a)
  BY <1>1, TopOne
<1>3. ks = F!FlattenSeq(F!Top(1))
  BY <1>2, TopJoined
<1> HIDE DEF a
<1>4. Grown(heap, g, stack, 1, new, ks)
  BY <1>1, <1>2, GrownOne
<1>5. 1 \in 0 .. 4
  OBVIOUS
<1> HIDE DEF g, ks
<1> QED
  BY <1>1, <1>2, <1>3, <1>4, <1>5, Grew

\* A production over the two trees on top, with or without a new count.
LEMMA TwoGrow ==
    ASSUME TreeInv, TreeInv', NEW A, NEW B, On(<<A, B>>),
           NEW new, Grown(heap, heap', stack, 2, new, Siblings(heap, S(2, 1)) \o Siblings(heap, S(2, 2))),
           NEW v \in Values, v.node = new, Replace(2, v)
    PROVE  F!ForestNext
<1> DEFINE a == S(2, 1)
           b == S(2, 2)
           va == Nth(stack, 2, 1)
           vb == Nth(stack, 2, 2)
           ks == Siblings(heap, a) \o Siblings(heap, b)
<1>1. Sound(heap, stack) /\ Grown(heap, heap', stack, 2, new, ks)
  BY DEF TreeInv
<1>2. 2 \in 0 .. Len(stack)
  BY <1>1, TopTwo
<1>3. ks = F!FlattenSeq(F!Top(2))
  BY <1>2, TopJoined
<1> HIDE DEF ks
<1>4. 2 \in 0 .. 4
  OBVIOUS
<1> QED
  BY <1>1, <1>2, <1>3, <1>4, Grew

\* The trees that a production finds.
LEMMA FoundOne ==
    ASSUME TreeInv, NEW A, On(<<A>>), A \subseteq Nonterminals \ {"stmt", "body"},
           NEW a, a = S(1, 1)
    PROVE  /\ 1 \in 0 .. Len(stack) /\ Sound(heap, stack)
           /\ a \in Below(stack, 0) /\ a \in Nodes /\ a # NULL
           /\ Below(stack, 1) = Minus(Below(stack, 0), a)
           /\ "args" \notin A => heap[a].next = NULL
<1> DEFINE va == Nth(stack, 1, 1)
<1>1. Sound(heap, stack)
  BY DEF TreeInv
<1>2. /\ 1 \in 0 .. Len(stack)
      /\ va \in Values /\ va.node = a /\ va.nt \in A /\ Fits(heap, va)
      /\ a = NULL \/ a \in Below(stack, 0)
      /\ Below(stack, 1) = Minus(Below(stack, 0), a)
  BY <1>1, TopOne
<1> HIDE DEF va
<1>3. a # NULL /\ ("args" \notin A => heap[a].next = NULL)
  BY <1>2, HasTree
<1> QED
  BY <1>1, <1>2, <1>3 DEF Sound, Whole, Wired

LEMMA FoundTwo ==
    ASSUME TreeInv, NEW A, NEW B, On(<<A, B>>),
           A \subseteq Nonterminals \ {"stmt", "body"}, B \subseteq Nonterminals \ {"stmt", "body"},
           NEW a, a = S(2, 1), NEW b, b = S(2, 2)
    PROVE  /\ 2 \in 0 .. Len(stack) /\ Sound(heap, stack)
           /\ a \in Below(stack, 0) /\ a \in Nodes /\ a # NULL
           /\ b \in Below(stack, 0) /\ b \in Nodes /\ b # NULL
           /\ a # b
           /\ Below(stack, 2) = Minus(Minus(Below(stack, 0), a), b)
           /\ "args" \notin A => heap[a].next = NULL
           /\ "args" \notin B => heap[b].next = NULL
<1> DEFINE va == Nth(stack, 2, 1)
           vb == Nth(stack, 2, 2)
<1>1. Sound(heap, stack)
  BY DEF TreeInv
<1>2. /\ 2 \in 0 .. Len(stack)
      /\ va \in Values /\ va.node = a /\ va.nt \in A /\ Fits(heap, va)
      /\ vb \in Values /\ vb.node = b /\ vb.nt \in B /\ Fits(heap, vb)
      /\ a = NULL \/ a \in Below(stack, 0)
      /\ b = NULL \/ b \in Below(stack, 0)
      /\ a = b => a = NULL
      /\ Below(stack, 2) = Minus(Minus(Below(stack, 0), a), b)
  BY <1>1, TopTwo
<1> HIDE DEF va, vb
<1>3. a # NULL /\ ("args" \notin A => heap[a].next = NULL)
  BY <1>2, HasTree
<1>4. b # NULL /\ ("args" \notin B => heap[b].next = NULL)
  BY <1>2, HasTree
<1> QED
  BY <1>1, <1>2, <1>3, <1>4 DEF Sound, Whole, Wired

LEMMA UnaryGrows ==
    ASSUME TreeInv, TreeInv', NEW nt \in {"exp", "stmt"}, Unary(nt)
    PROVE  F!ForestNext
<1> DEFINE new == New
           v == Value(nt, new, << >>)
<1>1. On(<<Expression>>) /\ heap' = createASTUnaryNode(heap, new, "node", S(1, 1)) /\ Replace(1, v)
  BY DEF Unary, Reduce
<1>2. new \in Nodes /\ heap[new].type = "free"
  BY CanBranchFree DEF Unary
<1> HIDE DEF new
<1>3. v \in Values /\ v.node = new
  BY <1>2, PlainValue DEF Nonterminals, Expression, Command
<1> HIDE DEF v
<1>4. S(1, 1) # NULL
  BY <1>1, FoundOne DEF Nonterminals, Expression
<1>5. "node" \in Types
  BY DEF Types
<1> QED
  BY <1>1, <1>2, <1>3, <1>4, <1>5, OneGrows

LEMMA BinaryGrows ==
    ASSUME TreeInv, TreeInv', NEW nt \in {"exp", "stmt"}, Binary(nt)
    PROVE  F!ForestNext
<1> DEFINE new == New
           v == Value(nt, new, << >>)
           a == S(2, 1)
           b == S(2, 2)
           g == createASTBinaryNode(heap, new, "node", a, b)
<1>1. On(<<Expression, Expression>>) /\ heap' = g /\ Replace(2, v)
  BY DEF Binary, Reduce
<1>2. new \in Nodes /\ heap[new].type = "free"
  BY CanBranchFree DEF Binary
<1> HIDE DEF new
<1>3. v \in Values /\ v.node = new
  BY <1>2, PlainValue DEF Nonterminals, Expression, Command
<1>4. /\ Sound(heap, stack) /\ a \in Below(stack, 0) /\ b \in Below(stack, 0) /\ a # b
      /\ heap[a].next = NULL /\ Below(stack, 2) = Minus(Minus(Below(stack, 0), a), b)
  BY <1>1, FoundTwo DEF Nonterminals, Expression
<1>5. "node" \in Types
  BY DEF Types
<1>6. Grown(heap, g, stack, 2, new, Siblings(heap, a) \o Siblings(heap, b))
  <2> HIDE DEF a, b
  <2> QED
    BY <1>2, <1>4, <1>5, GrownTwo
<1> HIDE DEF v, g
<1>7. Grown(heap, heap', stack, 2, new, Siblings(heap, S(2, 1)) \o Siblings(heap, S(2, 2)))
  BY <1>1, <1>6
<1> QED
  BY <1>1, <1>3, <1>7, TwoGrow

LEMMA OneNameGrows ==
    ASSUME TreeInv, TreeInv', CallWithoutArguments \/ PipedFunction
    PROVE  F!ForestNext
<1> DEFINE new == New
           a == S(1, 1)
<1>1. PICK name \in {"name", "piped"}, nt \in {"call", "linked"} :
         /\ On(<<{name}>>) /\ CanGrow(1)
         /\ Named(1, nt, createASTUnaryNode(heap, new, "call", a), <<a>>)
  BY DEF CallWithoutArguments, PipedFunction
<1>2. new \in Nodes /\ heap[new].type = "free"
  BY <1>1, CanGrowFree
<1> DEFINE v == Value(nt, new, <<a>>)
<1>3. heap' = createASTUnaryNode(heap, new, "call", a) /\ Replace(1, v)
  BY <1>1 DEF Named
<1>4. a # NULL /\ a \in Nodes
  BY <1>1, FoundOne DEF Nonterminals
<1> HIDE DEF new
<1>5. v \in Values /\ v.node = new
  <2> HIDE DEF a
  <2> QED
    BY <1>2, <1>4, NamedValue DEF Nonterminals, Expression, Linked
<1> HIDE DEF v
<1>6. "call" \in Types
  BY DEF Types
<1> QED
  BY <1>1, <1>2, <1>3, <1>4, <1>5, <1>6, OneGrows

\* Counting the children again leaves them as they are.
LEMMA CountedGrown ==
    ASSUME NEW h, NEW s, Sound(h, s), NEW k,
           NEW n \in Nodes, h[n].type = "free",
           NEW a \in Below(s, 0), h[a].next = NULL, NEW b \in Below(s, 0), a # b,
           Below(s, k) = Minus(Minus(Below(s, 0), a), b),
           NEW m, m = createASTBinaryNode(h, n, "call", a, b),
           NEW g, g = update_childs(m, n)
    PROVE  Grown(h, g, s, k, n, Siblings(h, a) \o Siblings(h, b))
<1> DEFINE rest == Below(s, k)
           ks == Siblings(h, a) \o Siblings(h, b)
<1>1. h \in Heaps /\ Wired(h, Below(s, 0)) /\ rest = Minus(Minus(Below(s, 0), a), b)
  BY DEF Sound, Whole
<1> HIDE DEF rest
<1>2. /\ m \in Heaps /\ Wired(m, Plus(rest, n))
      /\ Len(Children(m, n)) \in Nat /\ Len(Children(m, n)) >= 2
  BY <1>1, CallOfTwo
<1>3. Children(m, n) # << >>
  BY <1>2, ChildrenFacts
<1> DEFINE those == Plus(rest, n)
<1>4. Wired(m, those) /\ n \in those /\ \A r \in rest : r \in those
  BY <1>2 DEF Plus
<1> HIDE DEF those
<1>5. /\ \A i \in Nodes : Children(g, i) = Children(m, i)
      /\ \A r \in those : Siblings(g, r) = Siblings(m, r)
      /\ \A i \in Nodes : g[i].type = m[i].type
  BY <1>2, <1>3, <1>4, ChildsUpdated
<1>6. "call" \in Types
  BY DEF Types
<1>7. Grown(h, m, s, k, n, ks)
  BY <1>6, GrownTwo
<1> HIDE DEF ks
<1>8. Grown(h, g, s, k, n, ks)
  BY <1>4, <1>5, <1>7 DEF Grown, rest
<1> QED
  BY <1>8 DEF ks

LEMMA TwoNamesGrow ==
    ASSUME TreeInv, TreeInv', Call \/ PipedFunctionWithArguments
    PROVE  F!ForestNext
<1> DEFINE new == New
           a == S(2, 1)
           b == S(2, 2)
           m == createASTBinaryNode(heap, new, "call", a, b)
           u == update_childs(m, new)
           ks == Siblings(heap, a) \o Siblings(heap, b)
<1>1. PICK name \in {"name", "piped"}, nt \in {"call", "linked"} :
         /\ On(<<{name}, {"args"}>>) /\ CanGrow(1)
         /\ Named(2, nt, u, <<a>>) \/ Named(2, nt, m, <<a>>)
  BY DEF Call, PipedFunctionWithArguments
<1>2. new \in Nodes /\ heap[new].type = "free"
  BY <1>1, CanGrowFree
<1> DEFINE v == Value(nt, new, <<a>>)
<1>3. (heap' = u \/ heap' = m) /\ Replace(2, v)
  BY <1>1 DEF Named
<1>4. /\ Sound(heap, stack) /\ a \in Below(stack, 0) /\ b \in Below(stack, 0) /\ a # b
      /\ a \in Nodes
      /\ heap[a].next = NULL /\ Below(stack, 2) = Minus(Minus(Below(stack, 0), a), b)
  BY <1>1, FoundTwo DEF Nonterminals
<1> HIDE DEF new
<1>5. v \in Values /\ v.node = new
  <2> HIDE DEF a
  <2> QED
    BY <1>2, <1>4, NamedValue DEF Nonterminals, Expression, Linked
<1>6. "call" \in Types
  BY DEF Types
<1>7. Grown(heap, m, stack, 2, new, ks)
  <2> HIDE DEF a, b
  <2> QED
    BY <1>2, <1>4, <1>6, GrownTwo
<1>8. Grown(heap, u, stack, 2, new, ks)
  <2> HIDE DEF a, b
  <2> QED
    BY <1>2, <1>4, CountedGrown
<1> HIDE DEF v, m, u
<1>9. Grown(heap, heap', stack, 2, new, ks)
  BY <1>3, <1>7, <1>8
<1> QED
  BY <1>1, <1>3, <1>5, <1>9, TwoGrow

----------------------------------------------------------------------------
(* The heap is left alone, or but one list changes *)

LEMMA KidsKept ==
    ASSUME NEW h, NEW g,
           \A m \in Nodes : g[m].type = h[m].type /\ Children(g, m) = Children(h, m)
    PROVE  Kids(g) = Kids(h)
<1>1. Free(g) = Free(h)
  BY DEF Free
<1> QED
  BY <1>1 DEF Kids

ChangedKids(kids, t, ks) == [kids EXCEPT ![t] = ks]

LEMMA KidsChanged ==
    ASSUME NEW h, NEW g, NEW t \in Nodes, h[t].type # "free", NEW ks,
           \A m \in Nodes : g[m].type = h[m].type,
           \A m \in Nodes \ {t} : Children(g, m) = Children(h, m),
           Children(g, t) = ks
    PROVE  /\ t \in DOMAIN Kids(h) /\ Kids(h)[t] = Children(h, t)
           /\ Kids(g) = ChangedKids(Kids(h), t, ks)
<1>1. Free(g) = Free(h)
  BY DEF Free
<1>2. t \in Nodes \ Free(h)
  BY DEF Free
<1>3. /\ DOMAIN Kids(h) = Nodes \ Free(h)
      /\ \A m \in Nodes \ Free(h) : Kids(h)[m] = Children(h, m)
  BY DEF Kids
<1>4. Kids(g) = [m \in Nodes \ Free(h) |-> Children(g, m)]
  BY <1>1 DEF Kids
<1>5. ASSUME NEW m \in Nodes \ Free(h)
      PROVE  Children(g, m) = IF m = t THEN ks ELSE Kids(h)[m]
  BY <1>3
<1>6. Kids(h) = [m \in Nodes \ Free(h) |-> Children(h, m)]
  BY DEF Kids
<1>7. [Kids(h) EXCEPT ![t] = ks] = [m \in Nodes \ Free(h) |-> IF m = t THEN ks ELSE Kids(h)[m]]
  BY <1>3, <1>6
<1> QED
  BY <1>2, <1>3, <1>4, <1>5, <1>7 DEF ChangedKids

\* A value with the tree that was on top.
LEMMA SameStays ==
    ASSUME TreeInv, TreeInv', 1 \in 0 .. Len(stack),
           NEW v \in Values, v.node = S(1, 1), heap' = heap, Replace(1, v)
    PROVE  UNCHANGED F!fvars
<1> DEFINE t == Trees(heap, stack)
           x == SubSeq(t, 1, Len(t) - 1)
           top == Siblings(heap, S(1, 1))
<1>1. \A r \in Below(stack, 1) : Siblings(heap', r) = Siblings(heap, r)
  OBVIOUS
<1>2. F!Push(1, Siblings(heap', v.node))
  BY <1>1, Pushed
<1>3. Trees(heap', stack') = Append(x, top)
  BY <1>2 DEF F!Push, F!Below
<1>4. /\ F!Top(1) \in Seq(Seq(Nodes)) /\ Len(F!Top(1)) = 1
      /\ F!Top(1)[1] = top /\ 1 <= Len(t)
  <2>1. /\ 1 <= Len(t) /\ F!Top(1) \in Seq(Seq(Nodes)) /\ Len(F!Top(1)) = 1
        /\ \A i \in 1 .. 1 : F!Top(1)[i] = Siblings(heap, S(1, i))
    BY TopTrees
  <2> QED
    BY <2>1
<1>5. t \in Seq(Seq(Nodes)) /\ Len(t) \in Nat
  BY TreesFacts DEF TreeInv
<1>6. F!Top(1) = SubSeq(t, Len(t) - 1 + 1, Len(t))
  BY DEF F!Top
<1> HIDE DEF t, top
<1>7. t[Len(t)] = top
  BY <1>4, <1>5, <1>6
<1>8. Append(x, top) = t
  BY SMTT(30), <1>4, <1>5, <1>7
<1>9. Trees(heap', stack') = Trees(heap, stack)
  BY <1>3, <1>8 DEF t
<1> QED
  BY <1>9 DEF F!fvars

LEMMA LastArgumentStays ==
    ASSUME TreeInv, TreeInv', LastArgument
    PROVE  UNCHANGED F!fvars
<1> DEFINE a == S(1, 1)
           v == Value("args", a, << >>)
<1>1. On(<<Expression>>) /\ heap' = heap /\ Replace(1, v)
  BY DEF LastArgument, Reduce
<1>2. 1 \in 0 .. Len(stack) /\ a \in Nodes
  BY <1>1, FoundOne DEF Nonterminals, Expression
<1> HIDE DEF a
<1>3. v \in Values /\ v.node = a
  BY <1>2, PlainValue DEF Nonterminals
<1> QED
  BY <1>1, <1>2, <1>3, SameStays DEF a

LEMMA NothingGrows ==
    ASSUME TreeInv, TreeInv', Declaration \/ EmptyBlock
    PROVE  F!ForestNext
<1>1. PICK nt \in {"stmt", "body"} : MayFollow(nt) /\ Reduce(0, nt, NULL, heap)
  BY DEF Declaration, EmptyBlock
<1>2. 0 \in 0 .. Len(stack)
  BY <1>1, Follows
<1> DEFINE v == Value(nt, NULL, << >>)
<1>3. heap' = heap /\ Replace(0, v)
  BY <1>1 DEF Reduce
<1>4. v \in Values /\ v.node = NULL
  BY PlainValue DEF Nonterminals, Command, Expression
<1>5. \A r \in Below(stack, 0) : Siblings(heap', r) = Siblings(heap, r)
  BY <1>3
<1> HIDE DEF v
<1>6. F!Push(0, Siblings(heap', v.node))
  BY <1>2, <1>3, <1>4, <1>5, Pushed
<1>7. Siblings(heap', NULL) = << >>
  BY <1>3, NothingRead DEF TreeInv, Sound, Whole
<1>8. F!Nothing
  BY <1>3, <1>4, <1>6, <1>7 DEF F!Nothing
<1> QED
  BY <1>8 DEF F!ForestNext

\* Two values become one that stands for the trees of both.
LEMMA TwoJoin ==
    ASSUME TreeInv, TreeInv', 2 \in 0 .. Len(stack), NEW v \in Values, Replace(2, v),
           Kids(heap') = Kids(heap),
           Siblings(heap', v.node) = Siblings(heap, S(2, 1)) \o Siblings(heap, S(2, 2)),
           \A r \in Below(stack, 2) : Siblings(heap', r) = Siblings(heap, r)
    PROVE  F!ForestNext
<1>1. F!Push(2, Siblings(heap', v.node))
  BY Pushed
<1>2. Siblings(heap', v.node) = F!FlattenSeq(F!Top(2))
  BY TopJoined
<1>3. F!Join
  BY <1>1, <1>2 DEF F!Join
<1>4. 2 <= Len(Trees(heap, stack))
  BY TopTrees
<1> QED
  BY <1>3, <1>4 DEF F!ForestNext

LEMMA MoreArgumentsJoin ==
    ASSUME TreeInv, TreeInv', MoreArguments
    PROVE  F!ForestNext
<1> DEFINE a == S(2, 1)
           b == S(2, 2)
           v == Value("args", a, << >>)
           g == tree_make_next(heap, a, b)
<1>1. On(<<Expression, {"args"}>>) /\ heap' = g /\ Replace(2, v)
  BY DEF MoreArguments, Reduce
<1>2. /\ 2 \in 0 .. Len(stack) /\ Sound(heap, stack)
      /\ a \in Below(stack, 0) /\ a \in Nodes /\ b \in Below(stack, 0) /\ a # b
      /\ Below(stack, 2) = Minus(Minus(Below(stack, 0), a), b)
      /\ heap[a].next = NULL
  BY <1>1, FoundTwo DEF Nonterminals, Expression
<1> DEFINE x == Siblings(heap, a)
           y == Siblings(heap, b)
<1>3. Siblings(heap, S(2, 1)) = x /\ Siblings(heap, S(2, 2)) = y
  OBVIOUS
<1> HIDE DEF a, b
<1>4. v \in Values /\ v.node = a
  BY <1>2, PlainValue DEF Nonterminals
<1>5. heap \in Heaps /\ Wired(heap, Below(stack, 0))
  BY <1>2 DEF Sound, Whole
<1>6. /\ \A m \in Nodes : Children(g, m) = Children(heap, m)
      /\ \A r \in Below(stack, 0) \ {a, b} : Siblings(g, r) = Siblings(heap, r)
      /\ Siblings(g, a) = <<a>> \o y
      /\ \A n \in Nodes : g[n].type = heap[n].type
  BY <1>2, <1>5, MadeNext
<1>7. x = <<a>>
  BY <1>2, <1>5, Alone
<1> HIDE DEF g, v
<1>8. Kids(g) = Kids(heap)
  BY <1>6, KidsKept
<1>9. \A r \in Below(stack, 2) : Siblings(g, r) = Siblings(heap, r)
  BY <1>2, <1>6 DEF Minus
<1>10. Siblings(g, v.node) = x \o y
  BY <1>4, <1>6, <1>7
<1> HIDE DEF x, y
<1>11. Siblings(g, v.node) = Siblings(heap, S(2, 1)) \o Siblings(heap, S(2, 2))
  BY <1>3, <1>10
<1> QED
  BY <1>1, <1>2, <1>4, <1>8, <1>9, <1>11, TwoJoin

----------------------------------------------------------------------------
(* Commands and what follows them *)

LEMMA EndsStops ==
    ASSUME NEW how, Ends(how)
    PROVE  F!ForestNext
<1>1. heap' = [n \in Nodes |-> Comp("free")] /\ stack' = << >>
  BY DEF Ends
<1>2. Free(heap') = Nodes
  BY <1>1 DEF Free, Comp
<1>3. Nodes \ Free(heap') = {}
  BY <1>2
<1>4. Kids(heap') = [n \in {} |-> << >>]
  BY <1>3 DEF Kids
<1>5. Trees(heap', stack') = << >>
  BY <1>1 DEF Trees
<1>6. F!Stop
  BY <1>4, <1>5 DEF F!Stop
<1> QED
  BY <1>6 DEF F!ForestNext

\* The tree of a becomes the last child of a command's.
LEMMA TwoAdopt ==
    ASSUME TreeInv, TreeInv', 2 \in 0 .. Len(stack),
           NEW a \in Below(stack, 0), a = S(2, 1), CountedIn(heap, a), heap[a].next = NULL,
           NEW b \in Below(stack, 0), b = S(2, 2), a # b, heap[b].next = NULL,
           Below(stack, 2) = Minus(Minus(Below(stack, 0), a), b),
           heap' = tree_insert_node(heap, a, b),
           NEW v \in Values, v.node = a, Replace(2, v)
    PROVE  F!ForestNext
<1> DEFINE g == tree_insert_node(heap, a, b)
           y == Siblings(heap, b)
           ks == Children(heap, a) \o y
           roots == Below(stack, 0)
<1>1. heap \in Heaps /\ Wired(heap, roots) /\ a \in Nodes /\ heap[a].type # "free"
  BY DEF TreeInv, Sound, Whole, Wired
<1>2. /\ F!Top(2)[1] = Siblings(heap, a) /\ F!Top(2)[2] = y
      /\ 2 <= Len(Trees(heap, stack))
  <2>1. /\ 2 <= Len(Trees(heap, stack))
        /\ \A i \in 1 .. 2 : F!Top(2)[i] = Siblings(heap, S(2, i))
    BY TopTrees
  <2>2. 1 \in 1 .. 2 /\ 2 \in 1 .. 2
    OBVIOUS
  <2> QED
    BY <2>1, <2>2, Zenon
<1>3. Siblings(heap, a) = <<a>>
  BY <1>1, Alone
<1>4. Below(stack, 2) = Minus(Minus(roots, a), b) /\ a \in roots /\ b \in roots
  OBVIOUS
<1> HIDE DEF roots
<1>5. /\ \A m \in Nodes \ {a} : Children(g, m) = Children(heap, m)
      /\ \A r \in roots \ {b} : Siblings(g, r) = Siblings(heap, r)
      /\ Children(g, a) = ks
      /\ \A n \in Nodes : g[n].type = heap[n].type
  BY SMTT(30), <1>1, <1>4, Inserted
<1>6. heap' = g
  OBVIOUS
<1> HIDE DEF g, y
<1>7. \A r \in Below(stack, 2) : Siblings(heap', r) = Siblings(heap, r)
  BY <1>4, <1>5, <1>6 DEF Minus
<1>8. Siblings(heap', v.node) = <<a>>
  BY <1>3, <1>4, <1>5, <1>6
<1>9. F!Push(2, <<a>>)
  <2>1. F!Push(2, Siblings(heap', v.node))
    BY <1>7, Pushed
  <2> QED
    BY <1>8, <2>1, Zenon
<1> HIDE DEF ks
<1>10. /\ a \in DOMAIN Kids(heap) /\ Kids(heap)[a] = Children(heap, a)
       /\ Kids(g) = ChangedKids(Kids(heap), a, ks)
  BY <1>1, <1>5, KidsChanged
<1>11. ks = Kids(heap)[a] \o F!Top(2)[2]
  BY <1>2, <1>10 DEF ks
<1>12. Kids(heap)' = [Kids(heap) EXCEPT ![a] = Kids(heap)[a] \o F!Top(2)[2]]
  BY <1>6, <1>10, <1>11 DEF ChangedKids
<1>13. F!Adopt
  BY <1>2, <1>3, <1>9, <1>10, <1>12 DEF F!Adopt
<1> QED
  BY <1>2, <1>13 DEF F!ForestNext

LEMMA SequenceAdopts ==
    ASSUME TreeInv, TreeInv', Sequence
    PROVE  F!ForestNext
<1> DEFINE a == S(2, 1)
           b == S(2, 2)
           va == Nth(stack, 2, 1)
           vb == Nth(stack, 2, 2)
           g == tree_insert_node(heap, a, b)
           va2 == Value("body", a, << >>)
           vb2 == Value("body", b, << >>)
<1>1. Sound(heap, stack) /\ On(<<Command, {"body"}>>)
  BY DEF TreeInv, Sequence
<1>2. /\ a = NULL => heap' = heap /\ Replace(2, vb2)
      /\ a # NULL /\ b = NULL => heap' = heap /\ Replace(2, va2)
      /\ a # NULL /\ b # NULL => heap' = g /\ Replace(2, va2)
  BY DEF Sequence, Reduce
<1>3. /\ 2 \in 0 .. Len(stack)
      /\ va \in Values /\ va.node = a /\ va.nt \in Command /\ Fits(heap, va)
      /\ vb \in Values /\ vb.node = b /\ vb.nt \in {"body"} /\ Fits(heap, vb)
      /\ a = NULL \/ a \in Below(stack, 0)
      /\ b = NULL \/ b \in Below(stack, 0)
      /\ a = b => a = NULL
      /\ Below(stack, 2) = Minus(Minus(Below(stack, 0), a), b)
  BY <1>1, TopTwo
<1> HIDE DEF va, vb
<1>4. /\ a # NULL => heap[a].next = NULL
      /\ b # NULL => heap[b].next = NULL
  BY <1>3, HasTree DEF Command
<1>5. a \in Nodes \cup {NULL} /\ b \in Nodes \cup {NULL}
  BY <1>3 DEF Values
<1>6. /\ va2 \in Values /\ va2.node = a
      /\ vb2 \in Values /\ vb2.node = b
  <2> HIDE DEF a, b
  <2> QED
    BY <1>5, PlainValue DEF Nonterminals
<1> HIDE DEF va2, vb2
<1> DEFINE x == Siblings(heap, a)
           y == Siblings(heap, b)
<1>7. heap \in Heaps /\ Wired(heap, Below(stack, 0)) /\ Siblings(heap, NULL) = << >>
  BY <1>1, NothingRead DEF Sound, Whole
<1>8. x \in Seq(Nodes) /\ y \in Seq(Nodes)
  <2>1. \A r \in Below(stack, 0) : Siblings(heap, r) \in Seq(Nodes)
    BY <1>7, RootsStartLists DEF Lists
  <2>2. << >> \in Seq(Nodes)
    OBVIOUS
  <2>3. Siblings(heap, NULL) \in Seq(Nodes)
    BY <1>7, <2>2, Zenon
  <2> HIDE DEF a, b
  <2> QED
    BY <1>3, <2>1, <2>3, Zenon
<1>9. x \o y = Siblings(heap, S(2, 1)) \o Siblings(heap, S(2, 2))
  OBVIOUS
<1>10. CASE a = NULL \/ b = NULL
  <2>1. PICK v \in Values : /\ Replace(2, v)
                            /\ a = NULL => v.node = b
                            /\ a # NULL => v.node = a
    BY <1>2, <1>6, <1>10
  <2>2. heap' = heap
    BY <1>2, <1>10
  <2> DEFINE z == Siblings(heap, v.node)
  <2>3. (a = NULL => z = y) /\ (a # NULL => z = x)
    BY <2>1
  <2>4. (a = NULL => x = << >>) /\ (a # NULL => y = << >>)
    BY <1>7, <1>10
  <2> HIDE DEF a, x, y, z
  <2>5. z = x \o y
    <3>1. CASE a = NULL
      BY <1>8, <2>3, <2>4, <3>1
    <3>2. CASE a # NULL
      BY <1>8, <2>3, <2>4, <3>2
    <3> QED
      BY <3>1, <3>2
  <2>6. Siblings(heap', v.node) = Siblings(heap, S(2, 1)) \o Siblings(heap, S(2, 2))
    BY <1>9, <2>2, <2>5 DEF z
  <2>7. Kids(heap') = Kids(heap) /\ \A r \in Below(stack, 2) : Siblings(heap', r) = Siblings(heap, r)
    BY <2>2
  <2> QED
    BY <1>3, <2>1, <2>6, <2>7, TwoJoin
<1>11. CASE a # NULL /\ b # NULL
  <2>1. CountedIn(heap, a)
    BY <1>1, <1>3, <1>11, CommandCounted DEF Sound
  <2>2. a \in Below(stack, 0) /\ b \in Below(stack, 0) /\ a # b
    BY <1>3, <1>11
  <2>3. heap[a].next = NULL /\ heap[b].next = NULL
    BY <1>4, <1>11
  <2>4. heap' = g /\ Replace(2, va2)
    BY <1>2, <1>11
  <2> QED
    BY <1>3, <1>6, <2>1, <2>2, <2>3, <2>4, TwoAdopt
<1> QED
  BY <1>10, <1>11

LEMMA MoreOfListAdopts ==
    ASSUME TreeInv, TreeInv', MoreOfList
    PROVE  F!ForestNext
<1> DEFINE a == S(2, 1)
           b == S(2, 2)
           va == Nth(stack, 2, 1)
           vb == Nth(stack, 2, 2)
           g == tree_insert_node(heap, a, b)
           v == Value("list", a, << >>)
<1>1. Sound(heap, stack) /\ On(<<Command, Commands>>)
  BY DEF TreeInv, MoreOfList
<1>2. /\ a = NULL \/ b = NULL => Ends("abort")
      /\ a # NULL /\ b # NULL => heap' = g /\ Replace(2, v)
  BY DEF MoreOfList, Reduce
<1>3. /\ 2 \in 0 .. Len(stack)
      /\ va \in Values /\ va.node = a /\ va.nt \in Command /\ Fits(heap, va)
      /\ vb \in Values /\ vb.node = b /\ vb.nt \in Commands /\ Fits(heap, vb)
      /\ a = NULL \/ a \in Below(stack, 0)
      /\ b = NULL \/ b \in Below(stack, 0)
      /\ a = b => a = NULL
      /\ Below(stack, 2) = Minus(Minus(Below(stack, 0), a), b)
  BY <1>1, TopTwo
<1> HIDE DEF va, vb
<1>4. /\ a # NULL => heap[a].next = NULL
      /\ b # NULL => heap[b].next = NULL
  BY <1>3, HasTree DEF Command, Commands
<1>5. CASE a = NULL \/ b = NULL
  BY <1>2, <1>5, EndsStops
<1>6. CASE a # NULL /\ b # NULL
  <2>1. CountedIn(heap, a)
    BY <1>1, <1>3, <1>6, CommandCounted DEF Sound
  <2>2. a \in Below(stack, 0) /\ b \in Below(stack, 0) /\ a # b /\ a \in Nodes
    BY <1>3, <1>6 DEF Values
  <2>3. heap[a].next = NULL /\ heap[b].next = NULL
    BY <1>4, <1>6
  <2>4. heap' = g /\ Replace(2, v)
    BY <1>2, <1>6
  <2>5. v \in Values /\ v.node = a
    <3> HIDE DEF a
    <3> QED
      BY <2>2, PlainValue DEF Nonterminals
  <2> HIDE DEF v
  <2> QED
    BY <1>3, <2>1, <2>2, <2>3, <2>4, <2>5, TwoAdopt
<1> QED
  BY <1>5, <1>6

LEMMA BlockGrows ==
    ASSUME TreeInv, TreeInv', Block
    PROVE  F!ForestNext \/ UNCHANGED F!fvars
<1> DEFINE a == S(1, 1)
           va == Nth(stack, 1, 1)
           new == New
           v == Value("stmt", new, << >>)
           vn == Value("stmt", NULL, << >>)
<1>1. Sound(heap, stack) /\ On(<<{"body"}>>)
  BY DEF TreeInv, Block
<1>2. /\ a # NULL => /\ CanBranch(1) /\ Replace(1, v)
                     /\ heap' = createASTUnaryNode(heap, new, "node", S(1, 1))
      /\ a = NULL => heap' = heap /\ Replace(1, vn)
  BY DEF Block, Reduce
<1>3. CanBranch(1) => new \in Nodes /\ heap[new].type = "free"
  BY CanBranchFree
<1>4. 1 \in 0 .. Len(stack)
  BY <1>1, TopOne
<1> HIDE DEF new
<1>5. CASE a = NULL
  <2>1. vn \in Values /\ vn.node = NULL
    BY PlainValue DEF Nonterminals, Command
  <2> HIDE DEF vn
  <2> QED
    BY <1>2, <1>4, <1>5, <2>1, SameStays
<1>6. CASE a # NULL
  <2>1. new \in Nodes /\ heap[new].type = "free"
    BY <1>2, <1>3, <1>6
  <2>2. v \in Values /\ v.node = new
    BY <2>1, PlainValue DEF Nonterminals, Command
  <2>3. "node" \in Types
    BY DEF Types
  <2> HIDE DEF v
  <2> QED
    BY <1>1, <1>2, <1>6, <2>1, <2>2, <2>3, OneGrows
<1> QED
  BY <1>5, <1>6

----------------------------------------------------------------------------
(* Pipes *)

\* What a chain becomes with one more function c: the chain p goes into c, and c
\* below a new node n.
ChainMade(h, g, s, k, n, p, c) ==
    /\ n \in Nodes \ DOMAIN Kids(h)
    /\ c \in DOMAIN Kids(h) /\ Kids(h)[c] # << >>
    /\ Kids(g) = GrownKids(ChangedKids(Kids(h), c, F!Second(Kids(h)[c], p)), n, <<c>>)
    /\ Siblings(g, n) = <<n>>
    /\ \A r \in Below(s, k) : Siblings(g, r) = Siblings(h, r)

LEMMA ChainedKids ==
    ASSUME NEW h, NEW s, Sound(h, s), NEW k \in 0 .. Len(s),
           NEW n \in Nodes, h[n].type = "free",
           NEW p \in Below(s, 0), h[p].next = NULL, h[p].type \in {"call", "pipe"},
           NEW c \in Below(s, 0), h[c].next = NULL, Piped(h, c), c # p,
           Below(s, k) = Minus(Minus(Below(s, 0), p), c),
           NEW m, m = tree_insert_node_as_second_child(h, c, p),
           NEW g, g = createASTUnaryNode(m, n, "pipe", c)
    PROVE  ChainMade(h, g, s, k, n, p, c)
<1> DEFINE roots == Below(s, 0)
           those == Minus(roots, p)
           rest == Below(s, k)
           ks == <<h[c].first, p>> \o Tail(Children(h, c))
<1>1. /\ h \in Heaps /\ Wired(h, roots) /\ roots \subseteq Nodes
      /\ \A i \in Nodes : Kept(h, i) /\ Shaped(h, i)
  BY DEF Sound, Whole, Wired
<1>2. /\ p \in roots /\ c \in roots /\ rest = Minus(those, c) /\ p \in Nodes /\ c \in Nodes
  BY <1>1
<1>3. c \in those /\ \A r \in rest : r \in roots \ {p} /\ r \in those
  BY <1>2 DEF Minus
<1> HIDE DEF rest, roots
<1>4. h[c].type = "call" /\ h[c].first # NULL
  BY DEF Piped
<1>5. /\ Whole(m, those)
      /\ \A i \in Nodes \ {c} : Children(m, i) = Children(h, i)
      /\ \A r \in roots \ {p} : Siblings(m, r) = Siblings(h, r)
      /\ Children(m, c) = ks
      /\ \A i \in Nodes : m[i].type = h[i].type
      /\ \A i \in Nodes \ {h[c].first, p} : m[i].next = h[i].next
  <2>1. \A i \in Nodes : Shaped(h, i) \/ (h[i].type = "pipe" /\ h[i].first = c)
    BY <1>1
  <2>2. \A i \in Nodes : Kept(h, i)
    BY <1>1
  <2> QED
    BY <1>1, <1>2, <1>4, <2>1, <2>2, SecondWhole
<1>6. m \in Heaps /\ Wired(m, those) /\ m[n].type = "free"
  BY <1>5 DEF Whole
<1>7. h[c].first # c
  BY <1>1, <1>2 DEF Wired
<1>8. m[c].next = NULL
  BY <1>2, <1>5, <1>7
<1> HIDE DEF those
<1>9. "pipe" \in Types
  BY DEF Types
<1>10. /\ g \in Heaps
       /\ Wired(g, Plus(Minus(those, c), n))
       /\ Apart(m, g, n, Minus(those, c))
       /\ MadeOf(g, n, "pipe", c, c, 1, Siblings(m, c))
  BY <1>3, <1>6, <1>9, MadeUnary
<1>11. Siblings(m, c) = <<c>>
  BY <1>3, <1>6, <1>8, Alone
<1>12. Wired(g, Plus(rest, n)) /\ Apart(m, g, n, rest)
  BY <1>2, <1>10, Zenon
<1>13. Grown(m, g, s, k, n, <<c>>)
  <2> DEFINE one == <<c>>
  <2>1. MadeOf(g, n, "pipe", c, c, 1, one)
    BY <1>10, <1>11
  <2> HIDE DEF one
  <2>2. Grown(m, g, s, k, n, one)
    BY <1>6, <1>9, <1>10, <1>12, <2>1, MadeGrown DEF rest
  <2> QED
    BY <2>2 DEF one
<1>14. n \in Nodes \ DOMAIN Kids(m) /\ Kids(g) = GrownKids(Kids(m), n, <<c>>)
  BY <1>13, KidsGrown
<1> HIDE DEF ks
<1>15. /\ c \in DOMAIN Kids(h) /\ Kids(h)[c] = Children(h, c)
       /\ Kids(m) = ChangedKids(Kids(h), c, ks)
  BY <1>2, <1>4, <1>5, KidsChanged
<1>16. /\ Children(h, c) # << >> /\ Children(h, c)[1] = h[c].first
  BY <1>1, <1>2, <1>4, ChildrenFacts
<1>17. ks = F!Second(Kids(h)[c], p)
  <2>1. Children(h, c) \in Seq(Nodes)
    BY <1>1, <1>2, ChildrenFacts
  <2> DEFINE cs == Children(h, c)
             f == h[c].first
  <2>2. f \in Nodes
    BY <1>1, <1>2, <1>4 DEF Heaps, Records
  <2>3. F!Second(Kids(h)[c], p) = <<cs[1], p>> \o Tail(cs)
    BY <1>15 DEF F!Second
  <2>4. cs[1] = f
    BY <1>16
  <2>5. <<cs[1], p>> = <<f, p>>
    BY <2>4
  <2> HIDE DEF cs, f
  <2>6. ks = <<f, p>> \o Tail(cs)
    BY DEF ks, f, cs
  <2> QED
    BY <2>3, <2>5, <2>6
<1>18. n \in Nodes \ DOMAIN Kids(h)
  BY DEF Kids, Free
<1>19. Siblings(g, n) = <<n>> /\ \A r \in rest : Siblings(g, r) = Siblings(h, r)
  BY <1>3, <1>5, <1>13 DEF Grown, rest
<1>20. Kids(g) = GrownKids(ChangedKids(Kids(h), c, F!Second(Kids(h)[c], p)), n, <<c>>)
  BY <1>14, <1>15, <1>17
<1> QED
  BY <1>15, <1>16, <1>18, <1>19, <1>20 DEF ChainMade, rest

\* The order of the two changes does not matter.
LEMMA GrownChanged ==
    ASSUME NEW K, K = [i \in DOMAIN K |-> K[i]], NEW n, n \notin DOMAIN K, NEW c \in DOMAIN K, NEW ks, NEW one
    PROVE  GrownKids(ChangedKids(K, c, ks), n, one) = [GrownKids(K, n, one) EXCEPT ![c] = ks]
<1>1. ChangedKids(K, c, ks) = [i \in DOMAIN K |-> IF i = c THEN ks ELSE K[i]]
  BY DEF ChangedKids
<1>2. GrownKids(ChangedKids(K, c, ks), n, one) =
        [i \in DOMAIN K \cup {n} |-> IF i = n THEN one ELSE IF i = c THEN ks ELSE K[i]]
  BY <1>1 DEF GrownKids
<1>3. [GrownKids(K, n, one) EXCEPT ![c] = ks] =
        [i \in DOMAIN K \cup {n} |-> IF i = c THEN ks ELSE IF i = n THEN one ELSE K[i]]
  BY DEF GrownKids
<1>4. n # c
  OBVIOUS
<1>5. \A i \in DOMAIN K \cup {n} : (IF i = n THEN one ELSE IF i = c THEN ks ELSE K[i])
                                   = IF i = c THEN ks ELSE IF i = n THEN one ELSE K[i]
  BY <1>4
<1> QED
  BY <1>2, <1>3, <1>5

LEMMA ChainExtends ==
    ASSUME TreeInv, TreeInv', Chain
    PROVE  F!ForestNext
<1> DEFINE p == S(2, 1)
           c == S(2, 2)
           vp == Nth(stack, 2, 1)
           vc == Nth(stack, 2, 2)
           new == New
           m == tree_insert_node_as_second_child(heap, c, p)
           g == createASTUnaryNode(m, new, "pipe", c)
           names == vp.names \o vc.names
           v == Value("chain", new, names)
<1>1. Sound(heap, stack) /\ On(<<Linked, {"linked"}>>) /\ CanGrow(1)
  BY DEF TreeInv, Chain
<1>2. heap' = g /\ Replace(2, v)
  BY DEF Chain, Named, NamesOf, Nth
<1>3. new \in Nodes /\ heap[new].type = "free"
  BY <1>1, CanGrowFree
<1>4. /\ 2 \in 0 .. Len(stack)
      /\ vp \in Values /\ vp.node = p /\ vp.nt \in Linked /\ Fits(heap, vp)
      /\ vc \in Values /\ vc.node = c /\ vc.nt \in {"linked"} /\ Fits(heap, vc)
      /\ p = NULL \/ p \in Below(stack, 0)
      /\ c = NULL \/ c \in Below(stack, 0)
      /\ p = c => p = NULL
      /\ Below(stack, 2) = Minus(Minus(Below(stack, 0), p), c)
  BY <1>1, TopTwo
<1>5. /\ 2 <= Len(Trees(heap, stack))
      /\ F!Top(2)[1] = Siblings(heap, p) /\ F!Top(2)[2] = Siblings(heap, c)
  <2>1. /\ 2 <= Len(Trees(heap, stack))
        /\ \A i \in 1 .. 2 : F!Top(2)[i] = Siblings(heap, S(2, i))
    BY <1>4, TopTrees
  <2>2. 1 \in 1 .. 2 /\ 2 \in 1 .. 2
    OBVIOUS
  <2> QED
    BY <2>1, <2>2, Zenon
<1> HIDE DEF p, c, vp, vc, new
<1>6. p # NULL /\ heap[p].next = NULL /\ heap[p].type \in {"call", "pipe"}
  BY <1>4, LinkedTree
<1>7. c # NULL /\ heap[c].next = NULL /\ Piped(heap, c)
  BY <1>4 DEF Fits
<1>8. v \in Values /\ v.node = new
  <2>1. vp.names \in Seq(Nodes) /\ vc.names \in Seq(Nodes)
    BY <1>4 DEF Values
  <2>2. names \in Seq(Nodes)
    BY <2>1, Joined
  <2> HIDE DEF names
  <2> QED
    BY <1>3, <2>2 DEF Value, Values, Nonterminals, Linked
<1> HIDE DEF v
<1>9. ChainMade(heap, g, stack, 2, new, p, c)
  BY <1>1, <1>3, <1>4, <1>6, <1>7, ChainedKids
<1> HIDE DEF g
<1>10. heap \in Heaps /\ Wired(heap, Below(stack, 0))
  BY <1>1 DEF Sound, Whole
<1>11. F!Top(2)[1] = <<p>> /\ F!Top(2)[2] = <<c>>
  BY <1>4, <1>5, <1>6, <1>7, <1>10, Alone
<1>12. F!Push(2, <<new>>)
  <2>1. F!Push(2, Siblings(heap', v.node))
    BY <1>2, <1>4, <1>8, <1>9, Pushed DEF ChainMade
  <2> QED
    BY <1>2, <1>8, <1>9, <2>1 DEF ChainMade
<1> DEFINE K == Kids(heap)
           ks == F!Second(K[c], p)
<1>13. /\ new \in Nodes \ DOMAIN K /\ c \in DOMAIN K /\ K[c] # << >>
       /\ Kids(g) = GrownKids(ChangedKids(K, c, ks), new, <<c>>)
  BY <1>9 DEF ChainMade
<1>14. K = [i \in DOMAIN K |-> K[i]]
  BY DEF Kids
<1>15. F!With(new, <<c>>) = GrownKids(K, new, <<c>>)
  BY DEF F!With, GrownKids
<1> DEFINE W == F!With(new, <<c>>)
<1>16. W[c] = K[c] /\ c # new
  BY <1>13 DEF F!With
<1> HIDE DEF K
<1>17. Kids(g) = [W EXCEPT ![c] = ks]
  <2> HIDE DEF ks
  <2> QED
    BY <1>13, <1>14, <1>15, GrownChanged DEF K
<1>18. F!Top(2)[1][1] = p /\ Len(F!Top(2)[1]) = 1
  BY <1>11
<1>19. F!Second(W[c], F!Top(2)[1][1]) = ks
  BY <1>16, <1>18
<1> HIDE DEF ks, W
<1>20. Kids(heap)' = [W EXCEPT ![c] = F!Second(W[c], F!Top(2)[1][1])]
  BY <1>2, <1>17, <1>19
<1>21. F!Extend(new)
  BY <1>11, <1>12, <1>13, <1>18, <1>20 DEF F!Extend, W, K
<1> QED
  BY <1>5, <1>13, <1>21 DEF F!ForestNext, K

\* The pipe takes the place of t, the second function of the text, and t moves
\* to the new node with the call f as its first argument.
LEMMA FinishedKids ==
    ASSUME NEW h, NEW s, Sound(h, s),
           NEW n \in Nodes, h[n].type = "free",
           NEW f \in Below(s, 0), h[f].next = NULL, h[f].type = "call",
           NEW p \in Below(s, 0), h[p].next = NULL, h[p].type \in {"call", "pipe"}, f # p,
           NEW g, g = tree_finish_pipe(h, f, p, n),
           NEW t, t = SecondFunction(h, p)
    PROVE  /\ n \in Nodes \ DOMAIN Kids(h)
           /\ t \in DOMAIN Kids(h) /\ Kids(h)[t] # << >>
           /\ Kids(g) = ChangedKids(GrownKids(Kids(h), n, F!Second(Kids(h)[t], f)), t, <<n>>)
           /\ \A r \in Below(s, 0) \ {f} : Siblings(g, r) = Siblings(h, r)
<1> DEFINE roots == Below(s, 0)
           K == Kids(h)
           cs == Children(h, t)
           first == h[t].first
           ks == <<first, f>> \o Tail(cs)
           one == <<n>>
<1>1. /\ Whole(h, roots) /\ f \in roots /\ p \in roots
      /\ h \in Heaps /\ Wired(h, roots) /\ \A i \in Nodes : Shaped(h, i)
  BY DEF Sound, Whole
<1> HIDE DEF roots
<1>2. h[f].type \in {"call", "pipe"}
  OBVIOUS
<1>3. PipeMade(h, g, roots, p, f, n, t)
  BY <1>1, <1>2, Finished
<1>4. /\ t \in Nodes \ {n} /\ h[t].type = "call"
      /\ Children(g, t) = one /\ Children(g, n) = ks
      /\ \A m \in Nodes \ {t, n} : Children(g, m) = Children(h, m)
      /\ \A r \in roots \ {f} : Siblings(g, r) = Siblings(h, r)
      /\ \A m \in Nodes \ {n} : g[m].type = "free" <=> h[m].type = "free"
      /\ g[n].type # "free"
  <2>1. t \in Nodes \ {n} /\ h[t].type = "call" /\ Children(g, t) = one /\ Children(g, n) = ks
    BY <1>3 DEF PipeMade
  <2>2. /\ \A m \in Nodes \ {t, n} : Children(g, m) = Children(h, m)
        /\ \A r \in roots \ {f} : Siblings(g, r) = Siblings(h, r)
    BY <1>3 DEF PipeMade
  <2>3. /\ \A m \in Nodes \ {n} : g[m].type = "free" <=> h[m].type = "free"
        /\ g[n].type # "free"
    BY <1>3 DEF PipeMade
  <2> QED
    BY <2>1, <2>2, <2>3
<1>5. first # NULL
  BY <1>1, <1>4 DEF Shaped
<1>6. cs # << >> /\ cs[1] = first /\ cs \in Seq(Nodes) /\ first \in Nodes
  <2>1. first \in Nodes
    BY <1>1, <1>4, <1>5 DEF Heaps, Records
  <2> QED
    BY <1>1, <1>4, <1>5, <2>1, ChildrenFacts
<1> HIDE DEF one, ks, cs, first
<1>7. /\ DOMAIN K = Nodes \ Free(h) /\ \A m \in Nodes \ Free(h) : K[m] = Children(h, m)
      /\ n \in Free(h) /\ t \in Nodes \ Free(h)
  BY <1>4 DEF Kids, Free
<1> HIDE DEF K
<1>8. K[t] = cs
  BY <1>7 DEF cs
<1>9. ks = F!Second(K[t], f)
  <2>1. F!Second(K[t], f) = <<cs[1], f>> \o Tail(cs)
    BY <1>8 DEF F!Second
  <2>2. <<cs[1], f>> = <<first, f>>
    BY <1>6
  <2> QED
    BY <2>1, <2>2 DEF ks
<1>10. Nodes \ Free(g) = DOMAIN K \cup {n}
  BY <1>4, <1>7 DEF Free
<1>11. Kids(g) = [m \in DOMAIN K \cup {n} |-> Children(g, m)]
  BY <1>10 DEF Kids
<1>12. ChangedKids(GrownKids(K, n, ks), t, one) =
         [m \in DOMAIN K \cup {n} |-> IF m = t THEN one ELSE IF m = n THEN ks ELSE K[m]]
  BY DEF ChangedKids, GrownKids
<1>13. ASSUME NEW m \in DOMAIN K \cup {n}
       PROVE  Children(g, m) = IF m = t THEN one ELSE IF m = n THEN ks ELSE K[m]
  BY <1>4, <1>7
<1>14. Kids(g) = ChangedKids(GrownKids(K, n, ks), t, one)
  BY <1>11, <1>12, <1>13
<1> QED
  BY <1>4, <1>6, <1>7, <1>8, <1>9, <1>14 DEF K, one, roots

LEMMA PipeCompletes ==
    ASSUME TreeInv, TreeInv', Pipe
    PROVE  F!ForestNext
<1> DEFINE f == S(2, 1)
           p == S(2, 2)
           vf == Nth(stack, 2, 1)
           vp == Nth(stack, 2, 2)
           new == New
           g == tree_finish_pipe(heap, f, p, new)
           t == SecondFunction(heap, p)
           names == vf.names \o vp.names
           v == Value("pipe", p, names)
<1>1. Sound(heap, stack) /\ On(<<{"call"}, Linked>>) /\ CanGrow(1)
  BY DEF TreeInv, Pipe
<1>2. heap' = g /\ Replace(2, v)
  BY DEF Pipe, NamesOf, Nth
<1>3. new \in Nodes /\ heap[new].type = "free"
  BY <1>1, CanGrowFree
<1>4. /\ 2 \in 0 .. Len(stack)
      /\ vf \in Values /\ vf.node = f /\ vf.nt \in {"call"} /\ Fits(heap, vf)
      /\ vp \in Values /\ vp.node = p /\ vp.nt \in Linked /\ Fits(heap, vp)
      /\ f = NULL \/ f \in Below(stack, 0)
      /\ p = NULL \/ p \in Below(stack, 0)
      /\ f = p => f = NULL
      /\ Below(stack, 2) = Minus(Minus(Below(stack, 0), f), p)
  BY <1>1, TopTwo
<1>5. /\ 2 <= Len(Trees(heap, stack))
      /\ F!Top(2)[1] = Siblings(heap, f) /\ F!Top(2)[2] = Siblings(heap, p)
  <2>1. /\ 2 <= Len(Trees(heap, stack))
        /\ \A i \in 1 .. 2 : F!Top(2)[i] = Siblings(heap, S(2, i))
    BY <1>4, TopTrees
  <2>2. 1 \in 1 .. 2 /\ 2 \in 1 .. 2
    OBVIOUS
  <2> QED
    BY <2>1, <2>2, Zenon
<1> HIDE DEF f, p, vf, vp, new
<1>6. p # NULL /\ heap[p].next = NULL /\ heap[p].type \in {"call", "pipe"}
  BY <1>4, LinkedTree
<1>7. f # NULL /\ heap[f].next = NULL /\ heap[f].type = "call"
  BY <1>4 DEF Fits
<1>8. v \in Values /\ v.node = p
  <2>1. vf.names \in Seq(Nodes) /\ vp.names \in Seq(Nodes) /\ p \in Nodes
    BY <1>4, <1>6 DEF Values
  <2>2. names \in Seq(Nodes)
    BY <2>1, Joined
  <2> HIDE DEF names
  <2> QED
    BY <2>1, <2>2 DEF Value, Values, Nonterminals, Expression
<1> HIDE DEF v
<1> DEFINE K == Kids(heap)
           ks == F!Second(K[t], f)
<1>9. /\ new \in Nodes \ DOMAIN K
      /\ t \in DOMAIN K /\ K[t] # << >>
      /\ Kids(g) = ChangedKids(GrownKids(K, new, ks), t, <<new>>)
      /\ \A r \in Below(stack, 0) \ {f} : Siblings(g, r) = Siblings(heap, r)
  BY <1>1, <1>3, <1>4, <1>6, <1>7, FinishedKids
<1> HIDE DEF g, t
<1>10. heap \in Heaps /\ Wired(heap, Below(stack, 0))
  BY <1>1 DEF Sound, Whole
<1>11. F!Top(2)[1] = <<f>>
  BY <1>4, <1>5, <1>7, <1>10, Alone
<1>12. F!Push(2, F!Top(2)[2])
  <2>1. \A r \in Below(stack, 2) : Siblings(heap', r) = Siblings(heap, r)
    BY <1>2, <1>4, <1>9 DEF Minus
  <2>2. F!Push(2, Siblings(heap', v.node))
    BY <1>2, <1>4, <1>8, <2>1, Pushed
  <2>3. Siblings(heap', v.node) = F!Top(2)[2]
    BY <1>2, <1>4, <1>5, <1>6, <1>8, <1>9
  <2> QED
    BY <2>2, <2>3
<1>13. F!Top(2)[1][1] = f /\ Len(F!Top(2)[1]) = 1
  BY <1>11
<1>14. F!With(new, ks) = GrownKids(K, new, ks)
  BY DEF F!With, GrownKids
<1>15. Kids(heap)' = [F!With(new, ks) EXCEPT ![t] = <<new>>]
  BY <1>2, <1>9, <1>14 DEF ChangedKids
<1>16. F!Complete(new)
  BY <1>9, <1>12, <1>13, <1>15 DEF F!Complete
<1> QED
  BY <1>5, <1>9, <1>16 DEF F!ForestNext

----------------------------------------------------------------------------
(* What a production drops *)

\* f is the function flatten of FlattenSeq, up to k sequences.
Sums(s, f, k) == f = [i \in 1 .. k |-> IF i = 1 THEN s[i] ELSE f[i - 1] \o s[i]]

LEMMA SumsExist ==
    ASSUME NEW s
    PROVE  \A k \in Nat : \E f : Sums(s, f, k)
<1> DEFINE Ks == {k \in Nat : \E f : Sums(s, f, k)}
<1>1. 0 \in Ks
  <2> DEFINE f == [i \in 1 .. 0 |-> s[i]]
  <2>1. \A i \in 1 .. 0 : FALSE
    OBVIOUS
  <2>2. f = [i \in 1 .. 0 |-> IF i = 1 THEN s[i] ELSE f[i - 1] \o s[i]]
    BY <2>1
  <2> HIDE DEF f
  <2>3. Sums(s, f, 0)
    BY <2>2 DEF Sums
  <2> QED
    BY <2>3
<1>2. ASSUME NEW k \in Nat, k \in Ks PROVE k + 1 \in Ks
  <2>1. PICK f : Sums(s, f, k)
    BY <1>2
  <2> DEFINE g == [i \in 1 .. k + 1 |-> IF i <= k THEN f[i]
                                        ELSE IF i = 1 THEN s[i] ELSE f[i - 1] \o s[i]]
  <2>2. \A i \in 1 .. k : f[i] = IF i = 1 THEN s[i] ELSE f[i - 1] \o s[i]
    BY <2>1 DEF Sums
  <2>3. ASSUME NEW i \in 1 .. k + 1
        PROVE  g[i] = IF i = 1 THEN s[i] ELSE g[i - 1] \o s[i]
    <3>1. CASE i = 1
      BY <2>2, <3>1
    <3>2. CASE i # 1
      <4>1. i - 1 \in 1 .. k + 1 /\ i - 1 <= k
        BY <3>2
      <4>2. g[i - 1] = f[i - 1]
        BY <4>1
      <4>3. CASE i <= k
        <5>1. i \in 1 .. k /\ g[i] = f[i]
          BY <4>3
        <5>2. f[i] = f[i - 1] \o s[i]
          BY <2>2, <3>2, <5>1
        <5> HIDE DEF g
        <5> QED
          BY <3>2, <4>2, <5>1, <5>2
      <4>4. CASE ~(i <= k)
        BY <3>2, <4>2, <4>4
      <4> QED
        BY <4>3, <4>4
    <3> QED
      BY <3>1, <3>2
  <2>4. g = [i \in 1 .. k + 1 |-> IF i = 1 THEN s[i] ELSE g[i - 1] \o s[i]]
    BY <2>3
  <2> HIDE DEF g
  <2>5. Sums(s, g, k + 1)
    BY <2>4 DEF Sums
  <2> QED
    BY <2>5
<1> HIDE DEF Ks
<1>3. Nat \subseteq Ks
  BY <1>1, <1>2, SetInduction
<1> QED
  BY <1>3 DEF Ks

\* FlattenSeq adds nothing to what the sequences hold.
LEMMA FlattenedWithin ==
    ASSUME NEW Q, NEW s \in Seq(Seq(Q))
    PROVE  F!Range(F!FlattenSeq(s)) \subseteq Q
<1> DEFINE n == Len(s)
           sums == CHOOSE f : Sums(s, f, n)
           Ks == {k \in Nat : k + 1 <= n => sums[k + 1] \in Seq(Q)}
<1>1. F!FlattenSeq(s) = IF n = 0 THEN s ELSE sums[n]
  BY DEF F!FlattenSeq, Sums
<1>2. Sums(s, sums, n) /\ n \in Nat
  <2>1. n \in Nat
    OBVIOUS
  <2> HIDE DEF n
  <2>2. \E f : Sums(s, f, n)
    BY <2>1, SumsExist
  <2> QED
    BY <2>1, <2>2
<1> HIDE DEF sums
<1>3. \A i \in 1 .. n : sums[i] = IF i = 1 THEN s[i] ELSE sums[i - 1] \o s[i]
  BY <1>2 DEF Sums
<1>4. \A i \in 1 .. n : s[i] \in Seq(Q)
  OBVIOUS
<1> HIDE DEF n
<1>5. 0 \in Ks
  <2> SUFFICES ASSUME 0 + 1 <= n PROVE sums[0 + 1] \in Seq(Q)
    OBVIOUS
  <2>1. 1 \in 1 .. n /\ 0 + 1 = 1
    BY <1>2
  <2> QED
    BY <1>3, <1>4, <2>1
<1>6. ASSUME NEW k \in Nat, k \in Ks PROVE k + 1 \in Ks
  <2> SUFFICES ASSUME (k + 1) + 1 <= n PROVE sums[(k + 1) + 1] \in Seq(Q)
    OBVIOUS
  <2> DEFINE i == (k + 1) + 1
  <2>1. i \in 1 .. n /\ i # 1 /\ i - 1 = k + 1 /\ k + 1 <= n
    BY <1>2
  <2>2. sums[i - 1] \in Seq(Q)
    BY <1>6, <2>1
  <2> HIDE DEF i
  <2>3. sums[i] = sums[i - 1] \o s[i] /\ s[i] \in Seq(Q)
    BY <1>3, <1>4, <2>1
  <2>4. sums[i] \in Seq(Q)
    BY <2>2, <2>3
  <2> QED
    BY <2>4 DEF i
<1> HIDE DEF Ks
<1>7. Nat \subseteq Ks
  BY <1>5, <1>6, SetInduction
<1>8. CASE n = 0
  <2>1. F!FlattenSeq(s) = << >>
    BY <1>1, <1>8 DEF n
  <2> QED
    BY <2>1 DEF F!Range
<1>9. CASE n # 0
  <2>1. n - 1 \in Ks /\ (n - 1) + 1 = n
    BY <1>2, <1>7, <1>9
  <2>2. sums[n] \in Seq(Q)
    BY <1>2, <2>1 DEF Ks
  <2>3. F!FlattenSeq(s) = sums[n]
    BY <1>1, <1>9
  <2> QED
    BY <2>2, <2>3 DEF F!Range
<1> QED
  BY <1>8, <1>9

\* Nodes are only freed, and with a node its children.
Lost(h, g) ==
    /\ \A n \in Nodes : \/ g[n].type = "free"
                        \/ g[n].type = h[n].type /\ Children(g, n) = Children(h, n)
    /\ \A n \in Nodes : h[n].type # "free" /\ g[n].type = "free" =>
          \A i \in 1 .. Len(Children(h, n)) : g[Children(h, n)[i]].type = "free"

LEMMA FreedLost ==
    ASSUME NEW h, NEW roots, Whole(h, roots), NEW t \in roots, NEW g, g = tree_free(h, t)
    PROVE  /\ Lost(h, g) /\ Whole(g, Minus(roots, t)) /\ g[t].type = "free"
           /\ \A r \in roots \ {t} : Siblings(g, r) = Siblings(h, r)
<1>1. /\ \A n \in Nodes : g[n] = Comp("free") \/ (g[n] = h[n] /\ Children(g, n) = Children(h, n))
      /\ \A n \in Nodes : h[n].type # "free" /\ g[n].type = "free" =>
           \A i \in 1 .. Len(Children(h, n)) : g[Children(h, n)[i]].type = "free"
      /\ Whole(g, Minus(roots, t)) /\ g[t].type = "free"
      /\ \A r \in roots \ {t} : Siblings(g, r) = Siblings(h, r)
  BY Freed
<1>2. Comp("free").type = "free"
  BY DEF Comp
<1>3. \A n \in Nodes : \/ g[n].type = "free"
                       \/ g[n].type = h[n].type /\ Children(g, n) = Children(h, n)
  BY <1>1, <1>2
<1>4. \A n \in Nodes : h[n].type # "free" /\ g[n].type = "free" =>
         \A i \in 1 .. Len(Children(h, n)) : g[Children(h, n)[i]].type = "free"
  BY <1>1
<1> QED
  BY <1>1, <1>3, <1>4 DEF Lost

LEMMA LostTwice ==
    ASSUME NEW h, NEW m, NEW g, Lost(h, m), Lost(m, g), m \in Heaps,
           \A n \in Nodes, i \in Nat : i \in 1 .. Len(Children(h, n)) => Children(h, n)[i] \in Nodes
    PROVE  Lost(h, g)
<1>1. ASSUME NEW n \in Nodes
      PROVE  \/ g[n].type = "free"
             \/ g[n].type = h[n].type /\ Children(g, n) = Children(h, n)
  <2>1. \/ m[n].type = "free"
        \/ m[n].type = h[n].type /\ Children(m, n) = Children(h, n)
    BY DEF Lost
  <2>2. \/ g[n].type = "free"
        \/ g[n].type = m[n].type /\ Children(g, n) = Children(m, n)
    BY DEF Lost
  <2> QED
    BY <2>1, <2>2
<1>2. ASSUME NEW n \in Nodes, h[n].type # "free", g[n].type = "free",
             NEW i \in 1 .. Len(Children(h, n))
      PROVE  g[Children(h, n)[i]].type = "free"
  <2> DEFINE c == Children(h, n)[i]
  <2>1. c \in Nodes
    OBVIOUS
  <2>2. m[c].type = "free" => g[c].type = "free"
    <3> HIDE DEF c
    <3> QED
      BY <2>1 DEF Lost
  <2>3. CASE m[n].type = "free"
    <3>1. m[c].type = "free"
      BY <1>2, <2>3 DEF Lost
    <3> QED
      BY <2>2, <3>1
  <2>4. CASE m[n].type # "free"
    <3>1. Children(m, n) = Children(h, n)
      BY <2>4 DEF Lost
    <3>2. \A j \in 1 .. Len(Children(m, n)) : g[Children(m, n)[j]].type = "free"
      BY <1>2, <2>4 DEF Lost
    <3> QED
      BY <3>1, <3>2
  <2> QED
    BY <2>3, <2>4
<1> QED
  BY <1>1, <1>2 DEF Lost

\* The elements of the lists of nodes and roots that are in use.
LEMMA ChildrenUsed ==
    ASSUME NEW h \in Heaps, NEW roots, Wired(h, roots)
    PROVE  /\ \A n \in Nodes, i \in Nat : i \in 1 .. Len(Children(h, n)) =>
                Children(h, n)[i] \in Nodes \ Free(h)
           /\ \A r \in roots : Siblings(h, r) \in Seq(Nodes \ Free(h))
<1>1. ASSUME NEW n \in Nodes, NEW i \in Nat, i \in 1 .. Len(Children(h, n))
      PROVE  Children(h, n)[i] \in Nodes \ Free(h)
  BY <1>1, ChildrenFacts DEF Free
<1>2. ASSUME NEW r \in roots
      PROVE  Siblings(h, r) \in Seq(Nodes \ Free(h))
  <2> DEFINE s == Siblings(h, r)
  <2>1. Lists(h, r, s)
    BY RootsStartLists
  <2>2. r \in Nodes \cup {NULL} /\ h[r].type # "free"
    BY DEF Wired
  <2> HIDE DEF s
  <2>3. ASSUME NEW i \in 1 .. Len(s) PROVE s[i] \in Nodes /\ h[s[i]].type # "free"
    BY <2>1, <2>2, ListsAreUsed
  <2>4. s \in Seq(Nodes) /\ \A i \in 1 .. Len(s) : s[i] \in Nodes \ Free(h)
    BY <2>1, <2>3 DEF Lists, Free
  <2> DEFINE U == Nodes \ Free(h)
  <2> HIDE DEF U
  <2>5. s \in Seq(U)
    BY <2>4, SeqOfOthers DEF U
  <2> QED
    BY <2>5 DEF s, U
<1> QED
  BY <1>1, <1>2

Rest(K, D) == [n \in DOMAIN K \ D |-> K[n]]

\* What Drop asks of the children.
Loses(before, after, lost) ==
    /\ after = Rest(before, lost)
    /\ \A n \in DOMAIN after : F!Range(before[n]) \cap lost = {}
    /\ \A n \in lost : F!Range(before[n]) \subseteq lost

LEMMA LostKids ==
    ASSUME NEW h \in Heaps, NEW roots, Wired(h, roots), NEW g \in Heaps, NEW those, Wired(g, those),
           Lost(h, g)
    PROVE  /\ Loses(Kids(h), Kids(g), DOMAIN Kids(h) \ DOMAIN Kids(g))
           /\ DOMAIN Kids(h) \ DOMAIN Kids(g) = Free(g) \ Free(h)
           /\ DOMAIN Kids(g) = Nodes \ Free(g)
<1> DEFINE K == Kids(h)
           D == DOMAIN K \ DOMAIN Kids(g)
<1>1. /\ DOMAIN K = Nodes \ Free(h) /\ \A n \in Nodes \ Free(h) : K[n] = Children(h, n)
      /\ DOMAIN Kids(g) = Nodes \ Free(g)
      /\ Free(h) \subseteq Nodes /\ Free(g) \subseteq Nodes
  BY DEF Kids, Free
<1>2. \A n \in Nodes \ Free(g) : n \notin Free(h) /\ Children(g, n) = Children(h, n)
  BY DEF Lost, Free
<1>3. D = Free(g) \ Free(h)
  BY <1>1, <1>2
<1>4. DOMAIN K \ D = Nodes \ Free(g)
  BY <1>1, <1>2, <1>3
<1>5. Kids(g) = Rest(K, D)
  <2>1. Kids(g) = [n \in Nodes \ Free(g) |-> Children(g, n)]
    BY DEF Kids
  <2>2. Rest(K, D) = [n \in Nodes \ Free(g) |-> K[n]]
    BY <1>4 DEF Rest
  <2>3. \A n \in Nodes \ Free(g) : Children(g, n) = K[n]
    BY <1>1, <1>2
  <2> QED
    BY <2>1, <2>2, <2>3
<1>6. \A n \in Nodes, i \in Nat : i \in 1 .. Len(Children(g, n)) => Children(g, n)[i] \in Nodes \ Free(g)
  BY ChildrenUsed
<1>7. \A n \in Nodes, i \in Nat : i \in 1 .. Len(Children(h, n)) => Children(h, n)[i] \in Nodes \ Free(h)
  BY ChildrenUsed
<1>8. ASSUME NEW n \in Nodes \ Free(g)
      PROVE  F!Range(K[n]) \cap D = {}
  <2>1. K[n] = Children(g, n)
    BY <1>1, <1>2
  <2> DEFINE ks == Children(g, n)
  <2>2. ks \in Seq(Nodes)
    BY ChildrenFacts
  <2>3. n \in Nodes /\ \A i \in Nat : i \in 1 .. Len(ks) => ks[i] \in Nodes \ Free(g)
    BY <1>6
  <2> HIDE DEF ks
  <2>4. \A i \in 1 .. Len(ks) : ks[i] \in Nodes \ Free(g)
    BY <2>3
  <2>5. F!Range(ks) \cap D = {}
    BY <1>3, <2>4, <2>2 DEF F!Range
  <2> QED
    BY <2>1, <2>5 DEF ks
<1>9. ASSUME NEW n \in D
      PROVE  F!Range(K[n]) \subseteq D
  <2>1. K[n] = Children(h, n) /\ n \in Nodes /\ h[n].type # "free" /\ g[n].type = "free"
    BY <1>1, <1>3 DEF Free
  <2> DEFINE ks == Children(h, n)
  <2>2. ks \in Seq(Nodes)
    BY <2>1, ChildrenFacts
  <2>3. \A i \in Nat : i \in 1 .. Len(ks) => ks[i] \in Nodes \ Free(h)
    BY <1>7, <2>1
  <2>4. \A i \in 1 .. Len(ks) : g[ks[i]].type = "free"
    BY <2>1 DEF Lost
  <2> HIDE DEF ks
  <2>5. \A i \in 1 .. Len(ks) : ks[i] \in Nodes \ Free(h)
    BY <2>3
  <2>6. F!Range(ks) \subseteq D
    BY <1>3, <2>5, <2>4, <2>2 DEF F!Range, Free
  <2> QED
    BY <2>1, <2>6 DEF ks
<1> HIDE DEF D, K
<1>10. Loses(K, Kids(g), D)
  BY <1>1, <1>5, <1>8, <1>9 DEF Loses
<1> QED
  BY <1>1, <1>3, <1>10 DEF D, K

\* A production that drops the last k values and frees their trees.
LEMMA Dropped ==
    ASSUME TreeInv, TreeInv', NEW k \in 1 .. 4, k \in 0 .. Len(stack),
           NEW v \in Values, v.node = NULL, Replace(k, v), Lost(heap, heap'),
           \A i \in 1 .. k : \/ S(k, i) = NULL
                             \/ /\ S(k, i) \in Below(stack, 0) /\ heap[S(k, i)].next = NULL
                                /\ heap'[S(k, i)].type = "free",
           \A r \in Below(stack, k) : Siblings(heap', r) = Siblings(heap, r)
    PROVE  F!ForestNext
<1> DEFINE K == Kids(heap)
           D == DOMAIN K \ DOMAIN Kids(heap')
           w == Replaced(stack, k, v)
           t == Trees(heap, stack)
           U == Nodes \ Free(heap')
           below == SubSeq(t, 1, Len(t) - k)
<1>1. /\ heap \in Heaps /\ Wired(heap, Below(stack, 0)) /\ stack \in Seq(Values)
      /\ heap' \in Heaps /\ Wired(heap', Below(stack', 0)) /\ stack' = w
      /\ Sound(heap, stack) /\ Sound(heap', w)
  BY DEF TreeInv, Sound, Whole, Stacked, Replace, Replaced
<1>2. Loses(K, Kids(heap'), D) /\ D = Free(heap') \ Free(heap) /\ DOMAIN Kids(heap') = U
  BY <1>1, LostKids
<1>3. /\ Kids(heap') = Rest(K, D)
      /\ \A n \in DOMAIN Kids(heap') : F!Range(K[n]) \cap D = {}
      /\ \A n \in D : F!Range(K[n]) \subseteq D
      /\ D = Free(heap') \ Free(heap) /\ DOMAIN Kids(heap') = U
  <2> HIDE DEF K, D
  <2> QED
    BY <1>2 DEF Loses
<1>4. F!Push(k, << >>)
  <2>1. F!Push(k, Siblings(heap', v.node))
    BY Pushed
  <2>2. Siblings(heap', NULL) = << >>
    BY <1>1, NothingRead
  <2> QED
    BY <2>1, <2>2
<1>5. /\ k <= Len(t) /\ F!Top(k) \in Seq(Seq(Nodes)) /\ Len(F!Top(k)) = k
      /\ \A i \in 1 .. k : F!Top(k)[i] = Siblings(heap, S(k, i))
  BY TopTrees
<1> HIDE DEF D
<1>6. F!Range(F!FlattenSeq(F!Top(k))) \subseteq D
  <2>1. ASSUME NEW i \in 1 .. k PROVE Siblings(heap, S(k, i)) \in Seq(D)
    <3> DEFINE n == S(k, i)
    <3>1. \/ n = NULL
          \/ n \in Below(stack, 0) /\ heap[n].next = NULL /\ heap'[n].type = "free"
      OBVIOUS
    <3> HIDE DEF n
    <3>2. CASE n = NULL
      <4>1. Siblings(heap, n) = << >>
        BY <1>1, <3>2, NothingRead
      <4> QED
        BY <4>1 DEF n
    <3>3. CASE n \in Below(stack, 0) /\ heap[n].next = NULL /\ heap'[n].type = "free"
      <4>1. Siblings(heap, n) = <<n>>
        BY <1>1, <3>3, Alone
      <4>2. n \in Nodes /\ heap[n].type # "free"
        BY <1>1, <3>3 DEF Wired
      <4>3. n \in D
        BY <1>3, <3>3, <4>2 DEF Free
      <4> QED
        BY <4>1, <4>3 DEF n
    <3> QED
      BY <3>1, <3>2, <3>3
  <2> DEFINE top == F!Top(k)
  <2>2. top \in Seq(Seq(Nodes)) /\ Len(top) = k /\ \A i \in 1 .. k : top[i] \in Seq(D)
    BY <1>5, <2>1
  <2> HIDE DEF top
  <2>3. top \in Seq(Seq(D))
    BY <2>2, SeqOfOthers
  <2>4. F!Range(F!FlattenSeq(top)) \subseteq D
    BY <2>3, FlattenedWithin
  <2> QED
    BY <2>4 DEF top
<1>7. F!Range(F!FlattenSeq(F!Below(k))) \cap D = {}
  <2>1. F!Below(k) = below
    BY DEF F!Below
  <2>2. t \in Seq(Seq(Nodes)) /\ Len(t) = Len(stack) /\ Len(stack) \in Nat
        /\ \A i \in 1 .. Len(stack) : t[i] = Siblings(heap, stack[i].node)
    BY <1>1, TreesFacts
  <2> DEFINE m == Len(stack) - k
  <2>3. m \in Nat /\ m <= Len(stack)
    BY <1>5, <2>2
  <2> HIDE DEF t, below, U
  <2>4. below \in Seq(Seq(Nodes)) /\ Len(below) = m /\ \A i \in 1 .. m : below[i] = t[i]
    <3>1. below = SubSeq(t, 1, m)
      BY <2>2 DEF below
    <3> HIDE DEF m
    <3> QED
      BY <2>2, <2>3, <3>1
  <2>5. ASSUME NEW i \in 1 .. m PROVE below[i] \in Seq(U)
    <3> DEFINE n == stack[i].node
    <3>1. i \in 1 .. Len(stack)
      BY <2>3
    <3>2. below[i] = Siblings(heap, n)
      BY <2>2, <2>4, <3>1
    <3>3. n = NULL \/ n \in Below(stack, k)
      BY DEF Below
    <3> HIDE DEF n
    <3>4. CASE n = NULL
      <4>1. Siblings(heap, n) = << >>
        BY <1>1, <3>4, NothingRead
      <4> QED
        BY <3>2, <4>1
    <3>5. CASE n \in Below(stack, k)
      <4>1. Siblings(heap', n) = Siblings(heap, n)
        BY <3>5
      <4>2. n \in Below(w, 0)
        <5>1. PICK j \in 1 .. m : n = stack[j].node /\ n # NULL
          BY <3>5 DEF Below
        <5>2. /\ Len(w) = m + 1 /\ w[j] = stack[j]
          BY <1>1, ReplacedFacts
        <5>3. j \in 1 .. Len(w) - 0
          BY <2>3, <5>2
        <5> HIDE DEF w, m
        <5> QED
          BY <5>1, <5>2, <5>3 DEF Below
      <4>3. Siblings(heap', n) \in Seq(U)
        BY <1>1, <4>2, ChildrenUsed DEF U
      <4> QED
        BY <3>2, <4>1, <4>3
    <3> QED
      BY <3>3, <3>4, <3>5
  <2> HIDE DEF m
  <2>6. below \in Seq(Seq(U))
    BY <2>4, <2>5, SeqOfOthers
  <2>7. F!Range(F!FlattenSeq(below)) \subseteq U
    BY <2>6, FlattenedWithin
  <2> QED
    BY <1>3, <2>1, <2>7 DEF U
<1>8. Kids(heap)' = [n \in DOMAIN K \ D |-> K[n]]
  BY <1>3 DEF Rest
<1>9. D \in {{}, DOMAIN Kids(heap) \ DOMAIN Kids(heap)'}
  BY DEF D
<1>10. F!Drop(k)
  BY <1>3, <1>4, <1>6, <1>7, <1>8, <1>9 DEF F!Drop
<1> QED
  BY <1>5, <1>10 DEF F!ForestNext

\* One that drops them and frees nothing.
LEMMA Forgotten ==
    ASSUME TreeInv, TreeInv', NEW k \in 1 .. 4, k \in 0 .. Len(stack),
           NEW v \in Values, v.node = NULL, Replace(k, v), heap' = heap
    PROVE  F!ForestNext
<1> DEFINE K == Kids(heap)
<1>1. F!Push(k, << >>)
  <2>1. F!Push(k, Siblings(heap', v.node))
    BY Pushed
  <2>2. Siblings(heap', NULL) = << >>
    BY NothingRead DEF TreeInv, Sound, Whole
  <2> QED
    BY <2>1, <2>2
<1>2. k <= Len(Trees(heap, stack))
  BY TopTrees
<1>3. Kids(heap)' = [n \in DOMAIN K \ {} |-> K[n]]
  BY DEF Kids
<1>4. F!Drop(k)
  <2> HIDE DEF K
  <2>1. {} \in {{}, DOMAIN Kids(heap) \ DOMAIN Kids(heap)'}
    OBVIOUS
  <2>2. \A x : x \cap {} = {}
    OBVIOUS
  <2> QED
    BY <1>1, <1>3, <2>1, <2>2 DEF F!Drop, K
<1> QED
  BY <1>2, <1>4 DEF F!ForestNext

----------------------------------------------------------------------------
(* Conditions, bodies and lists *)

\* The tree t is freed, and the other values on top have none.
LEMMA OneDropped ==
    ASSUME TreeInv, TreeInv', NEW k \in 1 .. 4, k \in 0 .. Len(stack),
           NEW v \in Values, v.node = NULL, Replace(k, v),
           NEW t \in Below(stack, 0), Below(stack, k) = Minus(Below(stack, 0), t),
           heap[t].next = NULL, heap' = tree_free(heap, t),
           \A i \in 1 .. k : S(k, i) = NULL \/ S(k, i) = t
    PROVE  F!ForestNext
<1> DEFINE g == tree_free(heap, t)
           roots == Below(stack, 0)
<1>1. Whole(heap, roots) /\ heap' = g /\ t \in roots /\ Below(stack, k) = Minus(roots, t)
  BY DEF TreeInv, Sound
<1> HIDE DEF roots
<1>2. Lost(heap, g) /\ g[t].type = "free" /\ \A r \in roots \ {t} : Siblings(g, r) = Siblings(heap, r)
  BY <1>1, FreedLost
<1> HIDE DEF g
<1>3. Lost(heap, heap') /\ \A r \in Below(stack, k) : Siblings(heap', r) = Siblings(heap, r)
  BY <1>1, <1>2 DEF Minus
<1>4. \A i \in 1 .. k : \/ S(k, i) = NULL
                        \/ /\ S(k, i) \in Below(stack, 0) /\ heap[S(k, i)].next = NULL
                           /\ heap'[S(k, i)].type = "free"
  BY <1>1, <1>2
<1> QED
  BY <1>3, <1>4, Dropped

\* The condition a and the body b of If, While and DoWhile.
LEMMA ConditionAndBodyFound ==
    ASSUME TreeInv, NEW a, NEW b,
           \/ On(<<Expression, {"body"}>>) /\ a = S(2, 1) /\ b = S(2, 2)
           \/ On(<<{"body"}, Expression>>) /\ b = S(2, 1) /\ a = S(2, 2)
    PROVE  /\ Sound(heap, stack) /\ 2 \in 0 .. Len(stack)
           /\ a \in Below(stack, 0) /\ heap[a].next = NULL
           /\ b # NULL => b \in Below(stack, 0) /\ heap[b].next = NULL /\ a # b
           /\ Below(stack, 2) = Minus(Minus(Below(stack, 0), a), b)
           /\ Below(stack, 2) = Minus(Minus(Below(stack, 0), b), a)
           /\ b = NULL => Below(stack, 2) = Minus(Below(stack, 0), a)
<1>1. Sound(heap, stack)
  BY DEF TreeInv
<1>2. PICK va \in Values, vb \in Values :
         /\ 2 \in 0 .. Len(stack)
         /\ va.node = a /\ va.nt \in Expression /\ Fits(heap, va)
         /\ vb.node = b /\ vb.nt \in {"body"} /\ Fits(heap, vb)
         /\ a = NULL \/ a \in Below(stack, 0)
         /\ b = NULL \/ b \in Below(stack, 0)
         /\ a = b => a = NULL
         /\ Below(stack, 2) = Minus(Minus(Below(stack, 0), a), b)
  <2> DEFINE v1 == Nth(stack, 2, 1)
             v2 == Nth(stack, 2, 2)
  <2>1. CASE On(<<Expression, {"body"}>>) /\ a = S(2, 1) /\ b = S(2, 2)
    <3>1. /\ 2 \in 0 .. Len(stack)
          /\ v1 \in Values /\ v1.node = a /\ v1.nt \in Expression /\ Fits(heap, v1)
          /\ v2 \in Values /\ v2.node = b /\ v2.nt \in {"body"} /\ Fits(heap, v2)
          /\ a = NULL \/ a \in Below(stack, 0)
          /\ b = NULL \/ b \in Below(stack, 0)
          /\ a = b => a = NULL
          /\ Below(stack, 2) = Minus(Minus(Below(stack, 0), a), b)
      BY <1>1, <2>1, TopTwo
    <3> HIDE DEF v1, v2
    <3> QED
      BY <3>1
  <2>2. CASE On(<<{"body"}, Expression>>) /\ b = S(2, 1) /\ a = S(2, 2)
    <3>1. /\ 2 \in 0 .. Len(stack)
          /\ v1 \in Values /\ v1.node = b /\ v1.nt \in {"body"} /\ Fits(heap, v1)
          /\ v2 \in Values /\ v2.node = a /\ v2.nt \in Expression /\ Fits(heap, v2)
          /\ b = NULL \/ b \in Below(stack, 0)
          /\ a = NULL \/ a \in Below(stack, 0)
          /\ b = a => b = NULL
          /\ Below(stack, 2) = Minus(Minus(Below(stack, 0), b), a)
      BY <1>1, <2>2, TopTwo
    <3>2. Minus(Minus(Below(stack, 0), b), a) = Minus(Minus(Below(stack, 0), a), b)
      BY MinusSwap
    <3> HIDE DEF v1, v2
    <3> QED
      BY <3>1, <3>2
  <2> QED
    BY <2>1, <2>2
<1>3. a # NULL /\ heap[a].next = NULL /\ a \in Below(stack, 0)
  BY <1>2, HasTree
<1>4. b # NULL => heap[b].next = NULL /\ b \in Below(stack, 0) /\ a # b
  BY <1>2, HasTree
<1>5. Minus(Minus(Below(stack, 0), a), b) = Minus(Minus(Below(stack, 0), b), a)
  BY MinusSwap
<1>6. b = NULL => Below(stack, 2) = Minus(Below(stack, 0), a)
  BY <1>1, <1>2, NullIsNoRoot
<1> QED
  BY <1>1, <1>2, <1>3, <1>4, <1>5, <1>6

\* Without a body both values are dropped, and the condition's tree is freed.
LEMMA ConditionDropped ==
    ASSUME TreeInv, TreeInv', NEW a,
           \/ On(<<Expression, {"body"}>>) /\ a = S(2, 1) /\ NULL = S(2, 2)
           \/ On(<<{"body"}, Expression>>) /\ NULL = S(2, 1) /\ a = S(2, 2),
           Reduce(2, "stmt", NULL, tree_free(heap, a))
    PROVE  F!ForestNext
<1> DEFINE v == Value("stmt", NULL, << >>)
           g == tree_free(heap, a)
<1>1. heap' = g /\ Replace(2, v)
  BY DEF Reduce
<1>2. v \in Values /\ v.node = NULL
  BY PlainValue DEF Nonterminals, Command
<1>3. /\ 2 \in 0 .. Len(stack) /\ a \in Below(stack, 0) /\ heap[a].next = NULL
      /\ Below(stack, 2) = Minus(Below(stack, 0), a)
  BY ConditionAndBodyFound
<1>4. \A i \in 1 .. 2 : S(2, i) = NULL \/ S(2, i) = a
  <2>1. \A i \in 1 .. 2 : i = 1 \/ i = 2
    OBVIOUS
  <2> QED
    BY <2>1
<1>5. 2 \in 1 .. 4
  OBVIOUS
<1> HIDE DEF v, g
<1>6. heap' = tree_free(heap, a)
  BY <1>1 DEF g
<1> QED
  BY <1>1, <1>2, <1>3, <1>4, <1>5, <1>6, OneDropped

LEMMA IfGrows ==
    ASSUME TreeInv, TreeInv', If
    PROVE  F!ForestNext
<1> DEFINE a == S(2, 1)
           b == S(2, 2)
           new == New
           v == Value("stmt", new, << >>)
           g == createASTBinaryNode(heap, new, "node", a, b)
           f == tree_free(heap, a)
<1>1. On(<<Expression, {"body"}>>) /\ a = S(2, 1) /\ b = S(2, 2)
  BY DEF If
<1>2. \/ b # NULL /\ CanBranch(1) /\ heap' = g /\ Replace(2, v)
      \/ b = NULL /\ Reduce(2, "stmt", NULL, f)
      \/ Ends("semantic error") \/ Ends("crash")
  BY DEF If, Reduce
<1>3. CanBranch(1) => new \in Nodes /\ heap[new].type = "free"
  BY CanBranchFree
<1>4. CASE Ends("semantic error") \/ Ends("crash")
  BY <1>4, EndsStops
<1>5. CASE b = NULL /\ Reduce(2, "stmt", NULL, f)
  <2> HIDE DEF a, b
  <2> QED
    BY <1>1, <1>5, ConditionDropped
<1>6. CASE b # NULL /\ CanBranch(1) /\ heap' = g /\ Replace(2, v)
  <2> HIDE DEF new
  <2>1. new \in Nodes /\ heap[new].type = "free" /\ "node" \in Types
    BY <1>3, <1>6 DEF Types
  <2>2. v \in Values /\ v.node = new
    BY <2>1, PlainValue DEF Nonterminals, Command
  <2>3. Grown(heap, g, stack, 2, new, Siblings(heap, a) \o Siblings(heap, b))
    <3> HIDE DEF a, b
    <3>1. /\ Sound(heap, stack) /\ a \in Below(stack, 0) /\ heap[a].next = NULL
          /\ b \in Below(stack, 0) /\ a # b
          /\ Below(stack, 2) = Minus(Minus(Below(stack, 0), a), b)
      BY <1>1, <1>6, ConditionAndBodyFound
    <3> QED
      BY <2>1, <3>1, GrownTwo
  <2> HIDE DEF v, g
  <2>4. Grown(heap, heap', stack, 2, new, Siblings(heap, S(2, 1)) \o Siblings(heap, S(2, 2)))
    BY <1>6, <2>3
  <2> QED
    BY <1>1, <1>6, <2>2, <2>4, TwoGrow
<1> QED
  BY <1>2, <1>4, <1>5, <1>6

LEMMA DoWhileGrows ==
    ASSUME TreeInv, TreeInv', DoWhile
    PROVE  F!ForestNext
<1> DEFINE b == S(2, 1)
           a == S(2, 2)
           new == New
           v == Value("stmt", new, << >>)
           g == createASTBinaryNode(heap, new, "node", b, a)
           f == tree_free(heap, a)
<1>1. On(<<{"body"}, Expression>>) /\ b = S(2, 1) /\ a = S(2, 2)
  BY DEF DoWhile
<1>2. \/ b # NULL /\ CanBranch(1) /\ heap' = g /\ Replace(2, v)
      \/ b = NULL /\ Reduce(2, "stmt", NULL, f)
  BY DEF DoWhile, Reduce
<1>3. CanBranch(1) => new \in Nodes /\ heap[new].type = "free"
  BY CanBranchFree
<1>4. CASE b = NULL /\ Reduce(2, "stmt", NULL, f)
  <2> HIDE DEF a, b
  <2> QED
    BY <1>1, <1>4, ConditionDropped
<1>5. CASE b # NULL /\ CanBranch(1) /\ heap' = g /\ Replace(2, v)
  <2> HIDE DEF new
  <2>1. new \in Nodes /\ heap[new].type = "free" /\ "node" \in Types
    BY <1>3, <1>5 DEF Types
  <2>2. v \in Values /\ v.node = new
    BY <2>1, PlainValue DEF Nonterminals, Command
  <2>3. Grown(heap, g, stack, 2, new, Siblings(heap, b) \o Siblings(heap, a))
    <3> HIDE DEF a, b
    <3>1. /\ Sound(heap, stack) /\ a \in Below(stack, 0) /\ heap[b].next = NULL
          /\ b \in Below(stack, 0) /\ b # a
          /\ Below(stack, 2) = Minus(Minus(Below(stack, 0), b), a)
      BY <1>1, <1>5, ConditionAndBodyFound
    <3> QED
      BY <2>1, <3>1, GrownTwo
  <2> HIDE DEF v, g
  <2>4. Grown(heap, heap', stack, 2, new, Siblings(heap, S(2, 1)) \o Siblings(heap, S(2, 2)))
    BY <1>5, <2>3
  <2> QED
    BY <1>1, <1>5, <2>2, <2>4, TwoGrow
<1> QED
  BY <1>2, <1>4, <1>5

\* Two elements the other way round.
LEMMA Turned ==
    ASSUME NEW T, NEW s \in Seq(T), Len(s) = 2
    PROVE  /\ F!Reverse(s) \in Seq(T) /\ Len(F!Reverse(s)) = 2 /\ Len(F!Reverse(s)) <= 4
           /\ F!Reverse(s)[1] = s[2] /\ F!Reverse(s)[2] = s[1]
<1> DEFINE turned == F!Reverse(s)
<1>1. turned = [i \in 1 .. 2 |-> s[2 - i + 1]]
  BY DEF F!Reverse
<1>2. \A i \in 1 .. 2 : s[i] \in T
  OBVIOUS
<1>3. \A i \in 1 .. 2 : 2 - i + 1 \in 1 .. 2
  OBVIOUS
<1>4. \A i \in 1 .. 2 : s[2 - i + 1] \in T
  BY <1>2, <1>3
<1>5. turned[1] = s[2] /\ turned[2] = s[1]
  BY <1>1
<1>6. turned \in Seq(T) /\ Len(turned) = 2
  BY <1>1, <1>4
<1> QED
  BY <1>5, <1>6

\* The body of a while is its first child.
LEMMA SwappedGrow ==
    ASSUME TreeInv, TreeInv', 2 \in 0 .. Len(stack),
           NEW new, Grown(heap, heap', stack, 2, new, Siblings(heap, S(2, 2)) \o Siblings(heap, S(2, 1))),
           NEW v \in Values, v.node = new, Replace(2, v)
    PROVE  F!ForestNext
<1> DEFINE top == F!Top(2)
           turned == F!Reverse(top)
           ks == Siblings(heap, S(2, 2)) \o Siblings(heap, S(2, 1))
<1>1. /\ 2 <= Len(Trees(heap, stack)) /\ top \in Seq(Seq(Nodes)) /\ Len(top) = 2
      /\ \A i \in 1 .. 2 : top[i] = Siblings(heap, S(2, i))
  BY TopTrees
<1>2. 1 \in 1 .. 2 /\ 2 \in 1 .. 2
  OBVIOUS
<1>3. top[1] = Siblings(heap, S(2, 1)) /\ top[2] = Siblings(heap, S(2, 2))
  BY <1>1, <1>2, Zenon
<1> HIDE DEF top
<1>4. /\ turned \in Seq(Seq(Nodes)) /\ Len(turned) = 2 /\ Len(turned) <= 4
      /\ turned[1] = top[2] /\ turned[2] = top[1]
  BY <1>1, Turned
<1> HIDE DEF turned
<1>5. F!FlattenSeq(turned) = turned[1] \o turned[2]
  BY <1>4, Flattened
<1>6. ks = F!FlattenSeq(turned)
  BY <1>3, <1>4, <1>5, Zenon
<1> HIDE DEF ks
<1>7. Grown(heap, heap', stack, 2, new, ks)
  BY DEF ks
<1>8. F!Push(2, Siblings(heap', v.node))
  BY Pushed DEF Grown
<1>9. F!Push(2, <<new>>)
  BY <1>7, <1>8 DEF Grown
<1>10. new \in Nodes \ DOMAIN Kids(heap) /\ Kids(heap') = GrownKids(Kids(heap), new, ks)
  BY <1>7, KidsGrown
<1>11. Kids(heap)' = F!With(new, F!FlattenSeq(F!Reverse(F!Top(2))))
  BY <1>6, <1>10 DEF GrownKids, F!With, turned, top
<1>12. F!GrowSwapped(new)
  BY <1>9, <1>11 DEF F!GrowSwapped
<1> QED
  BY <1>1, <1>10, <1>12 DEF F!ForestNext

LEMMA WhileGrows ==
    ASSUME TreeInv, TreeInv', While
    PROVE  F!ForestNext
<1> DEFINE a == S(2, 1)
           b == S(2, 2)
           new == New
           v == Value("stmt", new, << >>)
           g == createASTBinaryNode(heap, new, "node", b, a)
           f == tree_free(heap, a)
<1>1. On(<<Expression, {"body"}>>) /\ a = S(2, 1) /\ b = S(2, 2)
  BY DEF While
<1>2. \/ b # NULL /\ CanBranch(1) /\ heap' = g /\ Replace(2, v)
      \/ b = NULL /\ Reduce(2, "stmt", NULL, f)
  BY DEF While, Reduce
<1>3. CanBranch(1) => new \in Nodes /\ heap[new].type = "free"
  BY CanBranchFree
<1>4. CASE b = NULL /\ Reduce(2, "stmt", NULL, f)
  <2> HIDE DEF a, b
  <2> QED
    BY <1>1, <1>4, ConditionDropped
<1>5. CASE b # NULL /\ CanBranch(1) /\ heap' = g /\ Replace(2, v)
  <2> HIDE DEF new
  <2>1. new \in Nodes /\ heap[new].type = "free" /\ "node" \in Types
    BY <1>3, <1>5 DEF Types
  <2>2. v \in Values /\ v.node = new
    BY <2>1, PlainValue DEF Nonterminals, Command
  <2>3. 2 \in 0 .. Len(stack)
    BY <1>1, ConditionAndBodyFound
  <2>4. Grown(heap, g, stack, 2, new, Siblings(heap, b) \o Siblings(heap, a))
    <3> HIDE DEF a, b
    <3>1. /\ Sound(heap, stack) /\ a \in Below(stack, 0) /\ heap[b].next = NULL
          /\ b \in Below(stack, 0) /\ b # a
          /\ Below(stack, 2) = Minus(Minus(Below(stack, 0), b), a)
      BY <1>1, <1>5, ConditionAndBodyFound
    <3> QED
      BY <2>1, <3>1, GrownTwo
  <2> HIDE DEF v, g
  <2>5. Grown(heap, heap', stack, 2, new, Siblings(heap, S(2, 2)) \o Siblings(heap, S(2, 1)))
    BY <1>5, <2>4
  <2> QED
    BY <1>1, <1>5, <2>2, <2>5, <2>3, SwappedGrow
<1> QED
  BY <1>2, <1>4, <1>5

\* Two trees are freed, one after the other.
LEMMA BothFreed ==
    ASSUME NEW h, NEW roots, Whole(h, roots), NEW a \in roots, NEW b \in roots, a # b,
           NEW m, m = tree_free(h, a), NEW g, g = tree_free(m, b)
    PROVE  /\ Lost(h, g) /\ g[a].type = "free" /\ g[b].type = "free"
           /\ \A r \in Minus(Minus(roots, a), b) : Siblings(g, r) = Siblings(h, r)
<1> DEFINE those == Minus(roots, a)
<1>1. /\ Lost(h, m) /\ Whole(m, those) /\ m[a].type = "free"
      /\ \A r \in roots \ {a} : Siblings(m, r) = Siblings(h, r)
  BY FreedLost
<1>2. b \in those /\ a \in Nodes /\ m \in Heaps /\ h \in Heaps /\ Wired(h, roots)
  BY <1>1 DEF Minus, Whole, Wired
<1>3. \A r \in Minus(Minus(roots, a), b) : r \in roots \ {a} /\ r \in those \ {b}
  BY DEF Minus
<1> HIDE DEF those
<1>4. /\ Lost(m, g) /\ g[b].type = "free"
      /\ \A r \in those \ {b} : Siblings(g, r) = Siblings(m, r)
  BY <1>1, <1>2, FreedLost
<1>5. \A n \in Nodes, i \in Nat : i \in 1 .. Len(Children(h, n)) => Children(h, n)[i] \in Nodes
  <2>1. \A n \in Nodes, i \in Nat : i \in 1 .. Len(Children(h, n)) => Children(h, n)[i] \in Nodes \ Free(h)
    BY <1>2, ChildrenUsed
  <2> QED
    BY <2>1
<1>6. Lost(h, g)
  BY <1>1, <1>2, <1>4, <1>5, LostTwice
<1>7. g[a].type = "free"
  BY <1>1, <1>2, <1>4 DEF Lost
<1>8. ASSUME NEW r \in Minus(Minus(roots, a), b)
      PROVE  Siblings(g, r) = Siblings(h, r)
  BY <1>1, <1>3, <1>4
<1> QED
  BY <1>4, <1>6, <1>7, <1>8

LEMMA ForeachGrows ==
    ASSUME TreeInv, TreeInv', Foreach
    PROVE  F!ForestNext
<1> DEFINE a == S(3, 1)
           b == S(3, 2)
           c == S(3, 3)
           va == Nth(stack, 3, 1)
           vb == Nth(stack, 3, 2)
           vc == Nth(stack, 3, 3)
           new == New
           v == Value("stmt", new, << >>)
           none == Value("stmt", NULL, << >>)
           g == createASTTernaryNode(heap, new, "node", a, b, c)
           m == tree_free(heap, a)
           f == tree_free(m, b)
           ks == (Siblings(heap, a) \o Siblings(heap, b)) \o Siblings(heap, c)
           roots == Below(stack, 0)
<1>1. Sound(heap, stack) /\ On(<<Expression, Expression, {"body"}>>)
  BY DEF TreeInv, Foreach
<1>2. \/ c # NULL /\ CanBranch(1) /\ heap' = g /\ Replace(3, v)
      \/ c = NULL /\ heap' = f /\ Replace(3, none)
  BY DEF Foreach, Reduce
<1>3. CanBranch(1) => new \in Nodes /\ heap[new].type = "free"
  BY CanBranchFree
<1>4. /\ 3 \in 0 .. Len(stack)
      /\ va \in Values /\ va.node = a /\ va.nt \in Expression /\ Fits(heap, va)
      /\ vb \in Values /\ vb.node = b /\ vb.nt \in Expression /\ Fits(heap, vb)
      /\ vc \in Values /\ vc.node = c /\ vc.nt \in {"body"} /\ Fits(heap, vc)
      /\ a = NULL \/ a \in Below(stack, 0)
      /\ b = NULL \/ b \in Below(stack, 0)
      /\ c = NULL \/ c \in Below(stack, 0)
      /\ (a = b => a = NULL) /\ (a = c => a = NULL) /\ (b = c => b = NULL)
      /\ Below(stack, 3) = Minus(Minus(Minus(Below(stack, 0), a), b), c)
  BY <1>1, TopThree
<1>5. ks = F!FlattenSeq(F!Top(3))
  BY <1>4, TopJoined
<1>6. \A i \in 1 .. 3 : S(3, i) = a \/ S(3, i) = b \/ S(3, i) = c
  <2>1. \A i \in 1 .. 3 : i = 1 \/ i = 2 \/ i = 3
    OBVIOUS
  <2> QED
    BY <2>1
<1>7. 3 \in 0 .. 4 /\ 3 \in 1 .. 4
  OBVIOUS
<1> HIDE DEF a, b, c, va, vb, vc, new, roots
<1>8. a # NULL /\ heap[a].next = NULL /\ b # NULL /\ heap[b].next = NULL
  BY <1>4, HasTree
<1>9. c # NULL => heap[c].next = NULL
  BY <1>4, HasTree
<1>10. a \in Below(stack, 0) /\ b \in Below(stack, 0) /\ a # b /\ a # c /\ b # c
  BY <1>4, <1>8
<1>11. CASE c # NULL /\ CanBranch(1) /\ heap' = g /\ Replace(3, v)
  <2>1. c \in Below(stack, 0) /\ new \in Nodes /\ heap[new].type = "free" /\ "node" \in Types
    BY <1>3, <1>4, <1>11 DEF Types
  <2>2. v \in Values /\ v.node = new
    BY <2>1, PlainValue DEF Nonterminals, Command
  <2>3. Grown(heap, g, stack, 3, new, ks)
    BY <1>1, <1>4, <1>8, <1>10, <2>1, GrownThree
  <2> HIDE DEF g, v, ks
  <2> QED
    BY <1>4, <1>11, <1>5, <1>7, <2>2, <2>3, Grew
<1>12. CASE c = NULL /\ heap' = f /\ Replace(3, none)
  <2>1. Below(stack, 3) = Minus(Minus(roots, a), b)
    BY <1>1, <1>4, <1>12, NullIsNoRoot DEF Minus, roots
  <2>2. Whole(heap, roots) /\ a \in roots /\ b \in roots
    BY <1>1, <1>10 DEF Sound, roots
  <2>3. /\ Lost(heap, f) /\ f[a].type = "free" /\ f[b].type = "free"
        /\ \A r \in Minus(Minus(roots, a), b) : Siblings(f, r) = Siblings(heap, r)
    BY <1>10, <2>2, BothFreed
  <2>4. none \in Values /\ none.node = NULL
    BY PlainValue DEF Nonterminals, Command
  <2> HIDE DEF f, none
  <2>5. Lost(heap, heap') /\ \A r \in Below(stack, 3) : Siblings(heap', r) = Siblings(heap, r)
    BY <1>12, <2>1, <2>3
  <2>6. \A i \in 1 .. 3 : \/ S(3, i) = NULL
                          \/ /\ S(3, i) \in Below(stack, 0) /\ heap[S(3, i)].next = NULL
                             /\ heap'[S(3, i)].type = "free"
    BY <1>8, <1>10, <1>12, <1>6, <2>3
  <2> QED
    BY <1>4, <1>12, <1>7, <2>4, <2>5, <2>6, Dropped
<1> QED
  BY <1>2, <1>11, <1>12

LEMMA ForGrows ==
    ASSUME TreeInv, TreeInv', For
    PROVE  F!ForestNext
<1> DEFINE a == S(4, 1)
           b == S(4, 2)
           c == S(4, 3)
           d == S(4, 4)
           va == Nth(stack, 4, 1)
           vb == Nth(stack, 4, 2)
           vc == Nth(stack, 4, 3)
           vd == Nth(stack, 4, 4)
           new == New
           v == Value("stmt", new, << >>)
           g == createASTQuaternaryNode(heap, new, "node", a, b, c, d)
           ks == ((Siblings(heap, a) \o Siblings(heap, b)) \o Siblings(heap, c)) \o Siblings(heap, d)
<1>1. Sound(heap, stack) /\ On(<<Commands, Expression, Commands, {"body"}>>)
  BY DEF TreeInv, For
<1>2. \/ Ends("crash") \/ Ends("abort")
      \/ /\ a # NULL /\ b # NULL /\ c # NULL /\ d # NULL
         /\ CanBranch(1) /\ heap' = g /\ Replace(4, v)
  <2>1. 1 \in 1 .. 4 /\ 2 \in 1 .. 4 /\ 3 \in 1 .. 4 /\ 4 \in 1 .. 4
    OBVIOUS
  <2>2. NULL \notin {S(4, i) : i \in 1 .. 4} => a # NULL /\ b # NULL /\ c # NULL /\ d # NULL
    BY <2>1
  <2>3. \/ Ends("crash") \/ Ends("abort")
        \/ /\ NULL \notin {S(4, i) : i \in 1 .. 4}
           /\ CanBranch(1) /\ Reduce(4, "stmt", new, g)
    BY DEF For
  <2>4. Reduce(4, "stmt", new, g) => heap' = g /\ Replace(4, v)
    BY DEF Reduce
  <2> HIDE DEF a, b, c, d, g, new, v
  <2> QED
    BY <2>2, <2>3, <2>4
<1>3. CanBranch(1) => new \in Nodes /\ heap[new].type = "free"
  BY CanBranchFree
<1>4. /\ 4 \in 0 .. Len(stack)
      /\ va \in Values /\ va.node = a /\ va.nt \in Commands /\ Fits(heap, va)
      /\ vb \in Values /\ vb.node = b /\ vb.nt \in Expression /\ Fits(heap, vb)
      /\ vc \in Values /\ vc.node = c /\ vc.nt \in Commands /\ Fits(heap, vc)
      /\ vd \in Values /\ vd.node = d /\ vd.nt \in {"body"} /\ Fits(heap, vd)
      /\ a = NULL \/ a \in Below(stack, 0)
      /\ b = NULL \/ b \in Below(stack, 0)
      /\ c = NULL \/ c \in Below(stack, 0)
      /\ d = NULL \/ d \in Below(stack, 0)
      /\ (a = b => a = NULL) /\ (a = c => a = NULL) /\ (b = c => b = NULL)
      /\ (a = d => a = NULL) /\ (b = d => b = NULL) /\ (c = d => c = NULL)
      /\ Below(stack, 4) = Minus(Minus(Minus(Minus(Below(stack, 0), a), b), c), d)
  BY <1>1, TopFour
<1>5. ks = F!FlattenSeq(F!Top(4))
  BY <1>4, TopJoined
<1>6. 4 \in 0 .. 4
  OBVIOUS
<1> HIDE DEF a, b, c, d, va, vb, vc, vd, new
<1>7. CASE Ends("crash") \/ Ends("abort")
  BY <1>7, EndsStops
<1>8. CASE /\ a # NULL /\ b # NULL /\ c # NULL /\ d # NULL
           /\ CanBranch(1) /\ heap' = g /\ Replace(4, v)
  <2>1. va.nt # "args" /\ vb.nt # "args" /\ vc.nt # "args" /\ vd.nt # "args"
    BY <1>4 DEF Commands, Command, Expression
  <2>2. heap[a].next = NULL /\ heap[b].next = NULL /\ heap[c].next = NULL /\ heap[d].next = NULL
    BY <1>4, <1>8, <2>1, HasTree
  <2>3. /\ a \in Below(stack, 0) /\ b \in Below(stack, 0) /\ c \in Below(stack, 0)
        /\ d \in Below(stack, 0)
        /\ a # b /\ a # c /\ b # c /\ a # d /\ b # d /\ c # d
        /\ new \in Nodes /\ heap[new].type = "free"
    BY <1>3, <1>4, <1>8
  <2>4. "node" \in Types
    BY DEF Types
  <2>5. v \in Values /\ v.node = new
    BY <2>3, PlainValue DEF Nonterminals, Command
  <2>6. Grown(heap, g, stack, 4, new, ks)
    BY <1>1, <1>4, <2>2, <2>3, <2>4, GrownFour
  <2> HIDE DEF g, v, ks
  <2> QED
    BY <1>4, <1>8, <1>5, <1>6, <2>5, <2>6, Grew
<1> QED
  BY <1>2, <1>7, <1>8

\* The children of all nodes are those of before and of two new ones.
TwoMoreKids(kids, n, i, ks, ls) ==
  [m \in DOMAIN kids \cup {n, i} |-> CASE m = n -> ks [] m = i -> ls [] OTHER -> kids[m]]

LEMMA KidsGrownTwice ==
    ASSUME NEW h, NEW g, NEW n \in Nodes, NEW i \in Nodes, n # i,
           h[n].type = "free", h[i].type = "free", g[n].type # "free", g[i].type # "free",
           \A m \in Nodes \ {n, i} : g[m].type = h[m].type /\ Children(g, m) = Children(h, m),
           NEW ks, Children(g, n) = ks, NEW ls, Children(g, i) = ls
    PROVE  /\ n \in Nodes \ DOMAIN Kids(h) /\ i \in Nodes \ DOMAIN Kids(h)
           /\ Kids(g) = TwoMoreKids(Kids(h), n, i, ks, ls)
<1> DEFINE U == Nodes \ Free(h)
<1>1. DOMAIN Kids(h) = U /\ \A m \in U : Kids(h)[m] = Children(h, m)
  BY DEF Kids
<1>2. n \notin U /\ i \notin U /\ \A m \in U : m \in Nodes \ {n, i}
  BY DEF Free
<1>3. Nodes \ Free(g) = U \cup {n, i}
  BY DEF Free
<1> HIDE DEF U
<1>4. Kids(g) = [m \in U \cup {n, i} |-> Children(g, m)]
  BY <1>3 DEF Kids
<1>5. ASSUME NEW m \in U \cup {n, i}
      PROVE  Children(g, m) = CASE m = n -> ks [] m = i -> ls [] OTHER -> Kids(h)[m]
  <2>1. CASE m = n
    BY <2>1
  <2>2. CASE m = i
    BY <2>2
  <2>3. CASE m \in U
    <3>1. m # n /\ m # i /\ Children(g, m) = Children(h, m)
      BY <1>2, <2>3
    <3> QED
      BY <1>1, <2>3, <3>1
  <2> QED
    BY <2>1, <2>2, <2>3
<1>6. Kids(g) = [m \in U \cup {n, i} |-> CASE m = n -> ks [] m = i -> ls [] OTHER -> Kids(h)[m]]
  BY <1>4, <1>5
<1> QED
  BY <1>1, <1>2, <1>6 DEF TwoMoreKids

\* An if with nothing but an else: two nodes, the condition below the first.
LEMMA NegatedGrow ==
    ASSUME TreeInv, TreeInv', 3 \in 0 .. Len(stack),
           NEW a \in Below(stack, 0), a = S(3, 1), heap[a].next = NULL,
           NEW c \in Below(stack, 0), c = S(3, 3), heap[c].next = NULL, a # c,
           Below(stack, 3) = Minus(Minus(Below(stack, 0), a), c),
           NEW n \in Nodes, heap[n].type = "free",
           NEW m, m = createASTUnaryNode(heap, n, "node", a),
           NEW i \in Nodes, m[i].type = "free",
           heap' = createASTBinaryNode(m, i, "node", n, c),
           NEW v \in Values, v.node = i, Replace(3, v)
    PROVE  F!ForestNext
<1> DEFINE g == createASTBinaryNode(m, i, "node", n, c)
           less == Minus(Below(stack, 0), a)
           ks == Siblings(heap, a)
           ls == <<n>> \o Siblings(heap, c)
           top == F!Top(3)
<1>1. Sound(heap, stack) /\ heap' = g
  BY DEF TreeInv
<1>2. /\ Apart(heap, m, n, less) /\ m[n].type = "node"
      /\ Children(m, n) = ks
      /\ Apart(m, g, i, Below(stack, 3)) /\ g[i].type = "node"
      /\ Children(g, i) = ls /\ Siblings(g, i) = <<i>>
      /\ Below(stack, 3) \subseteq less
  BY <1>1, Negated
<1>3. /\ 3 <= Len(Trees(heap, stack)) /\ top \in Seq(Seq(Nodes)) /\ Len(top) = 3
      /\ \A j \in 1 .. 3 : top[j] = Siblings(heap, S(3, j))
  BY TopTrees
<1>4. 1 \in 1 .. 3 /\ 3 \in 1 .. 3
  OBVIOUS
<1>5. top[1] = ks /\ ls = <<n>> \o top[3]
  BY <1>3, <1>4, Zenon
<1> HIDE DEF g, less, ks, ls, top
<1>6. n # i
  BY <1>2
<1>7. heap[i].type = "free" /\ g[n].type = "node" /\ Children(g, n) = ks
  BY <1>2, <1>6 DEF Apart
<1>8. \A x \in Nodes \ {n, i} : g[x].type = heap[x].type /\ Children(g, x) = Children(heap, x)
  BY <1>2 DEF Apart
<1>9. \A r \in Below(stack, 3) : Siblings(g, r) = Siblings(heap, r)
  BY <1>2 DEF Apart
<1>10. /\ n \in Nodes \ DOMAIN Kids(heap) /\ i \in Nodes \ DOMAIN Kids(heap)
       /\ Kids(g) = TwoMoreKids(Kids(heap), n, i, ks, ls)
  BY <1>2, <1>6, <1>7, <1>8, KidsGrownTwice
<1>11. F!Push(3, Siblings(heap', v.node))
  BY <1>1, <1>9, Pushed
<1>12. F!Push(3, <<i>>)
  BY <1>1, <1>2, <1>11
<1>13. Kids(heap') = TwoMoreKids(Kids(heap), n, i, F!Top(3)[1], <<n>> \o F!Top(3)[3])
  BY <1>1, <1>5, <1>10 DEF top
<1>14. F!GrowNegated(n, i)
  BY <1>6, <1>12, <1>13 DEF F!GrowNegated, TwoMoreKids
<1> QED
  BY <1>3, <1>10, <1>14 DEF F!ForestNext

LEMMA IfElseGrows ==
    ASSUME TreeInv, TreeInv', IfElse
    PROVE  F!ForestNext
<1> DEFINE a == S(3, 1)
           b == S(3, 2)
           c == S(3, 3)
           va == Nth(stack, 3, 1)
           vb == Nth(stack, 3, 2)
           vc == Nth(stack, 3, 3)
           new == New
           v == Value("stmt", new, << >>)
           none == Value("stmt", NULL, << >>)
           both == createASTTernaryNode(heap, new, "node", a, b, c)
           then == createASTBinaryNode(heap, new, "node", a, b)
           negated == createASTUnaryNode(heap, new, "node", a)
           if == malloc(negated)
           vi == Value("stmt", if, << >>)
           else == createASTBinaryNode(negated, if, "node", new, c)
           ks == (Siblings(heap, a) \o Siblings(heap, b)) \o Siblings(heap, c)
           ls == Siblings(heap, a) \o Siblings(heap, b)
<1>1. Sound(heap, stack) /\ On(<<Expression, {"body"}, {"body"}>>) /\ heap \in Heaps
  BY DEF TreeInv, IfElse, Sound, Whole
<1>2. \/ b # NULL /\ c # NULL /\ CanBranch(1) /\ heap' = both /\ Replace(3, v)
      \/ b # NULL /\ c = NULL /\ CanBranch(1) /\ heap' = then /\ Replace(3, v)
      \/ b = NULL /\ c # NULL /\ CanBranch(2) /\ heap' = else /\ Replace(3, vi)
      \/ b = NULL /\ c = NULL /\ heap' = heap /\ Replace(3, none)
  BY DEF IfElse, Reduce
<1>3. (CanBranch(1) \/ CanBranch(2) => new \in Nodes /\ heap[new].type = "free") /\ "node" \in Types
  BY CanBranchFree DEF Types
<1>4. /\ 3 \in 0 .. Len(stack)
      /\ va \in Values /\ va.node = a /\ va.nt \in Expression /\ Fits(heap, va)
      /\ vb \in Values /\ vb.node = b /\ vb.nt \in {"body"} /\ Fits(heap, vb)
      /\ vc \in Values /\ vc.node = c /\ vc.nt \in {"body"} /\ Fits(heap, vc)
      /\ a = NULL \/ a \in Below(stack, 0)
      /\ b = NULL \/ b \in Below(stack, 0)
      /\ c = NULL \/ c \in Below(stack, 0)
      /\ (a = b => a = NULL) /\ (a = c => a = NULL) /\ (b = c => b = NULL)
      /\ Below(stack, 3) = Minus(Minus(Minus(Below(stack, 0), a), b), c)
  BY <1>1, TopThree
<1>5. ks = F!FlattenSeq(F!Top(3))
  BY <1>4, TopJoined
<1>6. 3 \in 0 .. 4 /\ 3 \in 1 .. 4
  OBVIOUS
<1>7. a = S(3, 1) /\ c = S(3, 3)
  OBVIOUS
<1> HIDE DEF a, b, c, va, vb, vc, both, then, if, else
<1>8. a # NULL /\ heap[a].next = NULL /\ a \in Below(stack, 0)
  BY <1>4, HasTree
<1>9. b # NULL => heap[b].next = NULL /\ b \in Below(stack, 0) /\ a # b
  BY <1>4, <1>8, HasTree
<1>10. c # NULL => heap[c].next = NULL /\ c \in Below(stack, 0) /\ a # c /\ (b = c => b = NULL)
  BY <1>4, <1>8, HasTree
<1>11. CASE b # NULL /\ c # NULL /\ CanBranch(1) /\ heap' = both /\ Replace(3, v)
  <2> HIDE DEF new
  <2>1. new \in Nodes /\ heap[new].type = "free" /\ b # c
    BY <1>3, <1>10, <1>11
  <2>2. v \in Values /\ v.node = new
    BY <2>1, PlainValue DEF Nonterminals, Command
  <2>3. Grown(heap, both, stack, 3, new, ks)
    BY <1>1, <1>3, <1>4, <1>8, <1>9, <1>10, <1>11, <2>1, GrownThree DEF both
  <2> HIDE DEF v, ks
  <2> QED
    BY <1>4, <1>11, <1>5, <1>6, <2>2, <2>3, Grew
<1>12. CASE b # NULL /\ c = NULL /\ CanBranch(1) /\ heap' = then /\ Replace(3, v)
  <2> HIDE DEF new
  <2>1. new \in Nodes /\ heap[new].type = "free"
    BY <1>3, <1>12
  <2>2. Below(stack, 3) = Minus(Minus(Below(stack, 0), a), b)
    BY <1>1, <1>4, <1>12, NullIsNoRoot DEF Minus
  <2>3. v \in Values /\ v.node = new
    BY <2>1, PlainValue DEF Nonterminals, Command
  <2>4. Grown(heap, then, stack, 3, new, ls)
    BY <1>1, <1>3, <1>4, <1>8, <1>9, <1>12, <2>1, <2>2, GrownTwo DEF then
  <2>5. ks = ls
    <3>1. Siblings(heap, c) = << >>
      BY <1>1, <1>12, NothingRead
    <3>2. Siblings(heap, a) \in Seq(Nodes) /\ Siblings(heap, b) \in Seq(Nodes)
      BY <1>1, <1>8, <1>9, <1>12, RootsStartLists DEF Lists, Sound, Whole
    <3>3. ls \in Seq(Nodes)
      BY <3>2
    <3> HIDE DEF ls
    <3>4. ls \o << >> = ls
      BY <3>3
    <3> QED
      BY <3>1, <3>4 DEF ls
  <2> HIDE DEF v, ks, ls
  <2>6. Grown(heap, heap', stack, 3, new, ks)
    BY <1>12, <2>4, <2>5
  <2> QED
    BY <1>4, <1>12, <1>5, <1>6, <2>3, <2>6, Grew
<1>13. CASE b = NULL /\ c # NULL /\ CanBranch(2) /\ heap' = else /\ Replace(3, vi)
  <2>1. new \in Nodes /\ heap[new].type = "free"
    BY <1>3, <1>13
  <2>2. Below(stack, 3) = Minus(Minus(Below(stack, 0), a), c)
    BY <1>1, <1>4, <1>13, NullIsNoRoot
  <2>3. if \in Nodes /\ negated[if].type = "free"
    BY <1>8, <1>13, SecondFree DEF if
  <2> HIDE DEF new
  <2>4. heap' = createASTBinaryNode(negated, if, "node", new, c) /\ negated = createASTUnaryNode(heap, new, "node", a)
    BY <1>13 DEF else
  <2>5. c \in Below(stack, 0) /\ heap[c].next = NULL /\ a # c /\ 3 \in 0 .. Len(stack)
    BY <1>4, <1>10, <1>13
  <2> HIDE DEF negated
  <2>6. vi \in Values /\ vi.node = if /\ Replace(3, vi)
    BY <1>13, <2>3, PlainValue DEF Nonterminals, Command
  <2> HIDE DEF vi
  <2> QED
    BY <1>8, <1>7, <2>1, <2>2, <2>3, <2>4, <2>5, <2>6, NegatedGrow
<1>14. CASE b = NULL /\ c = NULL /\ heap' = heap /\ Replace(3, none)
  <2>1. none \in Values /\ none.node = NULL
    BY PlainValue DEF Nonterminals, Command
  <2> HIDE DEF none
  <2> QED
    BY <1>4, <1>14, <1>6, <2>1, Forgotten
<1> HIDE DEF new, negated, v, none, vi
<1> QED
  BY <1>2, <1>11, <1>12, <1>13, <1>14

----------------------------------------------------------------------------
(* The refinement *)

LEMMA ForestStart ==
    ASSUME Init
    PROVE  F!ForestInit
<1>1. heap = [n \in Nodes |-> Comp("free")] /\ stack = << >>
  BY DEF Init
<1>2. Nodes \ Free(heap) = {}
  BY <1>1 DEF Free, Comp
<1>3. Kids(heap) = [n \in {} |-> << >>]
  BY <1>2 DEF Kids
<1>4. Trees(heap, stack) = << >>
  BY <1>1 DEF Trees
<1> QED
  BY <1>3, <1>4 DEF F!ForestInit

LEMMA ForestStep ==
    ASSUME TreeInv, TreeInv', [Next]_vars
    PROVE  [F!ForestNext]_F!fvars
<1>1. CASE UNCHANGED vars
  <2>1. heap' = heap /\ stack' = stack
    BY <1>1 DEF vars
  <2> QED
    BY <2>1 DEF F!fvars
<1>2. ASSUME NEW nt \in {"exp", "name", "piped", "stmt"}, Leaf(nt)
      PROVE  F!ForestNext
  BY <1>2, LeafGrows
<1>3. ASSUME NEW nt \in {"exp", "stmt"}, Unary(nt) \/ Binary(nt)
      PROVE  F!ForestNext
  BY <1>3, UnaryGrows, BinaryGrows
<1>4. CASE Declaration \/ EmptyBlock
  BY <1>4, NothingGrows
<1>5. CASE LastArgument
  BY <1>5, LastArgumentStays
<1>6. CASE MoreArguments
  BY <1>6, MoreArgumentsJoin
<1>7. CASE CallWithoutArguments \/ PipedFunction
  BY <1>7, OneNameGrows
<1>8. CASE Call \/ PipedFunctionWithArguments
  BY <1>8, TwoNamesGrow
<1>9. CASE Chain
  BY <1>9, ChainExtends
<1>10. CASE Pipe
  BY <1>10, PipeCompletes
<1>11. CASE Sequence
  BY <1>11, SequenceAdopts
<1>12. CASE Block
  BY <1>12, BlockGrows
<1>13. CASE If
  BY <1>13, IfGrows
<1>14. CASE IfElse
  BY <1>14, IfElseGrows
<1>15. CASE DoWhile
  BY <1>15, DoWhileGrows
<1>16. CASE Foreach
  BY <1>16, ForeachGrows
<1>17. CASE MoreOfList
  BY <1>17, MoreOfListAdopts
<1>18. CASE For
  BY <1>18, ForGrows
<1>19. CASE While
  BY <1>19, WhileGrows
<1> QED
  BY <1>1, <1>2, <1>3, <1>4, <1>5, <1>6, <1>7, <1>8, <1>9, <1>10, <1>11, <1>12, <1>13, <1>14,
     <1>15, <1>16, <1>17, <1>18, <1>19 DEF Next

\* The lists of cc_tree.c implement the ordered forest that the grammar means:
\* whatever the parser reduces, no insertion, chaining or swap loses, repeats or
\* moves a subtree, and freeing takes exactly the trees a production drops.
THEOREM TreeImplementsForest == Spec => ImplementsForest
<1>1. Init => F!ForestInit
  BY ForestStart
<1>2. Init => TreeInv
  BY TreeInit
<1>3. TreeInv /\ [Next]_vars => TreeInv'
  BY TreeStep
<1>4. TreeInv /\ TreeInv' /\ [Next]_vars => [F!ForestNext]_F!fvars
  BY ForestStep
<1> QED
  BY <1>1, <1>2, <1>3, <1>4, PTL DEF Spec, ImplementsForest, F!ForestSpec
=============================================================================
