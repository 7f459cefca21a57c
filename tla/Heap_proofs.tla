----------------------------- MODULE Heap_proofs -----------------------------
(***************************************************************************)
(* Facts about the heap of Tree: what Path reads, when the linked lists of *)
(* a heap end and share nothing, and what the functions of cc_tree.c do to *)
(* the lists.  They are stated of any heap h, so that Tree_proofs can use  *)
(* them on both sides of a step.                                           *)
(***************************************************************************)
EXTENDS Tree, FiniteSetTheorems, NaturalsInduction, TLAPS

----------------------------------------------------------------------------
(* Numbers *)

LEMMA NatMin ==
    ASSUME NEW Ks, Ks \subseteq Nat, Ks # {}
    PROVE  \E x \in Ks : \A y \in Ks : x <= y
<1> DEFINE R == OpToRel(<, Nat)
<1>1. IsWellFoundedOn(R, Nat)
  BY NatLessThanWellFounded
<1>2. \A x, y \in Nat : y < x => <<y, x>> \in R
  BY DEF OpToRel
<1> HIDE DEF R
<1>3. PICK x \in Ks : \A y \in Ks : ~ (<<y, x>> \in R)
  BY <1>1, WFMin
<1>4. ASSUME NEW y \in Ks
      PROVE  x <= y
  <2>1. x \in Nat /\ y \in Nat
    OBVIOUS
  <2>2. ~ (y < x)
    BY <1>2, <1>3, <2>1, Zenon
  <2> QED
    BY <2>1, <2>2
<1> QED
  BY <1>4

\* Induction on a set of numbers.
LEMMA SetInduction ==
    ASSUME NEW Ks, 0 \in Ks, \A k \in Nat : k \in Ks => k + 1 \in Ks
    PROVE  Nat \subseteq Ks
<1> DEFINE T == Nat \ Ks
<1>1. SUFFICES ASSUME T # {} PROVE FALSE
  OBVIOUS
<1>2. PICK x \in T : \A y \in T : x <= y
  BY <1>1, NatMin
<1>3. x \in Nat /\ x # 0 /\ x - 1 \in Nat /\ x = (x - 1) + 1
  BY <1>2
<1>4. x - 1 \in Ks
  BY <1>2, <1>3
<1> QED
  BY <1>2, <1>3, <1>4

Bound == Cardinality(Nodes)

LEMMA BoundIsNat == Bound \in Nat
  BY TreeAssumption, FS_CardinalityType DEF Bound

LEMMA NullIsNone == NULL \notin Nodes /\ NULL = 0
  BY TreeAssumption DEF NULL

----------------------------------------------------------------------------
(* Path *)

Row(step, j, above) ==
    [m \in Nodes \cup {NULL} |->
        IF m = NULL THEN << >> ELSE IF j = 0 THEN <<m>> ELSE <<m>> \o above[step[m]]]

\* f is the function from of Path, up to k steps.
Rows(step, f, k) == f = [j \in 0 .. k |-> Row(step, j, f[j - 1])]

LEMMA RowsExist ==
    ASSUME NEW step
    PROVE  \A k \in Nat : \E f : Rows(step, f, k)
<1> DEFINE Ks == {k \in Nat : \E f : Rows(step, f, k)}
<1>1. 0 \in Ks
  <2> DEFINE f == [j \in 0 .. 0 |-> Row(step, 0, << >>)]
  <2>1. \A above : Row(step, 0, above) = Row(step, 0, << >>)
    BY DEF Row
  <2>2. f = [j \in 0 .. 0 |-> Row(step, j, f[j - 1])]
    <3>1. \A j \in 0 .. 0 : j = 0
      OBVIOUS
    <3> QED
      BY <2>1, <3>1
  <2> QED
    BY <2>2 DEF Rows
<1>2. ASSUME NEW k \in Nat, k \in Ks PROVE k + 1 \in Ks
  <2>1. PICK f : Rows(step, f, k)
    BY <1>2
  <2> DEFINE g == [j \in 0 .. k + 1 |-> IF j <= k THEN f[j] ELSE Row(step, k + 1, f[k])]
  <2>2. \A j \in 0 .. k : f[j] = Row(step, j, f[j - 1])
    BY <2>1 DEF Rows
  <2>3. \A a, b : Row(step, 0, a) = Row(step, 0, b)
    BY DEF Row
  <2>4. ASSUME NEW j \in 0 .. k + 1 PROVE g[j] = Row(step, j, g[j - 1])
    <3>1. CASE j = 0
      BY <2>2, <2>3, <3>1
    <3>2. CASE j \in 1 .. k
      <4>1. j - 1 \in 0 .. k + 1 /\ j - 1 <= k /\ j <= k
        BY <3>2
      <4> QED
        BY <2>2, <3>2, <4>1
    <3>3. CASE j = k + 1
      <4>1. ~(j <= k) /\ j - 1 = k /\ k <= k /\ k \in 0 .. k + 1
        BY <3>3
      <4> QED
        BY <3>3, <4>1
    <3> QED
      BY <3>1, <3>2, <3>3
  <2>5. g = [j \in 0 .. k + 1 |-> Row(step, j, g[j - 1])]
    BY <2>4
  <2> HIDE DEF g
  <2>6. Rows(step, g, k + 1)
    BY <2>5 DEF Rows
  <2> QED
    BY <2>6
<1> HIDE DEF Ks
<1>3. Nat \subseteq Ks
  BY <1>1, <1>2, SetInduction
<1> QED
  BY <1>3 DEF Ks

LEMMA PathRows ==
    ASSUME NEW step, NEW n
    PROVE  \E f : Rows(step, f, Bound) /\ Path(step, n) = f[Bound][n]
<1> DEFINE from == CHOOSE f : Rows(step, f, Bound)
<1>1. Rows(step, from, Bound)
  BY RowsExist, BoundIsNat
<1>2. Path(step, n) = from[Bound][n]
  BY DEF Path, Rows, Row, Bound
<1> QED
  BY <1>1, <1>2

\* What Path reads, when step does not lead out of a set of nodes: a sequence of
\* them that follows step, and ends where step does unless it is cut.
LEMMA PathFacts ==
    ASSUME NEW step, NEW N \in SUBSET Nodes,
           \A m \in N : step[m] \in N \cup {NULL},
           NEW n \in N \cup {NULL}
    PROVE  /\ Path(step, n) \in Seq(N)
           /\ n = NULL => Path(step, n) = << >>
           /\ n # NULL => Path(step, n) # << >> /\ Path(step, n)[1] = n
           /\ Len(Path(step, n)) <= Bound + 1
           /\ \A i \in 1 .. Len(Path(step, n)) - 1 : Path(step, n)[i + 1] = step[Path(step, n)[i]]
           /\ (n # NULL /\ Len(Path(step, n)) <= Bound) => step[Path(step, n)[Len(Path(step, n))]] = NULL
<1> DEFINE Reads(s, m, k) ==
             /\ s \in Seq(N)
             /\ m = NULL => s = << >>
             /\ m # NULL => s # << >> /\ s[1] = m
             /\ Len(s) <= k + 1
             /\ \A i \in 1 .. Len(s) - 1 : s[i + 1] = step[s[i]]
             /\ (m # NULL /\ Len(s) <= k) => step[s[Len(s)]] = NULL
<1>1. PICK f : Rows(step, f, Bound) /\ Path(step, n) = f[Bound][n]
  BY PathRows
<1> DEFINE Ks == {k \in Nat : k <= Bound => \A m \in N \cup {NULL} : Reads(f[k][m], m, k)}
<1>2. \A k \in 0 .. Bound : \A m \in N \cup {NULL} :
         f[k][m] = IF m = NULL THEN << >> ELSE IF k = 0 THEN <<m>> ELSE <<m>> \o f[k - 1][step[m]]
  <2>1. \A k \in 0 .. Bound : f[k] = Row(step, k, f[k - 1])
    BY <1>1 DEF Rows
  <2> SUFFICES ASSUME NEW k \in 0 .. Bound, NEW m \in N \cup {NULL}
               PROVE  f[k][m] = IF m = NULL THEN << >>
                                ELSE IF k = 0 THEN <<m>> ELSE <<m>> \o f[k - 1][step[m]]
    OBVIOUS
  <2>2. m \in Nodes \cup {NULL}
    OBVIOUS
  <2>3. \A a : Row(step, k, a)[m] = IF m = NULL THEN << >>
                                    ELSE IF k = 0 THEN <<m>> ELSE <<m>> \o a[step[m]]
    BY <2>2 DEF Row
  <2> QED
    BY <2>1, <2>3
<1>3. 0 \in Ks
  <2>1. ASSUME NEW m \in N \cup {NULL} PROVE Reads(f[0][m], m, 0)
    <3>1. f[0][m] = IF m = NULL THEN << >> ELSE <<m>>
      BY <1>2, BoundIsNat
    <3> HIDE DEF Reads
    <3> QED
      <4>1. CASE m = NULL
        BY <3>1, <4>1 DEF Reads
      <4>2. CASE m # NULL
        <5>1. <<m>> \in Seq(N) /\ Len(<<m>>) = 1 /\ <<m>>[1] = m
          BY <4>2
        <5> QED
          BY <3>1, <4>2, <5>1 DEF Reads
      <4> QED
        BY <4>1, <4>2
  <2> QED
    BY <2>1
<1>4. ASSUME NEW k \in Nat, k \in Ks PROVE k + 1 \in Ks
  <2> SUFFICES ASSUME k + 1 <= Bound, NEW m \in N \cup {NULL} PROVE Reads(f[k + 1][m], m, k + 1)
    BY SMTT(30)
  <2>1. k \in 0 .. Bound /\ k + 1 \in 0 .. Bound /\ k + 1 # 0 /\ (k + 1) - 1 = k
    BY BoundIsNat
  <2>2. CASE m = NULL
    <3>1. f[k + 1][m] = << >>
      BY <1>2, <2>1, <2>2
    <3> QED
      BY <2>2, <3>1
  <2>3. CASE m # NULL
    <3> DEFINE s == f[k][step[m]]
    <3>1. m \in N /\ step[m] \in N \cup {NULL}
      BY <2>3
    <3>2. f[k + 1][m] = <<m>> \o s
      BY ZenonT(60), <1>2, <2>1, <2>3
    <3>3. Reads(s, step[m], k)
      BY <1>4, <2>1, <3>1
    <3> HIDE DEF s, Reads, Ks
    <3>4. Reads(<<m>> \o s, m, k + 1)
      <4>1. s \in Seq(N) /\ Len(s) \in Nat
        BY <3>3 DEF Reads
      <4>2. /\ <<m>> \o s \in Seq(N) /\ Len(<<m>> \o s) = Len(s) + 1 /\ <<m>> \o s # << >>
            /\ (<<m>> \o s)[1] = m /\ \A i \in 1 .. Len(s) : (<<m>> \o s)[i + 1] = s[i]
        BY <3>1, <4>1
      <4>3. Len(s) <= k + 1 /\ Len(s) + 1 <= (k + 1) + 1
        BY <3>3, <4>1 DEF Reads
      <4>4. step[m] = NULL => s = << >> /\ Len(s) = 0
        BY <3>3 DEF Reads
      <4>5. step[m] # NULL => s # << >> /\ s[1] = step[m] /\ Len(s) >= 1
        BY <3>3, <4>1 DEF Reads
      <4> DEFINE t == <<m>> \o s
      <4> HIDE DEF t
      <4>6. ASSUME NEW i \in 1 .. Len(t) - 1 PROVE t[i + 1] = step[t[i]]
        <5>1. CASE i = 1
          BY <4>1, <4>2, <4>4, <4>5, <5>1, <4>6 DEF t
        <5>2. CASE i # 1
          <6>1. i - 1 \in 1 .. Len(s) - 1 /\ i \in 1 .. Len(s) /\ (i - 1) + 1 = i /\ i - 1 \in 1 .. Len(s)
            BY <4>1, <4>2, <5>2 DEF t
          <6>2. s[i] = step[s[i - 1]]
            BY <3>3, <6>1 DEF Reads
          <6>3. t[i + 1] = s[i] /\ t[i] = s[i - 1]
            BY <4>2, <6>1 DEF t
          <6> QED
            BY <6>2, <6>3
        <5> QED
          BY <5>1, <5>2
      <4>7. ASSUME Len(t) <= k + 1 PROVE step[t[Len(t)]] = NULL
        <5>1. CASE step[m] = NULL
          BY <4>2, <4>4, <5>1 DEF t
        <5>2. CASE step[m] # NULL
          <6>1. Len(s) <= k /\ Len(s) \in 1 .. Len(s)
            BY <4>1, <4>2, <4>5, <4>7, <5>2 DEF t
          <6>2. step[s[Len(s)]] = NULL
            BY <3>3, <5>2, <6>1 DEF Reads
          <6> QED
            BY <4>2, <6>1, <6>2 DEF t
        <5> QED
          BY <5>1, <5>2
      <4> QED
        BY <2>3, <4>2, <4>3, <4>6, <4>7 DEF Reads, t
    <3> QED
      BY <3>2, <3>4
  <2> QED
    BY <2>2, <2>3
<1> HIDE DEF Ks
<1>5. Bound \in Ks
  BY <1>3, <1>4, SetInduction, BoundIsNat
<1>6. Reads(f[Bound][n], n, Bound)
  BY <1>5, BoundIsNat DEF Ks
<1> QED
  BY <1>1, <1>6
----------------------------------------------------------------------------
(* Lists that can be read backwards *)

Records == [type : Types \cup {"free"}, childnodes : Nat,
            first : Nodes \cup {NULL}, last : Nodes \cup {NULL},
            next : Nodes \cup {NULL}, prev : Nodes \cup {NULL}]
Heaps == [Nodes -> Records]

\* prev undoes next and first, and what is on the parser's stack has no
\* predecessor and no parent.
Wired(h, roots) ==
    /\ \A n \in Nodes :
          /\ h[n].next # NULL => /\ h[n].type # "free" /\ h[h[n].next].type # "free"
                                 /\ h[h[n].next].prev = n
          /\ h[n].first # NULL => /\ h[n].type # "free" /\ h[h[n].first].type # "free"
                                  /\ h[h[n].first].prev = NULL
    /\ \A n, m \in Nodes : h[n].first = h[m].first => n = m \/ h[n].first = NULL
    /\ roots \subseteq Nodes
    /\ \A r \in roots : h[r].type # "free" /\ h[r].prev = NULL
    /\ \A r \in roots, n \in Nodes : h[n].first # r

\* s is the list from m, to its end.
Lists(h, m, s) ==
    /\ s \in Seq(Nodes)
    /\ m = NULL => s = << >>
    /\ m # NULL => s # << >> /\ s[1] = m
    /\ \A i \in 1 .. Len(s) : h[s[i]].next = IF i = Len(s) THEN NULL ELSE s[i + 1]

\* s can be read backwards to its first node.
Backwards(h, s) ==
    \A i \in 1 .. Len(s) : h[s[i]].prev = IF i = 1 THEN NULL ELSE s[i - 1]

\* Two lists that share a node are the same so far.
LEMMA SharedNode ==
    ASSUME NEW h, NEW s \in Seq(Nodes), NEW t \in Seq(Nodes), Backwards(h, s), Backwards(h, t),
           NEW i \in 1 .. Len(s), NEW j \in 1 .. Len(t), s[i] = t[j]
    PROVE  i = j /\ s[1] = t[1]
<1> DEFINE Ks == {k \in Nat : \A a \in 1 .. Len(s), b \in 1 .. Len(t) :
                   (a = k /\ s[a] = t[b]) => a = b /\ s[1] = t[1]}
<1>1. 0 \in Ks
  OBVIOUS
<1>2. ASSUME NEW k \in Nat, k \in Ks PROVE k + 1 \in Ks
  <2> SUFFICES ASSUME NEW a \in 1 .. Len(s), NEW b \in 1 .. Len(t), a = k + 1, s[a] = t[b]
               PROVE  a = b /\ s[1] = t[1]
    OBVIOUS
  <2>1. \A c \in 1 .. Len(s) : s[c] \in Nodes
    OBVIOUS
  <2>2. \A c \in 1 .. Len(t) : t[c] \in Nodes
    OBVIOUS
  <2>3. h[s[a]].prev = (IF a = 1 THEN NULL ELSE s[a - 1]) /\ h[t[b]].prev = (IF b = 1 THEN NULL ELSE t[b - 1])
    BY DEF Backwards
  <2>4. CASE a = 1 \/ b = 1
    <3>1. a # 1 => a - 1 \in 1 .. Len(s)
      OBVIOUS
    <3>2. b # 1 => b - 1 \in 1 .. Len(t)
      OBVIOUS
    <3> QED
      BY <2>1, <2>2, <2>3, <2>4, <3>1, <3>2, NullIsNone
  <2>5. CASE a # 1 /\ b # 1
    <3>1. a - 1 \in 1 .. Len(s) /\ b - 1 \in 1 .. Len(t) /\ a - 1 = k
      BY <2>5
    <3>2. s[a - 1] = t[b - 1]
      BY <2>3, <2>5
    <3>3. a - 1 = b - 1 /\ s[1] = t[1]
      BY <1>2, <3>1, <3>2
    <3> QED
      BY <3>3
  <2> QED
    BY <2>4, <2>5
<1> HIDE DEF Ks
<1>3. Nat \subseteq Ks
  BY <1>1, <1>2, SetInduction
<1>4. i \in Ks
  BY <1>3
<1> QED
  BY <1>4 DEF Ks

\* So no node occurs twice in one, and there are not more of them than nodes.
LEMMA BackwardsIsShort ==
    ASSUME NEW h, NEW s \in Seq(Nodes), Backwards(h, s)
    PROVE  Len(s) <= Bound
<1>1. \A i, j \in 1 .. Len(s) : s[i] = s[j] => i = j
  BY SharedNode
<1>2. s \in Injection(1 .. Len(s), Nodes)
  BY <1>1 DEF Injection, IsInjective
<1>3. Cardinality(1 .. Len(s)) <= Cardinality(Nodes)
  BY <1>2, FS_Injection, TreeAssumption
<1>4. Cardinality(1 .. Len(s)) = Len(s)
  <2>1. Len(s) \in Nat
    OBVIOUS
  <2> QED
    BY SMTT(30), <2>1, FS_Interval
<1> QED
  BY <1>3, <1>4 DEF Bound

\* A node of a wired heap without a predecessor starts a list that ends.
LEMMA SiblingsAreAList ==
    ASSUME NEW h \in Heaps, NEW roots, Wired(h, roots),
           NEW m \in Nodes \cup {NULL}, m # NULL => h[m].prev = NULL
    PROVE  Lists(h, m, Siblings(h, m)) /\ Backwards(h, Siblings(h, m))
<1> DEFINE step == [n \in Nodes |-> h[n].next]
           s == Siblings(h, m)
<1>1. \A n \in Nodes : step[n] = h[n].next /\ step[n] \in Nodes \cup {NULL}
  BY DEF Heaps, Records
<1>2. s = Path(step, m)
  BY DEF Siblings
<1> HIDE DEF step
<1>3. /\ s \in Seq(Nodes)
      /\ m = NULL => s = << >>
      /\ m # NULL => s # << >> /\ s[1] = m
      /\ \A i \in 1 .. Len(s) - 1 : s[i + 1] = step[s[i]]
      /\ (m # NULL /\ Len(s) <= Bound) => step[s[Len(s)]] = NULL
  BY <1>1, <1>2, PathFacts
<1> HIDE DEF s
<1>4. \A i \in 1 .. Len(s) - 1 : s[i] \in Nodes /\ s[i + 1] \in Nodes /\ s[i + 1] = h[s[i]].next
  <2>1. \A i \in 1 .. Len(s) - 1 : i \in 1 .. Len(s) /\ i + 1 \in 1 .. Len(s)
    BY <1>3
  <2> QED
    BY <1>1, <1>3, <2>1
<1>5. Backwards(h, s)
  <2> SUFFICES ASSUME NEW i \in 1 .. Len(s)
               PROVE  h[s[i]].prev = IF i = 1 THEN NULL ELSE s[i - 1]
    BY DEF Backwards
  <2>1. CASE i = 1
    BY <1>3, <2>1
  <2>2. CASE i # 1
    <3>1. i - 1 \in 1 .. Len(s) - 1 /\ (i - 1) + 1 = i
      BY <1>3, <2>2
    <3>2. s[i - 1] \in Nodes /\ s[i] \in Nodes /\ s[i] = h[s[i - 1]].next
      BY <1>4, <3>1
    <3> QED
      BY <2>2, <3>2, NullIsNone DEF Wired
  <2> QED
    BY <2>1, <2>2
<1>6. Len(s) <= Bound
  BY <1>3, <1>5, BackwardsIsShort
<1>7. Lists(h, m, s)
  <2>1. ASSUME NEW i \in 1 .. Len(s)
        PROVE  h[s[i]].next = IF i = Len(s) THEN NULL ELSE s[i + 1]
    <3>1. CASE i = Len(s)
      <4>1. m # NULL /\ s[i] \in Nodes
        BY <1>3, <3>1
      <4> QED
        BY <1>1, <1>3, <1>6, <3>1, <4>1
    <3>2. CASE i # Len(s)
      <4>1. i \in 1 .. Len(s) - 1
        BY <1>3, <3>2
      <4> QED
        BY <1>4, <3>2, <4>1
    <3> QED
      BY <3>1, <3>2
  <2> QED
    BY <1>3, <2>1 DEF Lists
<1> QED
  BY <1>5, <1>7 DEF s

\* There is only one list from a node.
LEMMA ListsAreEqual ==
    ASSUME NEW h, NEW m, NEW s, NEW t, Lists(h, m, s), Lists(h, m, t)
    PROVE  s = t
<1> DEFINE Ks == {k \in Nat : (k + 1 \in 1 .. Len(s) /\ k + 1 \in 1 .. Len(t)) => s[k + 1] = t[k + 1]}
<1>1. s \in Seq(Nodes) /\ t \in Seq(Nodes) /\ Len(s) \in Nat /\ Len(t) \in Nat
  BY DEF Lists
<1>2. 0 \in Ks
  <2>1. CASE m = NULL
    BY <2>1 DEF Lists
  <2>2. CASE m # NULL
    BY <2>2 DEF Lists
  <2> QED
    BY <2>1, <2>2
<1>3. ASSUME NEW k \in Nat, k \in Ks PROVE k + 1 \in Ks
  <2> SUFFICES ASSUME (k + 1) + 1 \in 1 .. Len(s), (k + 1) + 1 \in 1 .. Len(t)
               PROVE  s[(k + 1) + 1] = t[(k + 1) + 1]
    OBVIOUS
  <2>1. k + 1 \in 1 .. Len(s) /\ k + 1 \in 1 .. Len(t) /\ k + 1 # Len(s) /\ k + 1 # Len(t)
    BY <1>1
  <2>2. s[k + 1] = t[k + 1]
    BY <1>3, <2>1
  <2> QED
    BY <2>1, <2>2 DEF Lists
<1> HIDE DEF Ks
<1>4. Nat \subseteq Ks
  BY <1>2, <1>3, SetInduction
<1>5. ASSUME NEW i \in Nat, i \in 1 .. Len(s), i \in 1 .. Len(t) PROVE s[i] = t[i]
  <2>1. i - 1 \in Nat /\ (i - 1) + 1 = i
    BY <1>5
  <2>2. i - 1 \in Ks
    BY <1>4, <2>1
  <2> QED
    BY <1>5, <2>1, <2>2 DEF Ks
<1>6. \A n \in Nodes : n # NULL
  BY NullIsNone
<1>7. ASSUME Len(s) < Len(t) PROVE FALSE
  <2>1. CASE s = << >>
    <3>1. m = NULL /\ t = << >>
      BY <2>1 DEF Lists
    <3> QED
      BY <1>7, <2>1, <3>1
  <2>2. CASE s # << >>
    <3> DEFINE i == Len(s)
    <3>1. i \in Nat /\ i \in 1 .. Len(s) /\ i \in 1 .. Len(t) /\ i # Len(t) /\ i + 1 \in 1 .. Len(t)
      BY <1>1, <1>7, <2>2
    <3>2. s[i] = t[i]
      BY <1>5, <3>1
    <3>3. h[s[i]].next = NULL /\ h[t[i]].next = t[i + 1]
      BY <3>1 DEF Lists
    <3>4. t[i + 1] \in Nodes
      BY <1>1, <3>1
    <3> QED
      BY <1>6, <3>2, <3>3, <3>4
  <2> QED
    BY <2>1, <2>2
<1>8. ASSUME Len(t) < Len(s) PROVE FALSE
  <2>1. CASE t = << >>
    <3>1. m = NULL /\ s = << >>
      BY <2>1 DEF Lists
    <3> QED
      BY <1>8, <2>1, <3>1
  <2>2. CASE t # << >>
    <3> DEFINE i == Len(t)
    <3>1. i \in Nat /\ i \in 1 .. Len(s) /\ i \in 1 .. Len(t) /\ i # Len(s) /\ i + 1 \in 1 .. Len(s)
      BY <1>1, <1>8, <2>2
    <3>2. s[i] = t[i]
      BY <1>5, <3>1
    <3>3. h[t[i]].next = NULL /\ h[s[i]].next = s[i + 1]
      BY <3>1 DEF Lists
    <3>4. s[i + 1] \in Nodes
      BY <1>1, <3>1
    <3> QED
      BY <1>6, <3>2, <3>3, <3>4
  <2> QED
    BY <2>1, <2>2
<1>9. Len(s) = Len(t)
  BY <1>1, <1>7, <1>8
<1> QED
  BY <1>1, <1>5, <1>9

\* The list from a node without a predecessor, written down, is what Siblings
\* reads.
LEMMA ReadsList ==
    ASSUME NEW h \in Heaps, NEW roots, Wired(h, roots),
           NEW m \in Nodes \cup {NULL}, m # NULL => h[m].prev = NULL,
           NEW s, Lists(h, m, s)
    PROVE  Siblings(h, m) = s
  BY SiblingsAreAList, ListsAreEqual

\* It has only nodes in use.
LEMMA ListsAreUsed ==
    ASSUME NEW h \in Heaps, NEW roots, Wired(h, roots),
           NEW m \in Nodes \cup {NULL}, m # NULL => h[m].type # "free",
           NEW s, Lists(h, m, s), NEW i \in 1 .. Len(s)
    PROVE  s[i] \in Nodes /\ h[s[i]].type # "free"
<1>1. s \in Seq(Nodes) /\ s[i] \in Nodes
  BY DEF Lists
<1>2. CASE i = 1
  BY <1>1, <1>2, NullIsNone DEF Lists
<1>3. CASE i # 1
  <2>1. i - 1 \in 1 .. Len(s) /\ i - 1 # Len(s) /\ (i - 1) + 1 = i
    BY <1>1, <1>3
  <2>2. h[s[i - 1]].next = s[i] /\ s[i - 1] \in Nodes
    BY <1>1, <2>1 DEF Lists
  <2> QED
    BY <1>1, <2>2, NullIsNone DEF Wired
<1> QED
  BY <1>2, <1>3

\* A list stays what it is where no next of it changes.
LEMMA ListKept ==
    ASSUME NEW h, NEW g, NEW m, NEW s, Lists(h, m, s),
           \A i \in 1 .. Len(s) : g[s[i]].next = h[s[i]].next
    PROVE  Lists(g, m, s)
  BY DEF Lists

\* Two lists are joined where the last node of one gets the other as its next.
LEMMA ListJoined ==
    ASSUME NEW h, NEW g, NEW m, NEW s, Lists(h, m, s), s # << >>,
           NEW x \in Nodes, NEW u, Lists(h, x, u),
           g[s[Len(s)]].next = x,
           \A i \in 1 .. Len(s) - 1 : g[s[i]].next = h[s[i]].next,
           \A i \in 1 .. Len(u) : g[u[i]].next = h[u[i]].next
    PROVE  Lists(g, m, s \o u)
<1> DEFINE w == s \o u
<1>1. /\ s \in Seq(Nodes) /\ u \in Seq(Nodes) /\ Len(s) \in Nat \ {0} /\ Len(u) \in Nat \ {0}
      /\ u[1] = x /\ m # NULL /\ s[1] = m
  BY NullIsNone DEF Lists
<1>2. /\ w \in Seq(Nodes) /\ Len(w) = Len(s) + Len(u)
      /\ \A i \in 1 .. Len(s) : w[i] = s[i]
      /\ \A i \in 1 .. Len(u) : w[Len(s) + i] = u[i]
  BY <1>1
<1> HIDE DEF w
<1>3. ASSUME NEW i \in 1 .. Len(w)
      PROVE  g[w[i]].next = IF i = Len(w) THEN NULL ELSE w[i + 1]
  <2>1. CASE i < Len(s)
    <3>1. i \in 1 .. Len(s) /\ i \in 1 .. Len(s) - 1 /\ i + 1 \in 1 .. Len(s) /\ i # Len(s) /\ i # Len(w)
      BY <1>1, <1>2, <2>1
    <3> QED
      BY SMTT(30), <1>2, <3>1 DEF Lists
  <2>2. CASE i = Len(s)
    <3>1. i \in 1 .. Len(s) /\ 1 \in 1 .. Len(u) /\ i # Len(w)
      BY <1>1, <1>2, <2>2
    <3> QED
      BY <1>1, <1>2, <2>2, <3>1
  <2>3. CASE i > Len(s)
    <3> DEFINE j == i - Len(s)
    <3>1. j \in 1 .. Len(u) /\ i = Len(s) + j /\ (i = Len(w) <=> j = Len(u))
      BY <1>1, <1>2, <2>3
    <3>2. j # Len(u) => j + 1 \in 1 .. Len(u) /\ i + 1 = Len(s) + (j + 1)
      <4>1. \A a, b, c, d \in Nat : (c \in 1 .. b /\ d = a + c /\ c # b)
                                    => c + 1 \in 1 .. b /\ d + 1 = a + (c + 1)
        OBVIOUS
      <4>2. i \in Nat /\ Len(s) \in Nat /\ Len(u) \in Nat /\ j \in Nat
        BY <1>1, <3>1
      <4> HIDE DEF j
      <4> QED
        BY <3>1, <4>1, <4>2
    <3>3. g[u[j]].next = IF j = Len(u) THEN NULL ELSE u[j + 1]
      BY <3>1 DEF Lists
    <3>4. w[i] = u[j]
      BY <1>2, <3>1
    <3>5. j # Len(u) => w[i + 1] = u[j + 1]
      BY <1>2, <3>2
    <3> HIDE DEF j
    <3> QED
      BY <3>1, <3>3, <3>4, <3>5
  <2> QED
    BY <1>1, <2>1, <2>2, <2>3
<1>4. w # << >> /\ w[1] = m
  <2>1. 1 \in 1 .. Len(s)
    BY <1>1
  <2> QED
    BY <1>1, <1>2, <2>1
<1> QED
  BY <1>1, <1>2, <1>3, <1>4 DEF Lists, w

----------------------------------------------------------------------------
(* The functions of cc_tree.c *)

\* One assignment through a pointer.
WithNext(h, a, v) == [h EXCEPT ![a].next = v]
WithPrev(h, a, v) == [h EXCEPT ![a].prev = v]
WithLast(h, a, v) == [h EXCEPT ![a].last = v]
WithCount(h, a, v) == [h EXCEPT ![a].childnodes = v]

LEMMA Assigned ==
    ASSUME NEW h \in Heaps, NEW a \in Nodes, NEW v \in Nodes \cup {NULL}
    PROVE  /\ WithNext(h, a, v) \in Heaps
           /\ \A n \in Nodes :
                 /\ WithNext(h, a, v)[n].next = IF n = a THEN v ELSE h[n].next
                 /\ WithNext(h, a, v)[n].prev = h[n].prev
                 /\ WithNext(h, a, v)[n].last = h[n].last
                 /\ WithNext(h, a, v)[n].first = h[n].first
                 /\ WithNext(h, a, v)[n].type = h[n].type
                 /\ WithNext(h, a, v)[n].childnodes = h[n].childnodes
           /\ WithPrev(h, a, v) \in Heaps
           /\ \A n \in Nodes :
                 /\ WithPrev(h, a, v)[n].prev = IF n = a THEN v ELSE h[n].prev
                 /\ WithPrev(h, a, v)[n].next = h[n].next
                 /\ WithPrev(h, a, v)[n].last = h[n].last
                 /\ WithPrev(h, a, v)[n].first = h[n].first
                 /\ WithPrev(h, a, v)[n].type = h[n].type
                 /\ WithPrev(h, a, v)[n].childnodes = h[n].childnodes
           /\ WithLast(h, a, v) \in Heaps
           /\ \A n \in Nodes :
                 /\ WithLast(h, a, v)[n].last = IF n = a THEN v ELSE h[n].last
                 /\ WithLast(h, a, v)[n].next = h[n].next
                 /\ WithLast(h, a, v)[n].prev = h[n].prev
                 /\ WithLast(h, a, v)[n].first = h[n].first
                 /\ WithLast(h, a, v)[n].type = h[n].type
                 /\ WithLast(h, a, v)[n].childnodes = h[n].childnodes
<1>1. \A n \in Nodes : h[n] \in Records
  BY DEF Heaps
<1>2. WithNext(h, a, v) \in Heaps
  BY <1>1 DEF WithNext, Heaps, Records
<1>3. WithPrev(h, a, v) \in Heaps
  BY <1>1 DEF WithPrev, Heaps, Records
<1>4. WithLast(h, a, v) \in Heaps
  BY <1>1 DEF WithLast, Heaps, Records
<1> QED
  BY <1>1, <1>2, <1>3, <1>4 DEF WithNext, WithPrev, WithLast, Heaps, Records

LEMMA CountAssigned ==
    ASSUME NEW h \in Heaps, NEW a \in Nodes, NEW c, c \in Nat
    PROVE  /\ WithCount(h, a, c) \in Heaps
           /\ \A n \in Nodes :
                 /\ WithCount(h, a, c)[n].childnodes = IF n = a THEN c ELSE h[n].childnodes
                 /\ WithCount(h, a, c)[n].next = h[n].next
                 /\ WithCount(h, a, c)[n].prev = h[n].prev
                 /\ WithCount(h, a, c)[n].first = h[n].first
                 /\ WithCount(h, a, c)[n].last = h[n].last
                 /\ WithCount(h, a, c)[n].type = h[n].type
<1>1. \A n \in Nodes : h[n] \in Records
  BY DEF Heaps
<1>2. WithCount(h, a, c) \in Heaps
  BY <1>1 DEF WithCount, Heaps, Records
<1> QED
  BY <1>1, <1>2 DEF WithCount, Heaps, Records

\* The two branches of tree_insert_node_as_second_child, as assignments.
SecondOnly(h, t, x, f, l) ==
    [h EXCEPT ![x].prev = l, ![f].next = x, ![t].last = x, ![t].childnodes = @ + 1]
SecondAmong(h, t, x, f, y) ==
    [h EXCEPT ![x].prev = f, ![x].next = y, ![y].prev = x, ![f].next = x, ![t].childnodes = @ + 1]

LEMMA SecondAssigned ==
    ASSUME NEW h \in Heaps, NEW t \in Nodes, NEW x \in Nodes, NEW f \in Nodes, NEW y \in Nodes,
           NEW h3, h3 = WithLast(WithNext(WithPrev(h, x, f), f, x), t, x),
           NEW h4, h4 = WithNext(WithPrev(WithNext(WithPrev(h, x, f), x, y), y, x), f, x)
    PROVE  /\ SecondOnly(h, t, x, f, f) = WithCount(h3, t, h3[t].childnodes + 1)
           /\ SecondAmong(h, t, x, f, y) = WithCount(h4, t, h4[t].childnodes + 1)
<1>1. SecondOnly(h, t, x, f, f) = WithCount(h3, t, h3[t].childnodes + 1)
  BY DEF SecondOnly, WithPrev, WithNext, WithLast, WithCount
<1>2. SecondAmong(h, t, x, f, y) = WithCount(h4, t, h4[t].childnodes + 1)
  BY ZenonT(60) DEF SecondAmong, WithPrev, WithNext, WithCount
<1> QED
  BY <1>1, <1>2

LEMMA SecondCases ==
    ASSUME NEW h, NEW t, NEW x
    PROVE  tree_insert_node_as_second_child(h, t, x) =
             IF h[t].childnodes = 1 THEN SecondOnly(h, t, x, h[t].first, h[t].last)
             ELSE SecondAmong(h, t, x, h[t].first, h[h[t].first].next)
  BY DEF tree_insert_node_as_second_child, SecondOnly, SecondAmong

\* The roots without one, and with one more.
Minus(roots, x) == roots \ {x}
Plus(roots, x) == roots \cup {x}

LEMMA ChildrenAreAList ==
    ASSUME NEW h \in Heaps, NEW roots, Wired(h, roots), NEW n \in Nodes
    PROVE  Lists(h, h[n].first, Children(h, n)) /\ Backwards(h, Children(h, n))
<1>1. h[n].first \in Nodes \cup {NULL} /\ (h[n].first # NULL => h[h[n].first].prev = NULL)
  BY DEF Heaps, Records, Wired
<1> QED
  BY <1>1, SiblingsAreAList DEF Children

LEMMA RootsStartLists ==
    ASSUME NEW h \in Heaps, NEW roots, Wired(h, roots), NEW r \in roots
    PROVE  /\ r \in Nodes /\ h[r].prev = NULL
           /\ Lists(h, r, Siblings(h, r)) /\ Backwards(h, Siblings(h, r))
<1>1. r \in Nodes /\ h[r].prev = NULL
  BY DEF Wired
<1> QED
  BY <1>1, SiblingsAreAList

\* Where nothing but the rest of a record changes, the lists do not.
LEMMA LinksKept ==
    ASSUME NEW h \in Heaps, NEW g \in Heaps, NEW roots, NEW those, Wired(h, roots), Wired(g, those),
           NEW m \in Nodes \cup {NULL},
           m # NULL => h[m].type # "free" /\ h[m].prev = NULL /\ g[m].prev = NULL,
           \A n \in Nodes : h[n].type # "free" => g[n].next = h[n].next
    PROVE  Siblings(g, m) = Siblings(h, m)
<1> DEFINE s == Siblings(h, m)
<1>1. Lists(h, m, s)
  BY SiblingsAreAList
<1> HIDE DEF s
<1>2. \A i \in 1 .. Len(s) : g[s[i]].next = h[s[i]].next
  BY <1>1, ListsAreUsed
<1>3. Lists(g, m, s)
  BY <1>1, <1>2, ListKept
<1> QED
  BY <1>3, ReadsList DEF s

\* createASTNode gives one more root, without children.
LEMMA Created ==
    ASSUME NEW h \in Heaps, NEW roots, Wired(h, roots),
           NEW x \in Nodes, h[x].type = "free", NEW type \in Types,
           NEW g, g = createASTNode(h, x, type)
    PROVE  /\ g \in Heaps /\ x \notin roots
           /\ Wired(g, Plus(roots, x))
           /\ g[x] = Comp(type) /\ \A n \in Nodes \ {x} : g[n] = h[n]
           /\ \A m \in Nodes \ {x} : Children(g, m) = Children(h, m)
           /\ \A r \in roots : Siblings(g, r) = Siblings(h, r)
           /\ Children(g, x) = << >> /\ Siblings(g, x) = <<x>>
<1>1. Comp(type) \in Records /\ type # "free" /\ x # NULL
  BY NullIsNone DEF Comp, Records, Types
<1>2. g = [h EXCEPT ![x] = Comp(type)]
  BY DEF createASTNode
<1>3. g \in Heaps /\ g[x] = Comp(type) /\ \A n \in Nodes \ {x} : g[n] = h[n]
  BY <1>1, <1>2 DEF Heaps
<1>4. x \notin roots /\ h[x].next = NULL /\ h[x].first = NULL
      /\ \A n \in Nodes : h[n].next # x /\ h[n].first # x
  BY <1>1 DEF Wired
<1>5. /\ g[x].type # "free" /\ g[x].next = NULL /\ g[x].first = NULL /\ g[x].prev = NULL
  BY <1>1, <1>3 DEF Comp
<1>6. Wired(g, roots \cup {x})
  <2>1. \A n \in Nodes : h[n].next \in Nodes \cup {NULL} /\ h[n].first \in Nodes \cup {NULL}
    BY DEF Heaps, Records
  <2> HIDE DEF Comp
  <2>2. \A n \in Nodes :
          /\ g[n].next # NULL => /\ g[n].type # "free" /\ g[g[n].next].type # "free"
                                 /\ g[g[n].next].prev = n
          /\ g[n].first # NULL => /\ g[n].type # "free" /\ g[g[n].first].type # "free"
                                  /\ g[g[n].first].prev = NULL
    BY <1>3, <1>4, <1>5, <2>1 DEF Wired
  <2>3. \A n, m \in Nodes : g[n].first = g[m].first => n = m \/ g[n].first = NULL
    BY <1>3, <1>5 DEF Wired
  <2>4. \A r \in roots \cup {x} : r \in Nodes /\ g[r].type # "free" /\ g[r].prev = NULL
    BY <1>3, <1>5 DEF Wired
  <2>5. \A r \in roots \cup {x}, n \in Nodes : g[n].first # r
    BY <1>1, <1>3, <1>4, <1>5, <2>4, NullIsNone DEF Wired
  <2> QED
    BY <2>2, <2>3, <2>4, <2>5 DEF Wired
<1>7. \A n \in Nodes : h[n].type # "free" => g[n].next = h[n].next
  BY <1>3
<1>8. ASSUME NEW n \in Nodes \ {x} PROVE Children(g, n) = Children(h, n)
  <2>1. g[n].first = h[n].first /\ h[n].first \in Nodes \cup {NULL}
    BY <1>3 DEF Heaps, Records
  <2>2. h[n].first # NULL => /\ h[h[n].first].type # "free" /\ h[h[n].first].prev = NULL
                             /\ g[h[n].first].prev = NULL
    BY <1>3, <1>4, <2>1 DEF Wired
  <2> QED
    BY <1>3, <1>6, <1>7, <2>1, <2>2, LinksKept DEF Children
<1>9. ASSUME NEW r \in roots PROVE Siblings(g, r) = Siblings(h, r)
  <2>1. r \in Nodes /\ h[r].type # "free" /\ h[r].prev = NULL /\ g[r].prev = NULL
    BY <1>3, <1>4 DEF Wired
  <2> QED
    BY <1>3, <1>6, <1>7, <2>1, LinksKept
<1>10. Lists(g, x, <<x>>) /\ Lists(g, NULL, << >>)
  BY <1>1, <1>5 DEF Lists
<1>11. Siblings(g, x) = <<x>>
  BY <1>3, <1>5, <1>6, <1>10, ReadsList
<1>12. Children(g, x) = << >>
  BY <1>3, <1>5, <1>6, <1>10, ReadsList DEF Children
<1> QED
  BY <1>3, <1>4, <1>6, <1>8, <1>9, <1>11, <1>12 DEF Plus

\* childnodes and last of n are those of its list.
CountedIn(h, n) ==
    LET ks == Children(h, n)
    IN  /\ h[n].childnodes = Len(ks)
        /\ h[n].last = IF ks = << >> THEN NULL ELSE Last(ks)

LEMMA ChildrenFacts ==
    ASSUME NEW h \in Heaps, NEW roots, Wired(h, roots), NEW n \in Nodes
    PROVE  /\ Children(h, n) \in Seq(Nodes) /\ Len(Children(h, n)) \in Nat
           /\ Len(Children(h, n)) <= Bound
           /\ Children(h, n) = << >> <=> h[n].first = NULL
           /\ Children(h, n) = << >> <=> Len(Children(h, n)) = 0
           /\ Children(h, n) # << >> => Children(h, n)[1] = h[n].first
           /\ \A i \in 1 .. Len(Children(h, n)) :
                 /\ Children(h, n)[i] \in Nodes /\ h[Children(h, n)[i]].type # "free"
                 /\ h[Children(h, n)[i]].next = IF i = Len(Children(h, n)) THEN NULL ELSE Children(h, n)[i + 1]
<1> DEFINE ks == Children(h, n)
<1>1. Lists(h, h[n].first, ks) /\ Backwards(h, ks)
  BY ChildrenAreAList
<1>2. h[n].first \in Nodes \cup {NULL} /\ (h[n].first # NULL => h[h[n].first].type # "free")
  BY DEF Heaps, Records, Wired
<1> HIDE DEF ks
<1>3. ks \in Seq(Nodes) /\ (ks = << >> <=> h[n].first = NULL) /\ (ks # << >> => ks[1] = h[n].first)
  BY <1>1, NullIsNone DEF Lists
<1>4. \A i \in 1 .. Len(ks) : ks[i] \in Nodes /\ h[ks[i]].type # "free"
  BY <1>1, <1>2, ListsAreUsed
<1>5. Len(ks) <= Bound
  BY <1>1, <1>3, BackwardsIsShort
<1>6. Len(ks) \in Nat /\ (ks = << >> <=> Len(ks) = 0)
  BY <1>3
<1> QED
  BY <1>1, <1>3, <1>4, <1>5, <1>6 DEF Lists, ks

\* The children of a node are in no other list.
LEMMA ChildElsewhere ==
    ASSUME NEW h \in Heaps, NEW roots, Wired(h, roots), NEW n \in Nodes,
           NEW i \in 1 .. Len(Children(h, n)),
           NEW m \in Nodes \cup {NULL}, m # NULL => h[m].prev = NULL,
           NEW j \in 1 .. Len(Siblings(h, m)), Siblings(h, m)[j] = Children(h, n)[i]
    PROVE  m = h[n].first /\ i = j
<1> DEFINE ks == Children(h, n)
           s == Siblings(h, m)
<1>1. Lists(h, m, s) /\ Backwards(h, s) /\ Lists(h, h[n].first, ks) /\ Backwards(h, ks)
  BY SiblingsAreAList, ChildrenAreAList
<1> HIDE DEF ks, s
<1>2. s \in Seq(Nodes) /\ ks \in Seq(Nodes)
  BY <1>1 DEF Lists
<1>3. i \in 1 .. Len(ks) /\ j \in 1 .. Len(s) /\ s[j] = ks[i]
  BY DEF ks, s
<1>4. i = j /\ s[1] = ks[1]
  BY <1>1, <1>2, <1>3, SharedNode
<1>5. m # NULL /\ h[n].first # NULL
  BY <1>1, <1>2, <1>3 DEF Lists
<1> QED
  BY <1>1, <1>4, <1>5 DEF Lists

\* The record of a node whose only child is x.
OneChild(r, x) ==
    [type |-> r.type, childnodes |-> r.childnodes + 1, first |-> x, last |-> x,
     next |-> r.next, prev |-> r.prev]

LEMMA OneChildFacts ==
    ASSUME NEW r \in Records, NEW x \in Nodes
    PROVE  /\ OneChild(r, x) \in Records
           /\ OneChild(r, x).type = r.type /\ OneChild(r, x).childnodes = r.childnodes + 1
           /\ OneChild(r, x).first = x /\ OneChild(r, x).last = x
           /\ OneChild(r, x).next = r.next /\ OneChild(r, x).prev = r.prev
  BY DEF OneChild, Records

LEMMA OneChildInserted ==
    ASSUME NEW h \in Heaps, NEW t \in Nodes, NEW x, h[t].childnodes = 0
    PROVE  tree_insert_node(h, t, x) = [h EXCEPT ![t] = OneChild(h[t], x)]
<1> DEFINE rec == [h[t] EXCEPT !.first = x, !.last = x, !.childnodes = @ + 1]
<1>1. h[t] \in Records
  BY DEF Heaps
<1>2. rec = OneChild(h[t], x)
  <2>1. rec = [h[t] EXCEPT !.first = x, !.last = x, !.childnodes = h[t].childnodes + 1]
    OBVIOUS
  <2> HIDE DEF rec
  <2>2. rec = [type |-> h[t].type, childnodes |-> h[t].childnodes + 1, first |-> x, last |-> x,
               next |-> h[t].next, prev |-> h[t].prev]
    BY <1>1, <2>1 DEF Records
  <2> QED
    BY <2>2 DEF OneChild
<1>3. tree_insert_node(h, t, x) = [h EXCEPT ![t] = rec]
  BY <1>1 DEF tree_insert_node, tree_has_child_nodes, Heaps, Records
<1> HIDE DEF rec
<1> QED
  BY <1>2, <1>3

\* tree_insert_node puts the list of a root behind the children of a node whose
\* count and last child are right.
LEMMA Inserted ==
    ASSUME NEW h \in Heaps, NEW roots, Wired(h, roots),
           NEW t \in Nodes, h[t].type # "free", CountedIn(h, t),
           NEW x \in roots, x # t,
           NEW g, g = tree_insert_node(h, t, x)
    PROVE  /\ g \in Heaps
           /\ Wired(g, Minus(roots, x))
           /\ \A m \in Nodes \ {t} : Children(g, m) = Children(h, m)
           /\ \A r \in roots \ {x} : Siblings(g, r) = Siblings(h, r)
           /\ Children(g, t) = Children(h, t) \o Siblings(h, x)
           /\ g[t].childnodes = h[t].childnodes + 1 /\ g[t].last = x
           /\ h[t].first # NULL => g[t].first = h[t].first
           /\ \A n \in Nodes \ {t} : /\ g[n].childnodes = h[n].childnodes /\ g[n].first = h[n].first
                                     /\ g[n].last = h[n].last
           /\ \A n \in Nodes : g[n].type = h[n].type
           /\ \A n \in Nodes : h[n].next # NULL => g[n].next = h[n].next
           /\ \A r \in roots \ {x} : g[r].next = h[r].next
<1> DEFINE ks == Children(h, t)
           u == Siblings(h, x)
           z == h[t].last
<1>1. /\ ks \in Seq(Nodes) /\ Len(ks) \in Nat
      /\ ks = << >> <=> h[t].first = NULL
      /\ ks = << >> <=> h[t].childnodes = 0
      /\ ks # << >> => /\ z = ks[Len(ks)] /\ z \in Nodes /\ h[z].type # "free" /\ h[z].next = NULL
                       /\ Len(ks) \in 1 .. Len(ks)
  <2>1. ks \in Seq(Nodes) /\ Len(ks) \in Nat /\ (ks = << >> <=> h[t].first = NULL)
        /\ (ks = << >> <=> Len(ks) = 0)
    BY ChildrenFacts
  <2>2. h[t].childnodes = Len(ks) /\ (ks # << >> => z = ks[Len(ks)])
    BY DEF CountedIn, Last
  <2>3. ks # << >> => Len(ks) \in 1 .. Len(ks)
    BY <2>1
  <2>4. ks # << >> => h[z].next = NULL /\ z \in Nodes /\ h[z].type # "free"
    BY <2>2, <2>3, ChildrenFacts
  <2> QED
    BY <2>1, <2>2, <2>3, <2>4
<1>2. /\ x \in Nodes /\ x # NULL /\ h[x].type # "free" /\ h[x].prev = NULL
      /\ \A n \in Nodes : h[n].first # x /\ h[n].next # x
  BY NullIsNone DEF Wired
<1>3. ks # << >> => z # x
  <2> SUFFICES ASSUME ks # << >>, z = x PROVE FALSE
    OBVIOUS
  <2>1. Lists(h, x, u) /\ x = u[1] /\ 1 \in 1 .. Len(u)
    <3>1. Lists(h, x, u)
      BY RootsStartLists
    <3> HIDE DEF u
    <3> QED
      BY <1>2, <3>1 DEF Lists
  <2>2. Len(ks) \in 1 .. Len(ks) /\ u[1] = ks[Len(ks)]
    BY <1>1, <2>1
  <2>3. x = h[t].first
    BY <1>2, <2>1, <2>2, ChildElsewhere
  <2> QED
    BY <1>2, <2>3
<1>4. \A n \in Nodes : h[n] \in Records
  BY DEF Heaps
<1> DEFINE leaf == ks = << >>
<1>5. leaf => g = [h EXCEPT ![t] = OneChild(h[t], x)]
  BY <1>1, OneChildInserted
<1>6. ~leaf => g = [h EXCEPT ![x].prev = z, ![z].next = x, ![t].last = x, ![t].childnodes = @ + 1]
  BY <1>1 DEF tree_insert_node, tree_has_child_nodes
<1> HIDE DEF ks, u, z, leaf
<1>7. /\ g \in Heaps
      /\ \A n \in Nodes :
            /\ g[n].type = h[n].type
            /\ g[n].childnodes = IF n = t THEN h[n].childnodes + 1 ELSE h[n].childnodes
            /\ g[n].first = IF n = t /\ leaf THEN x ELSE h[n].first
            /\ g[n].last = IF n = t THEN x ELSE h[n].last
            /\ g[n].next = IF n = z /\ ~leaf THEN x ELSE h[n].next
            /\ g[n].prev = IF n = x /\ ~leaf THEN z ELSE h[n].prev
  <2>1. CASE leaf
    <3> DEFINE new == OneChild(h[t], x)
    <3>1. /\ new \in Records /\ new.type = h[t].type /\ new.childnodes = h[t].childnodes + 1
          /\ new.first = x /\ new.last = x /\ new.next = h[t].next /\ new.prev = h[t].prev
      BY <1>2, <1>4, OneChildFacts
    <3>2. g = [h EXCEPT ![t] = new]
      BY <1>5, <2>1
    <3> HIDE DEF new
    <3>3. g \in Heaps /\ g[t] = new /\ \A n \in Nodes : n # t => g[n] = h[n]
      BY <3>1, <3>2 DEF Heaps
    <3> QED
      BY <2>1, <3>1, <3>3
  <2>2. CASE ~leaf
    <3>1. z \in Nodes /\ z # x
      BY <1>1, <1>3, <2>2 DEF leaf
    <3> QED
      BY <1>2, <1>4, <1>6, <2>2, <3>1 DEF Heaps, Records
  <2> QED
    BY <2>1, <2>2
<1>8. \A n \in Nodes : h[n].next \in Nodes \cup {NULL} /\ h[n].first \in Nodes \cup {NULL}
  BY <1>4 DEF Records
<1>9. z = NULL \/ z \in Nodes
  BY <1>4 DEF Records, z
<1>10. Wired(g, roots \ {x})
  <2>1. \A n \in Nodes : g[n].next # NULL =>
           g[n].type # "free" /\ g[g[n].next].type # "free" /\ g[g[n].next].prev = n
    <3> SUFFICES ASSUME NEW n \in Nodes, g[n].next # NULL
                 PROVE  g[n].type # "free" /\ g[g[n].next].type # "free" /\ g[g[n].next].prev = n
      OBVIOUS
    <3>1. CASE n = z /\ ~leaf
      BY <1>1, <1>2, <1>7, <3>1 DEF leaf
    <3>2. CASE ~(n = z /\ ~leaf)
      <4>1. g[n].next = h[n].next /\ h[n].next \in Nodes /\ h[n].next # x
        BY <1>2, <1>7, <1>8, <3>2
      <4>2. h[n].type # "free" /\ h[h[n].next].type # "free" /\ h[h[n].next].prev = n
        BY <4>1, NullIsNone DEF Wired
      <4> QED
        BY <1>7, <4>1, <4>2
    <3> QED
      BY <3>1, <3>2
  <2>2. \A n \in Nodes : g[n].first # NULL =>
           g[n].type # "free" /\ g[g[n].first].type # "free" /\ g[g[n].first].prev = NULL
    <3> SUFFICES ASSUME NEW n \in Nodes, g[n].first # NULL
                 PROVE  g[n].type # "free" /\ g[g[n].first].type # "free" /\ g[g[n].first].prev = NULL
      OBVIOUS
    <3>1. CASE n = t /\ leaf
      BY <1>2, <1>7, <3>1
    <3>2. CASE ~(n = t /\ leaf)
      <4>1. g[n].first = h[n].first /\ h[n].first \in Nodes /\ h[n].first # x
        BY <1>2, <1>7, <1>8, <3>2
      <4>2. h[n].type # "free" /\ h[h[n].first].type # "free" /\ h[h[n].first].prev = NULL
        BY <4>1, NullIsNone DEF Wired
      <4> QED
        BY <1>7, <4>1, <4>2
    <3> QED
      BY <3>1, <3>2
  <2>3. \A n, m \in Nodes : g[n].first = g[m].first => n = m \/ g[n].first = NULL
    BY <1>2, <1>7 DEF Wired
  <2>4. \A r \in roots \ {x} : r \in Nodes /\ g[r].type # "free" /\ g[r].prev = NULL
    BY <1>7 DEF Wired
  <2>5. \A r \in roots \ {x}, n \in Nodes : g[n].first # r
    BY <1>7 DEF Wired
  <2> QED
    BY <2>1, <2>2, <2>3, <2>4, <2>5 DEF Wired
<1>11. ASSUME NEW m \in Nodes \cup {NULL}, m = h[t].first => m = NULL, m # NULL => h[m].prev = NULL /\ m # x
       PROVE  Siblings(g, m) = Siblings(h, m)
  <2> DEFINE s == Siblings(h, m)
  <2>1. Lists(h, m, s)
    BY <1>11, SiblingsAreAList
  <2>2. \A i \in 1 .. Len(s) : s[i] \in Nodes /\ ~(s[i] = z /\ ~leaf)
    <3> SUFFICES ASSUME NEW i \in 1 .. Len(s) PROVE s[i] \in Nodes /\ ~(s[i] = z /\ ~leaf)
      OBVIOUS
    <3>1. s[i] \in Nodes /\ m # NULL
      <4> HIDE DEF s
      <4> QED
        BY <2>1 DEF Lists
    <3>2. ASSUME s[i] = z, ~leaf PROVE FALSE
      <4>1. Len(ks) \in 1 .. Len(ks) /\ s[i] = ks[Len(ks)]
        BY <1>1, <3>2 DEF leaf
      <4>2. m = h[t].first
        BY <1>11, <4>1, ChildElsewhere DEF ks
      <4> QED
        BY <1>11, <3>1, <4>2
    <3> QED
      BY <3>1, <3>2
  <2> HIDE DEF s
  <2>3. \A i \in 1 .. Len(s) : g[s[i]].next = h[s[i]].next
    BY <1>7, <2>2
  <2>4. Lists(g, m, s)
    BY <2>1, <2>3, ListKept
  <2>5. m # NULL => g[m].prev = NULL
    BY <1>7, <1>11
  <2> QED
    BY <1>7, <1>10, <2>4, <2>5, ReadsList DEF s
<1>12. ASSUME NEW n \in Nodes \ {t} PROVE Children(g, n) = Children(h, n)
  <2>1. g[n].first = h[n].first
    BY <1>7
  <2>2. /\ h[n].first = h[t].first => h[n].first = NULL
        /\ h[n].first # NULL => h[h[n].first].prev = NULL /\ h[n].first # x
    BY <1>2 DEF Wired
  <2> QED
    BY <1>8, <1>11, <2>1, <2>2 DEF Children
<1>13. ASSUME NEW r \in roots \ {x} PROVE Siblings(g, r) = Siblings(h, r)
  <2>1. r \in Nodes /\ r # h[t].first /\ h[r].prev = NULL
    BY DEF Wired
  <2> QED
    BY <1>11, <2>1
<1>14. Children(g, t) = ks \o u
  <2>1. Lists(h, x, u) /\ u \in Seq(Nodes) /\ Lists(h, h[t].first, ks)
    BY RootsStartLists, ChildrenAreAList DEF Lists, ks, u
  <2>2. \A i \in 1 .. Len(u) : u[i] \in Nodes /\ ~(u[i] = z /\ ~leaf)
    <3> SUFFICES ASSUME NEW i \in 1 .. Len(u), u[i] = z, ~leaf PROVE FALSE
      BY <2>1
    <3>1. Len(ks) \in 1 .. Len(ks) /\ u[i] = ks[Len(ks)]
      BY <1>1 DEF leaf
    <3>2. x = h[t].first
      BY <1>2, <3>1, ChildElsewhere DEF ks, u
    <3> QED
      BY <1>2, <3>2
  <2>3. \A i \in 1 .. Len(u) : g[u[i]].next = h[u[i]].next
    BY <1>7, <2>2
  <2>4. Lists(g, g[t].first, ks \o u)
    <3>1. CASE leaf
      <4>1. g[t].first = x /\ ks \o u = u
        BY <1>7, <2>1, <3>1 DEF leaf
      <4> QED
        BY <2>1, <2>3, <4>1, ListKept
    <3>2. CASE ~leaf
      <4>1. g[t].first = h[t].first
        BY <1>7, <3>2
      <4>2. g[ks[Len(ks)]].next = x /\ ks # << >>
        BY <1>1, <1>7, <3>2 DEF leaf
      <4>3. \A i \in 1 .. Len(ks) - 1 : g[ks[i]].next = h[ks[i]].next
        <5> SUFFICES ASSUME NEW i \in 1 .. Len(ks) - 1 PROVE g[ks[i]].next = h[ks[i]].next
          OBVIOUS
        <5>1. i \in 1 .. Len(ks) /\ Len(ks) \in 1 .. Len(ks) /\ i # Len(ks) /\ i + 1 \in 1 .. Len(ks)
          BY <1>1
        <5>2. h[ks[i]].next = ks[i + 1] /\ ks[i] \in Nodes /\ ks[i + 1] \in Nodes
          BY <1>1, <2>1, <5>1 DEF Lists
        <5>3. ks[i] # z
          BY <1>1, <4>2, <5>2, NullIsNone
        <5> QED
          BY <1>7, <5>2, <5>3
      <4> QED
        BY <1>2, <2>1, <2>3, <4>1, <4>2, <4>3, ListJoined
    <3> QED
      BY <3>1, <3>2
  <2>5. g[t].first \in Nodes \cup {NULL} /\ (g[t].first # NULL => g[g[t].first].prev = NULL)
    BY <1>7, <1>10 DEF Heaps, Records, Wired
  <2> QED
    BY <1>7, <1>10, <2>4, <2>5, ReadsList DEF Children
<1> QED
  <2>1. h[t].first # NULL => g[t].first = h[t].first
    BY <1>1, <1>7 DEF leaf
  <2>2. \A n \in Nodes : h[n].next # NULL => g[n].next = h[n].next
    BY <1>1, <1>7 DEF leaf
  <2>3. \A r \in roots \ {x} : g[r].next = h[r].next
    <3> SUFFICES ASSUME NEW r \in roots \ {x}, r = z, ~leaf PROVE FALSE
      BY <1>7 DEF Wired
    <3>1. r \in Nodes /\ r # h[t].first /\ h[r].prev = NULL
      BY DEF Wired
    <3>2. Lists(h, r, Siblings(h, r))
      BY RootsStartLists
    <3>3. Siblings(h, r)[1] = r /\ 1 \in 1 .. Len(Siblings(h, r))
      BY <3>1, <3>2, NullIsNone DEF Lists
    <3>4. Len(ks) \in 1 .. Len(ks) /\ Siblings(h, r)[1] = ks[Len(ks)]
      BY <1>1, <3>3 DEF leaf
    <3> QED
      BY <3>1, <3>3, <3>4, ChildElsewhere DEF ks
  <2> QED
    BY <1>7, <1>10, <1>12, <1>13, <1>14, <2>1, <2>2, <2>3 DEF Minus, ks, u

\* A root is in no list but its own.
LEMMA RootElsewhere ==
    ASSUME NEW h \in Heaps, NEW roots, Wired(h, roots), NEW x \in roots,
           NEW m \in Nodes \cup {NULL}, m # NULL => h[m].prev = NULL,
           NEW j \in 1 .. Len(Siblings(h, m)), Siblings(h, m)[j] = x
    PROVE  m = x
<1> DEFINE s == Siblings(h, m)
<1>1. Lists(h, m, s) /\ Backwards(h, s)
  BY SiblingsAreAList
<1> HIDE DEF s
<1>2. s \in Seq(Nodes) /\ j \in 1 .. Len(s) /\ s[j] = x /\ h[x].prev = NULL /\ m # NULL /\ s[1] = m
  BY <1>1 DEF Lists, Wired, s
<1>3. CASE j = 1
  BY <1>2, <1>3
<1>4. CASE j # 1
  <2>1. j - 1 \in 1 .. Len(s) /\ s[j - 1] \in Nodes
    BY <1>2, <1>4
  <2>2. h[s[j]].prev = s[j - 1]
    BY <1>1, <1>2, <1>4 DEF Backwards
  <2> QED
    BY <1>2, <2>1, <2>2, NullIsNone
<1> QED
  BY <1>3, <1>4

LEMMA ChildNotRoot ==
    ASSUME NEW h \in Heaps, NEW roots, Wired(h, roots), NEW x \in roots,
           NEW n \in Nodes, NEW j \in 1 .. Len(Children(h, n))
    PROVE  Children(h, n)[j] # x
<1> SUFFICES ASSUME Children(h, n)[j] = x PROVE FALSE
  OBVIOUS
<1>1. h[n].first \in Nodes \cup {NULL} /\ (h[n].first # NULL => h[h[n].first].prev = NULL)
      /\ h[n].first # x
  BY DEF Heaps, Records, Wired
<1> QED
  BY <1>1, RootElsewhere DEF Children

\* tree_insert_node_as_second_child puts a root between the first child and the
\* others, where the count tells one child from several.
LEMMA InsertedSecond ==
    ASSUME NEW h \in Heaps, NEW roots, Wired(h, roots),
           NEW t \in Nodes, h[t].type # "free", Children(h, t) # << >>,
           h[t].childnodes = 1 <=> Len(Children(h, t)) = 1,
           h[t].childnodes = 1 => h[t].last = h[t].first,
           NEW x \in roots, h[x].next = NULL,
           NEW g, g = tree_insert_node_as_second_child(h, t, x)
    PROVE  /\ g \in Heaps
           /\ Wired(g, Minus(roots, x))
           /\ \A m \in Nodes \ {t} : Children(g, m) = Children(h, m)
           /\ \A r \in roots \ {x} : Siblings(g, r) = Siblings(h, r)
           /\ Children(g, t) = <<h[t].first, x>> \o Tail(Children(h, t))
           /\ g[t].childnodes = h[t].childnodes + 1
           /\ g[t].last = IF h[t].childnodes = 1 THEN x ELSE h[t].last
           /\ \A n \in Nodes : g[n].type = h[n].type /\ g[n].first = h[n].first
           /\ \A n \in Nodes \ {t} : g[n].childnodes = h[n].childnodes /\ g[n].last = h[n].last
           /\ g[h[t].first].next = x
           /\ \A n \in Nodes \ {h[t].first, x} : g[n].next = h[n].next
<1> DEFINE ks == Children(h, t)
           f == h[t].first
           y == h[f].next
           single == h[t].childnodes = 1
<1>1. /\ ks \in Seq(Nodes) /\ Len(ks) \in Nat \ {0} /\ ks[1] = f /\ f \in Nodes /\ f # NULL
      /\ h[f].type # "free" /\ 1 \in 1 .. Len(ks)
      /\ single => y = NULL /\ Len(ks) = 1
      /\ ~single => y = ks[2] /\ y \in Nodes /\ h[y].type # "free" /\ Len(ks) >= 2
  <2>1. ks \in Seq(Nodes) /\ Len(ks) \in Nat \ {0} /\ ks[1] = f /\ 1 \in 1 .. Len(ks) /\ f # NULL
    BY ChildrenFacts
  <2>2. ks[1] \in Nodes /\ h[ks[1]].type # "free"
        /\ h[ks[1]].next = IF 1 = Len(ks) THEN NULL ELSE ks[1 + 1]
    BY <2>1, ChildrenFacts
  <2>3. single => Len(ks) = 1
    OBVIOUS
  <2>4. ~single => Len(ks) >= 2 /\ 2 \in 1 .. Len(ks)
    <3>1. ~single => Len(ks) # 1
      OBVIOUS
    <3>2. \A k \in Nat \ {0} : k # 1 => k >= 2 /\ 2 \in 1 .. k
      OBVIOUS
    <3> QED
      BY <2>1, <3>1, <3>2
  <2>5. ~single => ks[2] \in Nodes /\ h[ks[2]].type # "free"
    BY <2>4, ChildrenFacts
  <2> QED
    BY <2>1, <2>2, <2>3, <2>4, <2>5
<1>2. /\ x \in Nodes /\ x # NULL /\ h[x].type # "free" /\ h[x].prev = NULL
      /\ \A n \in Nodes : h[n].first # x /\ h[n].next # x
  BY NullIsNone DEF Wired
<1>3. x # f /\ x # y
  BY <1>1, <1>2
<1>4. \A n \in Nodes : h[n] \in Records
  BY DEF Heaps
<1>5. single => h[t].last = f
  OBVIOUS
<1> HIDE DEF ks, f, y, single
<1>6. /\ g \in Heaps
      /\ \A n \in Nodes :
            /\ g[n].type = h[n].type /\ g[n].first = h[n].first
            /\ g[n].childnodes = IF n = t THEN h[n].childnodes + 1 ELSE h[n].childnodes
            /\ g[n].last = IF n = t /\ single THEN x ELSE h[n].last
            /\ g[n].next = IF n = f THEN x ELSE IF n = x THEN y ELSE h[n].next
            /\ g[n].prev = IF n = x THEN f ELSE IF n = y THEN x ELSE h[n].prev
  <2>1. CASE single
    <3>1. y \notin Nodes
      BY <1>1, <2>1, NullIsNone
    <3>2. h[x].next = y
      BY <1>1, <2>1
    <3> DEFINE h1 == WithPrev(h, x, f)
               h2 == WithNext(h1, f, x)
               h3 == WithLast(h2, t, x)
    <3>3. g = WithCount(h3, t, h3[t].childnodes + 1)
      <4>1. x \in Nodes /\ f \in Nodes /\ f = h[t].first /\ h[t].childnodes = 1 /\ h[t].last = f
        BY <1>1, <1>2, <1>5, <2>1 DEF f, single
      <4>2. g = SecondOnly(h, t, x, f, f)
        BY <4>1, SecondCases
      <4> QED
        BY <4>1, <4>2, SecondAssigned
    <3>4. /\ h1 \in Heaps
          /\ \A n \in Nodes :
               /\ h1[n].type = h[n].type /\ h1[n].first = h[n].first /\ h1[n].last = h[n].last
               /\ h1[n].childnodes = h[n].childnodes /\ h1[n].next = h[n].next
               /\ h1[n].prev = IF n = x THEN f ELSE h[n].prev
      BY <1>1, <1>2, Assigned
    <3> HIDE DEF h1
    <3>5. /\ h2 \in Heaps
          /\ \A n \in Nodes :
               /\ h2[n].type = h1[n].type /\ h2[n].first = h1[n].first /\ h2[n].last = h1[n].last
               /\ h2[n].childnodes = h1[n].childnodes /\ h2[n].prev = h1[n].prev
               /\ h2[n].next = IF n = f THEN x ELSE h1[n].next
      BY <1>1, <1>2, <3>4, Assigned
    <3> HIDE DEF h2
    <3>6. /\ h3 \in Heaps
          /\ \A n \in Nodes :
               /\ h3[n].type = h2[n].type /\ h3[n].first = h2[n].first /\ h3[n].next = h2[n].next
               /\ h3[n].childnodes = h2[n].childnodes /\ h3[n].prev = h2[n].prev
               /\ h3[n].last = IF n = t THEN x ELSE h2[n].last
      BY <1>1, <1>2, <3>5, Assigned
    <3> HIDE DEF h3
    <3>7. h3[t].childnodes = h[t].childnodes /\ h3[t].childnodes + 1 \in Nat
      <4>1. h[t].childnodes \in Nat
        BY <1>4 DEF Records
      <4> QED
        BY <3>4, <3>5, <3>6, <4>1
    <3>8. /\ g \in Heaps
          /\ \A n \in Nodes :
               /\ g[n].type = h3[n].type /\ g[n].first = h3[n].first /\ g[n].next = h3[n].next
               /\ g[n].last = h3[n].last /\ g[n].prev = h3[n].prev
               /\ g[n].childnodes = IF n = t THEN h[t].childnodes + 1 ELSE h3[n].childnodes
      <4> DEFINE c == h3[t].childnodes + 1
      <4>1. g = WithCount(h3, t, c) /\ c \in Nat /\ c = h[t].childnodes + 1
        BY <3>3, <3>7
      <4> HIDE DEF c
      <4> QED
        BY <3>6, <4>1, CountAssigned
    <3> QED
      BY <2>1, <3>1, <3>2, <3>4, <3>5, <3>6, <3>8
  <2>2. CASE ~single
    <3> DEFINE h1 == WithPrev(h, x, f)
               h2 == WithNext(h1, x, y)
               h3 == WithPrev(h2, y, x)
               h4 == WithNext(h3, f, x)
    <3>1. y \in Nodes /\ f \in Nodes /\ x \in Nodes
      BY <1>1, <1>2, <2>2
    <3>2. g = WithCount(h4, t, h4[t].childnodes + 1)
      <4>1. f = h[t].first /\ y = h[f].next /\ h[t].childnodes # 1
        BY <2>2 DEF f, y, single
      <4>2. g = SecondAmong(h, t, x, f, y)
        BY <4>1, SecondCases
      <4> QED
        BY <3>1, <4>2, SecondAssigned
    <3>3. /\ h1 \in Heaps
          /\ \A n \in Nodes :
               /\ h1[n].type = h[n].type /\ h1[n].first = h[n].first /\ h1[n].last = h[n].last
               /\ h1[n].childnodes = h[n].childnodes /\ h1[n].next = h[n].next
               /\ h1[n].prev = IF n = x THEN f ELSE h[n].prev
      BY <3>1, Assigned
    <3> HIDE DEF h1
    <3>4. /\ h2 \in Heaps
          /\ \A n \in Nodes :
               /\ h2[n].type = h1[n].type /\ h2[n].first = h1[n].first /\ h2[n].last = h1[n].last
               /\ h2[n].childnodes = h1[n].childnodes /\ h2[n].prev = h1[n].prev
               /\ h2[n].next = IF n = x THEN y ELSE h1[n].next
      BY <3>1, <3>3, Assigned
    <3> HIDE DEF h2
    <3>5. /\ h3 \in Heaps
          /\ \A n \in Nodes :
               /\ h3[n].type = h2[n].type /\ h3[n].first = h2[n].first /\ h3[n].last = h2[n].last
               /\ h3[n].childnodes = h2[n].childnodes /\ h3[n].next = h2[n].next
               /\ h3[n].prev = IF n = y THEN x ELSE h2[n].prev
      BY <3>1, <3>4, Assigned
    <3> HIDE DEF h3
    <3>6. /\ h4 \in Heaps
          /\ \A n \in Nodes :
               /\ h4[n].type = h3[n].type /\ h4[n].first = h3[n].first /\ h4[n].last = h3[n].last
               /\ h4[n].childnodes = h3[n].childnodes /\ h4[n].prev = h3[n].prev
               /\ h4[n].next = IF n = f THEN x ELSE h3[n].next
      BY <3>1, <3>5, Assigned
    <3> HIDE DEF h4
    <3>7. h4[t].childnodes = h[t].childnodes /\ h4[t].childnodes + 1 \in Nat
      <4>1. h[t].childnodes \in Nat
        BY <1>4 DEF Records
      <4> QED
        BY <3>3, <3>4, <3>5, <3>6, <4>1
    <3>8. /\ g \in Heaps
          /\ \A n \in Nodes :
               /\ g[n].type = h4[n].type /\ g[n].first = h4[n].first /\ g[n].next = h4[n].next
               /\ g[n].last = h4[n].last /\ g[n].prev = h4[n].prev
               /\ g[n].childnodes = IF n = t THEN h[t].childnodes + 1 ELSE h4[n].childnodes
      <4> DEFINE c == h4[t].childnodes + 1
      <4>1. g = WithCount(h4, t, c) /\ c \in Nat /\ c = h[t].childnodes + 1
        BY <3>2, <3>7
      <4> HIDE DEF c
      <4> QED
        BY <3>6, <4>1, CountAssigned
    <3> QED
      BY <1>3, <2>2, <3>3, <3>4, <3>5, <3>6, <3>8
  <2> QED
    BY <2>1, <2>2
<1>7. /\ \A n \in Nodes : h[n].next \in Nodes \cup {NULL} /\ h[n].first \in Nodes \cup {NULL}
      /\ \A n \in Nodes : h[n].next # NULL => h[n].type # "free" /\ h[h[n].next].type # "free"
                                              /\ h[h[n].next].prev = n
      /\ \A n \in Nodes : h[n].first # NULL => h[n].type # "free" /\ h[h[n].first].type # "free"
                                               /\ h[h[n].first].prev = NULL
  BY <1>4 DEF Records, Wired
<1>8. ~single => h[y].prev = f
  BY <1>1, <1>7, NullIsNone DEF y
<1>9. h[f].next = y /\ (single => y = NULL) /\ h[f].prev = NULL /\ (y = NULL => single)
  BY <1>1, <1>7, NullIsNone DEF y, f
<1>10. Wired(g, roots \ {x})
  <2>1. \A n \in Nodes : g[n].next # NULL =>
           g[n].type # "free" /\ g[g[n].next].type # "free" /\ g[g[n].next].prev = n
    <3> SUFFICES ASSUME NEW n \in Nodes, g[n].next # NULL
                 PROVE  g[n].type # "free" /\ g[g[n].next].type # "free" /\ g[g[n].next].prev = n
      OBVIOUS
    <3>1. CASE n = f
      BY <1>1, <1>2, <1>6, <3>1
    <3>2. CASE n = x
      <4>1. g[n].next = y /\ y # NULL /\ ~single
        BY <1>3, <1>6, <1>9, <3>2
      <4> QED
        BY <1>1, <1>2, <1>3, <1>6, <3>2, <4>1
    <3>3. CASE n # f /\ n # x
      <4>1. g[n].next = h[n].next /\ h[n].next \in Nodes /\ h[n].next # x
        BY <1>2, <1>6, <1>7, <3>3
      <4>2. h[n].next # y
        BY <1>7, <1>8, <1>9, <3>3, <4>1, NullIsNone
      <4> QED
        BY <1>6, <1>7, <4>1, <4>2, NullIsNone
    <3> QED
      BY <3>1, <3>2, <3>3
  <2>2. \A n \in Nodes : g[n].first # NULL =>
           g[n].type # "free" /\ g[g[n].first].type # "free" /\ g[g[n].first].prev = NULL
    <3> SUFFICES ASSUME NEW n \in Nodes, g[n].first # NULL
                 PROVE  g[n].type # "free" /\ g[g[n].first].type # "free" /\ g[g[n].first].prev = NULL
      OBVIOUS
    <3>1. g[n].first = h[n].first /\ h[n].first \in Nodes /\ h[n].first # x
      BY <1>2, <1>6, <1>7
    <3>2. h[n].first # y
      BY <1>1, <1>7, <1>8, <1>9, <3>1, NullIsNone
    <3> QED
      BY <1>6, <1>7, <3>1, <3>2, NullIsNone
  <2>3. \A n, m \in Nodes : g[n].first = g[m].first => n = m \/ g[n].first = NULL
    BY <1>6 DEF Wired
  <2>4. \A r \in roots \ {x} : r \in Nodes /\ g[r].type # "free" /\ g[r].prev = NULL
    <3> SUFFICES ASSUME NEW r \in roots \ {x}
                 PROVE  r \in Nodes /\ g[r].type # "free" /\ g[r].prev = NULL
      OBVIOUS
    <3>1. r \in Nodes /\ h[r].type # "free" /\ h[r].prev = NULL
      BY DEF Wired
    <3>2. r # y
      BY <1>1, <1>8, <1>9, <3>1, NullIsNone
    <3> QED
      BY <1>6, <3>1, <3>2
  <2>5. \A r \in roots \ {x}, n \in Nodes : g[n].first # r
    BY <1>6 DEF Wired
  <2> QED
    BY <2>1, <2>2, <2>3, <2>4, <2>5 DEF Wired
<1>11. ASSUME NEW m \in Nodes \cup {NULL}, m # f, m # x, m # NULL => h[m].prev = NULL
       PROVE  Siblings(g, m) = Siblings(h, m)
  <2> DEFINE s == Siblings(h, m)
  <2>1. Lists(h, m, s)
    BY <1>11, SiblingsAreAList
  <2>2. \A i \in 1 .. Len(s) : s[i] \in Nodes /\ s[i] # f /\ s[i] # x
    <3> SUFFICES ASSUME NEW i \in 1 .. Len(s) PROVE s[i] \in Nodes /\ s[i] # f /\ s[i] # x
      OBVIOUS
    <3>1. s[i] \in Nodes
      <4> HIDE DEF s
      <4> QED
        BY <2>1 DEF Lists
    <3>2. ASSUME s[i] = f PROVE FALSE
      <4>1. 1 \in 1 .. Len(ks) /\ s[i] = ks[1]
        BY <1>1, <3>2
      <4>2. m = h[t].first
        BY <1>11, <4>1, ChildElsewhere DEF ks
      <4> QED
        BY <1>11, <4>2 DEF f
    <3>3. s[i] # x
      BY <1>11, RootElsewhere
    <3> QED
      BY <3>1, <3>2, <3>3
  <2> HIDE DEF s
  <2>3. \A i \in 1 .. Len(s) : g[s[i]].next = h[s[i]].next
    BY <1>6, <2>2
  <2>4. Lists(g, m, s)
    BY <2>1, <2>3, ListKept
  <2>5. m # NULL => g[m].prev = NULL
    BY <1>1, <1>6, <1>8, <1>9, <1>11, NullIsNone
  <2> QED
    BY <1>6, <1>10, <2>4, <2>5, ReadsList DEF s
<1>12. ASSUME NEW n \in Nodes \ {t} PROVE Children(g, n) = Children(h, n)
  <2>1. g[n].first = h[n].first /\ h[n].first # x
    BY <1>2, <1>6
  <2>2. h[n].first # f
    BY <1>1 DEF Wired, f
  <2> QED
    BY <1>7, <1>11, <2>1, <2>2 DEF Children
<1>13. ASSUME NEW r \in roots \ {x} PROVE Siblings(g, r) = Siblings(h, r)
  <2>1. r \in Nodes /\ r # f /\ h[r].prev = NULL
    BY DEF Wired, f
  <2> QED
    BY <1>11, <2>1
<1>14. Children(g, t) = <<f, x>> \o Tail(ks)
  <2> DEFINE w == <<f, x>> \o Tail(ks)
  <2>1. /\ w \in Seq(Nodes) /\ Len(w) = Len(ks) + 1 /\ w[1] = f /\ w[2] = x /\ w # << >>
        /\ \A i \in 2 .. Len(ks) : w[i + 1] = ks[i]
    BY <1>1, <1>2
  <2>2. Lists(h, f, ks) /\ Backwards(h, ks)
    BY ChildrenAreAList DEF ks, f
  <2>3. \A i \in 2 .. Len(ks) : i \in 1 .. Len(ks) /\ ks[i] \in Nodes /\ ks[i] # f /\ ks[i] # x
    <3> SUFFICES ASSUME NEW i \in 2 .. Len(ks)
                 PROVE  i \in 1 .. Len(ks) /\ ks[i] \in Nodes /\ ks[i] # f /\ ks[i] # x
      OBVIOUS
    <3>1. i \in 1 .. Len(ks) /\ i # 1 /\ ks[i] \in Nodes
      BY <1>1
    <3>2. ks[i] # f
      BY <1>1, <2>2, <3>1, SharedNode
    <3>3. ks[i] # x
      BY <3>1, ChildNotRoot DEF ks
    <3> QED
      BY <3>1, <3>2, <3>3
  <2> HIDE DEF w
  <2>4. ASSUME NEW i \in 1 .. Len(w) PROVE g[w[i]].next = IF i = Len(w) THEN NULL ELSE w[i + 1]
    <3>1. CASE i = 1
      BY <1>1, <1>6, <2>1, <3>1
    <3>2. CASE i = 2
      <4>1. g[w[i]].next = y
        BY <1>2, <1>3, <1>6, <2>1, <3>2
      <4>2. CASE single
        <5>1. Len(ks) = 1 /\ y = NULL
          BY <1>1, <4>2
        <5>2. i = Len(w)
          BY <2>1, <3>2, <5>1
        <5> QED
          BY <4>1, <5>1, <5>2
      <4>3. CASE ~single
        <5>1. w[3] = ks[2] /\ Len(w) # 2
          BY <1>1, <2>1, <4>3
        <5> QED
          BY <1>1, <3>2, <4>1, <4>3, <5>1
      <4> QED
        BY <4>2, <4>3
    <3>3. CASE i # 1 /\ i # 2
      <4> DEFINE j == i - 1
      <4>1. j \in 2 .. Len(ks) /\ i = j + 1 /\ (i = Len(w) <=> j = Len(ks)) /\ j \in 1 .. Len(ks)
            /\ (j # Len(ks) => j + 1 \in 2 .. Len(ks))
        BY <1>1, <2>1, <3>3
      <4> HIDE DEF j
      <4>2. w[i] = ks[j] /\ (j # Len(ks) => w[i + 1] = ks[j + 1])
        BY <2>1, <4>1
      <4>3. g[ks[j]].next = h[ks[j]].next
        BY <1>6, <2>3, <4>1
      <4>4. h[ks[j]].next = IF j = Len(ks) THEN NULL ELSE ks[j + 1]
        BY <2>2, <4>1 DEF Lists
      <4> QED
        BY <4>1, <4>2, <4>3, <4>4
    <3> QED
      BY <3>1, <3>2, <3>3
  <2>5. Lists(g, f, w)
    BY <1>1, <2>1, <2>4 DEF Lists
  <2>6. g[t].first = f /\ g[f].prev = NULL
    BY <1>1, <1>3, <1>6, <1>8, <1>9, NullIsNone DEF f
  <2>7. Siblings(g, f) = w
    BY <1>1, <1>6, <1>10, <2>5, <2>6, ReadsList
  <2> QED
    BY <2>6, <2>7 DEF Children, w
<1> QED
  <2>1. f \in Nodes
    BY <1>1
  <2> QED
    BY <1>6, <1>10, <1>12, <1>13, <1>14, <2>1 DEF Minus, ks, f, single

\* tree_make_next puts a root in front of the list of another.
LEMMA MadeNext ==
    ASSUME NEW h \in Heaps, NEW roots, Wired(h, roots),
           NEW t \in roots, NEW x \in roots, t # x, h[t].next = NULL,
           NEW g, g = tree_make_next(h, t, x)
    PROVE  /\ g \in Heaps
           /\ Wired(g, Minus(roots, x))
           /\ \A m \in Nodes : Children(g, m) = Children(h, m)
           /\ \A r \in roots \ {t, x} : Siblings(g, r) = Siblings(h, r)
           /\ Siblings(g, t) = <<t>> \o Siblings(h, x)
           /\ \A n \in Nodes : /\ g[n].type = h[n].type /\ g[n].childnodes = h[n].childnodes
                               /\ g[n].first = h[n].first /\ g[n].last = h[n].last
           /\ \A n \in Nodes \ {t} : g[n].next = h[n].next
<1>1. /\ x \in Nodes /\ x # NULL /\ h[x].type # "free" /\ h[x].prev = NULL
      /\ \A n \in Nodes : h[n].first # x /\ h[n].next # x
  BY NullIsNone DEF Wired
<1>2. /\ t \in Nodes /\ t # NULL /\ h[t].type # "free" /\ h[t].prev = NULL
      /\ \A n \in Nodes : h[n].first # t /\ h[n].next # t
  BY NullIsNone DEF Wired
<1>3. \A n \in Nodes : h[n] \in Records
  BY DEF Heaps
<1>4. /\ g \in Heaps
      /\ \A n \in Nodes :
            /\ g[n].type = h[n].type /\ g[n].childnodes = h[n].childnodes
            /\ g[n].first = h[n].first /\ g[n].last = h[n].last
            /\ g[n].next = IF n = t THEN x ELSE h[n].next
            /\ g[n].prev = IF n = x THEN t ELSE h[n].prev
  <2> DEFINE h1 == WithNext(h, t, x)
             h2 == WithPrev(h1, x, t)
  <2>1. g = h2
    BY <1>1, <1>2 DEF tree_make_next, WithNext, WithPrev
  <2>2. /\ h1 \in Heaps
        /\ \A n \in Nodes :
             /\ h1[n].type = h[n].type /\ h1[n].first = h[n].first /\ h1[n].last = h[n].last
             /\ h1[n].childnodes = h[n].childnodes /\ h1[n].prev = h[n].prev
             /\ h1[n].next = IF n = t THEN x ELSE h[n].next
    BY <1>1, <1>2, Assigned
  <2> HIDE DEF h1
  <2>3. /\ h2 \in Heaps
        /\ \A n \in Nodes :
             /\ h2[n].type = h1[n].type /\ h2[n].first = h1[n].first /\ h2[n].last = h1[n].last
             /\ h2[n].childnodes = h1[n].childnodes /\ h2[n].next = h1[n].next
             /\ h2[n].prev = IF n = x THEN t ELSE h1[n].prev
    BY <1>1, <1>2, <2>2, Assigned
  <2> HIDE DEF h2
  <2> QED
    BY <2>1, <2>2, <2>3
<1>5. /\ \A n \in Nodes : h[n].next \in Nodes \cup {NULL} /\ h[n].first \in Nodes \cup {NULL}
      /\ \A n \in Nodes : h[n].next # NULL => h[n].type # "free" /\ h[h[n].next].type # "free"
                                              /\ h[h[n].next].prev = n
      /\ \A n \in Nodes : h[n].first # NULL => h[n].type # "free" /\ h[h[n].first].type # "free"
                                               /\ h[h[n].first].prev = NULL
  BY <1>3 DEF Records, Wired
<1>6. Wired(g, roots \ {x})
  <2>1. \A n \in Nodes : g[n].next # NULL =>
           g[n].type # "free" /\ g[g[n].next].type # "free" /\ g[g[n].next].prev = n
    <3> SUFFICES ASSUME NEW n \in Nodes, g[n].next # NULL
                 PROVE  g[n].type # "free" /\ g[g[n].next].type # "free" /\ g[g[n].next].prev = n
      OBVIOUS
    <3>1. CASE n = t
      BY <1>1, <1>2, <1>4, <3>1
    <3>2. CASE n # t
      <4>1. g[n].next = h[n].next /\ h[n].next \in Nodes /\ h[n].next # x
        BY <1>1, <1>4, <1>5, <3>2
      <4> QED
        BY <1>4, <1>5, <4>1, NullIsNone
    <3> QED
      BY <3>1, <3>2
  <2>2. \A n \in Nodes : g[n].first # NULL =>
           g[n].type # "free" /\ g[g[n].first].type # "free" /\ g[g[n].first].prev = NULL
    <3> SUFFICES ASSUME NEW n \in Nodes, g[n].first # NULL
                 PROVE  g[n].type # "free" /\ g[g[n].first].type # "free" /\ g[g[n].first].prev = NULL
      OBVIOUS
    <3>1. g[n].first = h[n].first /\ h[n].first \in Nodes /\ h[n].first # x
      BY <1>1, <1>4, <1>5
    <3> QED
      BY <1>4, <1>5, <3>1, NullIsNone
  <2>3. \A n, m \in Nodes : g[n].first = g[m].first => n = m \/ g[n].first = NULL
    BY <1>4 DEF Wired
  <2>4. \A r \in roots \ {x} : r \in Nodes /\ g[r].type # "free" /\ g[r].prev = NULL
    BY <1>4 DEF Wired
  <2>5. \A r \in roots \ {x}, n \in Nodes : g[n].first # r
    BY <1>4 DEF Wired
  <2> QED
    BY <2>1, <2>2, <2>3, <2>4, <2>5 DEF Wired
<1>7. ASSUME NEW m \in Nodes \cup {NULL}, m # t, m # x, m # NULL => h[m].prev = NULL
      PROVE  Siblings(g, m) = Siblings(h, m)
  <2> DEFINE s == Siblings(h, m)
  <2>1. Lists(h, m, s)
    BY <1>7, SiblingsAreAList
  <2>2. \A i \in 1 .. Len(s) : s[i] # t
    BY <1>7, RootElsewhere
  <2> HIDE DEF s
  <2>3. \A i \in 1 .. Len(s) : g[s[i]].next = h[s[i]].next
    BY <1>4, <2>1, <2>2 DEF Lists
  <2>4. Lists(g, m, s)
    BY <2>1, <2>3, ListKept
  <2>5. m # NULL => g[m].prev = NULL
    BY <1>4, <1>7
  <2> QED
    BY <1>4, <1>6, <2>4, <2>5, ReadsList DEF s
<1>8. ASSUME NEW n \in Nodes PROVE Children(g, n) = Children(h, n)
  BY <1>1, <1>2, <1>4, <1>5, <1>7 DEF Children
<1>9. ASSUME NEW r \in roots \ {t, x} PROVE Siblings(g, r) = Siblings(h, r)
  <2>1. r \in Nodes /\ h[r].prev = NULL
    BY DEF Wired
  <2> QED
    BY <1>7, <2>1
<1>10. Siblings(g, t) = <<t>> \o Siblings(h, x)
  <2> DEFINE u == Siblings(h, x)
             s == <<t>>
  <2>1. Lists(h, x, u) /\ \A i \in 1 .. Len(u) : u[i] # t
    BY <1>1, SiblingsAreAList, RootElsewhere
  <2>2. Lists(h, t, s) /\ s # << >> /\ Len(s) = 1 /\ s[1] = t
    BY <1>2 DEF Lists
  <2> HIDE DEF s, u
  <2>3. \A i \in 1 .. Len(u) : g[u[i]].next = h[u[i]].next
    BY <1>4, <2>1 DEF Lists
  <2>4. g[s[Len(s)]].next = x /\ \A i \in 1 .. Len(s) - 1 : g[s[i]].next = h[s[i]].next
    BY <1>2, <1>4, <2>2
  <2>5. Lists(g, t, s \o u)
    BY <1>1, <2>1, <2>2, <2>3, <2>4, ListJoined
  <2> DEFINE w == s \o u
  <2>6. Lists(g, t, w)
    BY <2>5
  <2> HIDE DEF w
  <2>7. g[t].prev = NULL /\ t \in Nodes \cup {NULL}
    BY <1>2, <1>4
  <2>8. Siblings(g, t) = w
    BY <1>4, <1>6, <2>6, <2>7, ReadsList
  <2> QED
    BY <2>8 DEF s, u, w
<1> QED
  BY <1>4, <1>6, <1>8, <1>9, <1>10 DEF Minus

\* update_childs counts the children again, and changes nothing else.
LEMMA ChildsUpdated ==
    ASSUME NEW h \in Heaps, NEW roots, Wired(h, roots),
           NEW t \in Nodes, Children(h, t) # << >>,
           NEW g, g = update_childs(h, t)
    PROVE  /\ g \in Heaps /\ Wired(g, roots)
           /\ \A m \in Nodes : Children(g, m) = Children(h, m)
           /\ \A r \in roots : Siblings(g, r) = Siblings(h, r)
           /\ CountedIn(g, t)
           /\ \A n \in Nodes \ {t} : g[n].childnodes = h[n].childnodes /\ g[n].last = h[n].last
           /\ \A n \in Nodes : g[n].type = h[n].type /\ g[n].first = h[n].first /\ g[n].next = h[n].next
<1> DEFINE ks == Children(h, t)
           c == Len(ks)
           l == Last(ks)
           h1 == WithCount(h, t, c)
           h2 == WithLast(h1, t, l)
<1>1. c \in Nat /\ l \in Nodes
  <2>1. ks \in Seq(Nodes) /\ Len(ks) \in 1 .. Len(ks) /\ Len(ks) \in Nat
    BY ChildrenFacts
  <2> HIDE DEF ks
  <2> QED
    BY <2>1 DEF Last
<1>2. g = h2
  <2>1. g = [h EXCEPT ![t].childnodes = c, ![t].last = l]
    BY DEF update_childs
  <2> HIDE DEF c, l, ks
  <2> QED
    BY <2>1 DEF WithCount, WithLast
<1> HIDE DEF c, l, ks
<1>3. /\ h1 \in Heaps
      /\ \A n \in Nodes :
           /\ h1[n].type = h[n].type /\ h1[n].first = h[n].first /\ h1[n].last = h[n].last
           /\ h1[n].prev = h[n].prev /\ h1[n].next = h[n].next
           /\ h1[n].childnodes = IF n = t THEN c ELSE h[n].childnodes
  BY <1>1, CountAssigned
<1> HIDE DEF h1
<1>4. /\ h2 \in Heaps
      /\ \A n \in Nodes :
           /\ h2[n].type = h1[n].type /\ h2[n].first = h1[n].first /\ h2[n].childnodes = h1[n].childnodes
           /\ h2[n].prev = h1[n].prev /\ h2[n].next = h1[n].next
           /\ h2[n].last = IF n = t THEN l ELSE h1[n].last
  BY <1>1, <1>3, Assigned
<1> HIDE DEF h2
<1>5. /\ \A n \in Nodes : /\ g[n].type = h[n].type /\ g[n].first = h[n].first
                          /\ g[n].next = h[n].next /\ g[n].prev = h[n].prev
      /\ \A n \in Nodes \ {t} : g[n].childnodes = h[n].childnodes /\ g[n].last = h[n].last
      /\ g[t].childnodes = c /\ g[t].last = l
  BY <1>1, <1>2, <1>3, <1>4
<1>6. \A n \in Nodes : h[n].next \in Nodes \cup {NULL} /\ h[n].first \in Nodes \cup {NULL}
  BY DEF Heaps, Records
<1>7. Wired(g, roots)
  <2>1. \A n \in Nodes :
          /\ g[n].next # NULL => /\ g[n].type # "free" /\ g[g[n].next].type # "free"
                                 /\ g[g[n].next].prev = n
          /\ g[n].first # NULL => /\ g[n].type # "free" /\ g[g[n].first].type # "free"
                                  /\ g[g[n].first].prev = NULL
    BY <1>5, <1>6, NullIsNone DEF Wired
  <2>2. \A n, m \in Nodes : g[n].first = g[m].first => n = m \/ g[n].first = NULL
    BY <1>5 DEF Wired
  <2>3. \A r \in roots : r \in Nodes /\ g[r].type # "free" /\ g[r].prev = NULL
    BY <1>5 DEF Wired
  <2>4. \A r \in roots, n \in Nodes : g[n].first # r
    BY <1>5 DEF Wired
  <2> QED
    BY <2>1, <2>2, <2>3, <2>4 DEF Wired
<1>8. ASSUME NEW n \in Nodes PROVE Children(g, n) = Children(h, n)
  <2>1. h[n].first # NULL => h[h[n].first].type # "free" /\ h[h[n].first].prev = NULL
                             /\ g[h[n].first].prev = NULL
    BY <1>5, <1>6 DEF Wired
  <2> QED
    BY <1>2, <1>4, <1>5, <1>6, <1>7, <2>1, LinksKept DEF Children
<1>9. ASSUME NEW r \in roots PROVE Siblings(g, r) = Siblings(h, r)
  <2>1. r \in Nodes /\ h[r].type # "free" /\ h[r].prev = NULL /\ g[r].prev = NULL
    BY <1>5 DEF Wired
  <2> QED
    BY <1>2, <1>4, <1>5, <1>7, <2>1, LinksKept
<1>10. CountedIn(g, t)
  BY <1>5, <1>8 DEF CountedIn, c, l, ks
<1> QED
  BY <1>2, <1>4, <1>5, <1>7, <1>8, <1>9, <1>10

----------------------------------------------------------------------------
(* What the heap of the parser is between two reductions *)

\* malloc returns an address that is free, if there is one.
LEMMA Allocates ==
    ASSUME NEW h, Free(h) # {}
    PROVE  malloc(h) \in Nodes /\ h[malloc(h)].type = "free"
<1>1. Free(h) \subseteq Nat /\ \A n \in Free(h) : n \in Nodes /\ h[n].type = "free"
  BY TreeAssumption DEF Free
<1>2. PICK x \in Free(h) : \A y \in Free(h) : x <= y
  BY <1>1, NatMin
<1>3. malloc(h) \in Free(h)
  BY <1>2 DEF malloc
<1> QED
  BY <1>1, <1>3

\* A root without a next node is alone in its list.
LEMMA Alone ==
    ASSUME NEW h \in Heaps, NEW roots, Wired(h, roots), NEW x \in roots, h[x].next = NULL
    PROVE  Siblings(h, x) = <<x>>
<1> DEFINE s == <<x>>
<1>1. x \in Nodes /\ h[x].prev = NULL
  BY DEF Wired
<1>2. s \in Seq(Nodes) /\ Len(s) = 1 /\ s[1] = x /\ s # << >>
  BY <1>1
<1> HIDE DEF s
<1>3. Lists(h, x, s)
  BY <1>1, <1>2, NullIsNone DEF Lists
<1>4. Siblings(h, x) = s
  BY <1>1, <1>3, ReadsList
<1> QED
  BY <1>4 DEF s

\* A function of a chain: the only nodes whose children are not counted again.
Piped(h, n) ==
    /\ h[n].type = "call"
    /\ h[n].first # NULL
    /\ h[h[n].first].type = "piped"

\* Its count is not above the number of its children, and tells one from several.
Loose(h, n) ==
    LET k == Len(Children(h, n))
    IN  /\ h[n].childnodes \in 1 .. k
        /\ (h[n].childnodes = 1) <=> (k = 1)
        /\ h[n].childnodes = 1 => h[n].last = h[n].first

Kept(h, n) ==
    \/ CountedIn(h, n)
    \/ Piped(h, n) /\ Loose(h, n)

\* A call has its name as a first child.  Below a pipe is a call, and behind
\* the name of that call what is piped into it.
Shaped(h, n) ==
    /\ h[n].type = "call" => h[n].first # NULL
    /\ h[n].type = "pipe" =>
         LET call == h[n].first
             name == h[call].first
             before == h[name].next
         IN  /\ call # NULL /\ h[call].type = "call"
             /\ name # NULL /\ before # NULL
             /\ h[before].type \in {"call", "pipe"}

Whole(h, roots) ==
    /\ h \in Heaps
    /\ Wired(h, roots)
    /\ \A n \in Nodes : Kept(h, n) /\ Shaped(h, n)

\* Nothing changes but t, which keeps its type and its first child, and the end
\* of lists other than those of the roots.
Apart(h, g, t, roots) ==
    /\ \A n \in Nodes \ {t} :
          /\ Children(g, n) = Children(h, n)
          /\ g[n].type = h[n].type /\ g[n].childnodes = h[n].childnodes
          /\ g[n].first = h[n].first /\ g[n].last = h[n].last
    /\ h[t].type # "free" => g[t].type = h[t].type
    /\ h[t].first # NULL => g[t].first = h[t].first
    /\ \A n \in Nodes : h[n].next # NULL => g[n].next = h[n].next
    /\ \A r \in roots : g[r].next = h[r].next /\ Siblings(g, r) = Siblings(h, r)

LEMMA ApartTwice ==
    ASSUME NEW h, NEW g, NEW k, NEW t \in Nodes, NEW roots, NEW those, those \subseteq roots,
           Apart(h, g, t, roots), Apart(g, k, t, those)
    PROVE  Apart(h, k, t, those)
  BY DEF Apart

\* Such a change leaves the heap whole, if t is as it should be.
LEMMA StaysWhole ==
    ASSUME NEW h, NEW roots, Whole(h, roots), NEW g \in Heaps, NEW those, Wired(g, those),
           NEW t \in Nodes, NEW rest, Apart(h, g, t, rest), Kept(g, t), Shaped(g, t)
    PROVE  Whole(g, those)
<1>1. \A n \in Nodes : /\ h[n].type # "free" => g[n].type = h[n].type
                       /\ h[n].first # NULL => g[n].first = h[n].first
                       /\ h[n].next # NULL => g[n].next = h[n].next
  BY DEF Apart
<1>2. \A n \in Nodes : /\ h[n].first # NULL => h[n].first \in Nodes /\ h[h[n].first].type # "free"
                       /\ h[n].next # NULL => h[n].next \in Nodes /\ h[h[n].next].type # "free"
  <2>1. \A n \in Nodes : h[n].first \in Nodes \cup {NULL} /\ h[n].next \in Nodes \cup {NULL}
    BY DEF Whole, Heaps, Records
  <2> QED
    BY <2>1 DEF Whole, Wired
<1>3. ASSUME NEW n \in Nodes \ {t} PROVE Kept(g, n)
  <2>1. Kept(h, n)
    BY DEF Whole
  <2>2. /\ Children(g, n) = Children(h, n)
        /\ g[n].type = h[n].type /\ g[n].childnodes = h[n].childnodes
        /\ g[n].first = h[n].first /\ g[n].last = h[n].last
    BY DEF Apart
  <2>3. CASE CountedIn(h, n)
    BY <2>2, <2>3 DEF CountedIn, Kept
  <2>4. CASE Piped(h, n) /\ Loose(h, n)
    <3>1. Piped(g, n)
      BY <1>1, <1>2, <2>2, <2>4 DEF Piped
    <3>2. Loose(g, n)
      BY <2>2, <2>4 DEF Loose
    <3> QED
      BY <3>1, <3>2 DEF Kept
  <2> QED
    BY <2>1, <2>3, <2>4 DEF Kept
<1>4. ASSUME NEW n \in Nodes \ {t} PROVE Shaped(g, n)
  <2>1. Shaped(h, n) /\ g[n].type = h[n].type /\ g[n].first = h[n].first
    BY DEF Whole, Apart
  <2>2. CASE h[n].type = "pipe"
    <3> DEFINE call == h[n].first
               name == h[call].first
               before == h[name].next
    <3>1. /\ call # NULL /\ h[call].type = "call" /\ name # NULL /\ before # NULL
          /\ h[before].type \in {"call", "pipe"}
      BY <2>1, <2>2 DEF Shaped
    <3>2. call \in Nodes /\ name \in Nodes /\ before \in Nodes /\ h[before].type # "free"
      BY <1>2, <3>1
    <3>3. g[call].type = "call" /\ g[call].first = name
      BY <1>1, <3>1, <3>2
    <3>4. g[name].next = before /\ g[before].type = h[before].type
      BY <1>1, <3>1, <3>2
    <3>5. g[n].type = "pipe" /\ g[n].first = call
      BY <2>1, <2>2
    <3> HIDE DEF call, name, before
    <3> QED
      BY <3>1, <3>3, <3>4, <3>5 DEF Shaped
  <2>3. CASE h[n].type # "pipe"
    BY <2>1, <2>3 DEF Shaped
  <2> QED
    BY <2>2, <2>3
<1> QED
  BY <1>3, <1>4 DEF Whole

----------------------------------------------------------------------------
(* Nodes with children *)

\* What is new: a root with its count and its children ks, the last in place.
MadeOf(g, n, type, first, last, c, ks) ==
    /\ g[n].type = type /\ g[n].first = first /\ g[n].last = last
    /\ g[n].childnodes = c /\ g[n].next = NULL
    /\ Children(g, n) = ks

LEMMA MadeUnary ==
    ASSUME NEW h \in Heaps, NEW roots, Wired(h, roots),
           NEW n \in Nodes, h[n].type = "free", NEW type \in Types, NEW a \in roots,
           NEW g, g = createASTUnaryNode(h, n, type, a)
    PROVE  /\ g \in Heaps /\ n \notin roots
           /\ Wired(g, Plus(Minus(roots, a), n))
           /\ Apart(h, g, n, Minus(roots, a))
           /\ MadeOf(g, n, type, a, a, 1, Siblings(h, a))
<1> DEFINE k == createASTNode(h, n, type)
           more == Plus(roots, n)
           rest == Minus(roots, a)
           those == Plus(rest, n)
<1>1. /\ k \in Heaps /\ Wired(k, more) /\ n \notin roots
      /\ k[n] = Comp(type) /\ \A m \in Nodes \ {n} : k[m] = h[m]
      /\ \A m \in Nodes \ {n} : Children(k, m) = Children(h, m)
      /\ \A r \in roots : Siblings(k, r) = Siblings(h, r)
      /\ Children(k, n) = << >>
  BY Created
<1>2. g = tree_insert_node(k, n, a)
  BY DEF createASTUnaryNode
<1> HIDE DEF k
<1>3. /\ k[n].type = type /\ k[n].childnodes = 0 /\ k[n].first = NULL
      /\ k[n].last = NULL /\ k[n].next = NULL /\ type # "free"
  BY <1>1 DEF Comp, Types
<1>4. a \in more /\ a # n /\ a \in Nodes /\ those = Minus(more, a)
  BY <1>1 DEF Wired, Plus, Minus
<1>5. CountedIn(k, n)
  BY <1>1, <1>3 DEF CountedIn
<1> HIDE DEF more, those
<1>6. /\ g \in Heaps /\ Wired(g, those)
      /\ \A m \in Nodes \ {n} : Children(g, m) = Children(k, m)
      /\ \A r \in those : Siblings(g, r) = Siblings(k, r)
      /\ Children(g, n) = Children(k, n) \o Siblings(k, a)
      /\ g[n].childnodes = k[n].childnodes + 1 /\ g[n].last = a
      /\ \A m \in Nodes \ {n} : g[m].childnodes = k[m].childnodes /\ g[m].first = k[m].first
                                /\ g[m].last = k[m].last
      /\ \A m \in Nodes : g[m].type = k[m].type
      /\ \A m \in Nodes : k[m].next # NULL => g[m].next = k[m].next
      /\ \A r \in those : g[r].next = k[r].next
  <2>1. /\ g \in Heaps /\ Wired(g, Minus(more, a))
        /\ \A r \in more \ {a} : g[r].next = k[r].next /\ Siblings(g, r) = Siblings(k, r)
    BY <1>1, <1>2, <1>3, <1>4, <1>5, Inserted
  <2>2. those = more \ {a} /\ Wired(g, those)
    BY <1>4, <2>1 DEF Minus
  <2>3. /\ \A m \in Nodes \ {n} : Children(g, m) = Children(k, m)
        /\ Children(g, n) = Children(k, n) \o Siblings(k, a)
        /\ g[n].childnodes = k[n].childnodes + 1 /\ g[n].last = a
        /\ \A m \in Nodes \ {n} : g[m].childnodes = k[m].childnodes /\ g[m].first = k[m].first
                                  /\ g[m].last = k[m].last
        /\ \A m \in Nodes : g[m].type = k[m].type
        /\ \A m \in Nodes : k[m].next # NULL => g[m].next = k[m].next
    <3>1. k \in Heaps /\ Wired(k, more) /\ k[n].type # "free" /\ a \in more /\ a # n
      BY <1>1, <1>3, <1>4
    <3> QED
      BY <1>2, <1>5, <3>1, Inserted
  <2> QED
    BY <1>4, <2>1, <2>2, <2>3
<1>7. n \in those /\ \A r \in rest : r \in those /\ r \in roots /\ r \in Nodes \ {n}
  BY <1>1 DEF Wired, those, Plus, Minus
<1> HIDE DEF rest
<1>8. Siblings(k, a) = Siblings(h, a) /\ Siblings(h, a) \in Seq(Nodes) /\ Siblings(h, a) # << >>
  <2>1. Lists(h, a, Siblings(h, a))
    BY RootsStartLists
  <2> QED
    BY <1>1, <1>4, <2>1, NullIsNone DEF Lists
<1>9. Children(g, n) = Siblings(h, a)
  BY <1>1, <1>6, <1>8
<1>10. g[n].first = a
  <2>1. Children(g, n)[1] = g[n].first
    BY <1>6, <1>8, <1>9, ChildrenFacts
  <2>2. Lists(h, a, Siblings(h, a)) /\ a # NULL
    BY <1>4, RootsStartLists, NullIsNone
  <2> QED
    BY <1>9, <2>1, <2>2 DEF Lists
<1>11. g[n].type = type /\ g[n].next = NULL /\ g[n].childnodes = 1
  BY <1>3, <1>6, <1>7
<1>12. Apart(h, g, n, rest)
  <2>1. ASSUME NEW m \in Nodes \ {n}
        PROVE  /\ Children(g, m) = Children(h, m)
               /\ g[m].type = h[m].type /\ g[m].childnodes = h[m].childnodes
               /\ g[m].first = h[m].first /\ g[m].last = h[m].last
    BY <1>1, <1>6
  <2>2. h[n].first = NULL /\ h[n].next = NULL
    BY DEF Wired
  <2>3. \A m \in Nodes : h[m].next # NULL => g[m].next = h[m].next
    BY <1>1, <1>6, <2>2
  <2>4. ASSUME NEW r \in rest PROVE g[r].next = h[r].next /\ Siblings(g, r) = Siblings(h, r)
    BY <1>1, <1>6, <1>7
  <2> QED
    BY <2>1, <2>2, <2>3, <2>4 DEF Apart
<1> QED
  BY <1>1, <1>6, <1>9, <1>10, <1>11, <1>12 DEF MadeOf, those, rest

\* One more child behind those of a node that was just made of lone ones.
LEMMA MadeOfOneMore ==
    ASSUME NEW h \in Heaps, NEW roots, Wired(h, roots),
           NEW n \in roots, NEW type \in Types, NEW f \in Nodes, NEW l, NEW c, NEW ks,
           MadeOf(h, n, type, f, l, c, ks), CountedIn(h, n),
           NEW x \in roots, x # n,
           NEW g, g = tree_insert_node(h, n, x)
    PROVE  /\ g \in Heaps
           /\ Wired(g, Minus(roots, x))
           /\ Apart(h, g, n, Minus(Minus(roots, x), n))
           /\ MadeOf(g, n, type, f, x, c + 1, ks \o Siblings(h, x))
<1>1. n \in Nodes /\ type # "free" /\ h[n].type = type /\ f # NULL
  BY NullIsNone DEF Wired, Types, MadeOf
<1>2. /\ g \in Heaps /\ Wired(g, Minus(roots, x))
      /\ \A m \in Nodes \ {n} : Children(g, m) = Children(h, m)
      /\ \A r \in roots \ {x} : Siblings(g, r) = Siblings(h, r)
      /\ Children(g, n) = Children(h, n) \o Siblings(h, x)
      /\ g[n].childnodes = h[n].childnodes + 1 /\ g[n].last = x
      /\ h[n].first # NULL => g[n].first = h[n].first
      /\ \A m \in Nodes \ {n} : g[m].childnodes = h[m].childnodes /\ g[m].first = h[m].first
                                /\ g[m].last = h[m].last
      /\ \A m \in Nodes : g[m].type = h[m].type
      /\ \A m \in Nodes : h[m].next # NULL => g[m].next = h[m].next
      /\ \A r \in roots \ {x} : g[r].next = h[r].next
  BY <1>1, Inserted
<1>3. MadeOf(g, n, type, f, x, c + 1, ks \o Siblings(h, x))
  BY <1>1, <1>2 DEF MadeOf
<1>4. Apart(h, g, n, Minus(Minus(roots, x), n))
  <2>1. \A m \in Nodes \ {n} :
           /\ Children(g, m) = Children(h, m)
           /\ g[m].type = h[m].type /\ g[m].childnodes = h[m].childnodes
           /\ g[m].first = h[m].first /\ g[m].last = h[m].last
    BY <1>2
  <2>2. \A r \in Minus(Minus(roots, x), n) : g[r].next = h[r].next /\ Siblings(g, r) = Siblings(h, r)
    BY <1>2 DEF Minus
  <2>3. g[n].type = h[n].type
    BY <1>1, <1>2
  <2> QED
    BY <1>2, <2>1, <2>2, <2>3 DEF Apart
<1> QED
  BY <1>2, <1>3, <1>4

\* Such a node is counted right as long as what it is made of ends with it.
LEMMA CountedSoFar ==
    ASSUME NEW g, NEW n, NEW type, NEW f, NEW l, NEW c, NEW ks,
           MadeOf(g, n, type, f, l, c, ks),
           ks # << >>, c = Len(ks), l = ks[Len(ks)]
    PROVE  CountedIn(g, n)
  BY DEF CountedIn, MadeOf, Last

\* Sequences joined.
LEMMA Joined ==
    ASSUME NEW s \in Seq(Nodes), NEW u \in Seq(Nodes)
    PROVE  /\ s \o u \in Seq(Nodes) /\ Len(s \o u) = Len(s) + Len(u)
           /\ \A i \in 1 .. Len(s) : (s \o u)[i] = s[i]
           /\ \A i \in 1 .. Len(u) : (s \o u)[Len(s) + i] = u[i]
           /\ Len(u) = 1 => (s \o u)[Len(s) + 1] = u[1]
  OBVIOUS

LEMMA Appended ==
    ASSUME NEW s \in Seq(Nodes), NEW x \in Nodes
    PROVE  /\ Append(s, x) \in Seq(Nodes) /\ Len(Append(s, x)) = Len(s) + 1
           /\ Append(s, x)[Len(s) + 1] = x
           /\ \A i \in 1 .. Len(s) : Append(s, x)[i] = s[i]
  OBVIOUS

LEMMA OneMore ==
    ASSUME NEW s \in Seq(Nodes), NEW x \in Nodes
    PROVE  s \o <<x>> = Append(s, x)
<1> DEFINE u == <<x>>
           w == s \o u
           v == Append(s, x)
<1>1. u \in Seq(Nodes) /\ Len(u) = 1 /\ u[1] = x /\ 1 \in 1 .. Len(u)
  OBVIOUS
<1>2. v \in Seq(Nodes) /\ Len(v) = Len(s) + 1 /\ v[Len(s) + 1] = x
      /\ \A i \in 1 .. Len(s) : v[i] = s[i]
  BY Appended
<1> HIDE DEF u, v
<1>3. /\ w \in Seq(Nodes) /\ Len(w) = Len(s) + Len(u)
      /\ \A i \in 1 .. Len(s) : w[i] = s[i]
      /\ w[Len(s) + 1] = u[1]
  BY <1>1, Joined
<1> HIDE DEF w
<1>4. Len(w) = Len(v) /\ w[Len(s) + 1] = x /\ Len(s) \in Nat
  <2>1. Len(s) \in Nat
    OBVIOUS
  <2>2. Len(w) = Len(s) + 1
    BY <1>1, <1>3
  <2>3. w[Len(s) + 1] = u[1]
    BY <1>1, <1>3
  <2> QED
    BY <1>1, <1>2, <2>1, <2>2, <2>3
<1>5. \A i \in 1 .. Len(w) : i \in 1 .. Len(s) \/ i = Len(s) + 1
  BY <1>2, <1>4
<1>6. \A i \in 1 .. Len(w) : w[i] = v[i]
  BY <1>2, <1>3, <1>4, <1>5
<1>7. w = v
  BY <1>2, <1>3, <1>4, <1>6
<1> QED
  BY <1>7 DEF u, v, w

LEMMA SameSequence ==
    ASSUME NEW s \in Seq(Nodes), NEW u \in Seq(Nodes), Len(s) = Len(u),
           \A i \in 1 .. Len(s) : s[i] = u[i]
    PROVE  s = u
  OBVIOUS

LEMMA JoinedShort ==
    ASSUME NEW a \in Nodes, NEW b \in Nodes, NEW c \in Nodes
    PROVE  <<a>> \o <<b>> = <<a, b>> /\ <<a, b>> \o <<c>> = <<a, b, c>>
<1> DEFINE s == <<a>>
           u == <<a, b>>
           w == <<a, b, c>>
<1>1. s \in Seq(Nodes) /\ Len(s) = 1 /\ s[1] = a
  OBVIOUS
<1>2. u \in Seq(Nodes) /\ Len(u) = 2 /\ u[1] = a /\ u[2] = b
  OBVIOUS
<1>3. w \in Seq(Nodes) /\ Len(w) = 3 /\ w[1] = a /\ w[2] = b /\ w[3] = c
  OBVIOUS
<1> HIDE DEF s, u, w
<1>4. s \o <<b>> = u
  <2> DEFINE v == Append(s, b)
  <2>1. v \in Seq(Nodes) /\ Len(v) = 2 /\ v[1] = a /\ v[2] = b
    <3>1. v \in Seq(Nodes) /\ Len(v) = Len(s) + 1 /\ v[Len(s) + 1] = b
          /\ \A i \in 1 .. Len(s) : v[i] = s[i]
      BY <1>1, Appended
    <3> HIDE DEF v
    <3> QED
      BY <1>1, <3>1
  <2>2. s \o <<b>> = v
    BY <1>1, OneMore
  <2> HIDE DEF v
  <2>3. \A i \in 1 .. Len(v) : v[i] = u[i]
    BY <1>2, <2>1
  <2> QED
    BY <1>2, <2>1, <2>2, <2>3, SameSequence
<1>5. u \o <<c>> = w
  <2> DEFINE v == Append(u, c)
  <2>1. v \in Seq(Nodes) /\ Len(v) = 3 /\ v[1] = a /\ v[2] = b /\ v[3] = c
    <3>1. v \in Seq(Nodes) /\ Len(v) = Len(u) + 1 /\ v[Len(u) + 1] = c
          /\ \A i \in 1 .. Len(u) : v[i] = u[i]
      BY <1>2, Appended
    <3> HIDE DEF v
    <3> QED
      BY <1>2, <3>1
  <2>2. u \o <<c>> = v
    BY <1>2, OneMore
  <2> HIDE DEF v
  <2>3. \A i \in 1 .. Len(v) : v[i] = w[i]
    BY <1>3, <2>1
  <2> QED
    BY <1>3, <2>1, <2>2, <2>3, SameSequence
<1> QED
  BY <1>4, <1>5 DEF s, u, w

LEMMA MadeBinary ==
    ASSUME NEW h \in Heaps, NEW roots, Wired(h, roots),
           NEW n \in Nodes, h[n].type = "free", NEW type \in Types,
           NEW a \in roots, NEW b \in roots, a # b, h[a].next = NULL,
           NEW g, g = createASTBinaryNode(h, n, type, a, b)
    PROVE  /\ g \in Heaps /\ n \notin roots
           /\ Wired(g, Plus(Minus(Minus(roots, a), b), n))
           /\ Apart(h, g, n, Minus(Minus(roots, a), b))
           /\ MadeOf(g, n, type, a, b, 2, <<a>> \o Siblings(h, b))
<1> DEFINE k == createASTUnaryNode(h, n, type, a)
           ks == <<a>>
           more == Minus(roots, a)
           most == Plus(more, n)
           rest == Minus(more, b)
           those == Plus(rest, n)
<1>1. g = tree_insert_node(k, n, b)
  BY DEF createASTBinaryNode
<1>2. a \in Nodes /\ b \in more /\ more \subseteq roots
  BY DEF Wired, Minus
<1>3. Siblings(h, a) = ks /\ ks # << >> /\ Len(ks) = 1 /\ ks[Len(ks)] = a
  BY Alone
<1> HIDE DEF ks
<1>4. k \in Heaps /\ n \notin roots /\ MadeOf(k, n, type, a, a, 1, ks)
  BY <1>3, MadeUnary
<1>5. Wired(k, most) /\ Apart(h, k, n, more)
  BY MadeUnary
<1> HIDE DEF k
<1>6. CountedIn(k, n)
  BY <1>3, <1>4, CountedSoFar
<1>7. /\ b \in most /\ n \in most /\ b # n /\ those = Minus(most, b)
      /\ rest = Minus(Minus(most, b), n) /\ rest \subseteq more
  BY <1>2, <1>4 DEF Plus, Minus
<1> HIDE DEF most, more, those, rest
<1>8. g \in Heaps /\ MadeOf(g, n, type, a, b, 1 + 1, ks \o Siblings(k, b))
  BY <1>1, <1>2, <1>4, <1>5, <1>6, <1>7, MadeOfOneMore
<1>9. Wired(g, those)
  BY <1>1, <1>2, <1>4, <1>5, <1>6, <1>7, MadeOfOneMore
<1>10. Apart(k, g, n, rest)
  BY <1>1, <1>2, <1>4, <1>5, <1>6, <1>7, MadeOfOneMore
<1>11. Apart(h, g, n, rest)
  BY <1>5, <1>7, <1>10, ApartTwice
<1>12. Siblings(k, b) = Siblings(h, b) /\ 1 + 1 = 2
  BY <1>2, <1>5, <1>7 DEF Apart
<1> QED
  BY <1>4, <1>8, <1>9, <1>11, <1>12 DEF ks, those, rest, more

LEMMA MadeTernary ==
    ASSUME NEW h \in Heaps, NEW roots, Wired(h, roots),
           NEW n \in Nodes, h[n].type = "free", NEW type \in Types,
           NEW a \in roots, NEW b \in roots, NEW c \in roots, a # b, a # c, b # c,
           h[a].next = NULL, h[b].next = NULL,
           NEW g, g = createASTTernaryNode(h, n, type, a, b, c)
    PROVE  /\ g \in Heaps /\ n \notin roots
           /\ Wired(g, Plus(Minus(Minus(Minus(roots, a), b), c), n))
           /\ Apart(h, g, n, Minus(Minus(Minus(roots, a), b), c))
           /\ MadeOf(g, n, type, a, c, 3, <<a, b>> \o Siblings(h, c))
<1> DEFINE k == createASTBinaryNode(h, n, type, a, b)
           ks == <<a, b>>
           more == Minus(Minus(roots, a), b)
           most == Plus(more, n)
           rest == Minus(more, c)
           those == Plus(rest, n)
<1>1. g = tree_insert_node(k, n, c)
  BY DEF createASTTernaryNode
<1>2. a \in Nodes /\ c \in more /\ more \subseteq roots
  BY DEF Wired, Minus
<1>3. <<a>> \o Siblings(h, b) = ks /\ ks # << >> /\ Len(ks) = 2 /\ ks[Len(ks)] = b
  <2>1. Siblings(h, b) = <<b>> /\ a \in Nodes /\ b \in Nodes
    BY Alone DEF Wired
  <2> QED
    BY <2>1, JoinedShort
<1> HIDE DEF ks
<1>4. k \in Heaps /\ n \notin roots /\ MadeOf(k, n, type, a, b, 2, ks)
  BY <1>3, MadeBinary
<1>5. Wired(k, most) /\ Apart(h, k, n, more)
  BY MadeBinary
<1> HIDE DEF k
<1>6. CountedIn(k, n)
  BY <1>3, <1>4, CountedSoFar
<1>7. /\ c \in most /\ n \in most /\ c # n /\ those = Minus(most, c)
      /\ rest = Minus(Minus(most, c), n) /\ rest \subseteq more
  BY <1>2, <1>4 DEF Plus, Minus
<1> HIDE DEF most, more, those, rest
<1>8. g \in Heaps /\ MadeOf(g, n, type, a, c, 2 + 1, ks \o Siblings(k, c))
  BY <1>1, <1>2, <1>4, <1>5, <1>6, <1>7, MadeOfOneMore
<1>9. Wired(g, those)
  BY <1>1, <1>2, <1>4, <1>5, <1>6, <1>7, MadeOfOneMore
<1>10. Apart(k, g, n, rest)
  BY <1>1, <1>2, <1>4, <1>5, <1>6, <1>7, MadeOfOneMore
<1>11. Apart(h, g, n, rest)
  BY <1>5, <1>7, <1>10, ApartTwice
<1>12. Siblings(k, c) = Siblings(h, c) /\ 2 + 1 = 3
  BY <1>2, <1>5, <1>7 DEF Apart
<1> QED
  BY <1>4, <1>8, <1>9, <1>11, <1>12 DEF ks, those, rest, more

LEMMA MadeQuaternary ==
    ASSUME NEW h \in Heaps, NEW roots, Wired(h, roots),
           NEW n \in Nodes, h[n].type = "free", NEW type \in Types,
           NEW a \in roots, NEW b \in roots, NEW c \in roots, NEW d \in roots,
           a # b, a # c, b # c, a # d, b # d, c # d,
           h[a].next = NULL, h[b].next = NULL, h[c].next = NULL,
           NEW g, g = createASTQuaternaryNode(h, n, type, a, b, c, d)
    PROVE  /\ g \in Heaps /\ n \notin roots
           /\ Wired(g, Plus(Minus(Minus(Minus(Minus(roots, a), b), c), d), n))
           /\ Apart(h, g, n, Minus(Minus(Minus(Minus(roots, a), b), c), d))
           /\ MadeOf(g, n, type, a, d, 4, <<a, b, c>> \o Siblings(h, d))
<1> DEFINE k == createASTTernaryNode(h, n, type, a, b, c)
           ks == <<a, b, c>>
           more == Minus(Minus(Minus(roots, a), b), c)
           most == Plus(more, n)
           rest == Minus(more, d)
           those == Plus(rest, n)
<1>1. g = tree_insert_node(k, n, d)
  BY DEF createASTQuaternaryNode
<1>2. a \in Nodes /\ d \in more /\ more \subseteq roots
  BY DEF Wired, Minus
<1>3. <<a, b>> \o Siblings(h, c) = ks /\ ks # << >> /\ Len(ks) = 3 /\ ks[Len(ks)] = c
  <2>1. Siblings(h, c) = <<c>> /\ a \in Nodes /\ b \in Nodes /\ c \in Nodes
    BY Alone DEF Wired
  <2>2. <<a, b>> \o Siblings(h, c) = ks
    <3>1. <<a, b>> \o <<c>> = <<a, b, c>>
      BY <2>1, JoinedShort
    <3> QED
      BY <2>1, <3>1, Zenon
  <2>3. ks # << >> /\ Len(ks) = 3 /\ ks[Len(ks)] = c
    OBVIOUS
  <2> QED
    BY <2>2, <2>3
<1> HIDE DEF ks
<1>4. k \in Heaps /\ n \notin roots /\ MadeOf(k, n, type, a, c, 3, ks)
  <2>1. k \in Heaps /\ n \notin roots /\ MadeOf(k, n, type, a, c, 3, <<a, b>> \o Siblings(h, c))
    BY MadeTernary
  <2> QED
    BY <1>3, <2>1, Zenon
<1>5. Wired(k, most) /\ Apart(h, k, n, more)
  BY MadeTernary
<1> HIDE DEF k
<1>6. CountedIn(k, n)
  BY <1>3, <1>4, CountedSoFar
<1>7. /\ d \in most /\ n \in most /\ d # n /\ those = Minus(most, d)
      /\ rest = Minus(Minus(most, d), n) /\ rest \subseteq more
  BY <1>2, <1>4 DEF Plus, Minus
<1> HIDE DEF most, more, those, rest
<1>8. g \in Heaps /\ MadeOf(g, n, type, a, d, 3 + 1, ks \o Siblings(k, d))
  BY <1>1, <1>2, <1>4, <1>5, <1>6, <1>7, MadeOfOneMore
<1>9. Wired(g, those)
  BY <1>1, <1>2, <1>4, <1>5, <1>6, <1>7, MadeOfOneMore
<1>10. Apart(k, g, n, rest)
  BY <1>1, <1>2, <1>4, <1>5, <1>6, <1>7, MadeOfOneMore
<1>11. Apart(h, g, n, rest)
  BY <1>5, <1>7, <1>10, ApartTwice
<1>12. Siblings(k, d) = Siblings(h, d) /\ 3 + 1 = 4
  BY <1>2, <1>5, <1>7 DEF Apart
<1> QED
  BY <1>4, <1>8, <1>9, <1>11, <1>12 DEF ks, those, rest, more

----------------------------------------------------------------------------
(* tree_free *)

Around(h, Ks) == (Ks \cup {h[n].first : n \in Ks} \cup {h[n].next : n \in Ks}) \ {NULL}

\* f is the function reached of tree_free, up to k steps.
Arounds(h, t, f, k) == f = [j \in 0 .. k |-> IF j = 0 THEN {t} ELSE Around(h, f[j - 1])]

LEMMA AroundsExist ==
    ASSUME NEW h, NEW t
    PROVE  \A k \in Nat : \E f : Arounds(h, t, f, k)
<1> DEFINE Ks == {k \in Nat : \E f : Arounds(h, t, f, k)}
<1>1. 0 \in Ks
  <2> DEFINE f == [j \in 0 .. 0 |-> {t}]
  <2>1. f = [j \in 0 .. 0 |-> IF j = 0 THEN {t} ELSE Around(h, f[j - 1])]
    <3>1. \A j \in 0 .. 0 : j = 0
      OBVIOUS
    <3> QED
      BY <3>1
  <2> QED
    BY <2>1 DEF Arounds
<1>2. ASSUME NEW k \in Nat, k \in Ks PROVE k + 1 \in Ks
  <2>1. PICK f : Arounds(h, t, f, k)
    BY <1>2
  <2> DEFINE g == [j \in 0 .. k + 1 |-> IF j <= k THEN f[j] ELSE Around(h, f[k])]
  <2>2. \A j \in 0 .. k : f[j] = IF j = 0 THEN {t} ELSE Around(h, f[j - 1])
    BY <2>1 DEF Arounds
  <2>3. ASSUME NEW j \in 0 .. k + 1 PROVE g[j] = IF j = 0 THEN {t} ELSE Around(h, g[j - 1])
    <3>1. CASE j = 0
      BY <2>2, <3>1
    <3>2. CASE j \in 1 .. k
      <4>1. j - 1 \in 0 .. k + 1 /\ j - 1 <= k /\ j <= k
        BY <3>2
      <4> QED
        BY <2>2, <3>2, <4>1
    <3>3. CASE j = k + 1
      <4>1. ~(j <= k) /\ j - 1 = k /\ k <= k /\ k \in 0 .. k + 1 /\ j # 0
        BY <3>3
      <4> QED
        BY <3>3, <4>1
    <3> QED
      BY <3>1, <3>2, <3>3
  <2>4. g = [j \in 0 .. k + 1 |-> IF j = 0 THEN {t} ELSE Around(h, g[j - 1])]
    BY <2>3
  <2> HIDE DEF g
  <2>5. Arounds(h, t, g, k + 1)
    BY <2>4 DEF Arounds
  <2> QED
    BY <2>5
<1> HIDE DEF Ks
<1>3. Nat \subseteq Ks
  BY <1>1, <1>2, SetInduction
<1> QED
  BY <1>3 DEF Ks

\* tree_free frees a set of nodes to which only t leads, or a node of the set,
\* and which no node of it leaves.  As many steps as there are nodes suffice: a
\* step that is not the last adds one.
LEMMA FreedSet ==
    ASSUME NEW h \in Heaps, NEW t \in Nodes
    PROVE  \E D \in SUBSET Nodes :
              /\ t \in D
              /\ \A m \in D : m = t \/ \E n \in D : m = h[n].first \/ m = h[n].next
              /\ \A n \in D : /\ h[n].first # NULL => h[n].first \in D
                              /\ h[n].next # NULL => h[n].next \in D
              /\ tree_free(h, t) = [n \in Nodes |-> IF n \in D THEN Comp("free") ELSE h[n]]
<1> DEFINE reached == CHOOSE f : Arounds(h, t, f, Bound)
           Held(D) == /\ D \in SUBSET Nodes /\ t \in D
                      /\ \A m \in D : m = t \/ \E n \in D : m = h[n].first \/ m = h[n].next
           Ks == {k \in Nat : k <= Bound => Held(reached[k])}
           Over(D, k) == Around(h, D) = D \/ Cardinality(D) >= k + 1
           Ms == {k \in Nat : k <= Bound => Over(reached[k], k)}
<1>1. Arounds(h, t, reached, Bound)
  BY AroundsExist, BoundIsNat
<1>2. tree_free(h, t) = [n \in Nodes |-> IF n \in reached[Bound] THEN Comp("free") ELSE h[n]]
  BY DEF tree_free, Arounds, Around, Bound
<1> HIDE DEF reached
<1>3. \A k \in 0 .. Bound : reached[k] = IF k = 0 THEN {t} ELSE Around(h, reached[k - 1])
  BY <1>1 DEF Arounds
<1>4. 0 \in Ks
  BY <1>3, BoundIsNat
<1>5. ASSUME NEW k \in Nat, k \in Ks PROVE k + 1 \in Ks
  <2> SUFFICES ASSUME k + 1 <= Bound PROVE Held(reached[k + 1])
    OBVIOUS
  <2> DEFINE A == reached[k]
             B == reached[k + 1]
  <2>1. k <= Bound /\ k + 1 \in 0 .. Bound /\ k + 1 # 0 /\ (k + 1) - 1 = k
    BY BoundIsNat
  <2>2. Held(A)
    BY <1>5, <2>1
  <2>3. B = Around(h, A)
    BY <1>3, <2>1
  <2> HIDE DEF A, B
  <2>4. \A n \in Nodes : h[n].first \in Nodes \cup {NULL} /\ h[n].next \in Nodes \cup {NULL}
    BY DEF Heaps, Records
  <2>5. B \in SUBSET Nodes /\ A \subseteq B
    BY <2>2, <2>3, <2>4, NullIsNone DEF Around
  <2>6. ASSUME NEW m \in B PROVE m = t \/ \E n \in B : m = h[n].first \/ m = h[n].next
    <3>1. m \in A \/ \E n \in A : m = h[n].first \/ m = h[n].next
      BY <2>3 DEF Around
    <3> QED
      BY <2>2, <2>5, <3>1
  <2>7. Held(B)
    BY <2>2, <2>5, <2>6
  <2> QED
    BY <2>7 DEF B
<1> HIDE DEF Ks
<1>6. Bound \in Ks
  BY <1>4, <1>5, SetInduction, BoundIsNat
<1>7. Held(reached[Bound])
  BY <1>6, BoundIsNat DEF Ks
<1>8. IsFiniteSet(Nodes) /\ Bound \in Nat /\ Bound = Cardinality(Nodes)
  BY TreeAssumption, BoundIsNat DEF Bound
<1>9. \A k \in 0 .. Bound : Held(reached[k])
  <2>1. \A k \in Nat : k \in Ks
    BY <1>4, <1>5, SetInduction
  <2> QED
    BY <1>8, <2>1 DEF Ks
<1>10. 0 \in Ms
  <2>1. reached[0] = {t}
    BY <1>3, <1>8
  <2>2. Cardinality({t}) = 1
    BY FS_Singleton
  <2>3. Over(reached[0], 0)
    BY <2>1, <2>2
  <2> QED
    BY <2>3
<1>11. ASSUME NEW k \in Nat, k \in Ms PROVE k + 1 \in Ms
  <2> SUFFICES ASSUME k + 1 <= Bound PROVE Over(reached[k + 1], k + 1)
    OBVIOUS
  <2> DEFINE A == reached[k]
             B == reached[k + 1]
  <2>1. k <= Bound /\ k \in 0 .. Bound /\ k + 1 \in 0 .. Bound /\ k + 1 # 0 /\ (k + 1) - 1 = k
    BY <1>8
  <2>2. Over(A, k)
    BY <1>11, <2>1
  <2>3. B = Around(h, A)
    BY <1>3, <2>1
  <2>4. Held(A) /\ Held(B)
    BY <1>9, <2>1
  <2> HIDE DEF A, B
  <2>5. ASSUME Around(h, A) = A PROVE Over(B, k + 1)
    BY <2>3, <2>5
  <2>6. ASSUME Around(h, A) # A PROVE Over(B, k + 1)
    <3>1. Cardinality(A) >= k + 1
      BY <2>2, <2>6
    <3>2. A \subseteq B /\ A # B
      BY <2>3, <2>4, <2>6, NullIsNone DEF Around
    <3>3. IsFiniteSet(B)
      BY <1>8, <2>4, FS_Subset
    <3>4. IsFiniteSet(A) /\ Cardinality(A) <= Cardinality(B) /\ Cardinality(A) # Cardinality(B)
      BY <3>2, <3>3, FS_Subset
    <3>5. Cardinality(A) \in Nat /\ Cardinality(B) \in Nat
      BY <3>3, <3>4, FS_CardinalityType
    <3> QED
      BY <3>1, <3>4, <3>5
  <2>7. Over(B, k + 1)
    BY <2>5, <2>6
  <2> QED
    BY <2>7 DEF B
<1> HIDE DEF Ms
<1>12. Bound \in Ms
  BY <1>8, <1>10, <1>11, SetInduction
<1> DEFINE D == reached[Bound]
<1>13. Over(D, Bound)
  BY <1>8, <1>12 DEF Ms
<1>14. D \in SUBSET Nodes
  BY <1>7
<1>15. Around(h, D) = D
  <2> HIDE DEF D
  <2>1. IsFiniteSet(D) /\ Cardinality(D) <= Bound /\ Cardinality(D) \in Nat
    BY <1>8, <1>14, FS_Subset, FS_CardinalityType
  <2> QED
    BY <1>8, <1>13, <2>1
<1>16. \A n \in D : /\ h[n].first # NULL => h[n].first \in D
                    /\ h[n].next # NULL => h[n].next \in D
  <2> HIDE DEF D
  <2> QED
    BY <1>15 DEF Around
<1> QED
  BY <1>2, <1>7, <1>16

\* A list that starts outside of a set to which no next leads stays outside.
LEMMA ListOutside ==
    ASSUME NEW h, NEW m, NEW s, Lists(h, m, s), NEW D, m \notin D,
           \A n \in Nodes \ D : h[n].next # NULL => h[n].next \notin D,
           NEW i \in 1 .. Len(s)
    PROVE  s[i] \in Nodes \ D
<1> DEFINE Ks == {k \in Nat : k + 1 \in 1 .. Len(s) => s[k + 1] \in Nodes \ D}
<1>1. s \in Seq(Nodes) /\ Len(s) \in Nat /\ \A j \in 1 .. Len(s) : s[j] \in Nodes
  BY DEF Lists
<1>2. 0 \in Ks
  <2>1. 1 \in 1 .. Len(s) => s # << >> /\ s[1] = m
    BY DEF Lists
  <2> QED
    BY <1>1, <2>1
<1>3. ASSUME NEW k \in Nat, k \in Ks PROVE k + 1 \in Ks
  <2> SUFFICES ASSUME (k + 1) + 1 \in 1 .. Len(s) PROVE s[(k + 1) + 1] \in Nodes \ D
    OBVIOUS
  <2> DEFINE j == k + 1
  <2>1. j \in 1 .. Len(s) /\ j # Len(s) /\ j + 1 \in 1 .. Len(s)
    BY <1>1
  <2>2. s[j] \in Nodes \ D
    BY <1>3, <2>1
  <2> HIDE DEF j
  <2>3. h[s[j]].next = s[j + 1] /\ s[j + 1] \in Nodes
    BY <1>1, <2>1 DEF Lists
  <2>4. s[j + 1] \in Nodes \ D
    BY <2>2, <2>3, NullIsNone
  <2> QED
    BY <2>4 DEF j
<1> HIDE DEF Ks
<1>4. i - 1 \in Nat /\ (i - 1) + 1 = i
  BY <1>1
<1>5. i - 1 \in Ks
  BY <1>2, <1>3, <1>4, SetInduction
<1> QED
  BY <1>4, <1>5 DEF Ks

\* tree_free leaves a whole heap whole, and every tree but that of t alone.
LEMMA Freed ==
    ASSUME NEW h, NEW roots, Whole(h, roots), NEW t \in roots,
           NEW g, g = tree_free(h, t)
    PROVE  /\ Whole(g, Minus(roots, t))
           /\ \A n \in Nodes : g[n] = Comp("free") \/ (g[n] = h[n] /\ Children(g, n) = Children(h, n))
           /\ \A r \in roots \ {t} : g[r] = h[r] /\ Siblings(g, r) = Siblings(h, r)
           /\ g[t].type = "free"
           /\ \A n \in Nodes : h[n].type # "free" /\ g[n].type = "free" =>
                \A i \in 1 .. Len(Children(h, n)) : g[Children(h, n)[i]].type = "free"
<1>1. h \in Heaps /\ Wired(h, roots) /\ t \in Nodes
  BY DEF Whole, Wired
<1>2. PICK D \in SUBSET Nodes :
         /\ t \in D
         /\ \A m \in D : m = t \/ \E n \in D : m = h[n].first \/ m = h[n].next
         /\ \A n \in D : /\ h[n].first # NULL => h[n].first \in D
                         /\ h[n].next # NULL => h[n].next \in D
         /\ g = [n \in Nodes |-> IF n \in D THEN Comp("free") ELSE h[n]]
  BY <1>1, FreedSet
<1>3. \A n \in Nodes :
         /\ h[n].first \in Nodes \cup {NULL} /\ h[n].next \in Nodes \cup {NULL}
         /\ h[n].first \in Nodes => h[h[n].first].prev = NULL
         /\ h[n].next \in Nodes => h[h[n].next].prev = n
  BY <1>1, NullIsNone DEF Heaps, Records, Wired
<1>4. \A n \in Nodes \ D : h[n].first \notin D /\ h[n].next \notin D
  <2>1. ASSUME NEW n \in Nodes \ D, h[n].first \in D PROVE FALSE
    <3>1. h[n].first # t /\ h[n].first \in Nodes
      BY <1>1, <2>1 DEF Wired
    <3>2. PICK q \in D : h[n].first = h[q].first \/ h[n].first = h[q].next
      BY <1>2, <2>1, <3>1
    <3>3. h[n].first # h[q].first
      BY <1>1, <2>1, <3>1, NullIsNone DEF Wired
    <3>4. h[h[n].first].prev = NULL /\ h[h[q].next].prev = q /\ q \in Nodes
      BY <1>3, <3>1, <3>2, <3>3
    <3> QED
      BY <3>2, <3>3, <3>4, NullIsNone
  <2>2. ASSUME NEW n \in Nodes \ D, h[n].next \in D PROVE FALSE
    <3>1. h[n].next \in Nodes /\ h[h[n].next].prev = n /\ n # NULL
      BY <1>3, <2>2, NullIsNone
    <3>2. h[n].next # t
      BY <1>1, <3>1 DEF Wired
    <3>3. PICK q \in D : h[n].next = h[q].first \/ h[n].next = h[q].next
      BY <1>2, <2>2, <3>2
    <3> QED
      BY <1>3, <2>2, <3>1, <3>3
  <2> QED
    BY <2>1, <2>2
<1>5. \A r \in roots \ {t} : r \in Nodes \ D
  <2> SUFFICES ASSUME NEW r \in roots \ {t}, r \in D PROVE FALSE
    BY <1>1 DEF Wired
  <2>1. PICK q \in D : r = h[q].first \/ r = h[q].next
    BY <1>2
  <2>2. r # h[q].first /\ h[r].prev = NULL /\ q \in Nodes
    BY <1>1 DEF Wired
  <2> QED
    BY <1>3, <2>1, <2>2, NullIsNone
<1>6. /\ \A n \in D : g[n] = Comp("free")
      /\ \A n \in Nodes \ D : g[n] = h[n]
  BY <1>2
<1>7. /\ Comp("free") \in Records
      /\ Comp("free").next = NULL /\ Comp("free").first = NULL /\ Comp("free").last = NULL
      /\ Comp("free").childnodes = 0 /\ Comp("free").type = "free"
  BY DEF Comp, Records
<1>8. g \in Heaps
  BY <1>1, <1>2, <1>7 DEF Heaps
<1> HIDE DEF Comp
<1>9. Wired(g, Minus(roots, t))
  <2>1. \A n \in Nodes :
          /\ g[n].next # NULL => /\ g[n].type # "free" /\ g[g[n].next].type # "free"
                                 /\ g[g[n].next].prev = n
          /\ g[n].first # NULL => /\ g[n].type # "free" /\ g[g[n].first].type # "free"
                                  /\ g[g[n].first].prev = NULL
    <3> SUFFICES ASSUME NEW n \in Nodes \ D
                 PROVE  /\ h[n].next # NULL => /\ h[n].type # "free" /\ g[h[n].next].type # "free"
                                               /\ g[h[n].next].prev = n
                        /\ h[n].first # NULL => /\ h[n].type # "free" /\ g[h[n].first].type # "free"
                                                /\ g[h[n].first].prev = NULL
      BY <1>6, <1>7
    <3>1. h[n].next # NULL => g[h[n].next] = h[h[n].next]
      BY <1>3, <1>4, <1>6
    <3>2. h[n].first # NULL => g[h[n].first] = h[h[n].first]
      BY <1>3, <1>4, <1>6
    <3> QED
      BY <1>1, <3>1, <3>2 DEF Wired
  <2>2. \A n, m \in Nodes : g[n].first = g[m].first => n = m \/ g[n].first = NULL
    BY <1>1, <1>6, <1>7 DEF Wired
  <2>3. \A r \in roots \ {t} : r \in Nodes /\ g[r].type # "free" /\ g[r].prev = NULL
    BY <1>1, <1>5, <1>6 DEF Wired
  <2>4. \A r \in roots \ {t}, n \in Nodes : g[n].first # r
    BY <1>1, <1>5, <1>6, <1>7, NullIsNone DEF Wired
  <2> QED
    BY <2>1, <2>2, <2>3, <2>4 DEF Wired, Minus
<1>10. ASSUME NEW m \in Nodes \cup {NULL}, m \notin D, m # NULL => h[m].prev = NULL
       PROVE  Siblings(g, m) = Siblings(h, m)
  <2> DEFINE s == Siblings(h, m)
  <2>1. Lists(h, m, s)
    BY <1>1, <1>10, SiblingsAreAList
  <2> HIDE DEF s
  <2>2. \A i \in 1 .. Len(s) : s[i] \in Nodes \ D
    BY <1>4, <1>10, <2>1, ListOutside
  <2>3. Lists(g, m, s)
    BY <1>6, <2>1, <2>2, ListKept
  <2>4. m # NULL => g[m].prev = NULL
    BY <1>6, <1>10
  <2> QED
    BY <1>8, <1>9, <2>3, <2>4, ReadsList DEF s
<1>11. \A n \in Nodes \ D : Children(g, n) = Children(h, n)
  BY <1>1, <1>3, <1>4, <1>6, <1>10, NullIsNone DEF Children
<1>12. \A r \in roots \ {t} : Siblings(g, r) = Siblings(h, r)
  BY <1>1, <1>5, <1>10 DEF Wired
<1>13. ASSUME NEW n \in D PROVE Kept(g, n) /\ Shaped(g, n)
  <2>1. Children(g, n) = << >>
    <3>1. g[n].first = NULL
      BY <1>6, <1>7
    <3> QED
      BY <1>8, <1>9, <3>1, ChildrenFacts
  <2> QED
    BY <1>6, <1>7, <2>1 DEF Kept, CountedIn, Shaped
<1>14. ASSUME NEW n \in Nodes \ D PROVE Kept(g, n) /\ Shaped(g, n)
  <2>1. Kept(h, n) /\ Shaped(h, n) /\ g[n] = h[n] /\ Children(g, n) = Children(h, n)
    BY <1>6, <1>11 DEF Whole
  <2>2. \A m \in Nodes \ D : /\ h[m].first # NULL => h[m].first \in Nodes \ D
                             /\ h[m].next # NULL => h[m].next \in Nodes \ D
    BY <1>3, <1>4
  <2>3. Kept(g, n)
    <3>1. CASE CountedIn(h, n)
      BY <2>1, <3>1 DEF CountedIn, Kept
    <3>2. CASE Piped(h, n) /\ Loose(h, n)
      <4>1. Piped(g, n)
        BY <1>6, <2>1, <2>2, <3>2 DEF Piped
      <4>2. Loose(g, n)
        BY <2>1, <3>2 DEF Loose
      <4> QED
        BY <4>1, <4>2 DEF Kept
    <3> QED
      BY <2>1, <3>1, <3>2 DEF Kept
  <2>4. Shaped(g, n)
    <3> DEFINE call == h[n].first
               name == h[call].first
               before == h[name].next
    <3>1. CASE h[n].type = "pipe"
      <4>1. /\ call # NULL /\ h[call].type = "call" /\ name # NULL /\ before # NULL
            /\ h[before].type \in {"call", "pipe"}
        BY <2>1, <3>1 DEF Shaped
      <4>2. call \in Nodes \ D /\ name \in Nodes \ D /\ before \in Nodes \ D
        BY <2>2, <4>1
      <4>3. g[call] = h[call] /\ g[name] = h[name] /\ g[before] = h[before]
        BY <1>6, <4>2
      <4>4. g[n].type = "pipe" /\ g[n].first = call /\ g[call].first = name /\ g[name].next = before
        BY <2>1, <3>1, <4>3
      <4> HIDE DEF call, name, before
      <4> QED
        BY <4>1, <4>3, <4>4 DEF Shaped
    <3>2. CASE h[n].type # "pipe"
      BY <2>1, <3>2 DEF Shaped
    <3> QED
      BY <3>1, <3>2
  <2> QED
    BY <2>3, <2>4
<1>15. \A r \in roots \ {t} : g[r] = h[r]
  BY <1>5, <1>6
<1>16. ASSUME NEW n \in Nodes, h[n].type # "free", g[n].type = "free",
              NEW i \in 1 .. Len(Children(h, n))
       PROVE  g[Children(h, n)[i]].type = "free"
  <2> DEFINE m == h[n].first
             s == Siblings(h, m)
             E == Nodes \ D
  <2>1. n \in D
    BY <1>6, <1>16
  <2>2. m \notin E
    BY <1>2, <2>1, NullIsNone
  <2>3. \A q \in Nodes \ E : h[q].next # NULL => h[q].next \notin E
    BY <1>2
  <2>4. m \in Nodes \cup {NULL} /\ (m # NULL => h[m].prev = NULL)
    BY <1>3, NullIsNone
  <2>5. Children(h, n) = s
    BY DEF Children
  <2> HIDE DEF m, s, E
  <2>6. Lists(h, m, s)
    BY <1>1, <2>4, SiblingsAreAList DEF s
  <2>7. s[i] \in Nodes \ E
    BY <1>16, <2>2, <2>3, <2>5, <2>6, ListOutside
  <2> QED
    BY <1>6, <1>7, <2>5, <2>7 DEF E
<1>17. g[t].type = "free"
  BY <1>2, <1>6, <1>7
<1> QED
  BY <1>6, <1>8, <1>9, <1>11, <1>12, <1>13, <1>14, <1>15, <1>16, <1>17 DEF Whole

----------------------------------------------------------------------------
(* tree_finish_pipe *)

\* Below the pipes of a chain is a call: its first function.
LEMMA SecondIsACall ==
    ASSUME NEW h, NEW roots, Whole(h, roots), NEW p \in roots, h[p].type \in {"call", "pipe"},
           NEW t, t = SecondFunction(h, p)
    PROVE  /\ t \in Nodes /\ h[t].type = "call" /\ (t = p \/ h[t].prev # NULL)
           /\ h[p].type = "call" => t = p
<1> DEFINE N == {n \in Nodes : h[n].type \in {"call", "pipe"}}
           Before(n) == h[h[h[n].first].first].next
           step == [n \in Nodes |-> IF h[n].type = "call" THEN NULL ELSE Before(n)]
           s == Path(step, p)
<1>1. h \in Heaps /\ Wired(h, roots) /\ p \in Nodes /\ h[p].prev = NULL /\ p \in N
  BY DEF Whole, Wired
<1>2. ASSUME NEW q \in Nodes, h[q].type = "pipe"
      PROVE  /\ h[q].first \in Nodes /\ h[h[q].first].first \in Nodes
             /\ Before(q) \in N /\ h[Before(q)].prev = h[h[q].first].first
  <2>1. /\ h[q].first # NULL /\ h[h[q].first].first # NULL /\ Before(q) # NULL
        /\ h[Before(q)].type \in {"call", "pipe"}
    BY <1>2 DEF Whole, Shaped
  <2>2. \A n \in Nodes : h[n].first \in Nodes \cup {NULL} /\ h[n].next \in Nodes \cup {NULL}
    BY <1>1 DEF Heaps, Records
  <2>3. h[q].first \in Nodes /\ h[h[q].first].first \in Nodes /\ Before(q) \in Nodes
    BY <2>1, <2>2
  <2> QED
    BY <1>1, <2>1, <2>3 DEF Wired
<1>3. \A q \in N : step[q] = IF h[q].type = "call" THEN NULL ELSE Before(q)
  OBVIOUS
<1>4. t = Last(s)
  BY DEF SecondFunction
<1>5. \A m \in N : step[m] \in N \cup {NULL}
  BY <1>2, <1>3
<1>6. \A m, q \in Nodes : (h[m].type = "pipe" /\ h[q].type = "pipe" /\ Before(m) = Before(q)) => m = q
  <2> SUFFICES ASSUME NEW m \in Nodes, NEW q \in Nodes,
                      h[m].type = "pipe", h[q].type = "pipe", Before(m) = Before(q)
               PROVE  m = q
    OBVIOUS
  <2>1. h[h[m].first].first = h[h[q].first].first
    <3>1. h[Before(m)].prev = h[h[m].first].first
      BY <1>2
    <3>2. h[Before(q)].prev = h[h[q].first].first
      BY <1>2
    <3> HIDE DEF Before
    <3> QED
      BY <3>1, <3>2
  <2>2. \A a, b \in Nodes : h[a].first = h[b].first /\ h[a].first # NULL => a = b
    BY <1>1 DEF Wired
  <2>3. h[m].first = h[q].first
    <3>1. h[m].first \in Nodes /\ h[q].first \in Nodes /\ h[h[m].first].first \in Nodes
      BY <1>2
    <3> HIDE DEF Before
    <3> QED
      BY <2>1, <2>2, <3>1, NullIsNone
  <2> QED
    <3>1. h[m].first \in Nodes
      BY <1>2
    <3> HIDE DEF Before
    <3> QED
      BY <2>3, <2>2, <3>1, NullIsNone
<1> HIDE DEF step
<1>7. /\ s \in Seq(N) /\ s # << >> /\ s[1] = p
      /\ \A i \in 1 .. Len(s) - 1 : s[i + 1] = step[s[i]]
      /\ Len(s) <= Bound => step[s[Len(s)]] = NULL
  <2>1. p # NULL
    BY <1>1, NullIsNone
  <2> HIDE DEF N
  <2>2. N \in SUBSET Nodes
    BY DEF N
  <2>3. p \in N \cup {NULL}
    BY <1>1
  <2>4. /\ Path(step, p) \in Seq(N)
        /\ p # NULL => Path(step, p) # << >> /\ Path(step, p)[1] = p
        /\ \A i \in 1 .. Len(Path(step, p)) - 1 : Path(step, p)[i + 1] = step[Path(step, p)[i]]
        /\ (p # NULL /\ Len(Path(step, p)) <= Bound) => step[Path(step, p)[Len(Path(step, p))]] = NULL
    BY ZenonT(60), <1>5, <2>2, <2>3, PathFacts
  <2> QED
    BY <2>1, <2>4
<1> HIDE DEF s, N
<1>8. Len(s) \in Nat \ {0} /\ Len(s) \in 1 .. Len(s) /\ 1 \in 1 .. Len(s) /\ s \in Seq(Nodes)
  BY <1>7 DEF N
<1>9. \A i \in 1 .. Len(s) : s[i] \in N /\ s[i] \in Nodes
  BY <1>7, <1>8 DEF N
<1>10. ASSUME NEW i \in 1 .. Len(s), i # 1
       PROVE  /\ i - 1 \in 1 .. Len(s) /\ h[s[i - 1]].type = "pipe" /\ s[i] = Before(s[i - 1])
              /\ h[s[i]].prev # NULL
  <2> DEFINE j == i - 1
  <2>1. j \in 1 .. Len(s) - 1 /\ j \in 1 .. Len(s) /\ i = j + 1
    BY <1>8, <1>10
  <2> HIDE DEF j
  <2>2. s[i] = step[s[j]]
    BY <1>7, <2>1
  <2>3. h[s[j]].type = "pipe" /\ s[i] = Before(s[j])
    BY <1>3, <1>9, <2>1, <2>2, NullIsNone DEF N
  <2>4. h[s[i]].prev # NULL
    BY ZenonT(60), <1>2, <1>9, <2>1, <2>3, NullIsNone
  <2> QED
    BY <2>1, <2>3, <2>4 DEF j
<1>11. Len(s) <= Bound
  <2> DEFINE Above(n) == CHOOSE q \in Nodes : h[q].type = "pipe" /\ Before(q) = n
             e == [n \in Nodes |-> [prev |-> IF n = p THEN NULL ELSE Above(n)]]
  <2>1. \A n \in Nodes : e[n].prev = IF n = p THEN NULL ELSE Above(n)
    OBVIOUS
  <2>2. \A q \in Nodes : h[q].type = "pipe" => Above(Before(q)) = q
    BY <1>6
  <2> HIDE DEF e, Above
  <2>3. Backwards(e, s)
    <3> SUFFICES ASSUME NEW i \in 1 .. Len(s)
                 PROVE  e[s[i]].prev = IF i = 1 THEN NULL ELSE s[i - 1]
      BY DEF Backwards
    <3>1. CASE i = 1
      BY <1>1, <1>7, <2>1, <3>1
    <3>2. CASE i # 1
      <4>1. /\ i - 1 \in 1 .. Len(s) /\ h[s[i - 1]].type = "pipe" /\ s[i] = Before(s[i - 1])
            /\ h[s[i]].prev # NULL
        BY <1>10, <3>2
      <4>2. s[i - 1] \in Nodes /\ s[i] \in Nodes
        BY <1>9, <4>1
      <4>3. s[i] # p
        BY <1>1, <4>1
      <4>4. e[s[i]].prev = Above(s[i]) /\ Above(s[i]) = s[i - 1]
        BY <2>1, <2>2, <4>1, <4>2, <4>3
      <4> QED
        BY <3>2, <4>4
    <3> QED
      BY <3>1, <3>2
  <2> QED
    BY <1>8, <2>3, BackwardsIsShort
<1>12. t = s[Len(s)] /\ t \in N /\ t \in Nodes /\ step[t] = NULL
  BY <1>4, <1>7, <1>8, <1>9, <1>11 DEF Last
<1>13. h[t].type = "call"
  <2>1. CASE h[t].type = "call"
    BY <2>1
  <2>2. CASE h[t].type # "call"
    <3>1. h[t].type = "pipe"
      BY <1>12, <2>2 DEF N
    <3>2. step[t] = Before(t) /\ Before(t) \in N
      BY <1>2, <1>3, <1>12, <2>2, <3>1
    <3>3. Before(t) \in Nodes
      BY <3>2 DEF N
    <3> HIDE DEF Before
    <3> QED
      BY <1>12, <3>2, <3>3, NullIsNone
  <2> QED
    BY <2>1, <2>2
<1>14. t = p \/ h[t].prev # NULL
  BY <1>7, <1>8, <1>10, <1>12
<1>15. h[p].type = "call" => t = p
  <2> SUFFICES ASSUME h[p].type = "call", Len(s) # 1 PROVE FALSE
    BY <1>7, <1>12
  <2>1. 2 \in 1 .. Len(s) /\ 2 # 1 /\ 2 - 1 = 1
    <3>1. \A n \in Nat \ {0} : n # 1 => 2 \in 1 .. n
      OBVIOUS
    <3>2. Len(s) \in Nat \ {0} /\ Len(s) # 1
      BY <1>8
    <3>3. 2 \in 1 .. Len(s)
      BY <3>1, <3>2
    <3>4. 2 # 1 /\ 2 - 1 = 1
      OBVIOUS
    <3> QED
      BY <3>3, <3>4
  <2>2. h[s[2 - 1]].type = "pipe"
    BY <1>10, <2>1
  <2> QED
    BY <1>7, <2>1, <2>2
<1> QED
  BY <1>12, <1>13, <1>14, <1>15

\* tree_insert_node_as_second_child leaves a heap whole, and makes it whole if
\* only a pipe lacks what is inserted.
LEMMA SecondWhole ==
    ASSUME NEW h \in Heaps, NEW roots, Wired(h, roots), \A n \in Nodes : Kept(h, n),
           NEW t \in Nodes, h[t].type = "call", h[t].first # NULL,
           NEW x \in roots, h[x].next = NULL, h[x].type \in {"call", "pipe"},
           \A n \in Nodes : Shaped(h, n) \/ (h[n].type = "pipe" /\ h[n].first = t),
           NEW g, g = tree_insert_node_as_second_child(h, t, x)
    PROVE  /\ Whole(g, Minus(roots, x))
           /\ \A m \in Nodes \ {t} : Children(g, m) = Children(h, m)
           /\ \A r \in roots \ {x} : Siblings(g, r) = Siblings(h, r)
           /\ Children(g, t) = <<h[t].first, x>> \o Tail(Children(h, t))
           /\ \A n \in Nodes : g[n].type = h[n].type /\ g[n].first = h[n].first
           /\ g[h[t].first].next = x
           /\ \A n \in Nodes \ {h[t].first, x} : g[n].next = h[n].next
<1> DEFINE ks == Children(h, t)
           f == h[t].first
           c == h[t].childnodes
<1>1. /\ ks \in Seq(Nodes) /\ ks # << >> /\ Len(ks) \in Nat \ {0} /\ ks[1] = f /\ f \in Nodes
      /\ c \in Nat
  <2>1. f \in Nodes \cup {NULL} /\ c \in Nat
    BY DEF Heaps, Records
  <2> QED
    BY <2>1, ChildrenFacts
<1>2. /\ c = 1 <=> Len(ks) = 1
      /\ c = 1 => h[t].last = f
      /\ CountedIn(h, t) => c = Len(ks) /\ h[t].last = ks[Len(ks)]
      /\ ~CountedIn(h, t) => Piped(h, t) /\ Loose(h, t)
  <2>1. Kept(h, t)
    OBVIOUS
  <2>2. CASE CountedIn(h, t)
    <3>1. c = Len(ks) /\ h[t].last = ks[Len(ks)]
      BY <1>1, <2>2 DEF CountedIn, Last
    <3> HIDE DEF ks, c, f
    <3> QED
      BY <1>1, <2>2, <3>1
  <2>3. CASE ~CountedIn(h, t)
    <3>1. Piped(h, t) /\ Loose(h, t)
      BY <2>1, <2>3 DEF Kept
    <3> QED
      BY <2>3, <3>1 DEF Loose
  <2> QED
    BY <2>2, <2>3
<1>3. x \in Nodes /\ x # NULL /\ h[x].prev = NULL /\ \A n \in Nodes : h[n].first # x
  BY NullIsNone DEF Wired
<1>4. /\ g \in Heaps /\ Wired(g, Minus(roots, x))
      /\ \A m \in Nodes \ {t} : Children(g, m) = Children(h, m)
      /\ \A r \in roots \ {x} : Siblings(g, r) = Siblings(h, r)
      /\ Children(g, t) = <<f, x>> \o Tail(ks)
      /\ g[t].childnodes = c + 1
      /\ g[t].last = IF c = 1 THEN x ELSE h[t].last
      /\ \A n \in Nodes : g[n].type = h[n].type /\ g[n].first = h[n].first
      /\ \A n \in Nodes \ {t} : g[n].childnodes = h[n].childnodes /\ g[n].last = h[n].last
      /\ g[f].next = x
      /\ \A n \in Nodes \ {f, x} : g[n].next = h[n].next
  BY <1>1, <1>2, InsertedSecond
<1> DEFINE js == Children(g, t)
<1>5. /\ Len(js) = Len(ks) + 1
      /\ Len(ks) = 1 => js[Len(js)] = x
      /\ Len(ks) # 1 => js[Len(js)] = ks[Len(ks)]
  <2> HIDE DEF ks, f
  <2> DEFINE u == <<f, x>>
             v == Tail(ks)
             w == u \o v
  <2>1. u \in Seq(Nodes) /\ Len(u) = 2 /\ u[2] = x
    BY <1>1, <1>3
  <2>2. v \in Seq(Nodes) /\ Len(v) = Len(ks) - 1 /\ \A i \in 1 .. Len(v) : v[i] = ks[i + 1]
    BY <1>1
  <2>3. js = w
    BY <1>4
  <2> HIDE DEF u, v, js
  <2>4. /\ Len(w) = Len(u) + Len(v)
        /\ \A i \in 1 .. Len(u) : w[i] = u[i]
        /\ \A i \in 1 .. Len(v) : w[Len(u) + i] = v[i]
    BY <2>1, <2>2, Joined
  <2> HIDE DEF w
  <2>5. Len(w) = Len(ks) + 1 /\ Len(ks) \in Nat \ {0}
    BY <1>1, <2>1, <2>2, <2>4
  <2>6. Len(ks) = 1 => w[Len(w)] = x
    <3>1. 2 \in 1 .. Len(u)
      BY <2>1
    <3>2. w[2] = x
      BY <2>1, <2>4, <3>1
    <3>3. Len(ks) = 1 => Len(w) = 2
      BY <2>5
    <3> QED
      BY <3>2, <3>3
  <2>7. Len(ks) # 1 => w[Len(w)] = ks[Len(ks)]
    <3> SUFFICES ASSUME Len(ks) # 1 PROVE w[Len(w)] = ks[Len(ks)]
      OBVIOUS
    <3> DEFINE j == Len(v)
    <3>1. j \in 1 .. Len(v) /\ Len(w) = 2 + j /\ Len(ks) = j + 1
      BY <1>1, <2>2, <2>5
    <3>2. w[2 + j] = v[j]
      BY <2>1, <2>4, <3>1
    <3>3. v[j] = ks[j + 1]
      BY <2>2, <3>1
    <3> QED
      BY <3>1, <3>2, <3>3
  <2> QED
    BY <2>3, <2>5, <2>6, <2>7
<1> HIDE DEF js
<1>6. Kept(g, t)
  <2>1. js # << >>
    BY <1>1, <1>5
  <2>2. CASE CountedIn(h, t)
    <3>1. g[t].childnodes = Len(js)
      BY <1>2, <1>4, <1>5, <2>2
    <3>2. g[t].last = js[Len(js)]
      BY <1>1, <1>2, <1>4, <1>5, <2>2
    <3> QED
      BY <2>1, <3>1, <3>2 DEF Kept, CountedIn, Last, js
  <2>3. CASE ~CountedIn(h, t)
    <3>1. Piped(h, t) /\ Loose(h, t)
      BY <1>2, <2>3
    <3>2. Piped(g, t)
      BY <1>1, <1>4, <3>1 DEF Piped
    <3>3. c \in 1 .. Len(ks)
      BY <3>1 DEF Loose
    <3>4. g[t].childnodes \in 1 .. Len(js) /\ g[t].childnodes # 1 /\ Len(js) # 1
      <4>1. \A a, b \in Nat : a \in 1 .. b => a + 1 \in 1 .. b + 1 /\ a + 1 # 1 /\ b + 1 # 1
        OBVIOUS
      <4>2. c \in Nat /\ Len(ks) \in Nat
        BY <1>1
      <4> HIDE DEF c, ks
      <4>3. c + 1 \in 1 .. Len(ks) + 1 /\ c + 1 # 1 /\ Len(ks) + 1 # 1
        BY <3>3, <4>1, <4>2
      <4> QED
        BY <1>4, <1>5, <4>3
    <3>5. Loose(g, t)
      BY <3>4 DEF Loose, js
    <3> QED
      BY <3>2, <3>5 DEF Kept
  <2> QED
    BY <2>2, <2>3
<1>7. ASSUME NEW n \in Nodes \ {t} PROVE Kept(g, n)
  <2>1. CASE CountedIn(h, n)
    BY <1>4, <2>1 DEF CountedIn, Kept
  <2>2. CASE Piped(h, n) /\ Loose(h, n)
    <3>1. h[n].first \in Nodes
      BY <2>2 DEF Piped, Heaps, Records
    <3>2. Piped(g, n)
      BY <1>4, <2>2, <3>1 DEF Piped
    <3>3. Loose(g, n)
      BY <1>4, <2>2 DEF Loose
    <3> QED
      BY <3>2, <3>3 DEF Kept
  <2> QED
    BY <2>1, <2>2 DEF Kept
<1>8. ASSUME NEW n \in Nodes PROVE Shaped(g, n)
  <2> DEFINE call == h[n].first
             name == h[call].first
             before == h[name].next
  <2>1. CASE h[n].type = "pipe"
    <3>1. call # NULL /\ call \in Nodes /\ h[call].type = "call" /\ name # NULL /\ name \in Nodes
      <4>1. h[n].first \in Nodes \cup {NULL} /\ \A m \in Nodes : h[m].first \in Nodes \cup {NULL}
        BY DEF Heaps, Records
      <4>2. CASE Shaped(h, n)
        BY <2>1, <4>1, <4>2 DEF Shaped
      <4>3. CASE h[n].first = t
        BY <1>1, <4>3, NullIsNone
      <4> QED
        BY <4>2, <4>3
    <3>2. g[name].next # NULL /\ g[g[name].next].type \in {"call", "pipe"}
      <4>1. CASE name = f
        BY <1>3, <1>4, <4>1
      <4>2. CASE name # f
        <5>1. Shaped(h, n) /\ name # x
          BY <1>3, <3>1, <4>2
        <5>2. before # NULL /\ h[before].type \in {"call", "pipe"} /\ before \in Nodes
          <6>1. before # NULL /\ h[before].type \in {"call", "pipe"}
            BY <2>1, <5>1 DEF Shaped
          <6>2. h[name].next \in Nodes \cup {NULL}
            BY <3>1 DEF Heaps, Records
          <6> QED
            BY <6>1, <6>2
        <5>3. g[name].next = before
          BY <1>4, <3>1, <4>2, <5>1
        <5> QED
          BY <1>4, <5>2, <5>3
      <4> QED
        BY <4>1, <4>2
    <3>3. g[n].type = "pipe" /\ g[n].first = call /\ g[call].first = name /\ g[call].type = "call"
      BY <1>4, <2>1, <3>1
    <3> HIDE DEF call, name, before
    <3> QED
      BY <3>1, <3>2, <3>3 DEF Shaped
  <2>2. CASE h[n].type # "pipe"
    BY <1>4, <2>2 DEF Shaped
  <2> QED
    BY <2>1, <2>2
<1> QED
  BY <1>4, <1>6, <1>7, <1>8 DEF Whole

\* The records of the new pipe and of the call that made room for it.
PipeAt(r, new) ==
    [type |-> "pipe", childnodes |-> 1, first |-> new, last |-> new, next |-> r.next, prev |-> r.prev]
CallAt(r) ==
    [type |-> r.type, childnodes |-> r.childnodes, first |-> r.first, last |-> r.last,
     next |-> NULL, prev |-> NULL]
Swapped(h, tree, new) == [h EXCEPT ![tree] = PipeAt(h[tree], new), ![new] = CallAt(h[tree])]

LEMMA PipeAssigned ==
    ASSUME NEW p \in Records, p.type = "pipe", p.childnodes = 1, NEW c, NEW new,
           NEW q, q = [p EXCEPT !.prev = c.prev, !.next = c.next, !.first = new, !.last = new]
    PROVE  q = PipeAt(c, new)
<1>1. q = [type |-> "pipe", childnodes |-> 1, first |-> new, last |-> new,
           next |-> c.next, prev |-> c.prev]
  BY DEF Records
<1> QED
  BY <1>1 DEF PipeAt

LEMMA CallAssigned ==
    ASSUME NEW c \in Records, NEW q, q = [c EXCEPT !.prev = NULL, !.next = NULL]
    PROVE  q = CallAt(c)
<1>1. q = [type |-> c.type, childnodes |-> c.childnodes, first |-> c.first, last |-> c.last,
           next |-> NULL, prev |-> NULL]
  BY DEF Records
<1> QED
  BY <1>1 DEF CallAt

LEMMA FinishSwaps ==
    ASSUME NEW h \in Heaps, NEW func, NEW tree \in Nodes, NEW new \in Nodes, new # tree
    PROVE  FinishAt(h, func, tree, new) =
             tree_insert_node_as_second_child(Swapped(h, tree, new), new, func)
<1> DEFINE base == createASTNode(h, new, "pipe")
           made == createASTUnaryNode(h, new, "pipe", tree)
           p == made[new]
           c == made[tree]
           pipe == [p EXCEPT !.prev = c.prev, !.next = c.next, !.first = new, !.last = new]
           call == [c EXCEPT !.prev = NULL, !.next = NULL]
<1>1. FinishAt(h, func, tree, new) =
        tree_insert_node_as_second_child([made EXCEPT ![tree] = pipe, ![new] = call], new, func)
  BY DEF FinishAt
<1>2. Comp("pipe") \in Records /\ Comp("pipe").childnodes = 0
      /\ Comp("pipe").type = "pipe"
  BY NullIsNone DEF Comp, Records, Types
<1>3. base \in Heaps /\ base[new] = Comp("pipe") /\ base = [h EXCEPT ![new] = Comp("pipe")]
  BY <1>2 DEF createASTNode, Heaps
<1>4. made = [base EXCEPT ![new] = OneChild(Comp("pipe"), tree)]
  BY <1>2, <1>3, OneChildInserted DEF createASTUnaryNode
<1>5. made = [h EXCEPT ![new] = OneChild(Comp("pipe"), tree)]
  <2> HIDE DEF base, made
  <2> QED
    BY <1>3, <1>4 DEF Heaps
<1>6. p = OneChild(Comp("pipe"), tree) /\ c = h[tree] /\ c \in Records
  <2> HIDE DEF made
  <2> QED
    BY <1>5 DEF Heaps
<1> HIDE DEF made, base
<1>7. p \in Records /\ p.type = "pipe" /\ p.childnodes = 1
  BY <1>2, <1>6, OneChildFacts
<1>8. pipe = PipeAt(h[tree], new)
  <2> HIDE DEF p, c
  <2> QED
    <3>1. pipe = PipeAt(c, new)
      BY <1>7, PipeAssigned, Zenon
    <3> QED
      BY <1>6, <3>1
<1>9. call = CallAt(h[tree])
  <2> HIDE DEF p, c
  <2> QED
    BY <1>6, CallAssigned
<1>10. [made EXCEPT ![tree] = pipe, ![new] = call] = Swapped(h, tree, new)
  <2> HIDE DEF pipe, call
  <2> QED
    BY <1>5, <1>8, <1>9 DEF Swapped, Heaps
<1> QED
  BY <1>1, <1>10

\* The call below the pipe takes all its children along.
LEMMA SwapsWhole ==
    ASSUME NEW h, NEW roots, Whole(h, roots),
           NEW t \in Nodes, h[t].type = "call", t \in roots \/ h[t].prev # NULL,
           NEW new \in Nodes, h[new].type = "free",
           NEW k, k = Swapped(h, t, new)
    PROVE  /\ k \in Heaps /\ Wired(k, roots) /\ new # t /\ new \notin roots
           /\ \A n \in Nodes : Kept(k, n)
           /\ \A n \in Nodes \ {t} : Shaped(k, n)
           /\ k[t] = PipeAt(h[t], new) /\ k[new] = CallAt(h[t])
           /\ \A n \in Nodes \ {t, new} : k[n] = h[n] /\ Children(k, n) = Children(h, n)
           /\ Children(k, t) = <<new>> /\ Children(k, new) = Children(h, t)
           /\ \A r \in roots : Siblings(k, r) = Siblings(h, r)
<1> DEFINE f == h[t].first
<1>1. h \in Heaps /\ Wired(h, roots) /\ new # t /\ h[t] \in Records
  BY DEF Whole, Heaps
<1>2. /\ new \notin roots /\ h[new].first = NULL /\ h[new].next = NULL /\ new # NULL
      /\ \A n \in Nodes : h[n].first # new /\ h[n].next # new
  BY <1>1, NullIsNone DEF Wired
<1>3. \A n \in Nodes : h[n].first # t
  BY <1>1, NullIsNone DEF Wired
<1>4. /\ k[t] = PipeAt(h[t], new) /\ k[new] = CallAt(h[t])
      /\ \A n \in Nodes \ {t, new} : k[n] = h[n]
  BY <1>1 DEF Swapped, Heaps
<1>5. /\ PipeAt(h[t], new) \in Records /\ CallAt(h[t]) \in Records
  BY <1>1 DEF PipeAt, CallAt, Records, Types
<1>6. k \in Heaps
  BY <1>1, <1>5 DEF Swapped, Heaps
<1>7. /\ k[t].type = "pipe" /\ k[t].childnodes = 1 /\ k[t].first = new /\ k[t].last = new
      /\ k[t].next = h[t].next /\ k[t].prev = h[t].prev
      /\ k[new].type = "call" /\ k[new].childnodes = h[t].childnodes /\ k[new].first = f
      /\ k[new].last = h[t].last /\ k[new].next = NULL /\ k[new].prev = NULL
  BY <1>4 DEF PipeAt, CallAt
<1>8. /\ \A n \in Nodes \ {new} : k[n].next = h[n].next /\ k[n].prev = h[n].prev
      /\ \A n \in Nodes \ {new} : h[n].type # "free" => k[n].type # "free"
      /\ \A n \in Nodes \ {t, new} : k[n].first = h[n].first /\ k[n].type = h[n].type
  BY <1>4, <1>7
<1>9. \A n \in Nodes : h[n].next \in Nodes \cup {NULL} /\ h[n].first \in Nodes \cup {NULL}
  BY <1>1 DEF Heaps, Records
<1>10. f \in Nodes /\ f # t /\ f # new /\ h[f].type # "free" /\ h[f].prev = NULL
  <2>1. f # NULL
    BY DEF Whole, Shaped
  <2> QED
    BY <1>1, <1>2, <1>3, <1>9, <2>1 DEF Wired
<1> HIDE DEF f
<1>11. Wired(k, roots)
  <2>1. ASSUME NEW n \in Nodes, k[n].next # NULL
        PROVE  k[n].type # "free" /\ k[k[n].next].type # "free" /\ k[k[n].next].prev = n
    <3>1. n # new /\ k[n].next = h[n].next /\ h[n].next \in Nodes \ {new}
      BY <1>2, <1>7, <1>8, <1>9, <2>1
    <3>2. h[n].type # "free" /\ h[h[n].next].type # "free" /\ h[h[n].next].prev = n
      BY <1>1, <2>1, <3>1 DEF Wired
    <3> QED
      BY <1>8, <3>1, <3>2
  <2>2. ASSUME NEW n \in Nodes, k[n].first # NULL
        PROVE  k[n].type # "free" /\ k[k[n].first].type # "free" /\ k[k[n].first].prev = NULL
    <3>1. CASE n = t
      BY <1>7, <3>1
    <3>2. CASE n = new
      BY <1>7, <1>8, <1>10, <3>2
    <3>3. CASE n # t /\ n # new
      <4>1. k[n].first = h[n].first /\ h[n].first \in Nodes \ {new} /\ k[n].type = h[n].type
        BY <1>2, <1>8, <1>9, <2>2, <3>3
      <4>2. h[n].type # "free" /\ h[h[n].first].type # "free" /\ h[h[n].first].prev = NULL
        BY <1>1, <2>2, <4>1 DEF Wired
      <4> QED
        BY <1>8, <4>1, <4>2
    <3> QED
      BY <3>1, <3>2, <3>3
  <2>3. ASSUME NEW n \in Nodes, NEW m \in Nodes, k[n].first = k[m].first, k[n].first # NULL
        PROVE  n = m
    <3>1. \A a, b \in Nodes : h[a].first = h[b].first => a = b \/ h[a].first = NULL
      BY <1>1 DEF Wired
    <3>2. \A a \in Nodes \ {t, new} : k[a].first # new /\ (k[a].first = f => f = NULL)
      BY <1>2, <1>8, <3>1 DEF f
    <3>3. f # new /\ f # NULL
      BY <1>10, NullIsNone
    <3>4. CASE n \in {t, new}
      BY <1>7, <2>3, <3>2, <3>3, <3>4
    <3>5. CASE m \in {t, new}
      BY <1>7, <2>3, <3>2, <3>3, <3>5
    <3>6. CASE n \notin {t, new} /\ m \notin {t, new}
      BY <1>8, <2>3, <3>1, <3>6
    <3> QED
      BY <3>4, <3>5, <3>6
  <2>4. \A r \in roots : r \in Nodes /\ k[r].type # "free" /\ k[r].prev = NULL
    <3>1. \A r \in roots : r \in Nodes \ {new} /\ h[r].type # "free" /\ h[r].prev = NULL
      BY <1>1, <1>2 DEF Wired
    <3> QED
      BY <1>8, <3>1
  <2>5. ASSUME NEW r \in roots, NEW n \in Nodes PROVE k[n].first # r
    <3>1. \A a \in Nodes : h[a].first # r
      BY <1>1 DEF Wired
    <3>2. f # r /\ new # r
      BY <1>2, <3>1 DEF f
    <3> QED
      BY <1>7, <1>8, <3>1, <3>2
  <2> QED
    BY <2>1, <2>2, <2>3, <2>4, <2>5 DEF Wired
<1>12. \A n \in Nodes : h[n].type # "free" => k[n].next = h[n].next
  BY <1>8
<1>13. ASSUME NEW m \in Nodes \cup {NULL}, m # NULL => h[m].type # "free" /\ h[m].prev = NULL
       PROVE  Siblings(k, m) = Siblings(h, m)
  <2>1. m # NULL => k[m].prev = NULL
    BY <1>8, <1>13
  <2> QED
    BY <1>1, <1>6, <1>11, <1>12, <1>13, <2>1, LinksKept
<1>14. ASSUME NEW n \in Nodes \ {t, new} PROVE Children(k, n) = Children(h, n)
  <2>1. /\ h[n].first \in Nodes \cup {NULL} /\ k[n].first = h[n].first
        /\ h[n].first # NULL => h[h[n].first].type # "free" /\ h[h[n].first].prev = NULL
    BY <1>1, <1>8, <1>9 DEF Wired
  <2> QED
    BY <1>13, <2>1 DEF Children
<1>15. Children(k, new) = Children(h, t)
  BY <1>7, <1>10, <1>13 DEF Children, f
<1>16. Children(k, t) = <<new>>
  <2> DEFINE s == <<new>>
  <2>1. s \in Seq(Nodes) /\ Len(s) = 1 /\ s[1] = new /\ s # << >>
    OBVIOUS
  <2> HIDE DEF s
  <2>2. Lists(k, new, s)
    BY <1>2, <1>7, <2>1 DEF Lists
  <2>3. Siblings(k, new) = s
    BY <1>6, <1>7, <1>11, <2>2, ReadsList
  <2> QED
    BY <1>7, <2>3 DEF Children, s
<1>17. \A r \in roots : Siblings(k, r) = Siblings(h, r)
  BY <1>1, <1>13 DEF Wired
<1>18. ASSUME NEW n \in Nodes PROVE Kept(k, n)
  <2>1. \A m \in Nodes : h[m].type = "piped" => k[m].type = "piped"
    BY <1>8
  <2>2. CASE n = t
    <3> DEFINE s == <<new>>
    <3>1. Len(s) = 1 /\ s[1] = new /\ s # << >>
      OBVIOUS
    <3>2. Children(k, n) = s
      BY <1>16, <2>2
    <3> HIDE DEF s
    <3> QED
      BY <1>7, <2>2, <3>1, <3>2 DEF Kept, CountedIn, Last
  <2>3. CASE n = new
    <3>1. Kept(h, t)
      BY DEF Whole
    <3>2. CASE CountedIn(h, t)
      BY <1>7, <1>15, <2>3, <3>2 DEF CountedIn, Kept
    <3>3. CASE Piped(h, t) /\ Loose(h, t)
      <4>1. Piped(k, new)
        BY <1>7, <1>10, <2>1, <3>3, NullIsNone DEF Piped, f
      <4>2. Loose(k, new)
        BY <1>7, <1>15, <3>3 DEF Loose, f
      <4> QED
        BY <2>3, <4>1, <4>2 DEF Kept
    <3> QED
      BY <3>1, <3>2, <3>3 DEF Kept
  <2>4. CASE n # t /\ n # new
    <3>1. Kept(h, n) /\ k[n] = h[n] /\ Children(k, n) = Children(h, n)
      BY <1>4, <1>14, <2>4 DEF Whole
    <3>2. CASE CountedIn(h, n)
      BY <3>1, <3>2 DEF CountedIn, Kept
    <3>3. CASE Piped(h, n) /\ Loose(h, n)
      <4>1. Piped(k, n)
        BY <1>9, <2>1, <3>1, <3>3 DEF Piped
      <4>2. Loose(k, n)
        BY <3>1, <3>3 DEF Loose
      <4> QED
        BY <4>1, <4>2 DEF Kept
    <3> QED
      BY <3>1, <3>2, <3>3 DEF Kept
  <2> QED
    BY <2>2, <2>3, <2>4
<1>19. ASSUME NEW n \in Nodes \ {t} PROVE Shaped(k, n)
  <2>1. CASE n = new
    BY <1>7, <1>10, <2>1, NullIsNone DEF Shaped
  <2>2. CASE n # new
    <3>1. Shaped(h, n) /\ k[n] = h[n]
      BY <1>4, <2>2 DEF Whole
    <3>2. CASE h[n].type = "pipe"
      <4> DEFINE call == h[n].first
                 name == h[call].first
                 before == h[name].next
      <4>1. /\ call # NULL /\ h[call].type = "call" /\ name # NULL /\ before # NULL
            /\ h[before].type \in {"call", "pipe"}
        BY <3>1, <3>2 DEF Shaped
      <4>2. call \in Nodes /\ name \in Nodes /\ before \in Nodes
        BY <1>9, <4>1
      <4>3. call # t /\ call # new /\ name # t /\ name # new /\ before # new
        BY <1>2, <1>3, <4>2
      <4>4. k[call] = h[call] /\ k[name] = h[name]
        BY <1>4, <4>2, <4>3
      <4>5. k[before].type \in {"call", "pipe"}
        BY <1>7, <1>8, <4>1, <4>2, <4>3
      <4>6. k[n].type = "pipe" /\ k[n].first = call /\ k[call].first = name /\ k[name].next = before
            /\ k[call].type = "call"
        BY <3>1, <3>2, <4>1, <4>4
      <4> HIDE DEF call, name, before
      <4> QED
        BY <4>1, <4>5, <4>6 DEF Shaped
    <3>3. CASE h[n].type # "pipe"
      BY <3>1, <3>3 DEF Shaped
    <3> QED
      BY <3>2, <3>3
  <2> QED
    BY <2>1, <2>2
<1> QED
  BY <1>1, <1>2, <1>4, <1>6, <1>11, <1>14, <1>15, <1>16, <1>17, <1>18, <1>19

\* What tree_finish_pipe makes of the heap: t was the first function of the chain.
PipeMade(h, g, roots, p, func, new, t) ==
    /\ Whole(g, Minus(roots, func))
    /\ g[p].type = "pipe" /\ g[p].next = h[p].next
    /\ \A r \in roots \ {func, p} :
          /\ g[r].type = h[r].type /\ g[r].next = h[r].next /\ g[r].first = h[r].first
          /\ h[r].first # NULL => g[h[r].first].type = h[h[r].first].type
    /\ t \in Nodes \ {new} /\ h[t].type = "call"
    /\ g[t].type = "pipe" /\ g[t].first = new
    /\ g[new].type = "call" /\ g[new].first = h[t].first /\ g[h[t].first].next = func
    /\ \A n \in Nodes \ {t, new} : g[n].type = h[n].type /\ g[n].first = h[n].first
    /\ \A n \in Nodes \ {new, h[t].first, func} : g[n].next = h[n].next
    /\ Children(g, t) = <<new>>
    /\ Children(g, new) = <<h[t].first, func>> \o Tail(Children(h, t))
    /\ \A n \in Nodes \ {t, new} : Children(g, n) = Children(h, n)
    /\ \A r \in roots \ {func} : Siblings(g, r) = Siblings(h, r)
    /\ \A n \in Nodes \ {new} : g[n].type = "free" <=> h[n].type = "free"
    /\ g[new].type # "free"

\* tree_finish_pipe leaves the heap whole: the value is still the chain, and
\* the other values keep their trees.
LEMMA Finished ==
    ASSUME NEW h, NEW roots, Whole(h, roots),
           NEW p \in roots, h[p].type \in {"call", "pipe"},
           NEW func \in roots, func # p, h[func].type \in {"call", "pipe"}, h[func].next = NULL,
           NEW new \in Nodes, h[new].type = "free",
           NEW g, g = tree_finish_pipe(h, func, p, new),
           NEW t, t = SecondFunction(h, p)
    PROVE  PipeMade(h, g, roots, p, func, new, t)
<1> DEFINE k == Swapped(h, t, new)
<1>1. h \in Heaps /\ Wired(h, roots) /\ p \in Nodes /\ func \in Nodes
      /\ h[func].prev = NULL /\ h[p].prev = NULL
  BY DEF Whole, Wired
<1>2. /\ t \in Nodes /\ h[t].type = "call" /\ (t = p \/ h[t].prev # NULL)
      /\ h[p].type = "call" => t = p
  BY SecondIsACall
<1>3. t \in roots \/ h[t].prev # NULL
  BY <1>2
<1>4. /\ k \in Heaps /\ Wired(k, roots) /\ new # t /\ new \notin roots
      /\ \A n \in Nodes : Kept(k, n)
      /\ \A n \in Nodes \ {t} : Shaped(k, n)
      /\ k[t] = PipeAt(h[t], new) /\ k[new] = CallAt(h[t])
      /\ \A n \in Nodes \ {t, new} : k[n] = h[n] /\ Children(k, n) = Children(h, n)
      /\ Children(k, t) = <<new>> /\ Children(k, new) = Children(h, t)
      /\ \A r \in roots : Siblings(k, r) = Siblings(h, r)
  BY <1>2, <1>3, SwapsWhole
<1>5. g = tree_insert_node_as_second_child(k, new, func)
  BY <1>1, <1>2, <1>4, FinishSwaps DEF tree_finish_pipe
<1> HIDE DEF k
<1>6. /\ k[t].type = "pipe" /\ k[t].first = new /\ k[t].next = h[t].next
      /\ k[new].type = "call" /\ k[new].first = h[t].first
  BY <1>2, <1>4 DEF PipeAt, CallAt
<1>7. /\ \A r \in roots \ {p} : r \in Nodes \ {t, new} /\ k[r] = h[r]
      /\ \A r \in roots, n \in Nodes : h[n].first # r
      /\ \A n \in Nodes : h[n].first # t /\ h[n].first # new
  <2>1. \A r \in roots : r \in Nodes /\ r # new /\ h[r].prev = NULL
    BY <1>1, <1>4 DEF Wired
  <2>2. \A r \in roots, n \in Nodes : h[n].first # r
    BY <1>1 DEF Wired
  <2>3. \A n \in Nodes : h[n].first # t /\ h[n].first # new
    BY <1>1, <1>2, <2>2, NullIsNone DEF Wired
  <2> QED
    BY <1>2, <1>4, <2>1, <2>2, <2>3
<1>8. h[t].first # NULL /\ h[t].first \in Nodes
  <2>1. h[t].first # NULL
    BY <1>2 DEF Whole, Shaped
  <2> QED
    BY <1>1, <1>2, <2>1 DEF Heaps, Records
<1>9. \A n \in Nodes : Shaped(k, n) \/ (k[n].type = "pipe" /\ k[n].first = new)
  BY <1>4, <1>6
<1>10. k[func].next = NULL /\ k[func].type \in {"call", "pipe"} /\ k[new].first # NULL
  BY <1>6, <1>7, <1>8
<1>11. /\ Whole(g, Minus(roots, func))
       /\ \A m \in Nodes \ {new} : Children(g, m) = Children(k, m)
       /\ \A r \in roots \ {func} : Siblings(g, r) = Siblings(k, r)
       /\ Children(g, new) = <<k[new].first, func>> \o Tail(Children(k, new))
       /\ \A n \in Nodes : g[n].type = k[n].type /\ g[n].first = k[n].first
       /\ g[k[new].first].next = func
       /\ \A n \in Nodes \ {k[new].first, func} : g[n].next = k[n].next
  BY <1>4, <1>5, <1>6, <1>9, <1>10, SecondWhole
<1>12. g[p].type = "pipe" /\ g[p].next = h[p].next
  <2>1. p # func /\ p # k[new].first /\ p # new
    BY <1>2, <1>4, <1>6, <1>7
  <2>2. k[p].type = "pipe" /\ k[p].next = h[p].next
    <3>1. CASE p = t
      BY <1>6, <3>1
    <3>2. CASE p # t
      BY <1>1, <1>2, <1>4, <2>1, <3>2
    <3> QED
      BY <3>1, <3>2
  <2> QED
    BY <1>1, <1>11, <2>1, <2>2
<1>13. ASSUME NEW r \in roots \ {func, p}
       PROVE  /\ g[r].type = h[r].type /\ g[r].next = h[r].next /\ g[r].first = h[r].first
              /\ h[r].first # NULL => g[h[r].first].type = h[h[r].first].type
  <2>1. r \in Nodes \ {t, new} /\ k[r] = h[r] /\ r # k[new].first
    BY <1>2, <1>6, <1>7
  <2>2. h[r].first # NULL => h[r].first \in Nodes \ {t, new}
    BY <1>1, <1>7, <2>1 DEF Heaps, Records
  <2> QED
    BY <1>4, <1>11, <2>1, <2>2
<1>14. Children(g, t) = <<new>> /\ \A n \in Nodes \ {t, new} : Children(g, n) = Children(h, n)
  BY <1>2, <1>4, <1>11
<1>15. Children(g, new) = <<h[t].first, func>> \o Tail(Children(h, t))
  BY <1>4, <1>6, <1>11
<1>16. \A r \in roots \ {func} : Siblings(g, r) = Siblings(h, r)
  BY <1>4, <1>11
<1>17. /\ \A n \in Nodes \ {new} : g[n].type = "free" <=> h[n].type = "free"
       /\ g[new].type # "free"
  BY <1>2, <1>4, <1>6, <1>11
<1>18. /\ g[t].type = "pipe" /\ g[t].first = new
       /\ g[new].type = "call" /\ g[new].first = h[t].first /\ g[h[t].first].next = func
  BY <1>2, <1>6, <1>11
<1>19. \A n \in Nodes \ {t, new} : g[n].type = h[n].type /\ g[n].first = h[n].first
  BY <1>4, <1>11
<1>20. \A n \in Nodes \ {new, h[t].first, func} : g[n].next = h[n].next
  <2>1. \A n \in Nodes \ {new} : k[n].next = h[n].next
    BY <1>4, <1>6
  <2> QED
    BY <1>6, <1>11, <2>1
<1> QED
  BY <1>2, <1>4, <1>11, <1>12, <1>13, <1>14, <1>15, <1>16, <1>17, <1>18, <1>19, <1>20 DEF PipeMade
=============================================================================
