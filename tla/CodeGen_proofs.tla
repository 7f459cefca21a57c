--------------------------- MODULE CodeGen_proofs ---------------------------
(***************************************************************************)
(* Proofs about CodeGen for programs of any size and shape and any layout  *)
(* of their variables.                                                     *)
(***************************************************************************)
EXTENDS CodeGen, SequenceTheorems, FiniteSetTheorems, NaturalsInduction, TLAPS

\* The codes over a set of instructions, none of which comes twice.
Codes(S) == {c \in Seq(S) : IsInjective(c)}

LEMMA CodeFacts ==
    ASSUME NEW S, NEW c \in Codes(S)
    PROVE  /\ c \in Seq(S) /\ Len(c) \in Nat /\ DOMAIN c = 1 .. Len(c)
           /\ \A i \in DOMAIN c : c[i] \in S
           /\ \A i, j \in DOMAIN c : c[i] = c[j] => i = j
           /\ Range(c) \subseteq S
BY DEF Codes, IsInjective, Range

LEMMA CodeIs ==
    ASSUME NEW S, NEW c \in Seq(S), \A i, j \in DOMAIN c : c[i] = c[j] => i = j
    PROVE  c \in Codes(S)
BY DEF Codes, IsInjective

LEMMA CodeGrows ==
    ASSUME NEW S, NEW T, S \subseteq T, NEW c \in Codes(S)
    PROVE  c \in Codes(T)
<1>1. c \in Seq(T)
  BY CodeFacts, SeqMonotonic
<1> QED
  BY <1>1, CodeFacts, CodeIs

LEMMA EmptyCode ==
    ASSUME NEW S
    PROVE  <<>> \in Codes(S) /\ Range(<<>>) = {}
<1>1. <<>> \in Seq(S) /\ DOMAIN <<>> = {}
  OBVIOUS
<1> QED
  BY <1>1, CodeIs DEF Range

LEMMA OneCode ==
    ASSUME NEW n
    PROVE  <<n>> \in Codes({n}) /\ Range(<<n>>) = {n}
<1>1. <<n>> \in Seq({n}) /\ DOMAIN <<n>> = {1} /\ <<n>>[1] = n
  OBVIOUS
<1>2. Range(<<n>>) = {n}
  BY <1>1 DEF Range
<1> QED
  BY <1>1, <1>2, CodeIs

LEMMA CodeRange ==
    ASSUME NEW S, NEW c \in Codes(S)
    PROVE  c \in Codes(Range(c))
<1>1. c \in Seq(Range(c))
  BY CodeFacts, SeqOfRange
<1> QED
  BY <1>1, CodeFacts, CodeIs

LEMMA JoinedRange ==
    ASSUME NEW A, NEW B, NEW a \in Codes(A), NEW b \in Codes(B)
    PROVE  Range(a \o b) = Range(a) \cup Range(b)
<1>1. a \in Seq(A \cup B) /\ b \in Seq(A \cup B)
  BY CodeFacts, SeqMonotonic
<1> QED
  BY <1>1, RangeConcatenation

LEMMA JoinedCodes ==
    ASSUME NEW A, NEW B, A \cap B = {}, NEW a \in Codes(A), NEW b \in Codes(B)
    PROVE  a \o b \in Codes(A \cup B)
<1> DEFINE S == A \cup B
<1>1. a \in Seq(A) /\ b \in Seq(B) /\ a \in Seq(S) /\ b \in Seq(S)
  BY CodeFacts, SeqMonotonic
<1>2. /\ a \o b \in Seq(S) /\ Len(a \o b) = Len(a) + Len(b)
      /\ Len(a) \in Nat /\ Len(b) \in Nat
      /\ DOMAIN (a \o b) = 1 .. Len(a) + Len(b)
      /\ \A i \in 1 .. Len(a) + Len(b) : (a \o b)[i] = IF i <= Len(a) THEN a[i] ELSE b[i - Len(a)]
  BY <1>1
<1>3. ASSUME NEW i \in DOMAIN (a \o b), NEW j \in DOMAIN (a \o b), (a \o b)[i] = (a \o b)[j]
      PROVE  i = j
  <2>1. CASE i <= Len(a) /\ j <= Len(a)
    <3>1. i \in DOMAIN a /\ j \in DOMAIN a /\ a[i] = a[j]
      BY <1>2, <1>3, <2>1, CodeFacts
    <3> QED
      BY <3>1, CodeFacts
  <2>2. CASE i > Len(a) /\ j > Len(a)
    <3>1. i - Len(a) \in DOMAIN b /\ j - Len(a) \in DOMAIN b /\ b[i - Len(a)] = b[j - Len(a)]
      BY <1>2, <1>3, <2>2, CodeFacts
    <3>2. i - Len(a) = j - Len(a)
      BY <3>1, CodeFacts
    <3> QED
      BY <3>2, <1>2
  <2>3. CASE i <= Len(a) /\ j > Len(a)
    <3>1. i \in DOMAIN a /\ j - Len(a) \in DOMAIN b /\ a[i] = b[j - Len(a)]
      BY <1>2, <1>3, <2>3, CodeFacts
    <3> QED
      BY <3>1, CodeFacts
  <2>4. CASE i > Len(a) /\ j <= Len(a)
    <3>1. j \in DOMAIN a /\ i - Len(a) \in DOMAIN b /\ a[j] = b[i - Len(a)]
      BY <1>2, <1>3, <2>4, CodeFacts
    <3> QED
      BY <3>1, CodeFacts
  <2> QED
    BY <1>2, <2>1, <2>2, <2>3, <2>4
<1> QED
  BY <1>2, <1>3, CodeIs

\* A part of a code, and the numbers of new instructions.
LEMMA PartOfCode ==
    ASSUME NEW S, NEW c \in Codes(S), NEW n \in Int, n <= Len(c)
    PROVE  /\ SubSeq(c, 1, n) \in Codes(S) /\ Range(SubSeq(c, 1, n)) \subseteq Range(c)
           /\ n >= 1 => SubSeq(c, 1, n) # <<>> /\ Len(SubSeq(c, 1, n)) = n
<1>1. CASE n < 1
  <2>1. SubSeq(c, 1, n) = <<>> /\ ~(n >= 1)
    BY <1>1, SubSeqEmpty
  <2> QED
    BY <2>1, EmptyCode
<1>2. CASE n >= 1
  <2>1. /\ SubSeq(c, 1, n) \in Seq(S) /\ DOMAIN SubSeq(c, 1, n) = 1 .. n
        /\ Len(SubSeq(c, 1, n)) = n /\ \A i \in 1 .. n : SubSeq(c, 1, n)[i] = c[i]
        /\ \A i \in 1 .. n : i \in DOMAIN c
    BY <1>2, CodeFacts
  <2>2. SubSeq(c, 1, n) \in Codes(S)
    BY ZenonT(60), <2>1, CodeFacts, CodeIs
  <2>3. Range(SubSeq(c, 1, n)) \subseteq Range(c)
    BY <2>1 DEF Range
  <2> QED
    BY <1>2, <2>1, <2>2, <2>3
<1> QED
  BY <1>1, <1>2, CodeFacts

\* The numbers of m new instructions after n.
NewOnes(n, m) == [k \in 1 .. m |-> n + k]

LEMMA NewCode ==
    ASSUME NEW n \in Nat, NEW m \in Nat
    PROVE  /\ NewOnes(n, m) \in Codes(n + 1 .. n + m) /\ Range(NewOnes(n, m)) = n + 1 .. n + m
           /\ Len(NewOnes(n, m)) = m
<1>1. /\ NewOnes(n, m) \in Seq(n + 1 .. n + m) /\ DOMAIN NewOnes(n, m) = 1 .. m
      /\ Len(NewOnes(n, m)) = m /\ \A k \in 1 .. m : NewOnes(n, m)[k] = n + k
  BY DEF NewOnes
<1>2. Range(NewOnes(n, m)) = n + 1 .. n + m
  <2>1. ASSUME NEW x \in n + 1 .. n + m PROVE x \in Range(NewOnes(n, m))
    <3>1. x - n \in DOMAIN NewOnes(n, m) /\ NewOnes(n, m)[x - n] = x
      BY <1>1
    <3> QED
      BY <3>1 DEF Range
  <2>2. Range(NewOnes(n, m)) \subseteq n + 1 .. n + m
    BY <1>1 DEF Range
  <2> QED
    BY <2>1, <2>2
<1>3. \A i, j \in DOMAIN NewOnes(n, m) : NewOnes(n, m)[i] = NewOnes(n, m)[j] => i = j
  BY <1>1
<1> QED
  BY <1>1, <1>2, <1>3, CodeIs

----------------------------------------------------------------------------
\* A list of instructions whose labels and targets were made by create_label.
LabelIn(m, l) == m = None \/ m \in 1 .. l
Fits(i, l) == LabelIn(i.label, l) /\ \A op \in Targets(i.type) : LabelIn(i[op], l)
Listing(list, l) ==
    /\ l \in Nat /\ list \in Seq(Range(list))
    /\ \A i \in 1 .. Len(list) : Fits(list[i], l)

\* What becomes of an instruction: it keeps its type and the targets it has,
\* or main halts in its place.
Firm(i, j) ==
    \/ j.type = "halt"
    \/ j.type = i.type /\ \A op \in Targets(i.type) : i[op] # None => j[op] = i[op]
Same(i, j) == j.type = i.type /\ j.op2 = i.op2 /\ j.op3 = i.op3

\* A list that has become another one without changing the targets outside S.
Grown(list, l, list2, l2, S) ==
    /\ Listing(list2, l2) /\ Len(list) <= Len(list2) /\ l <= l2
    /\ \A i \in 1 .. Len(list) : Firm(list[i], list2[i]) /\ (i \notin S => Same(list[i], list2[i]))

LEMMA TargetsAre == \A type : Targets(type) \subseteq {"op2", "op3"}
BY DEF Targets

LEMMA ListingFacts ==
    ASSUME NEW list, NEW l, Listing(list, l)
    PROVE  /\ l \in Nat /\ Len(list) \in Nat /\ DOMAIN list = 1 .. Len(list)
           /\ list \in Seq(Range(list))
           /\ \A i \in 1 .. Len(list) : Fits(list[i], l)
<1>1. l \in Nat /\ list \in Seq(Range(list)) /\ \A i \in 1 .. Len(list) : Fits(list[i], l)
  BY DEF Listing
<1>2. Len(list) \in Nat /\ DOMAIN list = 1 .. Len(list)
  BY <1>1, LenProperties
<1> QED
  BY <1>1, <1>2

LEMMA FitsMore ==
    ASSUME NEW i, NEW l \in Nat, NEW m \in Nat, l <= m, Fits(i, l)
    PROVE  Fits(i, m)
<1>1. \A k : LabelIn(k, l) => LabelIn(k, m)
  BY DEF LabelIn
<1> QED
  BY <1>1 DEF Fits

LEMMA SameIsFirm ==
    ASSUME NEW i, NEW j, Same(i, j)
    PROVE  Firm(i, j)
BY TargetsAre DEF Same, Firm

LEMMA FirmAgain ==
    ASSUME NEW h, NEW i, NEW j, Firm(h, i), Firm(i, j)
    PROVE  Firm(h, j)
<1>1. CASE j.type = "halt"
  BY <1>1 DEF Firm
<1>2. CASE j.type # "halt"
  <2>1. j.type = i.type /\ \A op \in Targets(i.type) : i[op] # None => j[op] = i[op]
    BY <1>2 DEF Firm
  <2>2. i.type = h.type /\ \A op \in Targets(h.type) : h[op] # None => i[op] = h[op]
    BY <1>2, <2>1 DEF Firm
  <2>3. ASSUME NEW op \in Targets(h.type), h[op] # None PROVE j[op] = h[op]
    <3>1. i[op] = h[op]
      BY <2>2, <2>3
    <3>2. op \in Targets(i.type) /\ i[op] # None
      BY <2>2, <2>3, <3>1
    <3> QED
      BY <2>1, <3>1, <3>2
  <2>4. j.type = h.type
    BY <2>1, <2>2
  <2> QED
    BY <2>3, <2>4 DEF Firm
<1> QED
  BY <1>1, <1>2

LEMMA GrownSame ==
    ASSUME NEW list, NEW l, NEW S, Listing(list, l)
    PROVE  Grown(list, l, list, l, S)
<1>1. l \in Nat /\ Len(list) \in Nat
  BY ListingFacts
<1>2. \A i : Same(i, i)
  BY DEF Same
<1> QED
  BY <1>1, <1>2, SameIsFirm DEF Grown

LEMMA GrownAgain ==
    ASSUME NEW list, NEW l, NEW list2, NEW l2, NEW list3, NEW l3, NEW S, NEW T, S \subseteq T,
           Listing(list, l), Grown(list, l, list2, l2, S), Grown(list2, l2, list3, l3, T)
    PROVE  Grown(list, l, list3, l3, T)
<1>1. Listing(list2, l2) /\ Listing(list3, l3)
  BY DEF Grown
<1>2. /\ Len(list) \in Nat /\ Len(list2) \in Nat /\ Len(list3) \in Nat
      /\ l \in Nat /\ l2 \in Nat /\ l3 \in Nat
  BY <1>1, ListingFacts
<1>3. Len(list) <= Len(list2) /\ Len(list2) <= Len(list3) /\ l <= l2 /\ l2 <= l3
  BY DEF Grown
<1>4. Len(list) <= Len(list3) /\ l <= l3
  BY <1>2, <1>3
<1>5. ASSUME NEW i \in 1 .. Len(list)
      PROVE  Firm(list[i], list3[i]) /\ (i \notin T => Same(list[i], list3[i]))
  <2>1. i \in 1 .. Len(list2)
    BY <1>2, <1>3
  <2>2. Firm(list[i], list2[i]) /\ (i \notin S => Same(list[i], list2[i]))
    BY DEF Grown
  <2>3. Firm(list2[i], list3[i]) /\ (i \notin T => Same(list2[i], list3[i]))
    BY <2>1 DEF Grown
  <2>4. Firm(list[i], list3[i])
    BY <2>2, <2>3, FirmAgain
  <2>5. ASSUME i \notin T PROVE Same(list[i], list3[i])
    <3>1. Same(list[i], list2[i]) /\ Same(list2[i], list3[i])
      BY <2>2, <2>3, <2>5
    <3> QED
      BY <3>1 DEF Same
  <2> QED
    BY <2>4, <2>5
<1> QED
  BY <1>1, <1>4, <1>5 DEF Grown

LEMMA GrownWider ==
    ASSUME NEW list, NEW l, NEW list2, NEW l2, NEW S, NEW T, S \subseteq T, Grown(list, l, list2, l2, S)
    PROVE  Grown(list, l, list2, l2, T)
BY DEF Grown

\* Instructions after the last one of a list.
LEMMA Lengthened ==
    ASSUME NEW list, NEW l, Listing(list, l), NEW l2 \in Nat, l <= l2,
           NEW S, NEW new \in Seq(S), \A k \in 1 .. Len(new) : Fits(new[k], l2), NEW T
    PROVE  /\ Grown(list, l, list \o new, l2, T) /\ Len(list \o new) = Len(list) + Len(new)
           /\ \A k \in 1 .. Len(new) : (list \o new)[Len(list) + k] = new[k]
           /\ \A i \in 1 .. Len(list) : (list \o new)[i] = list[i]
<1> DEFINE U == Range(list) \cup S
<1>1. /\ list \in Seq(Range(list)) /\ Len(list) \in Nat /\ l \in Nat
      /\ \A i \in 1 .. Len(list) : Fits(list[i], l)
  BY ListingFacts
<1>2. Len(new) \in Nat
  OBVIOUS
<1>3. list \in Seq(U) /\ new \in Seq(U)
  BY <1>1, SeqMonotonic
<1>4. /\ list \o new \in Seq(U) /\ Len(list \o new) = Len(list) + Len(new)
      /\ \A i \in 1 .. Len(list) + Len(new) :
            (list \o new)[i] = IF i <= Len(list) THEN list[i] ELSE new[i - Len(list)]
  BY <1>3, ConcatProperties
<1>5. list \o new \in Seq(Range(list \o new))
  BY <1>4, SeqOfRange
<1> HIDE DEF U
<1>6. \A i \in 1 .. Len(list) : (list \o new)[i] = list[i]
  BY <1>1, <1>2, <1>4
<1>7. \A k \in 1 .. Len(new) : (list \o new)[Len(list) + k] = new[k]
  BY <1>1, <1>2, <1>4
<1>8. ASSUME NEW i \in 1 .. Len(list \o new) PROVE Fits((list \o new)[i], l2)
  <2>1. CASE i <= Len(list)
    <3>1. i \in 1 .. Len(list) /\ (list \o new)[i] = list[i]
      BY <1>1, <1>2, <1>4, <2>1
    <3>2. Fits(list[i], l)
      BY <1>1, <3>1
    <3> QED
      BY <1>1, <3>1, <3>2, FitsMore
  <2>2. CASE i > Len(list)
    <3>1. i - Len(list) \in 1 .. Len(new) /\ (list \o new)[i] = new[i - Len(list)]
      BY <1>1, <1>2, <1>4, <2>2
    <3> QED
      BY <3>1
  <2> QED
    BY <1>1, <1>2, <1>4, <2>1, <2>2
<1>9. Listing(list \o new, l2)
  BY <1>5, <1>8 DEF Listing
<1>10. Len(list) <= Len(list \o new)
  BY <1>1, <1>2, <1>4
<1>11. ASSUME NEW i \in 1 .. Len(list)
       PROVE  Firm(list[i], (list \o new)[i]) /\ Same(list[i], (list \o new)[i])
  <2>1. Same(list[i], (list \o new)[i])
    BY <1>6 DEF Same
  <2> QED
    BY <2>1, SameIsFirm
<1>12. Grown(list, l, list \o new, l2, T)
  BY <1>9, <1>10, <1>11 DEF Grown
<1> QED
  BY <1>4, <1>6, <1>7, <1>12

LEMMA AppendedOne ==
    ASSUME NEW list, NEW l, Listing(list, l), NEW l2 \in Nat, l <= l2, NEW i, Fits(i, l2), NEW T
    PROVE  /\ Grown(list, l, Append(list, i), l2, T) /\ Len(Append(list, i)) = Len(list) + 1
           /\ Append(list, i)[Len(list) + 1] = i
           /\ \A j \in 1 .. Len(list) : Append(list, i)[j] = list[j]
<1> DEFINE U == Range(list) \cup {i}
<1>1. list \in Seq(Range(list))
  BY ListingFacts
<1>2. list \in Seq(U) /\ i \in U
  BY <1>1, SeqMonotonic
<1>3. Append(list, i) = list \o <<i>>
  BY <1>2, AppendIsConcat
<1>4. <<i>> \in Seq({i}) /\ Len(<<i>>) = 1 /\ <<i>>[1] = i
  OBVIOUS
<1>5. \A k \in 1 .. Len(<<i>>) : Fits(<<i>>[k], l2)
  BY <1>4
<1>6. 1 \in 1 .. Len(<<i>>)
  BY <1>4
<1> HIDE DEF U
<1> DEFINE e == <<i>>
<1>7. e \in Seq({i}) /\ Len(e) = 1 /\ e[1] = i /\ \A k \in 1 .. Len(e) : Fits(e[k], l2)
  BY <1>4, <1>5
<1> HIDE DEF e
<1>8. /\ Grown(list, l, list \o e, l2, T) /\ Len(list \o e) = Len(list) + Len(e)
      /\ \A k \in 1 .. Len(e) : (list \o e)[Len(list) + k] = e[k]
      /\ \A j \in 1 .. Len(list) : (list \o e)[j] = list[j]
  <2> DEFINE Ok == \A k \in 1 .. Len(e) : Fits(e[k], l2)
  <2>1. e \in Seq({i}) /\ Ok
    BY <1>7
  <2>2. Ok => \A k \in 1 .. Len(e) : Fits(e[k], l2)
    OBVIOUS
  <2> HIDE DEF Ok
  <2> QED
    BY <2>1, <2>2, Lengthened
<1>9. 1 \in 1 .. Len(e)
  BY <1>7
<1>10. (list \o e)[Len(list) + 1] = i
  BY <1>7, <1>8, <1>9
<1>11. Append(list, i) = list \o e
  BY <1>3 DEF e
<1> QED
  BY <1>7, <1>8, <1>10, <1>11
----------------------------------------------------------------------------
\* Slots that wait for a target, in a code.
Waits(slots, c, list) ==
    \A s \in slots : /\ s = Slot(s.at, s.op) /\ s.at \in Range(c) \cap (1 .. Len(list))
                     /\ s.op \in Targets(list[s.at].type) /\ list[s.at][s.op] = None

LEMMA NothingWaits ==
    ASSUME NEW c, NEW list
    PROVE  Waits({}, c, list)
BY DEF Waits

LEMMA WaitsLonger ==
    ASSUME NEW slots, NEW c, NEW d, NEW list, Range(c) \subseteq Range(d), Waits(slots, c, list)
    PROVE  Waits(slots, d, list)
BY DEF Waits

LEMMA WaitsTogether ==
    ASSUME NEW slots, NEW others, NEW c, NEW list, Waits(slots, c, list), Waits(others, c, list)
    PROVE  Waits(slots \cup others, c, list)
BY DEF Waits

\* Slots wait on while the list changes elsewhere.
LEMMA WaitsOn ==
    ASSUME NEW slots, NEW c, NEW list, NEW l, NEW list2, NEW l2, NEW S, Listing(list, l),
           Waits(slots, c, list), Grown(list, l, list2, l2, S), Range(c) \cap S = {}
    PROVE  Waits(slots, c, list2)
<1>1. ASSUME NEW s \in slots
      PROVE  /\ s = Slot(s.at, s.op) /\ s.at \in Range(c) \cap (1 .. Len(list2))
             /\ s.op \in Targets(list2[s.at].type) /\ list2[s.at][s.op] = None
  <2>1. /\ s = Slot(s.at, s.op) /\ s.at \in Range(c) /\ s.at \in 1 .. Len(list)
        /\ s.op \in Targets(list[s.at].type) /\ list[s.at][s.op] = None
    BY DEF Waits
  <2>2. s.at \notin S
    BY <2>1
  <2>3. Same(list[s.at], list2[s.at])
    BY <2>1, <2>2 DEF Grown
  <2>4. Len(list) \in Nat /\ Len(list2) \in Nat /\ Len(list) <= Len(list2)
    BY ListingFacts DEF Grown
  <2>5. s.at \in 1 .. Len(list2)
    BY <2>1, <2>4
  <2>6. s.op \in {"op2", "op3"}
    BY <2>1, TargetsAre
  <2>7. list2[s.at].type = list[s.at].type /\ list2[s.at][s.op] = list[s.at][s.op]
    BY <2>3, <2>6 DEF Same
  <2> QED
    BY <2>1, <2>5, <2>7
<1> QED
  BY <1>1 DEF Waits

----------------------------------------------------------------------------
\* What aiming waiting slots does to a list.
LEMMA Aimed ==
    ASSUME NEW list, NEW l, Listing(list, l), NEW slots, NEW c, Waits(slots, c, list),
           NEW i, NEW l2 \in Nat, l <= l2, NEW m \in 1 .. l2, NEW S, Range(c) \subseteq S
    PROVE  /\ Grown(list, l, Aim(list, slots, i, m), l2, S)
           /\ Len(Aim(list, slots, i, m)) = Len(list)
<1> DEFINE New(j) == Retargeted(list[j], slots, j, m, j = i)
           n == Len(list)
           aimed == Aim(list, slots, i, m)
<1>1. n \in Nat /\ DOMAIN list = 1 .. n /\ l \in Nat /\ \A j \in 1 .. n : Fits(list[j], l)
  BY ListingFacts
<1>2. aimed = [j \in 1 .. n |-> New(j)]
  BY <1>1 DEF Aim
<1>3. DOMAIN aimed = 1 .. n /\ \A j \in 1 .. n : aimed[j] = New(j)
  BY <1>2
<1>4. aimed \in Seq(Range(aimed)) /\ Len(aimed) = n
  <2>1. \A j \in 1 .. n : aimed[j] \in Range(aimed)
    BY <1>3 DEF Range
  <2>2. aimed \in [1 .. n -> Range(aimed)]
    BY <1>2, <1>3, <2>1
  <2> HIDE DEF aimed, n
  <2> QED
    BY <1>1, <2>2
<1>5. ASSUME NEW j \in 1 .. n
      PROVE  /\ New(j).type = list[j].type
             /\ New(j).op2 = IF Slot(j, "op2") \in slots THEN m ELSE list[j].op2
             /\ New(j).op3 = IF Slot(j, "op3") \in slots THEN m ELSE list[j].op3
             /\ New(j).label \in {m, list[j].label}
  BY DEF Retargeted
<1>6. ASSUME NEW j \in 1 .. n, NEW op \in {"op2", "op3"}
      PROVE  /\ New(j)[op] = IF Slot(j, op) \in slots THEN m ELSE list[j][op]
  BY <1>5
<1> HIDE DEF New, aimed, n
<1>7. ASSUME NEW j \in 1 .. n, NEW op \in {"op2", "op3"}, Slot(j, op) \in slots
      PROVE  j \in Range(c) /\ list[j][op] = None
  <2>1. Slot(j, op).at = j /\ Slot(j, op).op = op
    BY DEF Slot
  <2> QED
    BY <1>7, <2>1 DEF Waits
<1>8. ASSUME NEW j \in 1 .. n PROVE Fits(aimed[j], l2)
  <2>1. LabelIn(m, l2)
    BY DEF LabelIn
  <2>2. Fits(list[j], l2)
    BY <1>1, FitsMore
  <2>3. LabelIn(New(j).label, l2)
    BY <1>5, <2>1, <2>2 DEF Fits
  <2>4. ASSUME NEW op \in Targets(list[j].type) PROVE LabelIn(New(j)[op], l2)
    <3>1. op \in {"op2", "op3"}
      BY TargetsAre
    <3>2. LabelIn(list[j][op], l2)
      BY <2>2 DEF Fits
    <3>3. New(j)[op] \in {m, list[j][op]}
      BY <1>6, <3>1
    <3> QED
      BY <2>1, <3>2, <3>3
  <2>5. New(j).type = list[j].type
    BY <1>5
  <2>6. Fits(New(j), l2)
    BY <2>3, <2>4, <2>5 DEF Fits
  <2> QED
    BY <1>3, <2>6
<1>9. ASSUME NEW j \in 1 .. n PROVE Firm(list[j], aimed[j])
  <2>1. New(j).type = list[j].type
    BY <1>5
  <2>2. ASSUME NEW op \in Targets(list[j].type), list[j][op] # None PROVE New(j)[op] = list[j][op]
    <3>1. op \in {"op2", "op3"}
      BY TargetsAre
    <3>2. Slot(j, op) \notin slots
      BY <1>7, <2>2, <3>1
    <3> QED
      BY <1>6, <3>1, <3>2
  <2>3. Firm(list[j], New(j))
    BY <2>1, <2>2 DEF Firm
  <2> QED
    BY <1>3, <2>3
<1>10. ASSUME NEW j \in 1 .. n, j \notin S PROVE Same(list[j], aimed[j])
  <2>1. Slot(j, "op2") \notin slots /\ Slot(j, "op3") \notin slots
    BY <1>7, <1>10
  <2>2. Same(list[j], New(j))
    BY <1>5, <2>1 DEF Same
  <2> QED
    BY <1>3, <2>2
<1>11. Listing(aimed, l2)
  BY <1>4, <1>8 DEF Listing
<1>12. Grown(list, l, aimed, l2, S)
  BY <1>1, <1>4, <1>9, <1>10, <1>11 DEF Grown, n
<1> QED
  BY <1>4, <1>12 DEF aimed, n

\* Slots that are not aimed at keep waiting.
LEMMA AimedApart ==
    ASSUME NEW list, NEW l, Listing(list, l), NEW slots, NEW others, NEW c, Waits(others, c, list),
           slots \cap others = {}, NEW i, NEW m
    PROVE  Waits(others, c, Aim(list, slots, i, m))
<1> DEFINE New(j) == Retargeted(list[j], slots, j, m, j = i)
           n == Len(list)
           aimed == Aim(list, slots, i, m)
<1>1. n \in Nat /\ DOMAIN list = 1 .. n
  BY ListingFacts
<1>2. aimed = [j \in 1 .. n |-> New(j)]
  BY <1>1 DEF Aim
<1>3. DOMAIN aimed = 1 .. n /\ Len(aimed) = n /\ \A j \in 1 .. n : aimed[j] = New(j)
  BY <1>1, <1>2
<1>4. ASSUME NEW j \in 1 .. n, NEW op \in {"op2", "op3"}, Slot(j, op) \notin slots
      PROVE  New(j).type = list[j].type /\ New(j)[op] = list[j][op]
  BY <1>4 DEF Retargeted
<1> HIDE DEF New, aimed, n
<1>5. ASSUME NEW s \in others
      PROVE  /\ s = Slot(s.at, s.op) /\ s.at \in Range(c) \cap (1 .. Len(aimed))
             /\ s.op \in Targets(aimed[s.at].type) /\ aimed[s.at][s.op] = None
  <2>1. /\ s = Slot(s.at, s.op) /\ s.at \in Range(c) /\ s.at \in 1 .. n
        /\ s.op \in Targets(list[s.at].type) /\ list[s.at][s.op] = None
    BY DEF Waits, n
  <2>2. s.op \in {"op2", "op3"} /\ Slot(s.at, s.op) \notin slots
    BY <2>1, TargetsAre
  <2>3. New(s.at).type = list[s.at].type /\ New(s.at)[s.op] = list[s.at][s.op]
    BY <1>4, <2>1, <2>2
  <2> QED
    BY <1>3, <2>1, <2>3
<1> QED
  BY <1>5 DEF Waits, aimed

\* Branch aims at both lists of the result of a condition.
LEMMA Branched ==
    ASSUME NEW list, NEW l, Listing(list, l), NEW rem, NEW c,
           Waits(rem.rem_true, c, list), Waits(rem.rem_false, c, list),
           rem.rem_true \cap rem.rem_false = {},
           NEW yes, NEW no, NEW l2 \in Nat, l <= l2, NEW m \in 1 .. l2, m + 1 <= l2,
           NEW S, Range(c) \subseteq S
    PROVE  /\ Grown(list, l, Branch(list, rem, yes, no, m), l2, S)
           /\ Len(Branch(list, rem, yes, no, m)) = Len(list)
<1> DEFINE first == Aim(list, rem.rem_true, yes, m)
<1>1. Grown(list, l, first, l2, S) /\ Len(first) = Len(list)
  BY Aimed
<1>2. Waits(rem.rem_false, c, first)
  BY AimedApart
<1>3. Listing(first, l2)
  BY <1>1 DEF Grown
<1>4. m + 1 \in 1 .. l2
  OBVIOUS
<1>5. Branch(list, rem, yes, no, m) = Aim(first, rem.rem_false, no, m + 1)
  BY DEF Branch
<1> HIDE DEF first
<1>6. /\ Grown(first, l2, Aim(first, rem.rem_false, no, m + 1), l2, S)
      /\ Len(Aim(first, rem.rem_false, no, m + 1)) = Len(first)
  BY <1>2, <1>3, <1>4, Aimed
<1>7. Grown(list, l, Aim(first, rem.rem_false, no, m + 1), l2, S)
  BY <1>1, <1>6, GrownAgain
<1> QED
  BY <1>1, <1>5, <1>6, <1>7

----------------------------------------------------------------------------
\* The instructions the generator makes.
LEMMA PlainFits ==
    ASSUME NEW type, Targets(type) = {}, NEW a, NEW b, NEW c, NEW l
    PROVE  Fits(Instruction(type, a, b, c), l)
BY DEF Fits, LabelIn, Instruction

LEMMA JumpFits ==
    ASSUME NEW m, NEW l, LabelIn(m, l)
    PROVE  Fits(Instruction("jumpI", None, None, m), l)
BY DEF Fits, LabelIn, Instruction, Targets

LEMMA BranchFits ==
    ASSUME NEW a, NEW l
    PROVE  Fits(Instruction("cbr", a, None, None), l)
BY DEF Fits, LabelIn, Instruction, Targets

\* A code within the instructions of a list or made after them.
LEMMA OneMore ==
    ASSUME NEW n \in Nat, NEW C, C \subseteq 1 .. n, NEW c \in Codes(C)
    PROVE  /\ Append(c, n + 1) \in Codes(C \cup (n + 1 .. n + 1))
           /\ Range(Append(c, n + 1)) = Range(c) \cup {n + 1}
<1>1. c \in Seq(C) /\ c \in Seq(C \cup {n + 1})
  BY CodeFacts, SeqMonotonic
<1>2. Append(c, n + 1) = c \o <<n + 1>>
  BY <1>1, AppendIsConcat
<1>3. <<n + 1>> \in Codes({n + 1}) /\ Range(<<n + 1>>) = {n + 1}
  BY OneCode
<1>4. C \cap {n + 1} = {}
  OBVIOUS
<1>5. n + 1 .. n + 1 = {n + 1}
  OBVIOUS
<1>6. /\ c \o <<n + 1>> \in Codes(C \cup {n + 1})
      /\ Range(c \o <<n + 1>>) = Range(c) \cup Range(<<n + 1>>)
  <2> DEFINE e == <<n + 1>>
             D == {n + 1}
  <2>1. C \cap D = {} /\ e \in Codes(D)
    BY <1>3, <1>4
  <2> HIDE DEF e, D
  <2>2. c \in Codes(C)
    OBVIOUS
  <2>3. c \o e \in Codes(C \cup D)
    BY <2>1, <2>2, JoinedCodes
  <2>4. Range(c \o e) = Range(c) \cup Range(e)
    BY <2>1, <2>2, JoinedRange
  <2> QED
    BY <2>3, <2>4 DEF e, D
<1> QED
  BY <1>2, <1>3, <1>5, <1>6

LEMMA NextOrNop ==
    ASSUME NEW list, NEW l, Listing(list, l), NEW C, C \subseteq 1 .. Len(list), NEW c \in Codes(C), NEW T
    PROVE  /\ Grown(list, l, OrNop(list, c).iloc, l, T)
           /\ OrNop(list, c).code \in Codes(C \cup (Len(list) + 1 .. Len(OrNop(list, c).iloc)))
<1> DEFINE n == Len(list)
           nop == Instruction("nop", None, None, None)
<1>1. n \in Nat /\ l \in Nat
  BY ListingFacts
<1>2. CASE c = <<>>
  <2>1. OrNop(list, c).iloc = Append(list, nop) /\ OrNop(list, c).code = <<n + 1>>
    BY <1>2 DEF OrNop
  <2>2. Fits(nop, l)
    BY PlainFits DEF Targets
  <2> HIDE DEF nop
  <2>3. Grown(list, l, Append(list, nop), l, T) /\ Len(Append(list, nop)) = n + 1
    BY <1>1, <2>2, AppendedOne
  <2>4. {n + 1} \subseteq C \cup (n + 1 .. n + 1)
    BY <1>1
  <2>5. <<n + 1>> \in Codes(C \cup (n + 1 .. n + 1))
    <3>1. <<n + 1>> \in Codes({n + 1})
      BY OneCode
    <3> DEFINE D == {n + 1}
               e == <<n + 1>>
               E == C \cup (n + 1 .. n + 1)
    <3>2. D \subseteq E /\ e \in Codes(D)
      BY <2>4, <3>1
    <3> HIDE DEF D, e, E
    <3>3. e \in Codes(E)
      BY <3>2, CodeGrows
    <3> QED
      BY <3>3 DEF e, E
  <2> QED
    BY <2>1, <2>3, <2>5
<1>3. CASE c # <<>>
  <2>1. OrNop(list, c).iloc = list /\ OrNop(list, c).code = c
    BY <1>3 DEF OrNop
  <2>2. Grown(list, l, list, l, T)
    BY GrownSame
  <2>3. c \in Codes(C \cup (n + 1 .. n))
    BY CodeGrows
  <2> QED
    BY <2>1, <2>2, <2>3
<1> QED
  BY <1>2, <1>3

\* The answer of an operator: its code, in C or after the first n
\* instructions, and the slots that wait in it.
Answers(x, C, n) ==
    /\ x.code \in Codes(C \cup (n + 1 .. Len(x.iloc)))
    /\ Waits(x.rem_true, x.code, x.iloc) /\ Waits(x.rem_false, x.code, x.iloc)
    /\ x.rem_true \cap x.rem_false = {}

LEMMA BranchTested ==
    ASSUME NEW list, NEW l, Listing(list, l), NEW C, C \subseteq 1 .. Len(list), NEW c \in Codes(C), NEW T
    PROVE  Grown(list, l, Tested(list, c).iloc, l, T) /\ Answers(Tested(list, c), C, Len(list))
<1> DEFINE n == Len(list)
           cbr == Instruction("cbr", op3(list, c), None, None)
           y == Tested(list, c)
<1>1. n \in Nat /\ l \in Nat
  BY ListingFacts
<1>2. /\ y.iloc = Append(list, cbr) /\ y.code = Append(c, n + 1)
      /\ y.rem_true = {Slot(n + 1, "op2")} /\ y.rem_false = {Slot(n + 1, "op3")}
  BY DEF Tested
<1>3. Fits(cbr, l) /\ cbr.type = "cbr" /\ cbr.op2 = None /\ cbr.op3 = None
  BY BranchFits DEF Instruction
<1> HIDE DEF cbr, y
<1>4. /\ Grown(list, l, Append(list, cbr), l, T) /\ Len(Append(list, cbr)) = n + 1
      /\ Append(list, cbr)[n + 1] = cbr
  BY <1>1, <1>3, AppendedOne
<1>5. /\ Append(c, n + 1) \in Codes(C \cup (n + 1 .. n + 1))
      /\ n + 1 \in Range(Append(c, n + 1))
  BY <1>1, OneMore
<1>6. Targets("cbr") = {"op2", "op3"}
  BY DEF Targets
<1>7. Slot(n + 1, "op2").at = n + 1 /\ Slot(n + 1, "op2").op = "op2"
  BY DEF Slot
<1>8. Slot(n + 1, "op3").at = n + 1 /\ Slot(n + 1, "op3").op = "op3"
  BY DEF Slot
<1>9. n + 1 \in 1 .. Len(y.iloc) /\ y.iloc[n + 1] = cbr /\ n + 1 \in Range(y.code)
  BY <1>1, <1>2, <1>4, <1>5
<1>10. Waits({Slot(n + 1, "op2")}, y.code, y.iloc)
  BY <1>3, <1>6, <1>7, <1>9 DEF Waits
<1>11. Waits({Slot(n + 1, "op3")}, y.code, y.iloc)
  BY <1>3, <1>6, <1>8, <1>9 DEF Waits
<1>12. {Slot(n + 1, "op2")} \cap {Slot(n + 1, "op3")} = {}
  BY <1>7, <1>8
<1>13. Answers(y, C, n)
  BY <1>2, <1>4, <1>5, <1>10, <1>11, <1>12 DEF Answers
<1> QED
  BY <1>2, <1>4, <1>13 DEF y, n

LEMMA ShortCircuited ==
    ASSUME NEW list, NEW l, Listing(list, l), NEW C, C \subseteq 1 .. Len(list), NEW e,
           NEW x, x.code \in Codes(C), Waits(x.rem_true, x.code, list),
           Waits(x.rem_false, x.code, list), x.rem_true \cap x.rem_false = {}, NEW T
    PROVE  /\ Grown(list, l, ShortCircuit(list, e, x).iloc, l, T)
           /\ Answers(ShortCircuit(list, e, x), C, Len(list))
<1> DEFINE n == Len(list)
           jump == Instruction("jumpI", None, None, None)
           y == ShortCircuit(list, e, x)
<1>1. n \in Nat /\ l \in Nat
  BY ListingFacts
<1>2. CASE e.kind = "AST_LITERAL"
  <2>1. /\ y.iloc = Append(list, jump) /\ y.code = <<n + 1>>
        /\ y.rem_true = IF e.val = 1 THEN {Slot(n + 1, "op3")} ELSE {}
        /\ y.rem_false = IF e.val = 1 THEN {} ELSE {Slot(n + 1, "op3")}
    BY <1>2 DEF ShortCircuit
  <2>2. Fits(jump, l) /\ jump.type = "jumpI" /\ jump.op3 = None
    <3>1. LabelIn(None, l)
      BY DEF LabelIn
    <3> QED
      BY <3>1, JumpFits DEF Instruction
  <2> HIDE DEF jump, y
  <2>3. /\ Grown(list, l, Append(list, jump), l, T) /\ Len(Append(list, jump)) = n + 1
        /\ Append(list, jump)[n + 1] = jump
    <3>1. Fits(jump, l) /\ l \in Nat /\ l <= l
      BY <1>1, <2>2
    <3> HIDE DEF n
    <3>2. Grown(list, l, Append(list, jump), l, T) /\ Len(Append(list, jump)) = Len(list) + 1
      BY <3>1, AppendedOne
    <3>3. Append(list, jump)[Len(list) + 1] = jump
      BY <3>1, AppendedOne
    <3> QED
      BY <3>2, <3>3 DEF n
  <2>4. Targets("jumpI") = {"op3"}
    BY DEF Targets
  <2>5. Slot(n + 1, "op3").at = n + 1 /\ Slot(n + 1, "op3").op = "op3"
    BY DEF Slot
  <2>6. {n + 1} \subseteq C \cup (n + 1 .. n + 1) /\ n + 1 \in 1 .. n + 1
    BY <1>1
  <2>7. <<n + 1>> \in Codes(C \cup (n + 1 .. n + 1)) /\ Range(<<n + 1>>) = {n + 1}
    <3>1. <<n + 1>> \in Codes({n + 1}) /\ Range(<<n + 1>>) = {n + 1}
      BY OneCode
    <3> DEFINE D == {n + 1}
               d == <<n + 1>>
               E == C \cup (n + 1 .. n + 1)
    <3>2. D \subseteq E /\ d \in Codes(D)
      BY <2>6, <3>1
    <3> HIDE DEF D, d, E
    <3>3. d \in Codes(E)
      BY <3>2, CodeGrows
    <3> QED
      BY <3>1, <3>3 DEF d, E
  <2>8. n + 1 \in 1 .. Len(y.iloc) /\ y.iloc[n + 1] = jump /\ n + 1 \in Range(y.code)
    BY <2>1, <2>3, <2>6, <2>7
  <2>9. Waits({Slot(n + 1, "op3")}, y.code, y.iloc)
    BY <2>2, <2>4, <2>5, <2>8 DEF Waits
  <2>10. Waits({}, y.code, y.iloc)
    BY NothingWaits
  <2>11. /\ Waits(y.rem_true, y.code, y.iloc) /\ Waits(y.rem_false, y.code, y.iloc)
         /\ y.rem_true \cap y.rem_false = {}
    BY <2>1, <2>9, <2>10
  <2>12. y.code \in Codes(C \cup (n + 1 .. Len(y.iloc)))
    BY <2>1, <2>3, <2>7
  <2>13. Answers(y, C, n)
    BY <2>11, <2>12 DEF Answers
  <2> QED
    BY <2>1, <2>3, <2>13 DEF y, n
<1>3. CASE e.kind \in {"AST_IDENTIFICADOR", "AST_VETOR_INDEXADO"}
  <2>1. y = Tested(list, x.code)
    BY <1>3 DEF ShortCircuit
  <2> QED
    BY <2>1, BranchTested
<1>4. CASE e.kind \notin {"AST_LITERAL", "AST_IDENTIFICADOR", "AST_VETOR_INDEXADO"}
  <2>1. y = [iloc |-> list, code |-> x.code, rem_true |-> x.rem_true, rem_false |-> x.rem_false]
    BY <1>4 DEF ShortCircuit
  <2>2. y.iloc = list /\ y.code = x.code /\ y.rem_true = x.rem_true /\ y.rem_false = x.rem_false
    BY <2>1
  <2> HIDE DEF y
  <2>3. Grown(list, l, list, l, T)
    BY GrownSame
  <2>4. x.code \in Codes(C \cup (n + 1 .. n))
    BY CodeGrows
  <2>5. Answers(y, C, n)
    BY <2>2, <2>4 DEF Answers
  <2> QED
    BY <2>2, <2>3, <2>5 DEF y, n
<1> QED
  BY <1>2, <1>3, <1>4

\* A copy of a code is made of new instructions with labels of its own.
LEMMA Duplicated ==
    ASSUME NEW list, NEW l, Listing(list, l), NEW C, C \subseteq 1 .. Len(list), NEW c \in Codes(C), NEW T
    PROVE  /\ Grown(list, l, Dup(list, l, c).iloc, Dup(list, l, c).labels, T)
           /\ Dup(list, l, c).code \in Codes(Len(list) + 1 .. Len(Dup(list, l, c).iloc))
<1> DEFINE n == Len(list)
           targets == UNION {{list[i].label} \cup {list[i][op] : op \in Targets(list[i].type)} : i \in Range(c)}
           old == targets \ {None}
           Fresh(m) == IF m = None THEN None ELSE l + Cardinality({k \in old : k <= m})
           Copied(i, op) == IF op \in Targets(i.type) THEN Fresh(i[op]) ELSE i[op]
           Copy(i) == [type |-> i.type, op1 |-> i.op1, op2 |-> Copied(i, "op2"), op3 |-> Copied(i, "op3"),
                       label |-> Fresh(i.label)]
           new == [k \in DOMAIN c |-> Copy(list[c[k]])]
           l2 == l + Cardinality(old)
<1>1. n \in Nat /\ l \in Nat /\ \A i \in 1 .. n : Fits(list[i], l)
  BY ListingFacts
<1>2. /\ Dup(list, l, c).iloc = list \o new /\ Dup(list, l, c).labels = l2
      /\ Dup(list, l, c).code = [k \in DOMAIN c |-> n + k]
  BY DEF Dup
<1>3. /\ Len(c) \in Nat /\ DOMAIN c = 1 .. Len(c) /\ \A k \in 1 .. Len(c) : c[k] \in 1 .. n /\ c[k] \in Range(c)
  BY CodeFacts DEF Range
<1>4. /\ \A i \in Range(c) : list[i].label \in targets
      /\ \A i \in Range(c) : \A op \in Targets(list[i].type) : list[i][op] \in targets
  OBVIOUS
<1>5. old \subseteq 1 .. l
  <2>1. \A i \in Range(c) : i \in 1 .. n
    BY CodeFacts
  <2>2. ASSUME NEW m \in targets PROVE LabelIn(m, l)
    <3>1. PICK i \in Range(c) : m = list[i].label \/ \E op \in Targets(list[i].type) : m = list[i][op]
      OBVIOUS
    <3>2. Fits(list[i], l)
      BY <1>1, <2>1
    <3> QED
      BY <3>1, <3>2 DEF Fits
  <2> HIDE DEF targets
  <2> QED
    BY <2>2 DEF LabelIn
<1>6. IsFiniteSet(old) /\ Cardinality(old) \in Nat
  <2>1. IsFiniteSet(1 .. l)
    BY <1>1, FS_Interval
  <2> HIDE DEF old
  <2>2. IsFiniteSet(old)
    BY <1>5, <2>1, FS_Subset
  <2> QED
    BY <2>2, FS_CardinalityType
<1>7. l2 \in Nat /\ l <= l2
  BY <1>1, <1>6
<1>8. new = [k \in 1 .. Len(c) |-> Copy(list[c[k]])]
  BY <1>3
<1> HIDE DEF targets
<1>9. ASSUME NEW m \in targets PROVE LabelIn(Fresh(m), l2)
  <2>1. CASE m = None
    BY <2>1 DEF LabelIn
  <2>2. CASE m # None
    <3> DEFINE upTo == {k \in old : k <= m}
    <3>1. m \in old /\ m \in 1 .. l
      BY <1>5, <2>2
    <3>2. m \in upTo /\ upTo \subseteq old
      BY <1>1, <3>1
    <3>3. Fresh(m) = l + Cardinality(upTo)
      BY <2>2
    <3> HIDE DEF upTo, old
    <3>4. IsFiniteSet(upTo) /\ Cardinality(upTo) <= Cardinality(old)
      BY <1>6, <3>2, FS_Subset
    <3>5. Cardinality(upTo) \in Nat
      BY <3>4, FS_CardinalityType
    <3>6. Cardinality(upTo) # 0
      BY <3>2, <3>4, FS_EmptySet
    <3>7. Fresh(m) \in 1 .. l2
      BY <1>1, <1>6, <3>3, <3>4, <3>5, <3>6
    <3> QED
      BY <3>7 DEF LabelIn
  <2> QED
    BY <2>1, <2>2
<1> HIDE DEF old, Fresh, l2
<1>10. ASSUME NEW k \in 1 .. Len(c) PROVE new[k] = Copy(list[c[k]]) /\ Fits(new[k], l2)
  <2> DEFINE i == list[c[k]]
  <2>1. new[k] = Copy(i)
    BY <1>8
  <2>2. i.label \in targets /\ \A op \in Targets(i.type) : i[op] \in targets
    BY <1>3, <1>4
  <2> HIDE DEF i, new
  <2>3. Copy(i).type = i.type /\ Copy(i).label = Fresh(i.label)
    OBVIOUS
  <2>4. ASSUME NEW op \in Targets(i.type) PROVE LabelIn(Copy(i)[op], l2)
    <3>1. op \in {"op2", "op3"}
      BY TargetsAre
    <3>2. Copy(i)[op] = Fresh(i[op])
      BY <3>1
    <3> QED
      BY <1>9, <2>2, <3>2
  <2>5. LabelIn(Copy(i).label, l2)
    BY <1>9, <2>2, <2>3
  <2> HIDE DEF Copy
  <2>6. Fits(Copy(i), l2)
    BY <2>3, <2>4, <2>5 DEF Fits
  <2> QED
    BY <2>1, <2>6 DEF i
<1> HIDE DEF Copy
<1>11. new \in Seq(Range(new)) /\ Len(new) = Len(c)
  <2>1. \A k \in 1 .. Len(c) : new[k] \in Range(new)
    BY <1>3, <1>8 DEF Range
  <2>2. new \in [1 .. Len(c) -> Range(new)]
    BY <1>8, <2>1
  <2> HIDE DEF new
  <2> QED
    BY <1>3, <2>2
<1> HIDE DEF new
<1>12. Grown(list, l, list \o new, l2, T) /\ Len(list \o new) = n + Len(c)
  <2> DEFINE Ok == \A k \in 1 .. Len(new) : Fits(new[k], l2)
  <2>1. Ok
    BY <1>10, <1>11
  <2>2. Ok => \A k \in 1 .. Len(new) : Fits(new[k], l2)
    OBVIOUS
  <2> HIDE DEF Ok
  <2>3. Grown(list, l, list \o new, l2, T) /\ Len(list \o new) = Len(list) + Len(new)
    BY <1>7, <1>11, <2>1, <2>2, Lengthened
  <2> QED
    BY <1>11, <2>3
<1>13. Dup(list, l, c).code = NewOnes(n, Len(c))
  BY <1>2, <1>3 DEF NewOnes
<1>14. NewOnes(n, Len(c)) \in Codes(n + 1 .. n + Len(c))
  BY <1>1, <1>3, NewCode
<1> QED
  BY <1>2, <1>12, <1>13, <1>14

----------------------------------------------------------------------------
\* What a command with a store leaves: a code in C or after the first n
\* instructions.
CodeMade(x, C, n) == x.code \in Codes(C \cup (n + 1 .. Len(x.iloc)))

LEMMA AddressOfTarget ==
    ASSUME NEW target, NEW S, NEW c \in Codes(S)
    PROVE  AddressCode(target, c) \in Codes(S)
<1>1. Len(c) - 1 \in Int /\ Len(c) - 1 <= Len(c)
  BY CodeFacts
<1>2. Front(c) = SubSeq(c, 1, Len(c) - 1)
  BY DEF Front
<1>3. Front(c) \in Codes(S)
  BY <1>1, <1>2, PartOfCode
<1> QED
  BY <1>3, EmptyCode DEF AddressCode

LEMMA StoreFits ==
    ASSUME NEW list, NEW target, NEW a, NEW c, NEW l
    PROVE  /\ Fits(StoreInto(list, target, a, c), l)
           /\ StoreInto(list, target, a, c).type \in {"storeAI", "storeAO"}
<1>1. \E o1, o2, o3 : \E type \in {"storeAI", "storeAO"} :
         StoreInto(list, target, a, c) = Instruction(type, o1, o2, o3)
  BY DEF StoreInto
<1>2. \A type \in {"storeAI", "storeAO"} : Targets(type) = {}
  BY DEF Targets
<1> QED
  BY <1>1, <1>2, PlainFits DEF Instruction

LEMMA StoredGrows ==
    ASSUME NEW list, NEW l, Listing(list, l), NEW target, NEW a, NEW c, NEW T
    PROVE  /\ Grown(list, l, Stored(list, l, target, a, c).iloc, l, T)
           /\ Stored(list, l, target, a, c).labels = l
           /\ Len(Stored(list, l, target, a, c).iloc) = Len(list) + 1
<1> DEFINE store == StoreInto(list, target, a, c)
           y == Stored(list, l, target, a, c)
<1>1. l \in Nat
  BY ListingFacts
<1>2. y.iloc = Append(list, store) /\ y.labels = l
  BY DEF Stored
<1>3. Fits(store, l)
  BY StoreFits
<1> HIDE DEF store
<1>4. Grown(list, l, Append(list, store), l, T) /\ Len(Append(list, store)) = Len(list) + 1
  BY <1>1, <1>3, AppendedOne
<1> QED
  BY <1>2, <1>4

LEMMA StoredOne ==
    ASSUME NEW list, NEW l, Listing(list, l), NEW A, NEW C, A \cap C = {},
           A \subseteq 1 .. Len(list), C \subseteq 1 .. Len(list),
           NEW a \in Codes(A), NEW c \in Codes(C), NEW target, NEW T
    PROVE  /\ Grown(list, l, Stored(list, l, target, a, c).iloc, l, T)
           /\ Stored(list, l, target, a, c).labels = l
           /\ CodeMade(Stored(list, l, target, a, c), A \cup C, Len(list))
<1> DEFINE n == Len(list)
           y == Stored(list, l, target, a, c)
           address == AddressCode(target, a)
           D == n + 1 .. n + 1
           e == <<n + 1>>
<1>1. n \in Nat /\ l \in Nat
  BY ListingFacts
<1>2. y.code = (address \o c) \o e
  BY DEF Stored
<1>3. Grown(list, l, y.iloc, l, T) /\ y.labels = l /\ Len(y.iloc) = n + 1
  BY StoredGrows
<1>4. address \in Codes(A)
  BY AddressOfTarget
<1>5. e \in Codes(D)
  <2>1. D = {n + 1}
    BY <1>1
  <2> QED
    BY <2>1, OneCode
<1> HIDE DEF address, e
<1>6. address \o c \in Codes(A \cup C)
  BY <1>4, JoinedCodes
<1>7. (A \cup C) \cap D = {}
  BY <1>1
<1> HIDE DEF D
<1>8. (address \o c) \o e \in Codes((A \cup C) \cup D)
  BY <1>5, <1>6, <1>7, JoinedCodes
<1>9. CodeMade(y, A \cup C, n)
  BY <1>2, <1>3, <1>8 DEF CodeMade, D
<1> QED
  BY <1>2, <1>3, <1>9

LEMMA AimLength ==
    ASSUME NEW list, Len(list) \in Nat, DOMAIN list = 1 .. Len(list), NEW slots, NEW i, NEW m
    PROVE  Len(Aim(list, slots, i, m)) = Len(list) /\ DOMAIN Aim(list, slots, i, m) = 1 .. Len(list)
BY DEF Aim

LEMMA BranchLength ==
    ASSUME NEW list, Len(list) \in Nat, DOMAIN list = 1 .. Len(list), NEW rem, NEW yes, NEW no, NEW m
    PROVE  Len(Branch(list, rem, yes, no, m)) = Len(list)
<1> DEFINE first == Aim(list, rem.rem_true, yes, m)
<1>1. Len(first) = Len(list) /\ DOMAIN first = 1 .. Len(list)
  BY AimLength
<1>2. Branch(list, rem, yes, no, m) = Aim(first, rem.rem_false, no, m + 1)
  BY DEF Branch
<1> HIDE DEF first
<1> QED
  BY <1>1, <1>2, AimLength

LEMMA AssignedOne ==
    ASSUME NEW list, NEW l, Listing(list, l), NEW A, NEW C, A \cap C = {},
           A \subseteq 1 .. Len(list), C \subseteq 1 .. Len(list), NEW a \in Codes(A),
           NEW x, x.code \in Codes(C), Waits(x.rem_true, x.code, list),
           Waits(x.rem_false, x.code, list), x.rem_true \cap x.rem_false = {},
           NEW target, NEW value
    PROVE  /\ Grown(list, l, Assigned(list, l, target, a, value, x).iloc,
                    Assigned(list, l, target, a, value, x).labels, C)
           /\ CodeMade(Assigned(list, l, target, a, value, x), A \cup C, Len(list))
<1> DEFINE n == Len(list) + 1
           y == Assigned(list, l, target, a, value, x)
           address == AddressCode(target, a)
           store == StoreInto(list, target, a, x.code)
           declared == Declared[IF target.kind = "AST_VETOR_INDEXADO" THEN target.kids[1].name ELSE target.name]
<1>1. n \in Nat /\ l \in Nat /\ n - 1 = Len(list) /\ Len(list) \in Nat
  BY ListingFacts
<1>2. address \in Codes(A)
  BY AddressOfTarget
<1>3. Fits(store, l) /\ store.type \in {"storeAI", "storeAO"}
  BY StoreFits
<1>4. CASE value.kind = "AST_LITERAL" \/ ~Of(declared, {"bool"})
  <2>1. y = Stored(list, l, target, a, x.code)
    BY <1>4 DEF Assigned
  <2> DEFINE s == Stored(list, l, target, a, x.code)
             c == x.code
  <2>2. c \in Codes(C)
    OBVIOUS
  <2> HIDE DEF c, y
  <2>3. /\ Grown(list, l, Stored(list, l, target, a, c).iloc, l, C)
        /\ Stored(list, l, target, a, c).labels = l
        /\ CodeMade(Stored(list, l, target, a, c), A \cup C, Len(list))
    <3>1. Grown(list, l, Stored(list, l, target, a, c).iloc, l, C)
      BY <2>2, StoredOne
    <3>2. Stored(list, l, target, a, c).labels = l
      BY DEF Stored
    <3>3. CodeMade(Stored(list, l, target, a, c), A \cup C, Len(list))
      BY <2>2, StoredOne
    <3> QED
      BY <3>1, <3>2, <3>3
  <2>4. Grown(list, l, y.iloc, y.labels, C) /\ CodeMade(y, A \cup C, Len(list))
    BY <2>1, <2>3 DEF c
  <2> QED
    BY <2>4 DEF y
<1>5. CASE value.kind # "AST_LITERAL" /\ Of(declared, {"bool"}) /\ Negates(value)
  <2> DEFINE load == Instruction("loadAI", rbss, 0, n + 1)
             new == <<store, load>>
             e == <<n + 1, n>>
             D == n .. n + 1
  <2>1. y.iloc = list \o new /\ y.labels = l /\ y.code = address \o e
    BY <1>5 DEF Assigned
  <2>2. Fits(load, l)
    BY PlainFits DEF Targets
  <2>3. new \in Seq({store, load}) /\ Len(new) = 2 /\ new[1] = store /\ new[2] = load
    OBVIOUS
  <2>4. \A k \in 1 .. Len(new) : Fits(new[k], l)
    BY <1>3, <2>2, <2>3
  <2>5. e \in Codes(D)
    <3>1. e \in Seq(D) /\ DOMAIN e = {1, 2} /\ e[1] = n + 1 /\ e[2] = n
      BY <1>1
    <3>2. \A i, j \in DOMAIN e : e[i] = e[j] => i = j
      BY <1>1, <3>1
    <3> HIDE DEF e, D
    <3> QED
      BY <3>1, <3>2, CodeIs
  <2> HIDE DEF store, load, new, e, y, address
  <2>6. Grown(list, l, list \o new, l, C) /\ Len(list \o new) = n + 1
    <3> DEFINE Ok == \A k \in 1 .. Len(new) : Fits(new[k], l)
    <3>1. Ok
      BY <2>4
    <3>2. Ok => \A k \in 1 .. Len(new) : Fits(new[k], l)
      OBVIOUS
    <3> HIDE DEF Ok
    <3>3. l \in Nat /\ l <= l /\ new \in Seq({store, load})
      BY <1>1, <2>3
    <3>4. Grown(list, l, list \o new, l, C)
      BY <3>1, <3>2, <3>3, Lengthened
    <3>5. Len(list \o new) = Len(list) + Len(new)
      BY <3>1, <3>2, <3>3, Lengthened
    <3> QED
      BY <1>1, <2>3, <3>4, <3>5
  <2>7. A \cap D = {} /\ A \cup D \subseteq (A \cup C) \cup (Len(list) + 1 .. n + 1)
    BY <1>1
  <2> HIDE DEF D
  <2>8. address \o e \in Codes(A \cup D)
    BY <1>2, <2>5, <2>7, JoinedCodes
  <2>9. y.code \in Codes((A \cup C) \cup (Len(list) + 1 .. n + 1))
    <3> DEFINE E == (A \cup C) \cup (Len(list) + 1 .. n + 1)
               F == A \cup D
               f == address \o e
    <3>1. F \subseteq E /\ f \in Codes(F)
      BY <2>7, <2>8
    <3> HIDE DEF E, F, f
    <3>2. f \in Codes(E)
      BY <3>1, CodeGrows
    <3> QED
      BY <2>1, <3>2 DEF f, E
  <2>10. CodeMade(y, A \cup C, Len(list))
    BY <2>1, <2>6, <2>9 DEF CodeMade
  <2> QED
    BY <2>1, <2>6, <2>10 DEF y
<1>6. CASE value.kind # "AST_LITERAL" /\ Of(declared, {"bool"}) /\ ~Negates(value)
  <2> DEFINE labelled == [store EXCEPT !.op1 = n + 1, !.label = l + 3]
             jump == Instruction("jumpI", None, None, l + 3)
             load1 == Load01(n + 1)[1]
             load0 == Load01(n + 1)[2]
             new == <<labelled, load1, jump, load0>>
             before == list \o new
             e == <<n + 1, n + 2, n + 3, n>>
             D == n .. n + 3
             l2 == l + 3
  <2>1. /\ y.iloc = Branch(before, x, n + 1, n + 3, l + 1) /\ y.labels = l2
        /\ y.code = (address \o x.code) \o e
    BY <1>6 DEF Assigned
  <2>2. Fits(load1, l2) /\ Fits(load0, l2)
    <3>1. load1 = Instruction("loadI", 1, None, n + 1) /\ load0 = Instruction("loadI", 0, None, n + 1)
      BY DEF Load01
    <3>2. Targets("loadI") = {}
      BY DEF Targets
    <3> QED
      BY <3>1, <3>2, PlainFits
  <2>3. Fits(jump, l2)
    <3>1. LabelIn(l2, l2)
      BY <1>1 DEF LabelIn
    <3> QED
      BY <3>1, JumpFits
  <2>4. Fits(labelled, l2)
    <3>1. \E o1, o2, o3 : \E type \in {"storeAI", "storeAO"} : store = Instruction(type, o1, o2, o3)
      BY DEF StoreInto
    <3>2. PICK o1, o2, o3 : \E type \in {"storeAI", "storeAO"} : store = Instruction(type, o1, o2, o3)
      BY <3>1
    <3>3. PICK type \in {"storeAI", "storeAO"} : store = Instruction(type, o1, o2, o3)
      BY <3>2
    <3>4. labelled.type = type /\ labelled.label = l2
      BY <3>3 DEF Instruction
    <3>5. Targets(type) = {} /\ LabelIn(l2, l2)
      BY <1>1 DEF Targets, LabelIn
    <3> QED
      BY <3>4, <3>5 DEF Fits
  <2>5. /\ new \in Seq({labelled, load1, jump, load0}) /\ Len(new) = 4
        /\ new[1] = labelled /\ new[2] = load1 /\ new[3] = jump /\ new[4] = load0
    OBVIOUS
  <2> HIDE DEF labelled, jump, load1, load0, new
  <2>6. \A k \in 1 .. Len(new) : Fits(new[k], l2)
    <3>1. \A k \in 1 .. Len(new) : k \in {1, 2, 3, 4}
      BY <2>5
    <3> QED
      BY <2>2, <2>3, <2>4, <2>5, <3>1
  <2>7. e \in Codes(D)
    <3>1. e \in Seq(D) /\ DOMAIN e = {1, 2, 3, 4} /\ e[1] = n + 1 /\ e[2] = n + 2 /\ e[3] = n + 3 /\ e[4] = n
      BY <1>1
    <3>2. \A i, j \in DOMAIN e : e[i] = e[j] => i = j
      BY <1>1, <3>1
    <3> HIDE DEF e, D
    <3> QED
      BY <3>1, <3>2, CodeIs
  <2> HIDE DEF store, e, y, address
  <2>8. l2 \in Nat /\ l <= l2 /\ l + 1 \in 1 .. l2 /\ (l + 1) + 1 <= l2 /\ l2 <= l2
    BY <1>1
  <2>9. /\ Grown(list, l, before, l2, {}) /\ Len(before) = n + 3
    <3> DEFINE Ok == \A k \in 1 .. Len(new) : Fits(new[k], l2)
    <3>1. Ok
      BY <2>6
    <3>2. Ok => \A k \in 1 .. Len(new) : Fits(new[k], l2)
      OBVIOUS
    <3> HIDE DEF Ok, l2
    <3>3. l2 \in Nat /\ l <= l2 /\ new \in Seq({labelled, load1, jump, load0})
      BY <2>5, <2>8
    <3>4. Grown(list, l, list \o new, l2, {})
      BY <3>1, <3>2, <3>3, Lengthened
    <3>5. Len(list \o new) = Len(list) + Len(new)
      BY <3>1, <3>2, <3>3, Lengthened
    <3> QED
      BY <1>1, <2>5, <3>4, <3>5
  <2> HIDE DEF before, l2
  <2>10. Listing(before, l2)
    BY <2>9 DEF Grown
  <2>11. Waits(x.rem_true, x.code, before) /\ Waits(x.rem_false, x.code, before)
    <3>1. Range(x.code) \cap {} = {}
      OBVIOUS
    <3> QED
      BY <2>9, <3>1, WaitsOn
  <2>12. Range(x.code) \subseteq C
    BY CodeFacts
  <2> DEFINE after == Branch(before, x, n + 1, n + 3, l + 1)
  <2>13. Grown(before, l2, after, l2, C) /\ Len(after) = n + 3
    <3> DEFINE m == l + 1
               yes == n + 1
               no == n + 3
    <3>1. m \in 1 .. l2 /\ m + 1 <= l2
      BY <2>8
    <3> HIDE DEF m, yes, no
    <3>2. Grown(before, l2, Branch(before, x, yes, no, m), l2, C)
      BY <2>8, <2>10, <2>11, <2>12, <3>1, Branched
    <3>3. Len(Branch(before, x, yes, no, m)) = Len(before)
      <4>1. Len(before) \in Nat /\ DOMAIN before = 1 .. Len(before)
        BY <2>10, ListingFacts
      <4> QED
        BY <4>1, BranchLength
    <3> QED
      BY <2>9, <3>2, <3>3 DEF m, yes, no
  <2> HIDE DEF after
  <2>14. Grown(list, l, after, l2, C)
    <3>1. {} \subseteq C
      OBVIOUS
    <3> QED
      BY <2>9, <2>13, <3>1, GrownAgain
  <2>15. address \o x.code \in Codes(A \cup C)
    BY <1>2, JoinedCodes
  <2>16. (A \cup C) \cap D = {} /\ D = Len(list) + 1 .. n + 3
    BY <1>1
  <2> HIDE DEF D
  <2>17. (address \o x.code) \o e \in Codes((A \cup C) \cup D)
    BY <2>7, <2>15, <2>16, JoinedCodes
  <2>18. CodeMade(y, A \cup C, Len(list))
    BY <2>1, <2>13, <2>16, <2>17 DEF CodeMade, after
  <2> QED
    BY <2>1, <2>14, <2>18 DEF y, after
<1> QED
  BY <1>4, <1>5, <1>6

----------------------------------------------------------------------------
\* The instructions a result holds, and when it is a proper one.
Reach(x) == UNION {Range(x.exps[e]) : e \in DOMAIN x.exps}
Sound(x, list) ==
    /\ x.exps \in Seq(Codes(1 .. Len(list))) /\ Len(x.exps) >= 1 /\ x.code \in {<<>>, x.exps[1]}
    /\ \A d, e \in DOMAIN x.exps : d # e => Range(x.exps[d]) \cap Range(x.exps[e]) = {}
    /\ Waits(x.rem_true, x.code, list) /\ Waits(x.rem_false, x.code, list)
    /\ x.rem_true \cap x.rem_false = {}

LEMMA ReachIs ==
    ASSUME NEW x, NEW i
    PROVE  i \in Reach(x) <=> \E e \in DOMAIN x.exps : i \in Range(x.exps[e])
BY DEF Reach

LEMMA ResultFacts ==
    ASSUME NEW x, NEW list, Sound(x, list)
    PROVE  /\ Len(x.exps) \in Nat /\ Len(x.exps) >= 1 /\ DOMAIN x.exps = 1 .. Len(x.exps)
           /\ \A e \in DOMAIN x.exps : x.exps[e] \in Codes(1 .. Len(list)) /\ Range(x.exps[e]) \subseteq Reach(x)
           /\ Reach(x) \subseteq 1 .. Len(list)
           /\ x.code \in Codes(Reach(x))
<1>1. x.exps \in Seq(Codes(1 .. Len(list))) /\ Len(x.exps) >= 1 /\ x.code \in {<<>>, x.exps[1]}
  BY DEF Sound
<1>2. Len(x.exps) \in Nat /\ DOMAIN x.exps = 1 .. Len(x.exps)
  BY <1>1
<1>3. \A e \in DOMAIN x.exps : x.exps[e] \in Codes(1 .. Len(list))
  <2> DEFINE S == Codes(1 .. Len(list))
  <2>1. x.exps \in Seq(S)
    BY <1>1
  <2> HIDE DEF S
  <2>2. \A e \in DOMAIN x.exps : x.exps[e] \in S
    BY <2>1
  <2> QED
    BY <2>2 DEF S
<1>4. \A e \in DOMAIN x.exps : Range(x.exps[e]) \subseteq Reach(x)
  BY ReachIs
<1>5. Reach(x) \subseteq 1 .. Len(list)
  <2>1. ASSUME NEW i \in Reach(x) PROVE i \in 1 .. Len(list)
    <3>1. PICK e \in DOMAIN x.exps : i \in Range(x.exps[e])
      BY ReachIs
    <3>2. x.exps[e] \in Codes(1 .. Len(list))
      BY <1>3
    <3> QED
      BY <3>1, <3>2, CodeFacts
  <2> QED
    BY <2>1
<1>6. x.code \in Codes(Reach(x))
  <2>1. CASE x.code = <<>>
    BY <2>1, EmptyCode
  <2>2. CASE x.code = x.exps[1]
    <3>1. 1 \in DOMAIN x.exps
      BY <1>1, <1>2
    <3>2. x.code \in Codes(Range(x.code))
      BY <1>3, <2>2, <3>1, CodeRange
    <3>3. Range(x.code) \subseteq Reach(x)
      BY <1>4, <2>2, <3>1
    <3> QED
      BY <3>2, <3>3, CodeGrows
  <2> QED
    BY <1>1, <2>1, <2>2
<1> QED
  BY <1>1, <1>2, <1>3, <1>4, <1>5, <1>6

LEMMA ResultStays ==
    ASSUME NEW x, NEW list, NEW l, Listing(list, l), Sound(x, list), NEW list2, NEW l2, NEW S,
           Grown(list, l, list2, l2, S), Reach(x) \cap S = {}
    PROVE  Sound(x, list2)
<1>1. /\ x.exps \in Seq(Codes(1 .. Len(list))) /\ Len(x.exps) >= 1 /\ x.code \in {<<>>, x.exps[1]}
      /\ \A d, e \in DOMAIN x.exps : d # e => Range(x.exps[d]) \cap Range(x.exps[e]) = {}
      /\ Waits(x.rem_true, x.code, list) /\ Waits(x.rem_false, x.code, list)
      /\ x.rem_true \cap x.rem_false = {}
  BY DEF Sound
<1>2. Codes(1 .. Len(list)) \subseteq Codes(1 .. Len(list2))
  <2>1. Len(list) \in Nat /\ Len(list2) \in Nat /\ Len(list) <= Len(list2)
    BY ListingFacts DEF Grown
  <2>2. 1 .. Len(list) \subseteq 1 .. Len(list2)
    BY <2>1
  <2> QED
    BY <2>2, CodeGrows
<1>3. x.exps \in Seq(Codes(1 .. Len(list2)))
  <2> DEFINE A == Codes(1 .. Len(list))
             B == Codes(1 .. Len(list2))
  <2>1. x.exps \in Seq(A) /\ A \subseteq B
    BY <1>1, <1>2
  <2> HIDE DEF A, B
  <2>2. x.exps \in Seq(B)
    BY <2>1, SeqMonotonic
  <2> QED
    BY <2>2 DEF B
<1>4. Range(x.code) \cap S = {}
  <2>1. x.code \in Codes(Reach(x))
    BY ResultFacts
  <2>2. Range(x.code) \subseteq Reach(x)
    BY <2>1, CodeFacts
  <2> QED
    BY <2>2
<1>5. Waits(x.rem_true, x.code, list2) /\ Waits(x.rem_false, x.code, list2)
  BY <1>1, <1>4, WaitsOn
<1> QED
  BY <1>1, <1>3, <1>5 DEF Sound

\* The result of a node that is no list.
LEMMA OneResult ==
    ASSUME NEW list, NEW S, S \subseteq 1 .. Len(list), NEW c \in Codes(S), NEW yes, NEW no,
           Waits(yes, c, list), Waits(no, c, list), yes \cap no = {}
    PROVE  Sound(Left(c, yes, no, <<c>>), list) /\ Reach(Left(c, yes, no, <<c>>)) \subseteq S
<1> DEFINE x == Left(c, yes, no, <<c>>)
<1>1. x.code = c /\ x.rem_true = yes /\ x.rem_false = no /\ x.exps = <<c>>
  BY DEF Left
<1>2. DOMAIN <<c>> = {1} /\ Len(<<c>>) = 1 /\ <<c>>[1] = c
  OBVIOUS
<1>3. c \in Codes(1 .. Len(list))
  BY CodeGrows
<1>4. <<c>> \in Seq(Codes(1 .. Len(list)))
  BY <1>3
<1> HIDE DEF x
<1>5. Sound(x, list)
  BY <1>1, <1>2, <1>4 DEF Sound
<1>6. Reach(x) \subseteq S
  BY <1>1, <1>2, CodeFacts, ReachIs
<1> QED
  BY <1>5, <1>6 DEF x

----------------------------------------------------------------------------
\* The inductive invariant: the results the calls hold are proper ones, and
\* share no instruction.
Stacked ==
    /\ calls \in Seq(Range(calls))
    /\ \A k \in 1 .. Len(calls) :
          /\ calls[k].tree.kids \in Seq(Trees) /\ calls[k].cc \in Seq(Range(calls[k].cc))
          /\ k > 1 => calls[k].tree \in Trees
Results ==
    \A k \in 1 .. Len(calls) : \A n \in 1 .. Len(calls[k].cc) : Sound(calls[k].cc[n], iloc)
Separate ==
    \A k, l \in 1 .. Len(calls) : \A m \in 1 .. Len(calls[k].cc), n \in 1 .. Len(calls[l].cc) :
       (k # l \/ m # n) => Reach(calls[k].cc[m]) \cap Reach(calls[l].cc[n]) = {}
Held == Stacked /\ Listing(iloc, labels) /\ Results /\ Separate
CodeInvariant ==
    /\ ast \in Programs /\ tests \in 0 .. MaxTests
    /\ status \in {"parsed", "rejected", "crashed", "generating", "built", "refused", "running", "halted"}
    /\ status = "generating" => Len(calls) >= 1
    /\ Held

\* What the call that ends holds: all of it, and by child.
TopReach == UNION {Reach(Top.cc[n]) : n \in 1 .. Len(Top.cc)}
KidReach(i) == IF i <= Len(Top.cc) THEN Reach(Top.cc[i]) ELSE {}

LEMMA Calls ==
    ASSUME Held
    PROVE  /\ Len(calls) \in Nat /\ DOMAIN calls = 1 .. Len(calls)
           /\ \A k \in 1 .. Len(calls) :
                 /\ Len(calls[k].cc) \in Nat /\ DOMAIN calls[k].cc = 1 .. Len(calls[k].cc)
                 /\ calls[k].cc \in Seq(Range(calls[k].cc))
<1>1. calls \in Seq(Range(calls)) /\ \A k \in 1 .. Len(calls) : calls[k].cc \in Seq(Range(calls[k].cc))
  BY DEF Held, Stacked
<1> QED
  BY <1>1, LenProperties

LEMMA Kids ==
    ASSUME Held, Ready
    PROVE  /\ t0 \in Trees /\ Len(t0.kids) \in Nat /\ Len(t0.kids) \in {Own(t0.kind), Own(t0.kind) + 1}
           /\ Len(Top.cc) = Len(t0.kids) /\ Top = calls[Len(calls)] /\ Len(calls) > 1 /\ Len(calls) \in Nat
           /\ Len(iloc) \in Nat /\ labels \in Nat
           /\ TopReach \subseteq 1 .. Len(iloc)
           /\ \A i \in Nat \ {0} : cc(i) \in Codes(KidReach(i)) /\ KidReach(i) \subseteq TopReach
           /\ \A i, j \in Nat \ {0} : i # j => KidReach(i) \cap KidReach(j) = {}
           /\ \A i \in 1 .. Len(Top.cc) : Sound(Top.cc[i], iloc) /\ KidReach(i) = Reach(Top.cc[i])
<1> DEFINE L == Len(calls)
<1>1. L > 1 /\ L \in Nat /\ Top = calls[L] /\ Len(Top.cc) = Len(t0.kids) /\ t0 = calls[L].tree
  BY Calls DEF Ready, Top, t0
<1>2. L \in 1 .. L
  BY <1>1
<1>3. t0 \in Trees /\ Len(Top.cc) \in Nat
  BY <1>1, <1>2, Calls DEF Held, Stacked
<1>4. Len(t0.kids) \in {Own(t0.kind), Own(t0.kind) + 1}
  BY <1>3, TreesAssumption
<1>5. Len(iloc) \in Nat /\ labels \in Nat
  BY ListingFacts DEF Held
<1>6. \A i \in 1 .. Len(Top.cc) : Sound(Top.cc[i], iloc)
  BY <1>1, <1>2 DEF Held, Results
<1>7. \A i \in 1 .. Len(Top.cc) : KidReach(i) = Reach(Top.cc[i])
  BY <1>3 DEF KidReach
<1>8. TopReach \subseteq 1 .. Len(iloc)
  <2>1. ASSUME NEW i \in 1 .. Len(Top.cc) PROVE Reach(Top.cc[i]) \subseteq 1 .. Len(iloc)
    BY <1>6, ResultFacts
  <2> QED
    BY <2>1 DEF TopReach
<1>9. ASSUME NEW i \in Nat \ {0} PROVE cc(i) \in Codes(KidReach(i)) /\ KidReach(i) \subseteq TopReach
  <2>1. CASE i <= Len(Top.cc)
    <3>1. i \in 1 .. Len(Top.cc)
      BY <1>3, <2>1
    <3>2. cc(i) = Top.cc[i].code /\ KidReach(i) = Reach(Top.cc[i])
      BY <2>1, <3>1, <1>7 DEF cc
    <3>3. Reach(Top.cc[i]) \subseteq TopReach
      BY <3>1 DEF TopReach
    <3>4. Top.cc[i].code \in Codes(Reach(Top.cc[i]))
      BY <1>6, <3>1, ResultFacts
    <3> QED
      BY <3>2, <3>3, <3>4
  <2>2. CASE ~(i <= Len(Top.cc))
    <3>1. cc(i) = <<>> /\ KidReach(i) = {}
      BY <2>2 DEF cc, KidReach
    <3> QED
      BY <3>1, EmptyCode
  <2> QED
    BY <2>1, <2>2
<1>10. ASSUME NEW i \in Nat \ {0}, NEW j \in Nat \ {0}, i # j PROVE KidReach(i) \cap KidReach(j) = {}
  <2>1. CASE i <= Len(Top.cc) /\ j <= Len(Top.cc)
    <3>1. i \in 1 .. Len(Top.cc) /\ j \in 1 .. Len(Top.cc)
      BY <1>3, <2>1
    <3>2. Reach(calls[L].cc[i]) \cap Reach(calls[L].cc[j]) = {}
      BY <1>1, <1>2, <1>10, <3>1 DEF Held, Separate
    <3> QED
      BY <1>1, <1>7, <3>1, <3>2
  <2>2. CASE ~(i <= Len(Top.cc) /\ j <= Len(Top.cc))
    BY <2>2 DEF KidReach
  <2> QED
    BY <2>1, <2>2
<1> QED
  BY <1>1, <1>3, <1>4, <1>5, <1>6, <1>7, <1>8, <1>9, <1>10

\* The end of a call: what the others hold stays, and the caller holds what
\* the call made of its parts and of new instructions.
LEMMA Answered ==
    ASSUME Held, Ready, NEW x, Answer(x), Grown(iloc, labels, iloc', labels', TopReach),
           Sound(x, iloc'), Reach(x) \subseteq TopReach \cup (Len(iloc) + 1 .. Len(iloc'))
    PROVE  Held' /\ Len(calls') >= 1
<1> DEFINE L == Len(calls)
           caller == calls[L - 1]
           grown == Call(caller.tree, Append(caller.cc, x))
           last == Len(caller.cc) + 1
<1>1. /\ L > 1 /\ L \in Nat /\ Top = calls[L] /\ Len(iloc) \in Nat /\ TopReach \subseteq 1 .. Len(iloc)
      /\ Len(Top.cc) \in Nat
  <2>1. L > 1 /\ L \in Nat /\ Top = calls[L] /\ Len(iloc) \in Nat /\ TopReach \subseteq 1 .. Len(iloc)
    BY Kids
  <2>2. L \in 1 .. L
    BY <2>1
  <2> QED
    BY <2>1, <2>2, Calls
<1>2. L - 1 \in 1 .. L /\ L \in 1 .. L /\ L - 1 # L /\ L - 1 \in Nat
  BY <1>1
<1>3. calls' = [k \in 1 .. L - 1 |-> IF k = L - 1 THEN grown ELSE calls[k]]
  BY DEF Answer
<1>4. Len(calls') = L - 1 /\ DOMAIN calls' = 1 .. L - 1 /\ calls'[L - 1] = grown
  BY <1>2, <1>3
<1>5. \A k \in 1 .. L - 1 : k # L - 1 => calls'[k] = calls[k]
  BY <1>3
<1>6. grown.tree = caller.tree /\ grown.cc = Append(caller.cc, x)
  BY DEF Call
<1>7. /\ caller.cc \in Seq(Range(caller.cc)) /\ last - 1 = Len(caller.cc) /\ last \in Nat
  <2>1. caller.cc \in Seq(Range(caller.cc)) /\ Len(caller.cc) \in Nat
    BY <1>2, Calls
  <2> QED
    BY <2>1
<1>8. /\ Len(grown.cc) = last /\ grown.cc[last] = x /\ grown.cc \in Seq(Range(grown.cc))
      /\ \A n \in 1 .. last - 1 : grown.cc[n] = caller.cc[n]
  <2> DEFINE U == Range(caller.cc) \cup {x}
             s == caller.cc
  <2>1. s \in Seq(U) /\ x \in U
    BY <1>7, SeqMonotonic
  <2> HIDE DEF U
  <2>2. /\ Append(s, x) \in Seq(U) /\ Len(Append(s, x)) = Len(s) + 1
        /\ \A n \in 1 .. Len(s) : Append(s, x)[n] = s[n]
        /\ Append(s, x)[Len(s) + 1] = x
    BY <2>1, AppendProperties
  <2>3. Append(s, x) \in Seq(Range(Append(s, x)))
    BY <2>2, SeqOfRange
  <2> QED
    BY <1>6, <1>7, <2>2, <2>3
<1> HIDE DEF grown
<1>9. calls' \in Seq(Range(calls'))
  <2>1. \A k \in 1 .. L - 1 : calls'[k] \in Range(calls')
    BY <1>4 DEF Range
  <2>2. calls' \in [1 .. L - 1 -> Range(calls')]
    BY <1>3, <1>4, <2>1
  <2> QED
    BY <1>2, <2>2
<1>10. Stacked'
  <2>1. ASSUME NEW k \in 1 .. L - 1
        PROVE  /\ calls'[k].tree.kids \in Seq(Trees) /\ calls'[k].cc \in Seq(Range(calls'[k].cc))
               /\ k > 1 => calls'[k].tree \in Trees
    <3>1. k \in 1 .. L
      BY <1>1
    <3>2. /\ calls[k].tree.kids \in Seq(Trees) /\ calls[k].cc \in Seq(Range(calls[k].cc))
          /\ k > 1 => calls[k].tree \in Trees
      BY <3>1 DEF Held, Stacked
    <3>3. CASE k = L - 1
      BY <1>4, <1>6, <1>8, <3>2, <3>3
    <3>4. CASE k # L - 1
      BY <1>5, <3>2, <3>4
    <3> QED
      BY <3>3, <3>4
  <2> QED
    BY <1>4, <1>9, <2>1 DEF Stacked
<1>11. ASSUME NEW k \in 1 .. L - 1, NEW n \in 1 .. Len(calls'[k].cc)
       PROVE  \/ k = L - 1 /\ n = last /\ calls'[k].cc[n] = x
              \/ n \in 1 .. Len(calls[k].cc) /\ calls'[k].cc[n] = calls[k].cc[n]
  <2>1. CASE k # L - 1
    BY <1>5, <1>11, <2>1
  <2>2. CASE k = L - 1
    <3>1. n \in 1 .. last /\ calls'[k].cc = grown.cc /\ calls[k].cc = caller.cc
      BY <1>4, <1>8, <2>2
    <3>2. CASE n = last
      BY <1>8, <2>2, <3>1, <3>2
    <3>3. CASE n # last
      <4>1. n \in 1 .. last - 1
        BY SMTT(30), <1>7, <3>1, <3>3
      <4> QED
        BY <1>7, <1>8, <3>1, <4>1
    <3> QED
      BY <3>2, <3>3
  <2> QED
    BY <2>1, <2>2
<1>12. ASSUME NEW k \in 1 .. L - 1, NEW n \in 1 .. Len(calls[k].cc)
       PROVE  /\ Sound(calls[k].cc[n], iloc) /\ Reach(calls[k].cc[n]) \subseteq 1 .. Len(iloc)
              /\ Reach(calls[k].cc[n]) \cap TopReach = {}
  <2>1. k \in 1 .. L /\ k # L
    BY <1>1
  <2>2. Sound(calls[k].cc[n], iloc)
    BY <2>1 DEF Held, Results
  <2>3. Reach(calls[k].cc[n]) \subseteq 1 .. Len(iloc)
    BY <2>2, ResultFacts
  <2>4. \A m \in 1 .. Len(Top.cc) : Reach(calls[k].cc[n]) \cap Reach(Top.cc[m]) = {}
    BY <1>1, <1>2, <2>1 DEF Held, Separate
  <2>5. Reach(calls[k].cc[n]) \cap TopReach = {}
    BY <2>4 DEF TopReach
  <2> QED
    BY <2>2, <2>3, <2>5
<1>13. Results'
  <2>1. ASSUME NEW k \in 1 .. L - 1, NEW n \in 1 .. Len(calls'[k].cc)
        PROVE  Sound(calls'[k].cc[n], iloc')
    <3>1. CASE calls'[k].cc[n] = x
      BY <3>1
    <3>2. CASE n \in 1 .. Len(calls[k].cc) /\ calls'[k].cc[n] = calls[k].cc[n]
      <4> DEFINE y == calls[k].cc[n]
      <4>1. Sound(y, iloc) /\ Reach(y) \cap TopReach = {}
        BY <1>12, <3>2
      <4>2. Listing(iloc, labels)
        BY DEF Held
      <4> HIDE DEF y
      <4>3. Sound(y, iloc')
        BY <4>1, <4>2, ResultStays
      <4> QED
        BY <3>2, <4>3 DEF y
    <3> QED
      BY <1>11, <3>1, <3>2
  <2> QED
    BY <1>4, <2>1 DEF Results
<1>14. ASSUME NEW k \in 1 .. L - 1, NEW n \in 1 .. Len(calls[k].cc)
       PROVE  Reach(calls[k].cc[n]) \cap Reach(x) = {}
  <2>1. Reach(calls[k].cc[n]) \subseteq 1 .. Len(iloc) /\ Reach(calls[k].cc[n]) \cap TopReach = {}
    BY <1>12
  <2>2. (1 .. Len(iloc)) \cap (Len(iloc) + 1 .. Len(iloc')) = {}
    BY <1>1
  <2> QED
    BY <2>1, <2>2
<1>15. Separate'
  <2>1. ASSUME NEW k \in 1 .. L - 1, NEW l \in 1 .. L - 1,
               NEW m \in 1 .. Len(calls'[k].cc), NEW n \in 1 .. Len(calls'[l].cc), k # l \/ m # n
        PROVE  Reach(calls'[k].cc[m]) \cap Reach(calls'[l].cc[n]) = {}
    <3>1. CASE /\ m \in 1 .. Len(calls[k].cc) /\ calls'[k].cc[m] = calls[k].cc[m]
               /\ n \in 1 .. Len(calls[l].cc) /\ calls'[l].cc[n] = calls[l].cc[n]
      <4>1. k \in 1 .. L /\ l \in 1 .. L
        BY <1>1
      <4> QED
        BY <2>1, <3>1, <4>1 DEF Held, Separate
    <3>2. CASE /\ m \in 1 .. Len(calls[k].cc) /\ calls'[k].cc[m] = calls[k].cc[m]
               /\ calls'[l].cc[n] = x
      BY <1>14, <3>2
    <3>3. CASE /\ calls'[k].cc[m] = x
               /\ n \in 1 .. Len(calls[l].cc) /\ calls'[l].cc[n] = calls[l].cc[n]
      BY <1>14, <3>3
    <3>4. CASE k = L - 1 /\ m = last /\ l = L - 1 /\ n = last
      BY <2>1, <3>4
    <3>5. \/ k = L - 1 /\ m = last /\ calls'[k].cc[m] = x
          \/ m \in 1 .. Len(calls[k].cc) /\ calls'[k].cc[m] = calls[k].cc[m]
      BY <1>11
    <3>6. \/ l = L - 1 /\ n = last /\ calls'[l].cc[n] = x
          \/ n \in 1 .. Len(calls[l].cc) /\ calls'[l].cc[n] = calls[l].cc[n]
      BY <1>11
    <3> QED
      BY <3>1, <3>2, <3>3, <3>4, <3>5, <3>6
  <2> QED
    BY <1>4, <2>1 DEF Separate
<1>16. Listing(iloc', labels')
  BY DEF Grown
<1> QED
  BY <1>2, <1>4, <1>10, <1>13, <1>15, <1>16 DEF Held

LEMMA Leaves ==
    ASSUME Held, Ready, NEW c, NEW yes, NEW no, Leave(c, yes, no),
           Grown(iloc, labels, iloc', labels', TopReach),
           c \in Codes(TopReach \cup (Len(iloc) + 1 .. Len(iloc'))),
           Waits(yes, c, iloc'), Waits(no, c, iloc'), yes \cap no = {}
    PROVE  Held' /\ Len(calls') >= 1
<1> DEFINE x == Left(c, yes, no, <<c>>)
           S == TopReach \cup (Len(iloc) + 1 .. Len(iloc'))
           list == iloc'
<1>1. Answer(x)
  BY DEF Leave
<1>2. S \subseteq 1 .. Len(list)
  <2>1. Len(iloc) \in Nat /\ TopReach \subseteq 1 .. Len(iloc)
    BY Kids
  <2>2. Listing(iloc', labels') /\ Len(iloc) <= Len(iloc')
    BY DEF Grown
  <2>3. Len(iloc') \in Nat
    BY <2>2, ListingFacts
  <2> DEFINE n == Len(iloc)
             m == Len(iloc')
  <2>4. n \in Nat /\ m \in Nat /\ n <= m /\ TopReach \subseteq 1 .. n
    BY <2>1, <2>2, <2>3
  <2> HIDE DEF n, m
  <2>5. TopReach \cup (n + 1 .. m) \subseteq 1 .. m
    BY <2>4
  <2> QED
    BY <2>5 DEF n, m
<1>3. c \in Codes(S) /\ Waits(yes, c, list) /\ Waits(no, c, list)
  OBVIOUS
<1> HIDE DEF S, list
<1>4. Sound(Left(c, yes, no, <<c>>), list) /\ Reach(Left(c, yes, no, <<c>>)) \subseteq S
  BY <1>2, <1>3, OneResult
<1>5. Sound(x, iloc') /\ Reach(x) \subseteq TopReach \cup (Len(iloc) + 1 .. Len(iloc'))
  BY <1>4 DEF S, list
<1> HIDE DEF x
<1> QED
  BY <1>1, <1>5, Answered

----------------------------------------------------------------------------
\* What every visit does to the invariant, and to the targets.
Went == Held' /\ Len(calls') >= 1 /\ Grown(iloc, labels, iloc', labels', TopReach)

LEMMA GrownWithin ==
    ASSUME NEW list, NEW l, NEW list2, NEW l2, NEW S, NEW T, NEW m,
           Listing(list, l), S \subseteq T \cup (Len(list) + 1 .. m), Grown(list, l, list2, l2, S)
    PROVE  Grown(list, l, list2, l2, T)
<1>1. Len(list) \in Nat
  BY ListingFacts
<1>2. \A i \in 1 .. Len(list) : i \notin T => i \notin S
  BY <1>1
<1> QED
  BY <1>2 DEF Grown

LEMMA SlotsApart ==
    ASSUME NEW slots, NEW others, NEW c, NEW d, NEW list, Waits(slots, c, list), Waits(others, d, list),
           Range(c) \cap Range(d) = {}
    PROVE  slots \cap others = {}
BY DEF Waits

LEMMA KidResult ==
    ASSUME Held, Ready, NEW i \in Nat \ {0}, i <= Own(t0.kind)
    PROVE  /\ Of0(i).code = cc(i) /\ cc(i) \in Codes(KidReach(i)) /\ KidReach(i) \subseteq TopReach
           /\ Waits(Of0(i).rem_true, cc(i), iloc) /\ Waits(Of0(i).rem_false, cc(i), iloc)
           /\ Of0(i).rem_true \cap Of0(i).rem_false = {}
           /\ Sound(Of0(i), iloc) /\ KidReach(i) = Reach(Of0(i))
<1>1. Own(t0.kind) \in Nat
  BY DEF Own
<1>2. i \in 1 .. Len(Top.cc)
  BY <1>1, Kids
<1>3. Of0(i) = Top.cc[i] /\ cc(i) = Top.cc[i].code
  <2>1. Len(Top.cc) \in Nat
    BY Kids
  <2> QED
    BY <1>2, <2>1 DEF Of0, cc
<1>4. Sound(Of0(i), iloc) /\ KidReach(i) = Reach(Of0(i))
  BY <1>2, <1>3, Kids
<1>5. cc(i) \in Codes(KidReach(i)) /\ KidReach(i) \subseteq TopReach
  BY Kids
<1> QED
  BY <1>3, <1>4, <1>5 DEF Sound

\* Instructions that may come into the list of the generator.
AllFit(new, l) == new \in Seq(Range(new)) /\ \A k \in 1 .. Len(new) : Fits(new[k], l)

LEMMA NewOnesFit ==
    ASSUME NEW S, NEW new \in Seq(S), NEW l, \A k \in 1 .. Len(new) : Fits(new[k], l)
    PROVE  AllFit(new, l)
BY SeqOfRange DEF AllFit

LEMMA Extended ==
    ASSUME NEW list, NEW l, Listing(list, l), NEW l2 \in Nat, l <= l2, NEW new, AllFit(new, l2), NEW T
    PROVE  /\ Grown(list, l, list \o new, l2, T) /\ Len(list \o new) = Len(list) + Len(new)
           /\ \A k \in 1 .. Len(new) : (list \o new)[Len(list) + k] = new[k]
           /\ Len(new) \in Nat /\ DOMAIN new = 1 .. Len(new)
<1> DEFINE S == Range(new)
           Ok == \A k \in 1 .. Len(new) : Fits(new[k], l2)
<1>1. new \in Seq(S) /\ Ok
  BY DEF AllFit
<1>2. Ok => \A k \in 1 .. Len(new) : Fits(new[k], l2)
  OBVIOUS
<1> HIDE DEF S, Ok
<1>3. Grown(list, l, list \o new, l2, T)
  BY <1>1, <1>2, Lengthened
<1>4. Len(list \o new) = Len(list) + Len(new)
  BY <1>1, <1>2, Lengthened
<1>5. \A k \in 1 .. Len(new) : (list \o new)[Len(list) + k] = new[k]
  BY <1>1, <1>2, Lengthened
<1> QED
  BY <1>1, <1>3, <1>4, <1>5

\* A node that only makes instructions without targets.
LEMMA Emits ==
    ASSUME Held, Ready, NEW before \in Codes(TopReach), NEW new, AllFit(new, labels), Emit(before, new)
    PROVE  Went
<1> DEFINE n == Len(iloc)
           fresh == NewOnes(n, Len(new))
           D == n + 1 .. n + Len(new)
<1>1. n \in Nat /\ labels \in Nat /\ labels <= labels /\ TopReach \subseteq 1 .. n /\ Listing(iloc, labels)
  BY Kids DEF Held
<1>2. Len(new) \in Nat /\ DOMAIN new = 1 .. Len(new)
  BY <1>1, Extended
<1>3. Grown(iloc, labels, iloc \o new, labels, TopReach)
  BY <1>1, Extended
<1>4. Len(iloc \o new) = n + Len(new)
  BY <1>1, Extended
<1>5. iloc' = iloc \o new /\ labels' = labels /\ Leave(before \o fresh, {}, {})
  BY <1>2 DEF Emit, NewOnes
<1>6. fresh \in Codes(D)
  BY <1>1, <1>2, NewCode
<1>7. TopReach \cap D = {}
  BY <1>1
<1> HIDE DEF fresh, D
<1>8. before \o fresh \in Codes(TopReach \cup D)
  BY <1>6, <1>7, JoinedCodes
<1>9. before \o fresh \in Codes(TopReach \cup (Len(iloc) + 1 .. Len(iloc')))
  BY <1>4, <1>8, <1>5 DEF D
<1>10. Grown(iloc, labels, iloc', labels', TopReach)
  BY <1>3, <1>5
<1>11. Waits({}, before \o fresh, iloc')
  BY NothingWaits
<1>12. Held' /\ Len(calls') >= 1
  <2> DEFINE c == before \o fresh
             none == {}
  <2>1. /\ Leave(c, none, none) /\ c \in Codes(TopReach \cup (Len(iloc) + 1 .. Len(iloc')))
        /\ Waits(none, c, iloc') /\ none \cap none = {}
    BY <1>9, <1>11, <1>5
  <2> HIDE DEF c, none
  <2> QED
    BY <1>10, <2>1, Leaves
<1> QED
  BY <1>10, <1>12 DEF Went

\* A node that aims at some slots and leaves others to wait.
LEMMA AimsAndLeaves ==
    ASSUME Held, Ready, NEW list, Grown(iloc, labels, list, labels, {}),
           NEW c \in Codes(TopReach \cup (Len(iloc) + 1 .. Len(list))), NEW slots, NEW yes, NEW no,
           Waits(slots, c, list), Waits(yes, c, list), Waits(no, c, list),
           slots \cap yes = {}, slots \cap no = {}, yes \cap no = {}, NEW i,
           iloc' = Aim(list, slots, i, labels + 1), labels' = labels + 1, Leave(c, yes, no)
    PROVE  Went
<1> DEFINE l2 == labels + 1
           S == TopReach \cup (Len(iloc) + 1 .. Len(list))
           after == Aim(list, slots, i, l2)
<1>1. Listing(iloc, labels) /\ Listing(list, labels) /\ labels \in Nat
  BY Kids DEF Held, Grown
<1>2. l2 \in Nat /\ labels <= l2 /\ l2 \in 1 .. l2
  BY <1>1
<1>3. Range(c) \subseteq S
  BY CodeFacts
<1>4. iloc' = after /\ labels' = l2
  OBVIOUS
<1>5. Waits(yes, c, after) /\ Waits(no, c, after)
  BY <1>1, AimedApart
<1> HIDE DEF l2
<1>6. Grown(list, labels, Aim(list, slots, i, l2), l2, S)
  BY <1>1, <1>2, <1>3, Aimed
<1>7. Len(Aim(list, slots, i, l2)) = Len(list)
  BY <1>1, ListingFacts, AimLength
<1> HIDE DEF after, S
<1>8. Grown(iloc, labels, after, l2, S)
  <2>1. {} \subseteq S
    OBVIOUS
  <2> QED
    BY <1>1, <1>6, <2>1, GrownAgain DEF after
<1>9. Grown(iloc, labels, after, l2, TopReach)
  <2>1. S \subseteq TopReach \cup (Len(iloc) + 1 .. Len(list))
    BY DEF S
  <2> QED
    BY <1>1, <1>8, <2>1, GrownWithin
<1>10. Grown(iloc, labels, iloc', labels', TopReach)
  BY <1>4, <1>9
<1>11. /\ c \in Codes(TopReach \cup (Len(iloc) + 1 .. Len(iloc')))
       /\ Waits(yes, c, iloc') /\ Waits(no, c, iloc')
  BY <1>4, <1>5, <1>7 DEF after
<1>12. Held' /\ Len(calls') >= 1
  BY <1>10, <1>11, Leaves
<1> QED
  BY <1>10, <1>12 DEF Went

\* A command that aims at both lists of its condition.
LEMMA BranchesAndLeaves ==
    ASSUME Held, Ready, NEW list, NEW l, Grown(iloc, labels, list, l, {}),
           NEW c \in Codes(TopReach \cup (Len(iloc) + 1 .. Len(list))),
           NEW k \in Nat \ {0}, k <= Own(t0.kind), NEW yes, NEW no, NEW m,
           labels' \in Nat, l <= labels', m \in 1 .. labels', m + 1 <= labels',
           iloc' = Branch(list, Of0(k), yes, no, m), Leave(c, {}, {})
    PROVE  Went
<1> DEFINE rem == Of0(k)
           l2 == labels'
           d == cc(k)
<1>1. Listing(iloc, labels) /\ Listing(list, l)
  BY DEF Held, Grown
<1>2. /\ Waits(rem.rem_true, d, iloc) /\ Waits(rem.rem_false, d, iloc)
      /\ rem.rem_true \cap rem.rem_false = {}
      /\ d \in Codes(KidReach(k)) /\ KidReach(k) \subseteq TopReach
  BY KidResult
<1>3. l2 \in Nat /\ l <= l2 /\ m \in 1 .. l2 /\ m + 1 <= l2
  OBVIOUS
<1>4. iloc' = Branch(list, rem, yes, no, m)
  OBVIOUS
<1> HIDE DEF rem, l2, d
<1>5. Range(d) \subseteq TopReach
  BY <1>2, CodeFacts
<1>6. Waits(rem.rem_true, d, list) /\ Waits(rem.rem_false, d, list)
  <2>1. Range(d) \cap {} = {}
    OBVIOUS
  <2> QED
    BY <1>1, <1>2, <2>1, WaitsOn
<1>7. Grown(list, l, Branch(list, rem, yes, no, m), l2, TopReach)
  BY <1>1, <1>2, <1>3, <1>5, <1>6, Branched
<1>8. Len(iloc') = Len(list)
  <2>1. Len(list) \in Nat /\ DOMAIN list = 1 .. Len(list)
    BY <1>1, ListingFacts
  <2> QED
    BY <1>4, <2>1, BranchLength
<1>9. Grown(iloc, labels, iloc', l2, TopReach)
  <2>1. {} \subseteq TopReach
    OBVIOUS
  <2> QED
    BY <1>1, <1>4, <1>7, <2>1, GrownAgain
<1>10. Grown(iloc, labels, iloc', labels', TopReach)
  BY <1>9 DEF l2
<1>11. Held' /\ Len(calls') >= 1
  <2> DEFINE none == {}
  <2>1. /\ Leave(c, none, none) /\ c \in Codes(TopReach \cup (Len(iloc) + 1 .. Len(iloc')))
        /\ Waits(none, c, iloc') /\ none \cap none = {}
    BY <1>8, NothingWaits
  <2> HIDE DEF none
  <2> QED
    BY <1>10, <2>1, Leaves
<1> QED
  BY <1>10, <1>11 DEF Went

----------------------------------------------------------------------------
\* The codes of the children, together.
LEMMA KidCodes ==
    ASSUME Held, Ready
    PROVE  /\ \A i \in Nat \ {0} : cc(i) \in Codes(TopReach)
           /\ cc(1) \o cc(2) \in Codes(TopReach) /\ Whole \in Codes(TopReach)
<1> DEFINE K(i) == KidReach(i)
<1>1. \A i \in Nat \ {0} : cc(i) \in Codes(KidReach(i)) /\ KidReach(i) \subseteq TopReach
  BY Kids
<1>2. \A i, j \in Nat \ {0} : i # j => KidReach(i) \cap KidReach(j) = {}
  BY Kids
<1>3. \A i \in Nat \ {0} : cc(i) \in Codes(TopReach)
  BY <1>1, CodeGrows
<1>4. /\ cc(1) \in Codes(K(1)) /\ cc(2) \in Codes(K(2)) /\ cc(3) \in Codes(K(3))
      /\ cc(4) \in Codes(K(4)) /\ cc(5) \in Codes(K(5))
  BY <1>1
<1>5. /\ K(1) \cap K(2) = {} /\ (K(1) \cup K(2)) \cap K(3) = {}
      /\ ((K(1) \cup K(2)) \cup K(3)) \cap K(4) = {}
      /\ (((K(1) \cup K(2)) \cup K(3)) \cup K(4)) \cap K(5) = {}
  BY <1>2
<1>6. /\ K(1) \cup K(2) \subseteq TopReach
      /\ (((K(1) \cup K(2)) \cup K(3)) \cup K(4)) \cup K(5) \subseteq TopReach
  BY <1>1
<1> HIDE DEF K
<1>7. cc(1) \o cc(2) \in Codes(K(1) \cup K(2))
  BY <1>4, <1>5, JoinedCodes
<1>8. (cc(1) \o cc(2)) \o cc(3) \in Codes((K(1) \cup K(2)) \cup K(3))
  BY <1>4, <1>5, <1>7, JoinedCodes
<1>9. ((cc(1) \o cc(2)) \o cc(3)) \o cc(4) \in Codes(((K(1) \cup K(2)) \cup K(3)) \cup K(4))
  BY <1>4, <1>5, <1>8, JoinedCodes
<1>10. (((cc(1) \o cc(2)) \o cc(3)) \o cc(4)) \o cc(5) \in Codes((((K(1) \cup K(2)) \cup K(3)) \cup K(4)) \cup K(5))
  BY <1>4, <1>5, <1>9, JoinedCodes
<1>11. cc(1) \o cc(2) \in Codes(TopReach)
  BY <1>6, <1>7, CodeGrows
<1>12. Whole \in Codes(TopReach)
  <2> DEFINE w == (((cc(1) \o cc(2)) \o cc(3)) \o cc(4)) \o cc(5)
             A == (((K(1) \cup K(2)) \cup K(3)) \cup K(4)) \cup K(5)
  <2>1. w \in Codes(A) /\ A \subseteq TopReach
    BY <1>6, <1>10
  <2>2. Whole = w
    BY DEF Whole
  <2> HIDE DEF w, A
  <2> QED
    BY <2>1, <2>2, CodeGrows
<1> QED
  BY <1>3, <1>11, <1>12

LEMMA VisitingIs ==
    ASSUME NEW kinds, Visiting(kinds)
    PROVE  Ready /\ t0.kind \in kinds /\ ~MissingIloc /\ ast' = ast /\ status' = status /\ machine' = machine
BY DEF Visiting

LEMMA OneFits ==
    ASSUME NEW i, NEW l, Fits(i, l)
    PROVE  AllFit(<<i>>, l)
<1>1. <<i>> \in Seq({i}) /\ Len(<<i>>) = 1 /\ <<i>>[1] = i
  OBVIOUS
<1>2. \A k \in 1 .. Len(<<i>>) : Fits(<<i>>[k], l)
  BY <1>1
<1> DEFINE new == <<i>>
           S == {i}
<1>3. new \in Seq(S) /\ \A k \in 1 .. Len(new) : Fits(new[k], l)
  BY <1>1, <1>2
<1> HIDE DEF new, S
<1>4. AllFit(new, l)
  BY <1>3, NewOnesFit
<1> QED
  BY <1>4 DEF new

LEMMA TwoFit ==
    ASSUME NEW i, NEW j, NEW l, Fits(i, l), Fits(j, l)
    PROVE  AllFit(<<i, j>>, l)
<1> DEFINE new == <<i, j>>
           S == {i, j}
<1>1. new \in Seq(S) /\ Len(new) = 2 /\ new[1] = i /\ new[2] = j
  OBVIOUS
<1> HIDE DEF new, S
<1>2. \A k \in 1 .. Len(new) : Fits(new[k], l)
  BY <1>1
<1>3. AllFit(new, l)
  BY <1>1, <1>2, NewOnesFit
<1> QED
  BY <1>3 DEF new

LEMMA ThreeFit ==
    ASSUME NEW i, NEW j, NEW k, NEW l, Fits(i, l), Fits(j, l), Fits(k, l)
    PROVE  AllFit(<<i, j, k>>, l)
<1> DEFINE new == <<i, j, k>>
           S == {i, j, k}
<1>1. new \in Seq(S) /\ Len(new) = 3 /\ new[1] = i /\ new[2] = j /\ new[3] = k
  OBVIOUS
<1> HIDE DEF new, S
<1>2. \A m \in 1 .. Len(new) : m \in {1, 2, 3}
  BY <1>1
<1>3. \A m \in 1 .. Len(new) : Fits(new[m], l)
  BY <1>1, <1>2
<1>4. AllFit(new, l)
  BY <1>1, <1>3, NewOnesFit
<1> QED
  BY <1>4 DEF new

LEMMA LiteralStep ==
    ASSUME Held, Literal
    PROVE  Went
<1> DEFINE i == Instruction("loadI", t0.val, None, r)
<1>1. Ready /\ Emit(<<>>, <<i>>)
  BY VisitingIs DEF Literal
<1>2. Fits(i, labels)
  BY PlainFits DEF Targets
<1> HIDE DEF i
<1>3. AllFit(<<i>>, labels) /\ <<>> \in Codes(TopReach)
  BY <1>2, OneFits, EmptyCode
<1> QED
  BY <1>1, <1>3, Emits

LEMMA VariableStep ==
    ASSUME Held, Variable
    PROVE  Went
<1> DEFINE i == Instruction("loadAI", Home[t0.name].reg, Home[t0.name].offset, r)
<1>1. Ready /\ Emit(<<>>, <<i>>)
  BY VisitingIs DEF Variable
<1>2. Fits(i, labels)
  BY PlainFits DEF Targets
<1> HIDE DEF i
<1>3. AllFit(<<i>>, labels) /\ <<>> \in Codes(TopReach)
  BY <1>2, OneFits, EmptyCode
<1> QED
  BY <1>1, <1>3, Emits

LEMMA IndexedStep ==
    ASSUME Held, Indexed
    PROVE  Went
<1> DEFINE home == Home[t0.kids[1].name]
           i == Instruction("multI", op3(iloc, cc(2)), 4, r)
           j == Instruction("addI", r, home.offset, r + 1)
           k == Instruction("loadAO", home.reg, r + 1, r + 2)
<1>1. Ready /\ Emit(cc(2), <<i, j, k>>)
  BY VisitingIs DEF Indexed
<1>2. Fits(i, labels) /\ Fits(j, labels) /\ Fits(k, labels)
  BY PlainFits DEF Targets
<1> HIDE DEF i, j, k
<1>3. AllFit(<<i, j, k>>, labels) /\ cc(2) \in Codes(TopReach)
  BY <1>1, <1>2, ThreeFit, KidCodes
<1> QED
  BY <1>1, <1>3, Emits

LEMMA MinusStep ==
    ASSUME Held, Minus
    PROVE  Went
<1> DEFINE i == Instruction("loadI", 0 - t0.kids[1].val, None, r)
           j == Instruction("rsubI", op3(iloc, cc(1)), 0, r)
<1>1. Ready /\ (Emit(<<>>, <<i>>) \/ Emit(cc(1), <<j>>))
  BY VisitingIs DEF Minus
<1>2. Fits(i, labels) /\ Fits(j, labels)
  BY PlainFits DEF Targets
<1> HIDE DEF i, j
<1>3. AllFit(<<i>>, labels) /\ AllFit(<<j>>, labels) /\ <<>> \in Codes(TopReach)
  BY <1>2, OneFits, EmptyCode
<1>4. cc(1) \in Codes(TopReach)
  BY <1>1, KidCodes
<1> QED
  BY <1>1, <1>3, <1>4, Emits

LEMMA ArithmeticStep ==
    ASSUME Held, Arithmetic
    PROVE  Went
<1> DEFINE type == ast_to_iloc[t0.kind]
           i == Instruction(type, op3(iloc, cc(1)), op3(iloc, cc(2)), r)
<1>1. /\ Ready /\ Emit(cc(1) \o cc(2), <<i>>)
      /\ t0.kind \in {"AST_ARIM_SOMA", "AST_ARIM_SUBTRACAO", "AST_ARIM_MULTIPLICACAO", "AST_ARIM_DIVISAO"}
  BY VisitingIs DEF Arithmetic
<1>2. Targets(type) = {}
  BY <1>1 DEF Targets, ast_to_iloc
<1> HIDE DEF type
<1>3. Fits(i, labels)
  BY <1>2, PlainFits
<1> HIDE DEF i
<1>4. AllFit(<<i>>, labels) /\ cc(1) \o cc(2) \in Codes(TopReach)
  BY <1>1, <1>3, OneFits, KidCodes
<1> QED
  BY <1>1, <1>4, Emits

LEMMA ReturnStep ==
    ASSUME Held, Return
    PROVE  Went
<1> DEFINE i1 == Instruction("storeAI", op3(iloc, cc(Len(Top.cc))), rarp, 12)
           i2 == Instruction("loadAI", rarp, 0, r + 1)
           i3 == Instruction("loadAI", rarp, 4, r + 2)
           i4 == Instruction("loadAI", rarp, 8, r + 3)
           i5 == Instruction("i2i", r + 2, None, rsp)
           i6 == Instruction("i2i", r + 3, None, rarp)
           i7 == Instruction("jump", None, None, r + 1)
           new == <<i1, i2, i3, i4, i5, i6, i7>>
           S == {i1, i2, i3, i4, i5, i6, i7}
<1>1. Ready /\ Emit(Whole, new)
  BY VisitingIs DEF Return
<1>2. /\ Fits(i1, labels) /\ Fits(i2, labels) /\ Fits(i3, labels) /\ Fits(i4, labels)
      /\ Fits(i5, labels) /\ Fits(i6, labels) /\ Fits(i7, labels)
  BY PlainFits DEF Targets
<1> HIDE DEF i1, i2, i3, i4, i5, i6, i7
<1>3. /\ new \in Seq(S) /\ Len(new) = 7 /\ new[1] = i1 /\ new[2] = i2 /\ new[3] = i3 /\ new[4] = i4
      /\ new[5] = i5 /\ new[6] = i6 /\ new[7] = i7
  OBVIOUS
<1> HIDE DEF new, S
<1>4. \A m \in 1 .. Len(new) : m \in {1, 2, 3, 4, 5, 6, 7}
  BY <1>3
<1>5. \A m \in 1 .. Len(new) : Fits(new[m], labels)
  BY <1>2, <1>3, <1>4
<1>6. AllFit(new, labels)
  BY <1>3, <1>5, NewOnesFit
<1>7. Whole \in Codes(TopReach)
  BY <1>1, KidCodes
<1> QED
  BY <1>1, <1>6, <1>7, Emits

----------------------------------------------------------------------------
\* A node that makes instructions and leaves slots of them to wait.
LEMMA ComparisonStep ==
    ASSUME Held, Comparison
    PROVE  Went
<1> DEFINE n == Len(iloc)
           type == ast_to_iloc[t0.kind]
           i == Instruction(type, op3(iloc, cc(1)), op3(iloc, cc(2)), n + 1)
           j == Instruction("cbr", n + 1, None, None)
           list == iloc \o <<i, j>>
           before == cc(1) \o cc(2)
           e == <<n + 1, n + 2>>
           c == before \o e
           D == n + 1 .. n + 2
           yes == {Slot(n + 2, "op2")}
           no == {Slot(n + 2, "op3")}
<1>1. /\ Ready /\ t0.kind \in Comparisons
      /\ iloc' = iloc \o <<Instruction(type, op3(iloc, cc(1)), op3(iloc, cc(2)), r), Instruction("cbr", r, None, None)>>
      /\ Leave(before \o <<r, r + 1>>, {Slot(r + 1, "op2")}, {Slot(r + 1, "op3")}) /\ labels' = labels
  BY VisitingIs DEF Comparison
<1>2. n \in Nat /\ labels \in Nat /\ labels <= labels /\ TopReach \subseteq 1 .. n /\ Listing(iloc, labels)
  BY <1>1, Kids DEF Held
<1>3. r = n + 1 /\ r + 1 = n + 2
  BY <1>2 DEF r
<1>4. iloc' = list /\ Leave(c, yes, no) /\ labels' = labels
  BY <1>1, <1>3
<1>5. Targets(type) = {}
  BY <1>1 DEF Targets, ast_to_iloc, Comparisons
<1> HIDE DEF type
<1>6. Fits(i, labels) /\ Fits(j, labels)
  BY <1>5, PlainFits, BranchFits
<1>7. j.type = "cbr" /\ j.op2 = None /\ j.op3 = None
  BY DEF Instruction
<1> HIDE DEF i, j
<1>8. AllFit(<<i, j>>, labels)
  BY <1>6, TwoFit
<1>9. Grown(iloc, labels, list, labels, TopReach) /\ Len(list) = n + 2 /\ list[n + 2] = j
  <2> DEFINE new == <<i, j>>
  <2>1. Len(new) = 2 /\ new[2] = j /\ AllFit(new, labels)
    BY <1>8
  <2> HIDE DEF new
  <2>2. Grown(iloc, labels, iloc \o new, labels, TopReach)
    BY <1>2, <2>1, Extended
  <2>3. Len(iloc \o new) = Len(iloc) + Len(new) /\ \A k \in 1 .. Len(new) : (iloc \o new)[Len(iloc) + k] = new[k]
    BY SMTT(30), <1>2, <2>1, Extended
  <2>4. 2 \in 1 .. Len(new)
    BY SMTT(30), <2>1
  <2> QED
    BY <2>1, <2>2, <2>3, <2>4 DEF new
<1>10. before \in Codes(TopReach)
  BY <1>1, KidCodes
<1>11. e \in Codes(D) /\ n + 2 \in Range(e)
  <2>1. e \in Seq(D) /\ DOMAIN e = {1, 2} /\ e[1] = n + 1 /\ e[2] = n + 2
    BY <1>2
  <2>2. \A k, m \in DOMAIN e : e[k] = e[m] => k = m
    BY <1>2, <2>1
  <2>3. n + 2 \in Range(e)
    BY <2>1 DEF Range
  <2> HIDE DEF e, D
  <2> QED
    BY <2>1, <2>2, <2>3, CodeIs
<1>12. TopReach \cap D = {}
  BY <1>2
<1> HIDE DEF list, before, e, D
<1>13. c \in Codes(TopReach \cup D) /\ Range(c) = Range(before) \cup Range(e)
  <2>1. c \in Codes(TopReach \cup D)
    BY <1>10, <1>11, <1>12, JoinedCodes
  <2>2. Range(c) = Range(before) \cup Range(e)
    BY <1>10, <1>11, JoinedRange
  <2> QED
    BY <2>1, <2>2
<1>14. Targets("cbr") = {"op2", "op3"}
  BY DEF Targets
<1>15. Slot(n + 2, "op2").at = n + 2 /\ Slot(n + 2, "op2").op = "op2"
  BY DEF Slot
<1>16. Slot(n + 2, "op3").at = n + 2 /\ Slot(n + 2, "op3").op = "op3"
  BY DEF Slot
<1>17. n + 2 \in 1 .. Len(list) /\ n + 2 \in Range(c)
  BY <1>2, <1>9, <1>11, <1>13
<1> HIDE DEF c
<1>18. Waits(yes, c, list)
  BY <1>7, <1>9, <1>14, <1>15, <1>17 DEF Waits
<1>19. Waits(no, c, list)
  BY <1>7, <1>9, <1>14, <1>16, <1>17 DEF Waits
<1>20. yes \cap no = {}
  BY <1>15, <1>16
<1> HIDE DEF yes, no
<1>21. Grown(iloc, labels, iloc', labels', TopReach)
  BY <1>4, <1>9
<1>22. /\ c \in Codes(TopReach \cup (Len(iloc) + 1 .. Len(iloc')))
       /\ Waits(yes, c, iloc') /\ Waits(no, c, iloc')
  BY <1>4, <1>9, <1>13, <1>18, <1>19 DEF D
<1>23. Held' /\ Len(calls') >= 1
  BY <1>1, <1>4, <1>20, <1>21, <1>22, Leaves
<1> QED
  BY <1>21, <1>23 DEF Went

LEMMA NotStep ==
    ASSUME Held, Not
    PROVE  Went
<1> DEFINE x == Of0(1)
           a == ShortCircuit(iloc, t0.kids[1], x)
           C == KidReach(1)
<1>1. /\ Ready /\ t0.kind = "AST_LOGICO_COMP_NEGACAO" /\ iloc' = a.iloc
      /\ Leave(a.code, a.rem_false, a.rem_true) /\ labels' = labels
  BY VisitingIs DEF Not
<1>2. TopReach \subseteq 1 .. Len(iloc) /\ Listing(iloc, labels)
  BY <1>1, Kids DEF Held
<1>3. Own(t0.kind) = 1
  BY <1>1 DEF Own
<1>4. /\ x.code \in Codes(C) /\ C \subseteq TopReach /\ Waits(x.rem_true, x.code, iloc)
      /\ Waits(x.rem_false, x.code, iloc) /\ x.rem_true \cap x.rem_false = {}
  BY <1>1, <1>3, KidResult
<1> HIDE DEF x, C
<1>5. C \subseteq 1 .. Len(iloc)
  BY <1>2, <1>4
<1>6. Grown(iloc, labels, a.iloc, labels, TopReach)
  BY <1>2, <1>4, <1>5, ShortCircuited
<1>7. Answers(a, C, Len(iloc))
  BY <1>2, <1>4, <1>5, ShortCircuited
<1>8. /\ a.code \in Codes(C \cup (Len(iloc) + 1 .. Len(a.iloc)))
      /\ Waits(a.rem_true, a.code, a.iloc) /\ Waits(a.rem_false, a.code, a.iloc)
      /\ a.rem_true \cap a.rem_false = {}
  BY <1>7 DEF Answers
<1> HIDE DEF a
<1>9. a.code \in Codes(TopReach \cup (Len(iloc) + 1 .. Len(a.iloc)))
  <2>1. C \cup (Len(iloc) + 1 .. Len(a.iloc)) \subseteq TopReach \cup (Len(iloc) + 1 .. Len(a.iloc))
    BY <1>4
  <2> QED
    BY <1>8, <2>1, CodeGrows
<1>10. Grown(iloc, labels, iloc', labels', TopReach)
  BY <1>1, <1>6
<1>11. /\ a.code \in Codes(TopReach \cup (Len(iloc) + 1 .. Len(iloc')))
       /\ Waits(a.rem_false, a.code, iloc') /\ Waits(a.rem_true, a.code, iloc')
       /\ a.rem_false \cap a.rem_true = {}
  BY <1>1, <1>8, <1>9
<1>12. Held' /\ Len(calls') >= 1
  BY <1>1, <1>10, <1>11, Leaves
<1> QED
  BY <1>10, <1>12 DEF Went

\* The two operands of && and ||, with what their tests add.
First == ShortCircuit(iloc, t0.kids[1], Of0(1))
Second == ShortCircuit(First.iloc, t0.kids[2], Of0(2))

LEMMA TwoOperands ==
    ASSUME Held, Ready, Own(t0.kind) = 2
    PROVE  /\ Grown(iloc, labels, Second.iloc, labels, {})
           /\ First.code \o Second.code \in Codes(TopReach \cup (Len(iloc) + 1 .. Len(Second.iloc)))
           /\ \A slots \in {First.rem_true, First.rem_false, Second.rem_true, Second.rem_false} :
                 Waits(slots, First.code \o Second.code, Second.iloc)
           /\ First.rem_true \cap First.rem_false = {} /\ Second.rem_true \cap Second.rem_false = {}
           /\ (First.rem_true \cup First.rem_false) \cap (Second.rem_true \cup Second.rem_false) = {}
<1> DEFINE n == Len(iloc)
           a == First
           b == Second
           x == Of0(1)
           y == Of0(2)
           A == KidReach(1)
           B == KidReach(2)
           AA == A \cup (n + 1 .. Len(a.iloc))
           BB == B \cup (Len(a.iloc) + 1 .. Len(b.iloc))
<1>1. n \in Nat /\ TopReach \subseteq 1 .. n /\ Listing(iloc, labels) /\ A \cap B = {}
  BY Kids DEF Held
<1>2. /\ x.code \in Codes(A) /\ A \subseteq TopReach /\ Waits(x.rem_true, x.code, iloc)
      /\ Waits(x.rem_false, x.code, iloc) /\ x.rem_true \cap x.rem_false = {}
  BY KidResult
<1>3. /\ y.code \in Codes(B) /\ B \subseteq TopReach /\ Waits(y.rem_true, y.code, iloc)
      /\ Waits(y.rem_false, y.code, iloc) /\ y.rem_true \cap y.rem_false = {}
  BY KidResult
<1>4. a = ShortCircuit(iloc, t0.kids[1], x) /\ b = ShortCircuit(a.iloc, t0.kids[2], y)
  BY DEF First, Second
<1> HIDE DEF x, y, A, B, a, b
<1>5. A \subseteq 1 .. n /\ B \subseteq 1 .. n
  BY <1>1, <1>2, <1>3
<1>6. Grown(iloc, labels, a.iloc, labels, {}) /\ Answers(a, A, n)
  <2>1. Grown(iloc, labels, a.iloc, labels, {})
    BY <1>1, <1>2, <1>4, <1>5, ShortCircuited
  <2>2. Answers(a, A, n)
    BY <1>1, <1>2, <1>4, <1>5, ShortCircuited
  <2> QED
    BY <2>1, <2>2
<1>7. Listing(a.iloc, labels) /\ n <= Len(a.iloc)
  BY <1>6 DEF Grown
<1>8. Len(a.iloc) \in Nat
  BY <1>7, ListingFacts
<1>9. B \subseteq 1 .. Len(a.iloc)
  BY <1>1, <1>5, <1>7, <1>8
<1>10. Waits(y.rem_true, y.code, a.iloc) /\ Waits(y.rem_false, y.code, a.iloc)
  <2>1. Range(y.code) \cap {} = {}
    OBVIOUS
  <2> QED
    BY <1>1, <1>3, <1>6, <2>1, WaitsOn
<1>11. Grown(a.iloc, labels, b.iloc, labels, {}) /\ Answers(b, B, Len(a.iloc))
  <2> DEFINE list == a.iloc
  <2>1. /\ Listing(list, labels) /\ B \subseteq 1 .. Len(list)
        /\ Waits(y.rem_true, y.code, list) /\ Waits(y.rem_false, y.code, list)
        /\ b = ShortCircuit(list, t0.kids[2], y)
    BY <1>4, <1>7, <1>9, <1>10
  <2> HIDE DEF list
  <2>2. Grown(list, labels, b.iloc, labels, {})
    BY <1>3, <2>1, ShortCircuited
  <2>3. Answers(b, B, Len(list))
    BY <1>3, <2>1, ShortCircuited
  <2> QED
    BY <2>2, <2>3 DEF list
<1>12. Listing(b.iloc, labels) /\ Len(a.iloc) <= Len(b.iloc)
  BY <1>11 DEF Grown
<1>13. Len(b.iloc) \in Nat
  BY <1>12, ListingFacts
<1>14. Grown(iloc, labels, b.iloc, labels, {})
  BY <1>1, <1>6, <1>11, GrownAgain
<1>15. /\ a.code \in Codes(AA) /\ Waits(a.rem_true, a.code, a.iloc) /\ Waits(a.rem_false, a.code, a.iloc)
       /\ a.rem_true \cap a.rem_false = {}
  BY <1>6 DEF Answers
<1>16. /\ b.code \in Codes(BB) /\ Waits(b.rem_true, b.code, b.iloc) /\ Waits(b.rem_false, b.code, b.iloc)
       /\ b.rem_true \cap b.rem_false = {}
  BY <1>11 DEF Answers
<1>17. AA \cap BB = {} /\ AA \cup BB \subseteq TopReach \cup (n + 1 .. Len(b.iloc))
  <2> DEFINE p == Len(a.iloc)
             q == Len(b.iloc)
  <2>1. /\ n \in Nat /\ p \in Nat /\ q \in Nat /\ n <= p /\ p <= q
        /\ A \subseteq 1 .. n /\ B \subseteq 1 .. n
    BY <1>1, <1>5, <1>7, <1>8, <1>12, <1>13
  <2> HIDE DEF n, p, q
  <2>2. (A \cup (n + 1 .. p)) \cap (B \cup (p + 1 .. q)) = {}
    BY <1>1, <2>1
  <2>3. (A \cup (n + 1 .. p)) \cup (B \cup (p + 1 .. q)) \subseteq TopReach \cup (n + 1 .. q)
    BY <1>2, <1>3, <2>1
  <2> QED
    BY <2>2, <2>3 DEF p, q
<1> HIDE DEF AA, BB
<1>18. a.code \o b.code \in Codes(AA \cup BB)
  BY <1>15, <1>16, <1>17, JoinedCodes
<1>19. a.code \o b.code \in Codes(TopReach \cup (n + 1 .. Len(b.iloc)))
  BY <1>17, <1>18, CodeGrows
<1>20. Range(a.code \o b.code) = Range(a.code) \cup Range(b.code)
  BY <1>15, <1>16, JoinedRange
<1>21. Waits(a.rem_true, a.code, b.iloc) /\ Waits(a.rem_false, a.code, b.iloc)
  <2>1. Range(a.code) \cap {} = {}
    OBVIOUS
  <2> QED
    BY <1>7, <1>11, <1>15, <2>1, WaitsOn
<1>22. Range(a.code) \cap Range(b.code) = {}
  <2>1. Range(a.code) \subseteq AA /\ Range(b.code) \subseteq BB
    BY <1>15, <1>16, CodeFacts
  <2> QED
    BY <1>17, <2>1
<1>23. ASSUME NEW s \in {a.rem_true, a.rem_false}, NEW t \in {b.rem_true, b.rem_false}
       PROVE  s \cap t = {}
  BY <1>16, <1>21, <1>22, SlotsApart
<1>24. (a.rem_true \cup a.rem_false) \cap (b.rem_true \cup b.rem_false) = {}
  BY <1>23
<1>25. ASSUME NEW s \in {a.rem_true, a.rem_false, b.rem_true, b.rem_false}
       PROVE  Waits(s, a.code \o b.code, b.iloc)
  BY <1>16, <1>20, <1>21, WaitsLonger
<1> QED
  BY <1>14, <1>15, <1>16, <1>19, <1>24, <1>25 DEF a, b

LEMMA AndStep ==
    ASSUME Held, And
    PROVE  Went
<1> DEFINE c == First.code \o Second.code
           slots == First.rem_true
           yes == Second.rem_true
           no == First.rem_false \cup Second.rem_false
<1>1. /\ Ready /\ t0.kind = "AST_LOGICO_E"
      /\ iloc' = Aim(Second.iloc, slots, Head(Second.code), labels + 1) /\ labels' = labels + 1
      /\ Leave(c, yes, no)
  BY VisitingIs DEF And, First, Second
<1>2. Own(t0.kind) = 2
  BY <1>1 DEF Own
<1>3. /\ Grown(iloc, labels, Second.iloc, labels, {})
      /\ c \in Codes(TopReach \cup (Len(iloc) + 1 .. Len(Second.iloc)))
      /\ \A s \in {First.rem_true, First.rem_false, Second.rem_true, Second.rem_false} : Waits(s, c, Second.iloc)
      /\ First.rem_true \cap First.rem_false = {} /\ Second.rem_true \cap Second.rem_false = {}
      /\ (First.rem_true \cup First.rem_false) \cap (Second.rem_true \cup Second.rem_false) = {}
  BY <1>1, <1>2, TwoOperands
<1>4. Waits(slots, c, Second.iloc) /\ Waits(yes, c, Second.iloc) /\ Waits(no, c, Second.iloc)
  BY <1>3, WaitsTogether
<1>5. slots \cap yes = {} /\ slots \cap no = {} /\ yes \cap no = {}
  BY <1>3
<1> HIDE DEF c, slots, yes, no
<1> QED
  BY <1>1, <1>3, <1>4, <1>5, AimsAndLeaves

LEMMA OrStep ==
    ASSUME Held, Or
    PROVE  Went
<1> DEFINE c == First.code \o Second.code
           slots == First.rem_false
           yes == First.rem_true \cup Second.rem_true
           no == Second.rem_false
<1>1. /\ Ready /\ t0.kind = "AST_LOGICO_OU"
      /\ iloc' = Aim(Second.iloc, slots, Head(Second.code), labels + 1) /\ labels' = labels + 1
      /\ Leave(c, yes, no)
  BY VisitingIs DEF Or, First, Second
<1>2. Own(t0.kind) = 2
  BY <1>1 DEF Own
<1>3. /\ Grown(iloc, labels, Second.iloc, labels, {})
      /\ c \in Codes(TopReach \cup (Len(iloc) + 1 .. Len(Second.iloc)))
      /\ \A s \in {First.rem_true, First.rem_false, Second.rem_true, Second.rem_false} : Waits(s, c, Second.iloc)
      /\ First.rem_true \cap First.rem_false = {} /\ Second.rem_true \cap Second.rem_false = {}
      /\ (First.rem_true \cup First.rem_false) \cap (Second.rem_true \cup Second.rem_false) = {}
  BY <1>1, <1>2, TwoOperands
<1>4. Waits(slots, c, Second.iloc) /\ Waits(yes, c, Second.iloc) /\ Waits(no, c, Second.iloc)
  BY <1>3, WaitsTogether
<1>5. slots \cap yes = {} /\ slots \cap no = {} /\ yes \cap no = {}
  BY <1>3
<1> HIDE DEF c, slots, yes, no
<1> QED
  BY <1>1, <1>3, <1>4, <1>5, AimsAndLeaves

----------------------------------------------------------------------------
\* A node that leaves no slots.
LEMMA LeavesNone ==
    ASSUME Held, Ready, Grown(iloc, labels, iloc', labels', TopReach),
           NEW c \in Codes(TopReach \cup (Len(iloc) + 1 .. Len(iloc'))), Leave(c, {}, {})
    PROVE  Went
<1> DEFINE none == {}
<1>1. Leave(c, none, none) /\ Waits(none, c, iloc') /\ none \cap none = {}
  BY NothingWaits
<1> HIDE DEF none
<1>2. Held' /\ Len(calls') >= 1
  BY <1>1, Leaves
<1> QED
  BY <1>2 DEF Went

LEMMA JoinedLength ==
    ASSUME NEW a, NEW b, a \in Seq(Range(a)), b \in Seq(Range(b))
    PROVE  Len(a \o b) = Len(a) + Len(b)
OBVIOUS

LEMMA ShiftStep ==
    ASSUME Held, Shift
    PROVE  Went
<1> DEFINE n == Len(iloc)
           home == Home[t0.kids[1].name]
           type == ast_to_iloc[t0.kind]
           i == Instruction(type, op3(iloc, cc(1)), t0.kids[2].val, r)
           j == Instruction("storeAI", r, home.reg, home.offset)
           new == <<i, j>>
           e == <<n + 1, n + 2>>
           D == n + 1 .. n + 2
           A == KidReach(1)
           B == KidReach(3)
           c == (cc(1) \o e) \o cc(3)
<1>1. /\ Ready /\ t0.kind \in {"AST_SHIFT_LEFT", "AST_SHIFT_RIGHT"} /\ iloc' = iloc \o new
      /\ Leave(cc(1) \o <<r, r + 1>> \o cc(3), {}, {}) /\ labels' = labels
  BY VisitingIs DEF Shift
<1>2. /\ n \in Nat /\ labels \in Nat /\ labels <= labels /\ TopReach \subseteq 1 .. n /\ Listing(iloc, labels)
      /\ A \cap B = {} /\ A \subseteq TopReach /\ B \subseteq TopReach
      /\ cc(1) \in Codes(A) /\ cc(3) \in Codes(B)
  BY <1>1, Kids DEF Held
<1>3. r = n + 1 /\ r + 1 = n + 2
  BY <1>2 DEF r
<1>4. Leave(c, {}, {})
  BY <1>1, <1>3
<1>5. Targets(type) = {}
  BY <1>1 DEF Targets, ast_to_iloc
<1> HIDE DEF type
<1>6. Fits(i, labels) /\ Fits(j, labels)
  BY <1>5, PlainFits DEF Targets
<1> HIDE DEF i, j
<1>7. AllFit(new, labels) /\ Len(new) = 2
  BY <1>6, TwoFit
<1> HIDE DEF new
<1>8. Grown(iloc, labels, iloc \o new, labels, TopReach) /\ Len(iloc \o new) = n + 2
  <2>1. Grown(iloc, labels, iloc \o new, labels, TopReach)
    BY <1>2, <1>7, Extended
  <2>2. Len(iloc \o new) = Len(iloc) + Len(new)
    BY <1>2, <1>7, JoinedLength DEF Listing, AllFit
  <2> QED
    BY <1>7, <2>1, <2>2
<1>9. e \in Codes(D)
  <2>1. e \in Seq(D) /\ DOMAIN e = {1, 2} /\ e[1] = n + 1 /\ e[2] = n + 2
    BY <1>2
  <2>2. \A k, m \in DOMAIN e : e[k] = e[m] => k = m
    BY <1>2, <2>1
  <2> HIDE DEF e, D
  <2> QED
    BY <2>1, <2>2, CodeIs
<1>10. A \cap D = {} /\ (A \cup D) \cap B = {} /\ (A \cup D) \cup B \subseteq TopReach \cup D
  BY <1>2
<1> HIDE DEF A, B, D, e
<1>11. cc(1) \o e \in Codes(A \cup D)
  BY <1>2, <1>9, <1>10, JoinedCodes
<1>12. c \in Codes((A \cup D) \cup B)
  BY <1>2, <1>10, <1>11, JoinedCodes
<1> HIDE DEF c
<1>13. c \in Codes(TopReach \cup D)
  BY <1>10, <1>12, CodeGrows
<1>14. Grown(iloc, labels, iloc', labels', TopReach) /\ c \in Codes(TopReach \cup (Len(iloc) + 1 .. Len(iloc')))
  BY <1>1, <1>8, <1>13 DEF D
<1> QED
  BY <1>1, <1>4, <1>14, LeavesNone

LEMMA AssignStep ==
    ASSUME Held, Assign
    PROVE  Went
<1> DEFINE n == Len(iloc)
           x == Of0(2)
           A == KidReach(1)
           B == KidReach(2)
           C == KidReach(3)
           tree == t0.kids[1]
           value == t0.kids[2]
           tcode == cc(1)
           a == Assigned(iloc, labels, tree, tcode, value, x)
           D == n + 1 .. Len(a.iloc)
<1>1. /\ Ready /\ t0.kind = "AST_ATRIBUICAO" /\ iloc' = a.iloc /\ labels' = a.labels
      /\ Leave(a.code \o cc(3), {}, {})
  BY VisitingIs DEF Assign
<1>2. /\ n \in Nat /\ TopReach \subseteq 1 .. n /\ Listing(iloc, labels)
      /\ A \cap B = {} /\ A \cap C = {} /\ B \cap C = {}
      /\ A \subseteq TopReach /\ C \subseteq TopReach /\ tcode \in Codes(A) /\ cc(3) \in Codes(C)
  BY <1>1, Kids DEF Held
<1>3. Own(t0.kind) = 2
  BY <1>1 DEF Own
<1>4. /\ x.code \in Codes(B) /\ B \subseteq TopReach /\ Waits(x.rem_true, x.code, iloc)
      /\ Waits(x.rem_false, x.code, iloc) /\ x.rem_true \cap x.rem_false = {}
  BY <1>1, <1>3, KidResult
<1>5. A \subseteq 1 .. Len(iloc) /\ B \subseteq 1 .. Len(iloc)
  BY <1>2, <1>4
<1> HIDE DEF x, A, B, C, tree, value, tcode
<1>6. Grown(iloc, labels, a.iloc, a.labels, B)
  BY <1>2, <1>4, <1>5, AssignedOne
<1>7. CodeMade(a, A \cup B, Len(iloc))
  BY <1>2, <1>4, <1>5, AssignedOne
<1> HIDE DEF a
<1>8. Grown(iloc, labels, iloc', labels', TopReach)
  BY <1>1, <1>4, <1>6, GrownWider
<1>9. a.code \in Codes((A \cup B) \cup D)
  BY <1>7 DEF CodeMade
<1>10. D \cap C = {}
  BY <1>2
<1> HIDE DEF D
<1>11. ((A \cup B) \cup D) \cap C = {} /\ ((A \cup B) \cup D) \cup C \subseteq TopReach \cup D
  BY <1>2, <1>4, <1>10
<1>12. a.code \o cc(3) \in Codes(((A \cup B) \cup D) \cup C)
  BY <1>2, <1>9, <1>11, JoinedCodes
<1>13. a.code \o cc(3) \in Codes(TopReach \cup D)
  BY <1>12, <1>11, CodeGrows
<1>14. a.code \o cc(3) \in Codes(TopReach \cup (Len(iloc) + 1 .. Len(iloc')))
  BY <1>1, <1>13 DEF D
<1> QED
  BY <1>1, <1>8, <1>14, LeavesNone

LEMMA ExpListStep ==
    ASSUME Held, ExpList
    PROVE  Went
<1> DEFINE y == Of0(2)
           exps == <<cc(1)>> \o y.exps
           x == Left(<<>>, {}, {}, exps)
           A == KidReach(1)
           B == KidReach(2)
           n == Len(iloc)
           S == Codes(1 .. n)
<1>1. Ready /\ t0.kind = "AST_EXP_LIST" /\ Answer(x) /\ iloc' = iloc /\ labels' = labels
  BY VisitingIs DEF ExpList
<1>2. /\ n \in Nat /\ TopReach \subseteq 1 .. n /\ Listing(iloc, labels)
      /\ A \cap B = {} /\ A \subseteq TopReach /\ cc(1) \in Codes(A)
  BY <1>1, Kids DEF Held
<1>3. Own(t0.kind) = 2
  BY <1>1 DEF Own
<1>4. Sound(y, iloc) /\ B = Reach(y) /\ B \subseteq TopReach
  BY <1>1, <1>3, KidResult
<1> HIDE DEF y, A, B
<1>5. cc(1) \in S
  <2>1. A \subseteq 1 .. n
    BY <1>2
  <2> QED
    BY <1>2, <2>1, CodeGrows
<1>6. /\ y.exps \in Seq(S) /\ Len(y.exps) \in Nat /\ Len(y.exps) >= 1 /\ DOMAIN y.exps = 1 .. Len(y.exps)
      /\ \A d, e \in DOMAIN y.exps : d # e => Range(y.exps[d]) \cap Range(y.exps[e]) = {}
      /\ \A e \in DOMAIN y.exps : Range(y.exps[e]) \subseteq B
  BY <1>4, ResultFacts DEF Sound
<1> HIDE DEF S
<1>7. /\ exps \in Seq(S) /\ Len(exps) = Len(y.exps) + 1 /\ DOMAIN exps = 1 .. Len(y.exps) + 1 /\ exps[1] = cc(1)
      /\ \A e \in 2 .. Len(y.exps) + 1 : exps[e] = y.exps[e - 1] /\ e - 1 \in DOMAIN y.exps
  <2>1. <<cc(1)>> \in Seq(S) /\ Len(<<cc(1)>>) = 1 /\ <<cc(1)>>[1] = cc(1)
    BY <1>5
  <2> QED
    BY <1>6, <2>1
<1> HIDE DEF exps
<1>8. Range(cc(1)) \subseteq A
  BY <1>2, CodeFacts
<1>9. ASSUME NEW d \in DOMAIN exps, NEW e \in DOMAIN exps, d # e
      PROVE  Range(exps[d]) \cap Range(exps[e]) = {}
  <2>1. CASE d = 1
    <3>1. e \in 2 .. Len(y.exps) + 1
      BY <1>6, <1>7, <1>9, <2>1
    <3>2. Range(exps[e]) \subseteq B
      BY <1>6, <1>7, <3>1
    <3> QED
      BY <1>2, <1>7, <1>8, <2>1, <3>2
  <2>2. CASE e = 1
    <3>1. d \in 2 .. Len(y.exps) + 1
      BY <1>6, <1>7, <1>9, <2>2
    <3>2. Range(exps[d]) \subseteq B
      BY <1>6, <1>7, <3>1
    <3> QED
      BY <1>2, <1>7, <1>8, <2>2, <3>2
  <2>3. CASE d # 1 /\ e # 1
    <3>1. d \in 2 .. Len(y.exps) + 1 /\ e \in 2 .. Len(y.exps) + 1
      BY <1>6, <1>7, <2>3
    <3>2. d - 1 # e - 1
      BY <1>9, <3>1
    <3>3. exps[d] = y.exps[d - 1] /\ exps[e] = y.exps[e - 1] /\ d - 1 \in DOMAIN y.exps /\ e - 1 \in DOMAIN y.exps
      BY <1>7, <3>1
    <3> QED
      BY <1>6, <3>2, <3>3
  <2> QED
    BY <2>1, <2>2, <2>3
<1>10. x.code = <<>> /\ x.rem_true = {} /\ x.rem_false = {} /\ x.exps = exps
  BY DEF Left
<1> HIDE DEF x
<1>11. Sound(x, iloc)
  <2>1. Waits({}, x.code, iloc)
    BY NothingWaits
  <2>2. Len(exps) >= 1
    BY <1>6, <1>7
  <2>3. exps \in Seq(Codes(1 .. Len(iloc)))
    BY <1>7 DEF S
  <2> QED
    BY <1>9, <1>10, <2>1, <2>2, <2>3 DEF Sound
<1>12. Reach(x) \subseteq A \cup B
  <2>1. ASSUME NEW e \in DOMAIN exps PROVE Range(exps[e]) \subseteq A \cup B
    <3>1. CASE e = 1
      BY <1>7, <1>8, <3>1
    <3>2. CASE e # 1
      <4>1. e \in 2 .. Len(y.exps) + 1
        BY <1>6, <1>7, <3>2
      <4> QED
        BY <1>6, <1>7, <4>1
    <3> QED
      BY <3>1, <3>2
  <2> QED
    BY <1>10, <2>1 DEF Reach
<1>13. Grown(iloc, labels, iloc', labels', TopReach)
  BY <1>1, <1>2, GrownSame
<1>14. Sound(x, iloc') /\ Reach(x) \subseteq TopReach \cup (Len(iloc) + 1 .. Len(iloc'))
  BY <1>1, <1>2, <1>4, <1>11, <1>12
<1>15. Held' /\ Len(calls') >= 1
  BY <1>1, <1>13, <1>14, Answered
<1> QED
  BY <1>13, <1>15 DEF Went

LEMMA DefaultStep ==
    ASSUME Held, Default
    PROVE  Went
<1>1. Ready /\ Leave(Whole, {}, {}) /\ iloc' = iloc /\ labels' = labels
  BY VisitingIs DEF Default
<1>2. Listing(iloc, labels) /\ Whole \in Codes(TopReach)
  BY <1>1, KidCodes DEF Held
<1>3. Grown(iloc, labels, iloc', labels', TopReach)
  BY <1>1, <1>2, GrownSame
<1>4. Whole \in Codes(TopReach \cup (Len(iloc) + 1 .. Len(iloc')))
  BY <1>2, CodeGrows
<1> QED
  BY <1>1, <1>3, <1>4, LeavesNone

----------------------------------------------------------------------------
LEMMA UpTo ==
    ASSUME NEW n \in Nat, NEW q \in Nat, n <= q, NEW K, K \subseteq 1 .. n
    PROVE  K \subseteq 1 .. q
OBVIOUS

\* The code of a next command, or the nop that stands for it, after a code of
\* the other children.
LEMMA NextFollows ==
    ASSUME Held, Ready, NEW list, NEW l, Grown(iloc, labels, list, l, {}), NEW i \in Nat \ {0},
           NEW P, P \subseteq (TopReach \ KidReach(i)) \cup (Len(iloc) + 1 .. Len(list)), NEW p \in Codes(P)
    PROVE  /\ Grown(iloc, labels, OrNop(list, cc(i)).iloc, l, {})
           /\ p \o OrNop(list, cc(i)).code \in Codes(TopReach \cup (Len(iloc) + 1 .. Len(OrNop(list, cc(i)).iloc)))
<1> DEFINE K == KidReach(i)
           next == OrNop(list, cc(i))
           n == Len(iloc)
           q == Len(list)
           m == Len(next.iloc)
           D == q + 1 .. m
           W == TopReach \cup (n + 1 .. m)
<1>1. /\ n \in Nat /\ TopReach \subseteq 1 .. n /\ K \subseteq TopReach /\ cc(i) \in Codes(K)
      /\ Listing(iloc, labels)
  BY Kids DEF Held
<1>2. Listing(list, l) /\ q \in Nat /\ n <= q
  BY ListingFacts DEF Grown
<1> HIDE DEF K, q, n
<1>3. K \subseteq 1 .. q
  <2>1. K \subseteq 1 .. n
    BY <1>1
  <2> QED
    BY <1>1, <1>2, <2>1, UpTo
<1>4. P \subseteq (TopReach \ K) \cup (n + 1 .. q)
  BY DEF K, n, q
<1>5. Grown(list, l, next.iloc, l, {})
  BY <1>1, <1>2, <1>3, NextOrNop DEF q
<1>6. next.code \in Codes(K \cup D)
  BY <1>1, <1>2, <1>3, NextOrNop DEF q
<1> HIDE DEF next
<1>7. Grown(iloc, labels, next.iloc, l, {})
  BY <1>1, <1>5, GrownAgain
<1>8. m \in Nat /\ q <= m
  BY <1>5, ListingFacts DEF Grown, q
<1> HIDE DEF m
<1>9. P \cap (K \cup D) = {} /\ P \cup (K \cup D) \subseteq W
  <2>1. D \cap TopReach = {} /\ D \cap (n + 1 .. q) = {}
    BY <1>1, <1>2
  <2>2. D \subseteq n + 1 .. m /\ n + 1 .. q \subseteq n + 1 .. m
    BY <1>1, <1>2, <1>8
  <2>3. K \cap (n + 1 .. q) = {}
    BY <1>1
  <2> HIDE DEF D
  <2> QED
    BY <1>1, <1>4, <2>1, <2>2, <2>3
<1> HIDE DEF D, W
<1>10. p \o next.code \in Codes(P \cup (K \cup D))
  BY <1>6, <1>9, JoinedCodes
<1>11. p \o next.code \in Codes(W)
  BY <1>9, <1>10, CodeGrows
<1> QED
  BY <1>7, <1>11 DEF next, W, n, m

\* The jump that leads into a loop, to a place labelled for it.
Entry(i) == Aim(Append(iloc, Instruction("jumpI", None, None, labels + 1)), {}, i, labels + 1)

LEMMA JumpAppended ==
    ASSUME Held, Ready
    PROVE  /\ Grown(iloc, labels, Append(iloc, Instruction("jumpI", None, None, labels + 1)), labels + 1, {})
           /\ Len(Append(iloc, Instruction("jumpI", None, None, labels + 1))) = Len(iloc) + 1
<1> DEFINE l == labels + 1
           jump == Instruction("jumpI", None, None, l)
           none == {}
<1>1. labels \in Nat /\ Listing(iloc, labels)
  BY Kids DEF Held
<1>2. l \in Nat /\ labels <= l /\ LabelIn(l, l)
  BY <1>1 DEF LabelIn
<1> HIDE DEF l
<1>3. Fits(jump, l)
  BY <1>2, JumpFits
<1> HIDE DEF jump, none
<1>4. Grown(iloc, labels, Append(iloc, jump), l, none)
  BY <1>1, <1>2, <1>3, AppendedOne
<1>5. Len(Append(iloc, jump)) = Len(iloc) + 1
  BY <1>1 DEF Listing
<1> QED
  BY <1>4, <1>5 DEF jump, l, none

LEMMA LabelPut ==
    ASSUME NEW list, NEW l, Listing(list, l), l >= 1, NEW i
    PROVE  Grown(list, l, Aim(list, {}, i, l), l, {}) /\ Len(Aim(list, {}, i, l)) = Len(list)
<1> DEFINE none == {}
           c == <<>>
<1>1. l \in Nat /\ l <= l /\ l \in 1 .. l
  BY ListingFacts
<1>2. Waits(none, c, list)
  BY NothingWaits
<1>3. Range(c) \subseteq none
  BY EmptyCode
<1> HIDE DEF none, c
<1>4. Grown(list, l, Aim(list, none, i, l), l, none)
  BY <1>1, <1>2, <1>3, Aimed
<1>5. Len(Aim(list, none, i, l)) = Len(list)
  BY ListingFacts, AimLength
<1> QED
  BY <1>4, <1>5 DEF none

LEMMA EntryMade ==
    ASSUME Held, Ready, NEW i
    PROVE  Grown(iloc, labels, Entry(i), labels + 1, {}) /\ Len(Entry(i)) = Len(iloc) + 1
<1> DEFINE l == labels + 1
           none == {}
           list == Append(iloc, Instruction("jumpI", None, None, l))
<1>1. labels \in Nat /\ Listing(iloc, labels)
  BY Kids DEF Held
<1>2. l >= 1
  BY <1>1
<1>3. Grown(iloc, labels, list, l, none) /\ Len(list) = Len(iloc) + 1
  BY JumpAppended
<1>4. Entry(i) = Aim(list, {}, i, l)
  BY DEF Entry
<1> HIDE DEF l, list
<1>5. Listing(list, l)
  BY <1>3 DEF Grown
<1>6. Grown(list, l, Aim(list, {}, i, l), l, {}) /\ Len(Aim(list, {}, i, l)) = Len(list)
  BY <1>2, <1>5, LabelPut
<1>7. Grown(list, l, Entry(i), l, none) /\ Len(Entry(i)) = Len(iloc) + 1
  BY <1>3, <1>4, <1>6
<1> HIDE DEF none
<1>8. none \subseteq none
  OBVIOUS
<1>9. Grown(iloc, labels, Entry(i), l, none)
  BY <1>1, <1>3, <1>7, <1>8, GrownAgain
<1> QED
  BY <1>7, <1>9 DEF l, none

LEMMA IfStep ==
    ASSUME Held, If
    PROVE  Went
<1> DEFINE next == OrNop(iloc, cc(3))
           p == cc(1) \o cc(2)
           P == KidReach(1) \cup KidReach(2)
           yes == Head(cc(2))
           no == Head(next.code)
           m == labels + 1
           c == p \o next.code
<1>1. /\ Ready /\ t0.kind = "AST_IF" /\ iloc' = Branch(next.iloc, Of0(1), yes, no, m)
      /\ Leave(c, {}, {}) /\ labels' = labels + 2
  BY VisitingIs DEF If
<1>2. labels \in Nat /\ Listing(iloc, labels) /\ cc(1) \in Codes(KidReach(1)) /\ cc(2) \in Codes(KidReach(2))
  BY <1>1, Kids DEF Held
<1>3. /\ KidReach(1) \cap KidReach(2) = {} /\ KidReach(1) \cap KidReach(3) = {} /\ KidReach(2) \cap KidReach(3) = {}
      /\ KidReach(1) \subseteq TopReach /\ KidReach(2) \subseteq TopReach
  BY <1>1, Kids
<1>4. p \in Codes(P)
  BY <1>2, <1>3, JoinedCodes
<1>5. P \subseteq (TopReach \ KidReach(3)) \cup (Len(iloc) + 1 .. Len(iloc))
  BY <1>3
<1>6. Grown(iloc, labels, iloc, labels, {})
  BY <1>2, GrownSame
<1> HIDE DEF p, P
<1>7. Grown(iloc, labels, next.iloc, labels, {}) /\ c \in Codes(TopReach \cup (Len(iloc) + 1 .. Len(next.iloc)))
  <2>1. 3 \in Nat \ {0} /\ Ready
    BY <1>1
  <2>2. Grown(iloc, labels, next.iloc, labels, {})
    BY <2>1, <1>4, <1>5, <1>6, NextFollows
  <2>3. c \in Codes(TopReach \cup (Len(iloc) + 1 .. Len(next.iloc)))
    BY <2>1, <1>4, <1>5, <1>6, NextFollows
  <2> QED
    BY <2>2, <2>3
<1>8. 1 \in Nat \ {0} /\ 1 <= Own(t0.kind)
  BY <1>1 DEF Own
<1>9. labels' \in Nat /\ labels <= labels' /\ m \in 1 .. labels' /\ m + 1 <= labels'
  BY <1>1, <1>2
<1> HIDE DEF next, c, yes, no, m
<1> QED
  BY <1>1, <1>7, <1>8, <1>9, BranchesAndLeaves

LEMMA DoWhileStep ==
    ASSUME Held, DoWhile
    PROVE  Went
<1> DEFINE next == OrNop(iloc, cc(3))
           p == cc(1) \o cc(2)
           P == KidReach(1) \cup KidReach(2)
           yes == Head(cc(1))
           no == Head(next.code)
           m == labels + 1
           c == p \o next.code
<1>1. /\ Ready /\ t0.kind = "AST_DO_WHILE" /\ iloc' = Branch(next.iloc, Of0(2), yes, no, m)
      /\ Leave(c, {}, {}) /\ labels' = labels + 2
  BY VisitingIs DEF DoWhile
<1>2. labels \in Nat /\ Listing(iloc, labels) /\ cc(1) \in Codes(KidReach(1)) /\ cc(2) \in Codes(KidReach(2))
  BY <1>1, Kids DEF Held
<1>3. /\ KidReach(1) \cap KidReach(2) = {} /\ KidReach(1) \cap KidReach(3) = {} /\ KidReach(2) \cap KidReach(3) = {}
      /\ KidReach(1) \subseteq TopReach /\ KidReach(2) \subseteq TopReach
  BY <1>1, Kids
<1>4. p \in Codes(P)
  BY <1>2, <1>3, JoinedCodes
<1>5. P \subseteq (TopReach \ KidReach(3)) \cup (Len(iloc) + 1 .. Len(iloc))
  BY <1>3
<1>6. Grown(iloc, labels, iloc, labels, {})
  BY <1>2, GrownSame
<1> HIDE DEF p, P
<1>7. Grown(iloc, labels, next.iloc, labels, {}) /\ c \in Codes(TopReach \cup (Len(iloc) + 1 .. Len(next.iloc)))
  <2>1. 3 \in Nat \ {0} /\ Ready
    BY <1>1
  <2>2. Grown(iloc, labels, next.iloc, labels, {})
    BY <2>1, <1>4, <1>5, <1>6, NextFollows
  <2>3. c \in Codes(TopReach \cup (Len(iloc) + 1 .. Len(next.iloc)))
    BY <2>1, <1>4, <1>5, <1>6, NextFollows
  <2> QED
    BY <2>2, <2>3
<1>8. 2 \in Nat \ {0} /\ 2 <= Own(t0.kind)
  BY <1>1 DEF Own
<1>9. labels' \in Nat /\ labels <= labels' /\ m \in 1 .. labels' /\ m + 1 <= labels'
  BY <1>1, <1>2
<1> HIDE DEF next, c, yes, no, m
<1> QED
  BY <1>1, <1>7, <1>8, <1>9, BranchesAndLeaves

\* A loop: its jump, the codes of its children, and what follows.
LEMMA WhileStep ==
    ASSUME Held, While
    PROVE  Went
<1> DEFINE dest == Head(cc(2))
           entry == Entry(dest)
           next == OrNop(entry, cc(3))
           n == Len(iloc)
           D == {n + 1}
           P == (D \cup KidReach(1)) \cup KidReach(2)
           e == <<n + 1>>
           p == (e \o cc(1)) \o cc(2)
           yes == Head(cc(1))
           no == Head(next.code)
           l == labels + 1
           m == labels + 2
           c == p \o next.code
<1>1. /\ Ready /\ t0.kind = "AST_WHILE_DO" /\ iloc' = Branch(next.iloc, Of0(2), yes, no, m)
      /\ Leave(c, {}, {}) /\ labels' = labels + 3
  BY VisitingIs DEF While, Entry, r
<1>2. labels \in Nat /\ n \in Nat /\ cc(1) \in Codes(KidReach(1)) /\ cc(2) \in Codes(KidReach(2))
  BY <1>1, Kids
<1>3. /\ KidReach(1) \cap KidReach(2) = {} /\ KidReach(1) \cap KidReach(3) = {} /\ KidReach(2) \cap KidReach(3) = {}
      /\ KidReach(1) \subseteq TopReach /\ KidReach(2) \subseteq TopReach /\ KidReach(3) \subseteq TopReach
      /\ TopReach \subseteq 1 .. n
  BY <1>1, Kids
<1> HIDE DEF entry
<1>4. Grown(iloc, labels, entry, l, {}) /\ Len(entry) = n + 1
  BY <1>1, EntryMade DEF entry
<1>5. D \cap TopReach = {} /\ D = n + 1 .. Len(entry)
  BY <1>2, <1>3, <1>4
<1>6. e \in Codes(D)
  BY OneCode
<1> HIDE DEF D, e
<1>7. e \o cc(1) \in Codes(D \cup KidReach(1))
  BY <1>2, <1>3, <1>5, <1>6, JoinedCodes
<1>8. p \in Codes(P)
  BY <1>2, <1>3, <1>5, <1>7, JoinedCodes
<1>9. P \subseteq (TopReach \ KidReach(3)) \cup (Len(iloc) + 1 .. Len(entry))
  BY <1>3, <1>5
<1> HIDE DEF p, P, l
<1>10. Grown(iloc, labels, next.iloc, l, {}) /\ c \in Codes(TopReach \cup (Len(iloc) + 1 .. Len(next.iloc)))
  <2>1. 3 \in Nat \ {0} /\ Ready
    BY <1>1
  <2>2. Grown(iloc, labels, next.iloc, l, {})
    BY <2>1, <1>4, <1>8, <1>9, NextFollows
  <2>3. c \in Codes(TopReach \cup (Len(iloc) + 1 .. Len(next.iloc)))
    BY <2>1, <1>4, <1>8, <1>9, NextFollows
  <2> QED
    BY <2>2, <2>3
<1>11. 2 \in Nat \ {0} /\ 2 <= Own(t0.kind)
  BY <1>1 DEF Own
<1>12. labels' \in Nat /\ l <= labels' /\ m \in 1 .. labels' /\ m + 1 <= labels'
  BY <1>1, <1>2 DEF l
<1> HIDE DEF next, c, yes, no, m
<1> QED
  BY <1>1, <1>10, <1>11, <1>12, BranchesAndLeaves

LEMMA ForStep ==
    ASSUME Held, For
    PROVE  Went
<1> DEFINE dest == Head(cc(2))
           entry == Entry(dest)
           next == OrNop(entry, cc(5))
           n == Len(iloc)
           D == {n + 1}
           P == (((KidReach(1) \cup D) \cup KidReach(4)) \cup KidReach(3)) \cup KidReach(2)
           e == <<n + 1>>
           p == (((cc(1) \o e) \o cc(4)) \o cc(3)) \o cc(2)
           yes == Head(cc(4))
           no == Head(next.code)
           l == labels + 1
           m == labels + 2
           c == p \o next.code
<1>1. /\ Ready /\ t0.kind = "AST_FOR" /\ iloc' = Branch(next.iloc, Of0(2), yes, no, m)
      /\ Leave(c, {}, {}) /\ labels' = labels + 3
  BY VisitingIs DEF For, Entry, r
<1>2. /\ labels \in Nat /\ n \in Nat /\ cc(1) \in Codes(KidReach(1)) /\ cc(2) \in Codes(KidReach(2))
      /\ cc(3) \in Codes(KidReach(3)) /\ cc(4) \in Codes(KidReach(4))
  <2>1. \A i \in Nat \ {0} : cc(i) \in Codes(KidReach(i))
    BY <1>1, Kids
  <2> QED
    BY <1>1, <2>1, Kids
<1>3. /\ KidReach(1) \cap KidReach(2) = {} /\ KidReach(1) \cap KidReach(3) = {} /\ KidReach(1) \cap KidReach(4) = {}
      /\ KidReach(2) \cap KidReach(3) = {} /\ KidReach(2) \cap KidReach(4) = {} /\ KidReach(3) \cap KidReach(4) = {}
  BY SMTT(30), <1>1, Kids
<1>4. /\ \A i \in 1 .. 4 : KidReach(i) \cap KidReach(5) = {} /\ KidReach(i) \subseteq TopReach
      /\ KidReach(5) \subseteq TopReach /\ TopReach \subseteq 1 .. n
  BY SMTT(30), <1>1, Kids
<1>5. /\ KidReach(1) \subseteq TopReach \ KidReach(5) /\ KidReach(2) \subseteq TopReach \ KidReach(5)
      /\ KidReach(3) \subseteq TopReach \ KidReach(5) /\ KidReach(4) \subseteq TopReach \ KidReach(5)
  BY SMTT(30), <1>4
<1> HIDE DEF entry
<1>6. Grown(iloc, labels, entry, l, {}) /\ Len(entry) = n + 1
  BY <1>1, EntryMade DEF entry
<1>7. D \cap TopReach = {} /\ D = n + 1 .. Len(entry)
  BY <1>2, <1>4, <1>6
<1>8. e \in Codes(D)
  BY OneCode
<1> HIDE DEF D, e
<1>9. cc(1) \o e \in Codes(KidReach(1) \cup D)
  BY <1>2, <1>5, <1>7, <1>8, JoinedCodes
<1>10. (cc(1) \o e) \o cc(4) \in Codes((KidReach(1) \cup D) \cup KidReach(4))
  <2>1. (KidReach(1) \cup D) \cap KidReach(4) = {}
    BY <1>3, <1>5, <1>7
  <2> QED
    BY <1>2, <1>9, <2>1, JoinedCodes
<1>11. ((cc(1) \o e) \o cc(4)) \o cc(3) \in Codes(((KidReach(1) \cup D) \cup KidReach(4)) \cup KidReach(3))
  <2>1. ((KidReach(1) \cup D) \cup KidReach(4)) \cap KidReach(3) = {}
    BY <1>3, <1>5, <1>7
  <2> QED
    BY <1>2, <1>10, <2>1, JoinedCodes
<1>12. p \in Codes(P)
  <2>1. (((KidReach(1) \cup D) \cup KidReach(4)) \cup KidReach(3)) \cap KidReach(2) = {}
    BY <1>3, <1>5, <1>7
  <2> QED
    BY <1>2, <1>11, <2>1, JoinedCodes
<1>13. P \subseteq (TopReach \ KidReach(5)) \cup (Len(iloc) + 1 .. Len(entry))
  BY <1>5, <1>7
<1> HIDE DEF p, P, l
<1>14. Grown(iloc, labels, next.iloc, l, {}) /\ c \in Codes(TopReach \cup (Len(iloc) + 1 .. Len(next.iloc)))
  <2>1. 5 \in Nat \ {0} /\ Ready
    BY <1>1
  <2>2. Grown(iloc, labels, next.iloc, l, {})
    BY <2>1, <1>6, <1>12, <1>13, NextFollows
  <2>3. c \in Codes(TopReach \cup (Len(iloc) + 1 .. Len(next.iloc)))
    BY <2>1, <1>6, <1>12, <1>13, NextFollows
  <2> QED
    BY <2>2, <2>3
<1>15. 2 \in Nat \ {0} /\ 2 <= Own(t0.kind)
  BY <1>1 DEF Own
<1>16. labels' \in Nat /\ l <= labels' /\ m \in 1 .. labels' /\ m + 1 <= labels'
  BY <1>1, <1>2 DEF l
<1> HIDE DEF next, c, yes, no, m
<1> QED
  BY <1>1, <1>14, <1>15, <1>16, BranchesAndLeaves

\* Both alternatives, each with its jump or its nop.
LEMMA IfElseStep ==
    ASSUME Held, IfElse
    PROVE  Went
<1> DEFINE n == Len(iloc)
           l == labels + 1
           jumped == Append(iloc, Instruction("jumpI", None, None, l))
           next == OrNop(jumped, cc(4))
           dest == Head(next.code)
           aimed == Aim(next.iloc, {}, dest, l)
           no == OrNop(aimed, cc(3))
           yes == Append(cc(2), n + 1)
           m == labels + 2
           c == ((cc(1) \o yes) \o no.code) \o next.code
           to == Head(yes)
           else == Head(no.code)
<1>1. /\ Ready /\ t0.kind = "AST_IF_ELSE" /\ iloc' = Branch(no.iloc, Of0(1), to, else, m)
      /\ Leave(c, {}, {}) /\ labels' = labels + 3
  BY VisitingIs DEF IfElse, r
<1>2. labels \in Nat /\ n \in Nat /\ Listing(iloc, labels) /\ l >= 1
  BY <1>1, Kids DEF Held
<1> DEFINE K1 == KidReach(1)
           K2 == KidReach(2)
           K3 == KidReach(3)
           K4 == KidReach(4)
<1>3. cc(1) \in Codes(K1) /\ cc(2) \in Codes(K2) /\ cc(3) \in Codes(K3) /\ cc(4) \in Codes(K4)
  <2>1. \A i \in Nat \ {0} : cc(i) \in Codes(KidReach(i))
    BY <1>1, Kids
  <2> QED
    BY <2>1
<1>4. /\ K1 \cap K2 = {} /\ K1 \cap K3 = {} /\ K1 \cap K4 = {} /\ K2 \cap K3 = {} /\ K2 \cap K4 = {} /\ K3 \cap K4 = {}
      /\ TopReach \subseteq 1 .. n
  BY SMTT(30), <1>1, Kids
<1>5. K1 \subseteq TopReach /\ K2 \subseteq TopReach /\ K3 \subseteq TopReach /\ K4 \subseteq TopReach
  <2>1. \A i \in Nat \ {0} : KidReach(i) \subseteq TopReach
    BY <1>1, Kids
  <2> QED
    BY <2>1
<1> HIDE DEF K1, K2, K3, K4
<1>6. K1 \subseteq 1 .. n /\ K2 \subseteq 1 .. n /\ K3 \subseteq 1 .. n /\ K4 \subseteq 1 .. n
  BY <1>4, <1>5
<1>7. Grown(iloc, labels, jumped, l, {}) /\ Len(jumped) = n + 1
  BY <1>1, JumpAppended
<1> HIDE DEF jumped
<1>8. Listing(jumped, l)
  BY <1>7 DEF Grown
<1>9. K4 \subseteq 1 .. Len(jumped)
  <2>1. n + 1 \in Nat /\ n <= n + 1
    BY <1>2
  <2> QED
    BY <1>2, <1>6, <1>7, <2>1, UpTo
<1>10. Grown(jumped, l, next.iloc, l, {})
  BY <1>3, <1>8, <1>9, NextOrNop
<1> DEFINE q == Len(next.iloc)
           D4 == Len(jumped) + 1 .. q
<1>11. next.code \in Codes(K4 \cup D4)
  BY <1>3, <1>8, <1>9, NextOrNop
<1> HIDE DEF next, dest
<1>12. Listing(next.iloc, l)
  BY <1>10 DEF Grown
<1>13. Grown(next.iloc, l, aimed, l, {}) /\ Len(aimed) = q
  BY <1>2, <1>12, LabelPut
<1> HIDE DEF aimed
<1>14. q \in Nat /\ n + 1 <= q
  <2>1. q \in Nat
    BY <1>12, ListingFacts
  <2>2. Len(jumped) <= q
    BY <1>10 DEF Grown
  <2> QED
    BY <1>7, <2>1, <2>2
<1>15. Listing(aimed, l) /\ K3 \subseteq 1 .. Len(aimed)
  <2>1. n <= q
    BY <1>2, <1>14
  <2>2. K3 \subseteq 1 .. q
    BY <1>2, <1>6, <1>14, <2>1, UpTo
  <2> QED
    BY <1>13, <2>2 DEF Grown
<1>16. Grown(aimed, l, no.iloc, l, {})
  BY <1>3, <1>15, NextOrNop
<1> DEFINE z == Len(no.iloc)
           D3 == Len(aimed) + 1 .. z
           W == TopReach \cup (n + 1 .. z)
<1>17. no.code \in Codes(K3 \cup D3)
  BY <1>3, <1>15, NextOrNop
<1> HIDE DEF no, else
<1>18. z \in Nat /\ q <= z
  <2>1. Listing(no.iloc, l) /\ Len(aimed) <= z
    BY <1>16 DEF Grown
  <2> QED
    BY <1>13, <2>1, ListingFacts
<1>19. Grown(iloc, labels, no.iloc, l, {})
  <2>1. {} \subseteq {}
    OBVIOUS
  <2>2. Grown(iloc, labels, next.iloc, l, {})
    BY <1>2, <1>7, <1>10, <2>1, GrownAgain
  <2>3. Grown(iloc, labels, aimed, l, {})
    BY <1>2, <1>13, <2>1, <2>2, GrownAgain
  <2> QED
    BY <1>2, <1>16, <2>1, <2>3, GrownAgain
<1> DEFINE D2 == n + 1 .. n + 1
<1>20. yes \in Codes(K2 \cup D2)
  BY <1>2, <1>3, <1>6, OneMore
<1> HIDE DEF yes, to
<1>21. D4 = n + 2 .. q /\ D3 = q + 1 .. z
  BY <1>2, <1>7, <1>13
<1> HIDE DEF q, z, n, D3, D4
<1>22. /\ D2 \cap TopReach = {} /\ D3 \cap TopReach = {} /\ D4 \cap TopReach = {}
  <2>1. D2 \cap (1 .. n) = {}
    BY <1>2
  <2>2. D3 \cap (1 .. n) = {}
    BY <1>2, <1>14, <1>21
  <2>3. D4 \cap (1 .. n) = {}
    BY <1>2, <1>21
  <2> QED
    BY <1>4, <2>1, <2>2, <2>3
<1>23. D2 \cap D3 = {} /\ D2 \cap D4 = {} /\ D3 \cap D4 = {}
  BY <1>2, <1>14, <1>18, <1>21
<1>24. D2 \subseteq n + 1 .. z /\ D3 \subseteq n + 1 .. z /\ D4 \subseteq n + 1 .. z
  BY <1>2, <1>14, <1>18, <1>21
<1> HIDE DEF D2
<1>25. cc(1) \o yes \in Codes(K1 \cup (K2 \cup D2))
  <2>1. K1 \cap (K2 \cup D2) = {}
    BY <1>4, <1>5, <1>22
  <2> QED
    BY <1>3, <1>20, <2>1, JoinedCodes
<1>26. (cc(1) \o yes) \o no.code \in Codes((K1 \cup (K2 \cup D2)) \cup (K3 \cup D3))
  <2>1. (K1 \cup (K2 \cup D2)) \cap (K3 \cup D3) = {}
    BY <1>4, <1>5, <1>22, <1>23
  <2> QED
    BY <1>17, <1>25, <2>1, JoinedCodes
<1>27. c \in Codes(((K1 \cup (K2 \cup D2)) \cup (K3 \cup D3)) \cup (K4 \cup D4))
  <2>1. ((K1 \cup (K2 \cup D2)) \cup (K3 \cup D3)) \cap (K4 \cup D4) = {}
    BY <1>4, <1>5, <1>22, <1>23
  <2> QED
    BY <1>11, <1>26, <2>1, JoinedCodes
<1> HIDE DEF c
<1>28. c \in Codes(W)
  <2>1. ((K1 \cup (K2 \cup D2)) \cup (K3 \cup D3)) \cup (K4 \cup D4) \subseteq W
    BY <1>5, <1>24
  <2> HIDE DEF W
  <2> QED
    BY <1>27, <2>1, CodeGrows
<1>29. c \in Codes(TopReach \cup (Len(iloc) + 1 .. Len(no.iloc)))
  BY <1>28 DEF n, z
<1>30. 1 \in Nat \ {0} /\ 1 <= Own(t0.kind)
  BY <1>1 DEF Own
<1>31. labels' \in Nat /\ l <= labels' /\ m \in 1 .. labels' /\ m + 1 <= labels'
  BY <1>1, <1>2
<1> HIDE DEF l, m
<1> QED
  BY <1>1, <1>19, <1>29, <1>30, <1>31, BranchesAndLeaves

----------------------------------------------------------------------------
(* Rounds *)

LEMMA NatMin ==
    ASSUME NEW Ks, Ks \subseteq Nat, Ks # {}
    PROVE  \E x \in Ks : \A y \in Ks : x <= y
<1> DEFINE R == OpToRel(<, Nat)
<1>1. IsWellFoundedOn(R, Nat)
  BY NatLessThanWellFounded
<1>2. \A x, y \in Nat : y < x => <<y, x>> \in R
  BY DEF OpToRel
<1> HIDE DEF R
<1>3. PICK x \in Ks : \A y \in Ks : ~ (<<y, x>> \in R)
  BY <1>1, WFMin
<1>4. ASSUME NEW y \in Ks
      PROVE  x <= y
  <2>1. x \in Nat /\ y \in Nat
    OBVIOUS
  <2>2. ~ (y < x)
    BY <1>2, <1>3, <2>1, Zenon
  <2> QED
    BY <2>1, <2>2
<1> QED
  BY <1>4

\* Induction on a set of numbers.
LEMMA SetInduction ==
    ASSUME NEW Ks, 0 \in Ks, \A k \in Nat : k \in Ks => k + 1 \in Ks
    PROVE  Nat \subseteq Ks
<1> DEFINE T == Nat \ Ks
<1>1. SUFFICES ASSUME T # {} PROVE FALSE
  OBVIOUS
<1>2. PICK x \in T : \A y \in T : x <= y
  BY <1>1, NatMin
<1>3. x \in Nat /\ x # 0 /\ x - 1 \in Nat /\ x = (x - 1) + 1
  BY <1>2
<1>4. x - 1 \in Ks
  BY <1>2, <1>3
<1> QED
  BY <1>2, <1>3, <1>4

Start == [iloc |-> iloc, labels |-> labels, id |-> cc(1), code |-> <<>>]
Round(exps, k, acc) == IF k = 0 THEN Start ELSE Repeated(acc, exps[k])

\* f is the function after of Rounds, up to n rounds.
Unfolds(exps, f, n) == f = [k \in 0 .. n |-> Round(exps, k, f[k - 1])]

LEMMA RoundsUnfold ==
    ASSUME NEW exps
    PROVE  \A n \in Nat : \E f : Unfolds(exps, f, n)
<1> DEFINE Ks == {n \in Nat : \E f : Unfolds(exps, f, n)}
<1>1. 0 \in Ks
  <2> DEFINE f == [k \in 0 .. 0 |-> Round(exps, 0, <<>>)]
  <2>1. \A acc : Round(exps, 0, acc) = Round(exps, 0, <<>>)
    BY DEF Round
  <2>2. f = [k \in 0 .. 0 |-> Round(exps, k, f[k - 1])]
    <3>1. \A k \in 0 .. 0 : k = 0
      OBVIOUS
    <3> QED
      BY <2>1, <3>1
  <2> QED
    BY <2>2 DEF Unfolds
<1>2. ASSUME NEW n \in Nat, n \in Ks PROVE n + 1 \in Ks
  <2>1. PICK f : Unfolds(exps, f, n)
    BY <1>2
  <2> DEFINE g == [k \in 0 .. n + 1 |-> IF k <= n THEN f[k] ELSE Round(exps, n + 1, f[n])]
  <2>2. \A k \in 0 .. n : f[k] = Round(exps, k, f[k - 1])
    BY <2>1 DEF Unfolds
  <2>3. \A a, b : Round(exps, 0, a) = Round(exps, 0, b)
    BY DEF Round
  <2>4. ASSUME NEW k \in 0 .. n + 1 PROVE g[k] = Round(exps, k, g[k - 1])
    <3>1. CASE k = 0
      BY <2>2, <2>3, <3>1
    <3>2. CASE k \in 1 .. n
      <4>1. k - 1 \in 0 .. n + 1 /\ k - 1 <= n /\ k <= n
        BY <3>2
      <4> QED
        BY <2>2, <3>2, <4>1
    <3>3. CASE k = n + 1
      <4>1. ~(k <= n) /\ k - 1 = n /\ n <= n /\ n \in 0 .. n + 1
        BY <3>3
      <4> QED
        BY <3>3, <4>1
    <3> QED
      BY <3>1, <3>2, <3>3
  <2>5. g = [k \in 0 .. n + 1 |-> Round(exps, k, g[k - 1])]
    BY <2>4
  <2> HIDE DEF g
  <2>6. Unfolds(exps, g, n + 1)
    BY <2>5 DEF Unfolds
  <2> QED
    BY <2>6
<1> HIDE DEF Ks
<1>3. Nat \subseteq Ks
  BY <1>1, <1>2, SetInduction
<1> QED
  BY <1>3 DEF Ks

LEMMA RoundsAre ==
    ASSUME NEW exps, Len(exps) \in Nat, Len(exps) >= 1
    PROVE  /\ Rounds(exps)[0] = Start
           /\ \A k \in 1 .. Len(exps) - 1 : Rounds(exps)[k] = Repeated(Rounds(exps)[k - 1], exps[k])
<1> DEFINE n == Len(exps) - 1
           after == CHOOSE f : Unfolds(exps, f, n)
<1>1. n \in Nat
  OBVIOUS
<1>2. Unfolds(exps, after, n)
  BY <1>1, RoundsUnfold
<1>3. Rounds(exps) = after
  BY DEF Rounds, Unfolds, Round, Start
<1> HIDE DEF after
<1>4. \A k \in 0 .. n : after[k] = Round(exps, k, after[k - 1])
  BY <1>2 DEF Unfolds
<1>5. 0 \in 0 .. n /\ \A k \in 1 .. n : k \in 0 .. n /\ k # 0
  BY <1>1
<1> QED
  BY <1>3, <1>4, <1>5 DEF Round

\* What the rounds of a foreach leave: the list has grown, and their code is made
\* of the codes R of expressions and of new instructions.
Gone(acc, R) ==
    /\ Grown(iloc, labels, acc.iloc, acc.labels, {})
    /\ acc.code \in Codes(R \cup (Len(iloc) + 1 .. Len(acc.iloc)))

\* The address of a variable is no code.
LEMMA StoredVariable ==
    ASSUME NEW list, NEW l, Listing(list, l), NEW C, C \subseteq 1 .. Len(list), NEW c \in Codes(C),
           NEW target, target.kind = "AST_IDENTIFICADOR", NEW a
    PROVE  /\ Grown(list, l, Stored(list, l, target, a, c).iloc, Stored(list, l, target, a, c).labels, {})
           /\ Stored(list, l, target, a, c).code \in Codes(C \cup (Len(list) + 1 .. Len(Stored(list, l, target, a, c).iloc)))
<1> DEFINE y == Stored(list, l, target, a, c)
           n == Len(list)
           D == n + 1 .. n + 1
           e == <<n + 1>>
<1>1. n \in Nat
  BY ListingFacts
<1>2. y.code = (<<>> \o c) \o e
  BY DEF Stored, AddressCode
<1>3. <<>> \o c = c
  BY CodeFacts
<1>4. e \in Codes(D)
  <2>1. D = {n + 1}
    BY <1>1
  <2> QED
    BY <2>1, OneCode
<1>5. C \cap D = {}
  BY <1>1
<1> HIDE DEF D, e
<1>6. y.code \in Codes(C \cup D)
  <2>1. c \o e \in Codes(C \cup D)
    BY <1>4, <1>5, JoinedCodes
  <2> QED
    BY <1>2, <1>3, <2>1
<1>7. Grown(list, l, y.iloc, l, {}) /\ y.labels = l /\ Len(y.iloc) = n + 1
  BY StoredGrows
<1> QED
  BY <1>6, <1>7 DEF D

LEMMA RoundGoes ==
    ASSUME Listing(iloc, labels), NEW A, NEW C, A \subseteq 1 .. Len(iloc), C \subseteq 1 .. Len(iloc),
           cc(1) \in Codes(A), cc(3) \in Codes(C), t0.kids[1].kind = "AST_IDENTIFICADOR",
           NEW R, NEW E, R \subseteq 1 .. Len(iloc), E \subseteq 1 .. Len(iloc), R \cap E = {}, NEW e \in Codes(E),
           NEW acc, Gone(acc, R)
    PROVE  Gone(Repeated(acc, e), R \cup E)
<1> DEFINE n == Len(iloc)
           tree == t0.kids[1]
           id == Dup(acc.iloc, acc.labels, cc(1))
           a == Stored(id.iloc, id.labels, tree, id.code, e)
           block == Dup(a.iloc, a.labels, cc(3))
           y == Repeated(acc, e)
           q == Len(acc.iloc)
           q1 == Len(id.iloc)
           q2 == Len(a.iloc)
           q3 == Len(block.iloc)
<1>1. n \in Nat /\ Grown(iloc, labels, acc.iloc, acc.labels, {}) /\ acc.code \in Codes(R \cup (n + 1 .. q))
  BY ListingFacts DEF Gone
<1>2. y.iloc = block.iloc /\ y.labels = block.labels /\ y.code = (acc.code \o a.code) \o block.code
  BY DEF Repeated
<1>3. Listing(acc.iloc, acc.labels) /\ q \in Nat /\ n <= q
  BY <1>1, ListingFacts DEF Grown
<1>4. A \subseteq 1 .. q /\ C \subseteq 1 .. q /\ E \subseteq 1 .. q
  BY <1>1, <1>3, UpTo
<1> HIDE DEF y, tree
<1>5. Grown(acc.iloc, acc.labels, id.iloc, id.labels, {})
  BY <1>3, <1>4, Duplicated
<1> HIDE DEF id
<1>6. Listing(id.iloc, id.labels) /\ q1 \in Nat /\ q <= q1
  BY <1>5, ListingFacts DEF Grown
<1>7. E \subseteq 1 .. q1 /\ C \subseteq 1 .. q1
  BY <1>3, <1>4, <1>6, UpTo
<1>8. tree.kind = "AST_IDENTIFICADOR"
  BY DEF tree
<1>9. Grown(id.iloc, id.labels, a.iloc, a.labels, {})
  BY <1>6, <1>7, <1>8, StoredVariable
<1> DEFINE D2 == q1 + 1 .. q2
           D3 == q2 + 1 .. q3
           D == n + 1 .. q
<1>10. a.code \in Codes(E \cup D2)
  BY <1>6, <1>7, <1>8, StoredVariable
<1> HIDE DEF a
<1>11. Listing(a.iloc, a.labels) /\ q2 \in Nat /\ q1 <= q2
  BY <1>9, ListingFacts DEF Grown
<1>12. C \subseteq 1 .. q2
  BY <1>6, <1>7, <1>11, UpTo
<1>13. Grown(a.iloc, a.labels, block.iloc, block.labels, {})
  BY <1>11, <1>12, Duplicated
<1>14. block.code \in Codes(D3)
  BY <1>11, <1>12, Duplicated
<1> HIDE DEF block
<1>15. Listing(block.iloc, block.labels) /\ q3 \in Nat /\ q2 <= q3
  BY <1>13, ListingFacts DEF Grown
<1>16. Grown(iloc, labels, block.iloc, block.labels, {})
  <2>1. {} \subseteq {}
    OBVIOUS
  <2>2. Grown(iloc, labels, id.iloc, id.labels, {})
    BY <1>1, <1>5, <2>1, GrownAgain
  <2>3. Grown(iloc, labels, a.iloc, a.labels, {})
    BY <1>9, <2>1, <2>2, GrownAgain
  <2> QED
    BY <1>13, <2>1, <2>3, GrownAgain
<1> HIDE DEF n, q, q1, q2, q3
<1>17. R \subseteq 1 .. n /\ E \subseteq 1 .. n /\ acc.code \in Codes(R \cup D)
  BY <1>1 DEF n
<1>18. D \cap (1 .. n) = {} /\ D2 \cap (1 .. n) = {} /\ D3 \cap (1 .. n) = {}
  <2>1. D \cap (1 .. n) = {}
    BY <1>1
  <2>2. D2 \cap (1 .. n) = {}
    BY <1>1, <1>3, <1>6
  <2>3. D3 \cap (1 .. n) = {}
    BY <1>1, <1>3, <1>6, <1>11
  <2> QED
    BY <2>1, <2>2, <2>3
<1>19. D \cap D2 = {} /\ D \cap D3 = {} /\ D2 \cap D3 = {}
  BY <1>1, <1>3, <1>6, <1>11
<1>20. D \subseteq n + 1 .. q3 /\ D2 \subseteq n + 1 .. q3 /\ D3 \subseteq n + 1 .. q3
  BY <1>1, <1>3, <1>6, <1>11, <1>15
<1> HIDE DEF D, D2, D3
<1>21. acc.code \o a.code \in Codes((R \cup D) \cup (E \cup D2))
  <2>1. (R \cup D) \cap (E \cup D2) = {}
    BY <1>17, <1>18, <1>19
  <2> QED
    BY <1>10, <1>17, <2>1, JoinedCodes
<1>22. (acc.code \o a.code) \o block.code \in Codes(((R \cup D) \cup (E \cup D2)) \cup D3)
  <2>1. ((R \cup D) \cup (E \cup D2)) \cap D3 = {}
    BY <1>17, <1>18, <1>19
  <2> QED
    BY <1>14, <1>21, <2>1, JoinedCodes
<1>23. y.code \in Codes((R \cup E) \cup (n + 1 .. q3))
  <2> DEFINE W == (R \cup E) \cup (n + 1 .. q3)
  <2>1. ((R \cup D) \cup (E \cup D2)) \cup D3 \subseteq W
    BY <1>20
  <2> HIDE DEF W
  <2>2. y.code \in Codes(W)
    BY <1>2, <1>22, <2>1, CodeGrows
  <2> QED
    BY <2>2 DEF W
<1> QED
  BY <1>2, <1>16, <1>23 DEF Gone, y, n, q3

\* The code of the first k expressions.
FirstOnes(exps, k) == UNION {Range(exps[e]) : e \in 1 .. k}

LEMMA FirstOnesAre ==
    ASSUME NEW exps, NEW k \in Nat, \A d, e \in 1 .. k + 1 : d # e => Range(exps[d]) \cap Range(exps[e]) = {}
    PROVE  /\ FirstOnes(exps, 0) = {}
           /\ FirstOnes(exps, k + 1) = FirstOnes(exps, k) \cup Range(exps[k + 1])
           /\ FirstOnes(exps, k) \cap Range(exps[k + 1]) = {}
<1>1. FirstOnes(exps, 0) = {}
  <2>1. 1 .. 0 = {}
    OBVIOUS
  <2> QED
    BY <2>1 DEF FirstOnes
<1>2. 1 .. k + 1 = (1 .. k) \cup {k + 1} /\ \A d \in 1 .. k : d # k + 1
  OBVIOUS
<1>3. FirstOnes(exps, k + 1) = FirstOnes(exps, k) \cup Range(exps[k + 1])
  BY <1>2 DEF FirstOnes
<1>4. \A d \in 1 .. k : Range(exps[d]) \cap Range(exps[k + 1]) = {}
  BY <1>2
<1>5. FirstOnes(exps, k) \cap Range(exps[k + 1]) = {}
  BY <1>4 DEF FirstOnes
<1> QED
  BY <1>1, <1>3, <1>5

LEMMA RoundsGo ==
    ASSUME Held, Ready, t0.kids[1].kind = "AST_IDENTIFICADOR", Own(t0.kind) = 3, NEW k \in Nat, k < Len(Of0(2).exps)
    PROVE  Gone(Rounds(Of0(2).exps)[k], FirstOnes(Of0(2).exps, k))
<1> DEFINE exps == Of0(2).exps
           n == Len(iloc)
           A == KidReach(1)
           B == KidReach(2)
           C == KidReach(3)
           Ks == {i \in Nat : i < Len(exps) => Gone(Rounds(exps)[i], FirstOnes(exps, i))}
<1>1. /\ Listing(iloc, labels) /\ n \in Nat /\ TopReach \subseteq 1 .. n
      /\ cc(1) \in Codes(A) /\ cc(3) \in Codes(C) /\ A \subseteq 1 .. n /\ C \subseteq 1 .. n
  BY Kids DEF Held
<1>2. Sound(Of0(2), iloc) /\ B = Reach(Of0(2)) /\ B \subseteq TopReach
  BY KidResult
<1>3. /\ Len(exps) \in Nat /\ Len(exps) >= 1 /\ DOMAIN exps = 1 .. Len(exps)
      /\ \A d, e \in 1 .. Len(exps) : d # e => Range(exps[d]) \cap Range(exps[e]) = {}
      /\ \A e \in 1 .. Len(exps) : exps[e] \in Codes(1 .. n) /\ Range(exps[e]) \subseteq B
  <2>1. Len(exps) \in Nat /\ Len(exps) >= 1 /\ DOMAIN exps = 1 .. Len(exps)
    BY <1>2, ResultFacts
  <2>2. \A d, e \in DOMAIN exps : d # e => Range(exps[d]) \cap Range(exps[e]) = {}
    BY <1>2 DEF Sound
  <2>3. \A e \in DOMAIN exps : exps[e] \in Codes(1 .. n) /\ Range(exps[e]) \subseteq B
    BY <1>2, ResultFacts
  <2> HIDE DEF exps
  <2> QED
    BY <2>1, <2>2, <2>3
<1> HIDE DEF exps, A, B, C
<1>4. \A i \in Nat : i < Len(exps) => FirstOnes(exps, i) \subseteq 1 .. n
  <2>1. \A i \in Nat : i < Len(exps) => \A e \in 1 .. i : e \in 1 .. Len(exps)
    BY <1>3
  <2>2. \A e \in 1 .. Len(exps) : Range(exps[e]) \subseteq 1 .. n
    BY <1>1, <1>2, <1>3
  <2> QED
    BY <2>1, <2>2 DEF FirstOnes
<1>5. 0 \in Ks
  <2>1. Rounds(exps)[0] = Start
    BY <1>3, RoundsAre
  <2>2. FirstOnes(exps, 0) = {}
    <3>1. 1 .. 0 = {}
      OBVIOUS
    <3> QED
      BY <3>1 DEF FirstOnes
  <2>3. Grown(iloc, labels, iloc, labels, {})
    BY <1>1, GrownSame
  <2>4. Start.iloc = iloc /\ Start.labels = labels /\ Start.code = <<>>
    BY DEF Start
  <2>5. <<>> \in Codes({} \cup (Len(iloc) + 1 .. Len(iloc)))
    BY EmptyCode
  <2>6. Gone(Start, {})
    BY <2>3, <2>4, <2>5 DEF Gone
  <2> QED
    BY <2>1, <2>2, <2>6
<1>6. ASSUME NEW i \in Nat, i \in Ks PROVE i + 1 \in Ks
  <2> SUFFICES ASSUME i + 1 < Len(exps) PROVE Gone(Rounds(exps)[i + 1], FirstOnes(exps, i + 1))
    OBVIOUS
  <2> DEFINE j == i + 1
             acc == Rounds(exps)[i]
             R == FirstOnes(exps, i)
             e == exps[j]
             E == Range(e)
  <2>1. j \in 1 .. Len(exps) - 1 /\ j - 1 = i /\ i < Len(exps) /\ j \in 1 .. Len(exps)
    BY <1>3
  <2>2. Gone(acc, R)
    BY <1>6, <2>1
  <2>3. Rounds(exps)[j] = Repeated(acc, e)
    BY <1>3, <2>1, RoundsAre
  <2>4. \A d \in 1 .. j : d \in 1 .. Len(exps)
    BY <2>1
  <2>5. FirstOnes(exps, j) = R \cup E /\ R \cap E = {}
    BY <1>3, <2>4, FirstOnesAre
  <2>6. e \in Codes(E) /\ E \subseteq 1 .. n
    BY <1>1, <1>2, <1>3, <2>1, CodeRange
  <2>7. R \subseteq 1 .. n
    BY <1>4, <2>1
  <2> HIDE DEF acc, R, e, E
  <2>8. Gone(Repeated(acc, e), R \cup E)
    BY <1>1, <2>2, <2>5, <2>6, <2>7, RoundGoes
  <2> QED
    BY <2>3, <2>5, <2>8
<1> HIDE DEF Ks
<1>7. Nat \subseteq Ks
  BY <1>5, <1>6, SetInduction
<1>8. k \in Ks
  BY <1>7
<1> QED
  BY <1>8 DEF Ks, exps

LEMMA ForeachStep ==
    ASSUME Held, Foreach
    PROVE  Went
<1> DEFINE exps == Of0(2).exps
           n == Len(iloc)
           i == Len(exps) - 1
           tree == t0.kids[1]
           before == Rounds(exps)[i]
           e == exps[Len(exps)]
           a == Stored(before.iloc, before.labels, tree, before.id, e)
           q == Len(before.iloc)
           z == Len(a.iloc)
           B == KidReach(2)
           C == KidReach(3)
           F == KidReach(4)
           R == FirstOnes(exps, i)
           E == Range(e)
           D == n + 1 .. q
           D2 == q + 1 .. z
           c == ((before.code \o a.code) \o cc(3)) \o cc(4)
<1>1. /\ Ready /\ t0.kind = "AST_FOREACH" /\ iloc' = a.iloc /\ labels' = a.labels /\ Leave(c, {}, {})
  <2>1. Visiting({"AST_FOREACH"})
    BY DEF Foreach
  <2>2. Ready /\ t0.kind = "AST_FOREACH"
    BY <2>1, VisitingIs
  <2>3. iloc' = a.iloc /\ labels' = a.labels /\ Leave(c, {}, {})
    BY DEF Foreach, Last
  <2> HIDE DEF a, c
  <2> QED
    BY <2>2, <2>3
<1>2. /\ Listing(iloc, labels) /\ n \in Nat /\ TopReach \subseteq 1 .. n /\ C \subseteq TopReach /\ F \subseteq TopReach
      /\ B \cap C = {} /\ B \cap F = {} /\ C \cap F = {}
  BY <1>1, Kids DEF Held
<1>3. cc(3) \in Codes(C) /\ cc(4) \in Codes(F)
  <2>1. \A k \in Nat \ {0} : cc(k) \in Codes(KidReach(k))
    BY <1>1, Kids
  <2> QED
    BY <2>1
<1>4. Own(t0.kind) = 3
  BY <1>1 DEF Own
<1>5. tree.kind = "AST_IDENTIFICADOR"
  <2>1. t0 \in Trees
    BY <1>1, Kids
  <2> QED
    BY <1>1, <2>1, TreesAssumption
<1>6. Sound(Of0(2), iloc) /\ B = Reach(Of0(2)) /\ B \subseteq TopReach
  BY <1>1, <1>4, KidResult
<1>7. /\ Len(exps) \in Nat /\ Len(exps) >= 1
      /\ \A d, k \in 1 .. Len(exps) : d # k => Range(exps[d]) \cap Range(exps[k]) = {}
      /\ \A k \in 1 .. Len(exps) : exps[k] \in Codes(1 .. n) /\ Range(exps[k]) \subseteq B
  <2>1. Len(exps) \in Nat /\ Len(exps) >= 1 /\ DOMAIN exps = 1 .. Len(exps)
    BY <1>6, ResultFacts
  <2>2. \A d, k \in DOMAIN exps : d # k => Range(exps[d]) \cap Range(exps[k]) = {}
    BY <1>6 DEF Sound
  <2>3. \A k \in DOMAIN exps : exps[k] \in Codes(1 .. n) /\ Range(exps[k]) \subseteq B
    BY <1>6, ResultFacts
  <2> HIDE DEF exps
  <2> QED
    BY <2>1, <2>2, <2>3
<1>8. i \in Nat /\ i < Len(exps) /\ i + 1 = Len(exps) /\ Len(exps) \in 1 .. Len(exps)
  BY <1>7
<1>9. Gone(before, R)
  BY <1>1, <1>4, <1>5, <1>8, RoundsGo
<1>10. R \cap E = {} /\ R \subseteq B /\ E \subseteq B /\ e \in Codes(E)
  <2>1. \A d, k \in 1 .. i + 1 : d # k => Range(exps[d]) \cap Range(exps[k]) = {}
    BY <1>7, <1>8
  <2>2. R \cap E = {}
    BY <1>8, <2>1, FirstOnesAre
  <2>3. \A k \in 1 .. i : Range(exps[k]) \subseteq B
    BY <1>7
  <2>4. R \subseteq B
    BY <2>3 DEF FirstOnes
  <2>5. e \in Codes(1 .. n) /\ E \subseteq B
    BY <1>7, <1>8
  <2>6. e \in Codes(E)
    BY <2>5, CodeRange
  <2> QED
    BY <2>2, <2>4, <2>5, <2>6
<1> HIDE DEF exps, i, tree, before, e, B, C, F, R, E
<1>11. /\ Grown(iloc, labels, before.iloc, before.labels, {})
       /\ before.code \in Codes(R \cup D)
  BY <1>9 DEF Gone
<1>12. Listing(before.iloc, before.labels) /\ q \in Nat /\ n <= q
  BY <1>11, ListingFacts DEF Grown
<1>13. E \subseteq 1 .. n
  BY <1>2, <1>6, <1>10
<1>14. E \subseteq 1 .. q
  BY <1>2, <1>12, <1>13, UpTo
<1>15. Grown(before.iloc, before.labels, a.iloc, a.labels, {})
  BY <1>5, <1>10, <1>12, <1>14, StoredVariable
<1>16. a.code \in Codes(E \cup D2)
  BY <1>5, <1>10, <1>12, <1>14, StoredVariable
<1> HIDE DEF a
<1>17. Listing(a.iloc, a.labels) /\ z \in Nat /\ q <= z
  BY <1>15, ListingFacts DEF Grown
<1>18. Grown(iloc, labels, iloc', labels', TopReach)
  <2>1. {} \subseteq {} /\ {} \subseteq TopReach
    OBVIOUS
  <2>2. Grown(iloc, labels, a.iloc, a.labels, {})
    BY <1>2, <1>11, <1>15, <2>1, GrownAgain
  <2> QED
    BY <1>1, <2>1, <2>2, GrownWider
<1> HIDE DEF n, q, z
<1>19. D \cap TopReach = {} /\ D2 \cap TopReach = {} /\ D \cap D2 = {}
  <2>1. D \cap (1 .. n) = {} /\ D \cap D2 = {}
    BY <1>2, <1>12
  <2>2. D2 \cap (1 .. n) = {}
    BY <1>2, <1>12
  <2> QED
    BY <1>2, <2>1, <2>2
<1>20. D \subseteq n + 1 .. z /\ D2 \subseteq n + 1 .. z
  BY <1>2, <1>12, <1>17
<1> HIDE DEF D, D2
<1>21. before.code \o a.code \in Codes((R \cup D) \cup (E \cup D2))
  <2>1. (R \cup D) \cap (E \cup D2) = {}
    BY <1>6, <1>10, <1>19
  <2> QED
    BY <1>11, <1>16, <2>1, JoinedCodes
<1>22. (before.code \o a.code) \o cc(3) \in Codes(((R \cup D) \cup (E \cup D2)) \cup C)
  <2>1. ((R \cup D) \cup (E \cup D2)) \cap C = {}
    BY <1>2, <1>10, <1>19
  <2> QED
    BY <1>3, <1>21, <2>1, JoinedCodes
<1>23. c \in Codes((((R \cup D) \cup (E \cup D2)) \cup C) \cup F)
  <2>1. (((R \cup D) \cup (E \cup D2)) \cup C) \cap F = {}
    BY <1>2, <1>10, <1>19
  <2> QED
    BY <1>3, <1>22, <2>1, JoinedCodes
<1> HIDE DEF c
<1>24. c \in Codes(TopReach \cup (n + 1 .. z))
  <2> DEFINE W == TopReach \cup (n + 1 .. z)
  <2>1. (((R \cup D) \cup (E \cup D2)) \cup C) \cup F \subseteq W
    BY <1>2, <1>6, <1>10, <1>20
  <2> HIDE DEF W
  <2>2. c \in Codes(W)
    BY <1>23, <2>1, CodeGrows
  <2> QED
    BY <2>2 DEF W
<1>25. c \in Codes(TopReach \cup (Len(iloc) + 1 .. Len(iloc')))
  BY <1>1, <1>24 DEF n, z
<1> QED
  BY <1>1, <1>18, <1>25, LeavesNone

\* An instruction of main becomes its halt.
LEMMA Halted ==
    ASSUME NEW list, NEW l, Listing(list, l), NEW i \in 1 .. Len(list), NEW halt,
           halt.type = "halt", halt.label = list[i].label, NEW S, i \in S
    PROVE  /\ Grown(list, l, [list EXCEPT ![i] = halt], l, S)
           /\ Len([list EXCEPT ![i] = halt]) = Len(list)
<1> DEFINE n == Len(list)
           after == [list EXCEPT ![i] = halt]
<1>1. n \in Nat /\ DOMAIN list = 1 .. n /\ l \in Nat /\ \A j \in 1 .. n : Fits(list[j], l)
  BY ListingFacts
<1>2. DOMAIN after = 1 .. n /\ \A j \in 1 .. n : after[j] = IF j = i THEN halt ELSE list[j]
  BY <1>1
<1>3. after = [j \in 1 .. n |-> IF j = i THEN halt ELSE list[j]]
  BY <1>1
<1>4. after \in Seq(Range(after)) /\ Len(after) = n
  <2>1. \A j \in 1 .. n : after[j] \in Range(after)
    BY <1>2 DEF Range
  <2>2. after \in [1 .. n -> Range(after)]
    BY <1>2, <1>3, <2>1
  <2> HIDE DEF after, n
  <2> QED
    BY <1>1, <2>2
<1> HIDE DEF after, n
<1>5. Fits(halt, l)
  <2>1. LabelIn(list[i].label, l)
    BY <1>1 DEF Fits, n
  <2> QED
    BY <2>1 DEF Fits, Targets
<1>6. \A j \in 1 .. n : Fits(after[j], l)
  BY <1>1, <1>2, <1>5
<1>7. Listing(after, l)
  BY <1>1, <1>4, <1>6 DEF Listing
<1>8. ASSUME NEW j \in 1 .. n PROVE Firm(list[j], after[j]) /\ (j \notin S => Same(list[j], after[j]))
  <2>1. CASE j = i
    <3>1. after[j].type = "halt"
      BY <1>2, <2>1
    <3> QED
      BY <2>1, <3>1 DEF Firm
  <2>2. CASE j # i
    <3>1. Same(list[j], after[j])
      BY <1>2, <2>2 DEF Same
    <3> QED
      BY <3>1, SameIsFirm
  <2> QED
    BY <2>1, <2>2
<1> QED
  BY <1>1, <1>4, <1>7, <1>8 DEF Grown, after, n

LEMMA MainStep ==
    ASSUME Held, Main
    PROVE  Went
<1> DEFINE n == Len(iloc)
           l == labels + 1
           first == [Instruction("addI", rsp, Locals, rsp) EXCEPT !.label = l]
           list == Append(iloc, first)
           e == <<n + 1>>
           D == {n + 1}
           all == e \o Whole
           m == Len(all) - 6
           kept == SubSeq(all, 1, m)
           i == kept[Len(kept)]
           halt == [Instruction("halt", None, None, None) EXCEPT !.label = list[i].label]
<1>1. /\ Ready /\ t0.kind = "AST_FUNCAO_MAIN" /\ ~MissingIloc /\ iloc' = [list EXCEPT ![i] = halt]
      /\ Leave(kept, {}, {}) /\ labels' = l
  BY VisitingIs DEF Main, Kept, Last, r
<1>2. Listing(iloc, labels) /\ labels \in Nat /\ n \in Nat /\ TopReach \subseteq 1 .. n /\ Whole \in Codes(TopReach)
  BY <1>1, Kids, KidCodes DEF Held
<1>3. l \in Nat /\ labels <= l /\ LabelIn(l, l)
  BY <1>2 DEF LabelIn
<1>4. first.type = "addI" /\ first.label = l
  BY DEF Instruction
<1>5. halt.type = "halt" /\ halt.label = list[i].label
  BY DEF Instruction
<1> HIDE DEF l, first, halt
<1>6. Fits(first, l)
  BY <1>3, <1>4 DEF Fits, Targets
<1>7. /\ Grown(iloc, labels, list, l, TopReach) /\ Len(list) = n + 1
      /\ \A j \in 1 .. n : list[j] = iloc[j]
  BY <1>2, <1>3, <1>6, AppendedOne
<1>8. Listing(list, l)
  BY <1>7 DEF Grown
<1> HIDE DEF list
<1>9. D \cap TopReach = {}
  BY <1>2
<1>10. e \in Codes(D)
  BY OneCode
<1>11. Len(all) = Len(Whole) + 1 /\ Len(Whole) \in Nat
  <2>1. Whole \in Seq(TopReach) /\ e \in Seq(D) /\ Len(e) = 1
    BY <1>2, <1>10, CodeFacts
  <2> QED
    BY <2>1
<1> HIDE DEF e, D
<1>12. all \in Codes(D \cup TopReach)
  BY <1>2, <1>9, <1>10, JoinedCodes
<1>13. Len(Whole) >= 6
  BY <1>1, <1>11 DEF MissingIloc
<1> HIDE DEF all
<1>14. m \in Int /\ m <= Len(all) /\ m >= 1
  BY <1>11, <1>13
<1> HIDE DEF m
<1>15. kept \in Codes(D \cup TopReach) /\ Len(kept) = m
  BY <1>12, <1>14, PartOfCode
<1> HIDE DEF kept
<1>16. i \in D \cup TopReach
  <2>1. Len(kept) \in DOMAIN kept
    BY <1>14, <1>15, CodeFacts
  <2> QED
    BY <1>15, <2>1, CodeFacts
<1> HIDE DEF i
<1>17. i \in 1 .. Len(list)
  BY <1>2, <1>7, <1>16 DEF D
<1> DEFINE S == TopReach \cup D
<1>18. Grown(list, l, iloc', l, S) /\ Len(iloc') = n + 1
  <2>1. i \in S
    BY <1>16
  <2> HIDE DEF S
  <2>2. Grown(list, l, [list EXCEPT ![i] = halt], l, S)
    BY <1>5, <1>8, <1>17, <2>1, Halted
  <2>3. Len([list EXCEPT ![i] = halt]) = Len(list)
    BY <1>5, <1>8, <1>17, <2>1, Halted
  <2> QED
    BY <1>1, <1>7, <2>2, <2>3
<1>19. S = TopReach \cup (n + 1 .. n + 1)
  BY <1>2 DEF D
<1>20. Grown(iloc, labels, iloc', l, TopReach)
  <2>1. TopReach \subseteq S
    OBVIOUS
  <2> HIDE DEF S, n
  <2>2. Grown(iloc, labels, iloc', l, S)
    BY <1>2, <1>7, <1>18, <2>1, GrownAgain
  <2> DEFINE k == n + 1
  <2>3. S \subseteq TopReach \cup (Len(iloc) + 1 .. k)
    BY <1>19 DEF n
  <2> HIDE DEF k
  <2> QED
    BY <1>2, <2>2, <2>3, GrownWithin
<1>21. kept \in Codes(TopReach \cup (Len(iloc) + 1 .. Len(iloc')))
  <2>1. D \cup TopReach = S
    OBVIOUS
  <2> HIDE DEF S
  <2> QED
    BY <1>15, <1>18, <1>19, <2>1
<1> QED
  BY <1>1, <1>20, <1>21, LeavesNone

LEMMA VisitGoes ==
    ASSUME Held, Visit
    PROVE  Went /\ Ready /\ status' = status /\ ast' = ast /\ machine' = machine
<1>1. Went
  BY LiteralStep, VariableStep, IndexedStep, MinusStep, ArithmeticStep, ComparisonStep, NotStep, AndStep, OrStep,
     ShiftStep, AssignStep, IfStep, IfElseStep, WhileStep, DoWhileStep, ForStep, ForeachStep, ExpListStep,
     ReturnStep, MainStep, DefaultStep DEF Visit
<1>2. \E kinds : Visiting(kinds)
  BY DEF Visit, Literal, Variable, Indexed, Minus, Arithmetic, Comparison, Not, And, Or, Shift, Assign, If, IfElse,
         While, DoWhile, For, Foreach, ExpList, Return, Main, Default
<1> QED
  BY <1>1, <1>2, VisitingIs

----------------------------------------------------------------------------
\* A step that only starts a call of a node.
LEMMA Started ==
    ASSUME Held, NEW tree, tree.kids \in Seq(Trees), Len(calls) >= 1 => tree \in Trees,
           calls' = Append(calls, Call(tree, <<>>)), iloc' = iloc, labels' = labels
    PROVE  Held' /\ Len(calls') >= 1
<1> DEFINE L == Len(calls)
           new == Call(tree, <<>>)
           s == Append(calls, new)
<1>1. L \in Nat /\ calls \in Seq(Range(calls)) /\ Listing(iloc, labels)
  BY Calls DEF Held, Stacked
<1>2. new.tree = tree /\ new.cc = <<>> /\ Len(new.cc) = 0 /\ 1 .. Len(new.cc) = {}
  BY DEF Call
<1> HIDE DEF new
<1>3. /\ s \in Seq(Range(s)) /\ Len(s) = L + 1 /\ s[L + 1] = new
      /\ \A k \in 1 .. L : s[k] = calls[k]
  <2>1. Len(s) = L + 1 /\ DOMAIN s = 1 .. L + 1 /\ s[L + 1] = new /\ \A k \in 1 .. L : s[k] = calls[k]
    BY <1>1
  <2>2. s \in Seq(Range(calls) \cup {new})
    <3>1. calls \in Seq(Range(calls) \cup {new})
      BY <1>1, SeqMonotonic
    <3> QED
      BY <3>1
  <2>3. s \in Seq(Range(s))
    BY <2>2, SeqOfRange
  <2> QED
    BY <2>1, <2>3
<1> HIDE DEF s
<1>4. calls' = s
  BY DEF s, new
<1>5. \A k \in 1 .. Len(s) : k \in 1 .. L \/ k = L + 1
  BY <1>1, <1>3
<1>6. Stacked'
  <2>1. <<>> \in Seq(Range(<<>>))
    OBVIOUS
  <2>2. ASSUME NEW k \in 1 .. Len(s)
        PROVE  /\ s[k].tree.kids \in Seq(Trees) /\ s[k].cc \in Seq(Range(s[k].cc))
               /\ k > 1 => s[k].tree \in Trees
    <3>1. CASE k \in 1 .. L
      BY <1>3, <3>1 DEF Held, Stacked
    <3>2. CASE k = L + 1
      <4>1. s[k].tree = tree /\ s[k].cc = <<>>
        BY <1>2, <1>3, <3>2
      <4>2. k > 1 => tree \in Trees
        BY <1>1, <3>2
      <4> QED
        BY <2>1, <4>1, <4>2
    <3> QED
      BY <1>5, <3>1, <3>2
  <2> QED
    BY <1>3, <1>4, <2>2 DEF Stacked
<1>7. ASSUME NEW k \in 1 .. Len(s), NEW n \in 1 .. Len(s[k].cc)
      PROVE  k \in 1 .. L /\ s[k] = calls[k] /\ n \in 1 .. Len(calls[k].cc)
  <2>1. k # L + 1
    BY <1>2, <1>3
  <2>2. k \in 1 .. L
    BY <1>5, <2>1
  <2> QED
    BY <1>3, <2>2
<1>8. Results'
  <2>1. ASSUME NEW k \in 1 .. Len(s), NEW n \in 1 .. Len(s[k].cc) PROVE Sound(s[k].cc[n], iloc)
    BY <1>7 DEF Held, Results
  <2> QED
    BY <1>4, <2>1 DEF Results
<1>9. Separate'
  <2>1. ASSUME NEW k \in 1 .. Len(s), NEW l \in 1 .. Len(s), NEW m \in 1 .. Len(s[k].cc), NEW n \in 1 .. Len(s[l].cc),
               k # l \/ m # n
        PROVE  Reach(s[k].cc[m]) \cap Reach(s[l].cc[n]) = {}
    <3>1. k \in 1 .. L /\ s[k] = calls[k] /\ m \in 1 .. Len(calls[k].cc)
      BY <1>7
    <3>2. l \in 1 .. L /\ s[l] = calls[l] /\ n \in 1 .. Len(calls[l].cc)
      BY <1>7
    <3> QED
      BY <2>1, <3>1, <3>2 DEF Held, Separate
  <2> QED
    BY <1>4, <2>1 DEF Separate
<1>10. Listing(iloc, labels)'
  BY <1>1
<1> QED
  BY <1>1, <1>3, <1>4, <1>6, <1>8, <1>9, <1>10 DEF Held

LEMMA NothingCalled ==
    ASSUME calls' = <<>>, Listing(iloc', labels')
    PROVE  Held'
<1>1. Len(calls') = 0 /\ 1 .. Len(calls') = {} /\ calls' \in Seq(Range(calls'))
  OBVIOUS
<1>2. Stacked' /\ Results' /\ Separate'
  BY <1>1 DEF Stacked, Results, Separate
<1> QED
  BY <1>2 DEF Held

LEMMA EmptyListing ==
    ASSUME NEW l \in Nat
    PROVE  Listing(<<>>, l)
<1>1. <<>> \in Seq(Range(<<>>)) /\ 1 .. Len(<<>>) = {}
  OBVIOUS
<1> QED
  BY <1>1 DEF Listing

LEMMA HeldStays ==
    ASSUME Held, calls' = calls, iloc' = iloc, labels' = labels
    PROVE  Held'
BY ZenonT(60) DEF Held, Stacked, Results, Separate

----------------------------------------------------------------------------
(* The invariant, and what is read off it *)

LEMMA CheckKeeps ==
    ASSUME CodeInvariant, Check, calls = <<>>
    PROVE  CodeInvariant'
<1> DEFINE root == Node("AST_PROGRAMA", "", 0, <<ast>>)
<1>1. /\ ast' = ast /\ tests' = tests /\ iloc' = iloc /\ labels' = labels
      /\ status' \in {"generating", "crashed", "rejected"}
      /\ calls' = IF status' = "generating" THEN <<Call(root, <<>>)>> ELSE <<>>
  BY DEF Check, machine
<1>2. ast \in Trees /\ Held /\ Listing(iloc, labels)
  BY TreesAssumption DEF CodeInvariant, Held
<1>3. CASE status' = "generating"
  <2>1. root.kids \in Seq(Trees) /\ ~(Len(calls) >= 1)
    BY <1>2 DEF Node
  <2> HIDE DEF root
  <2>2. calls' = Append(calls, Call(root, <<>>))
    BY <1>1, <1>3
  <2>3. Held' /\ Len(calls') >= 1
    BY <1>1, <1>2, <2>1, <2>2, Started
  <2> QED
    BY <1>1, <2>3 DEF CodeInvariant
<1>4. CASE status' # "generating"
  <2>1. Held'
    BY <1>1, <1>2, <1>4, NothingCalled
  <2> QED
    BY <1>1, <1>4, <2>1 DEF CodeInvariant
<1> QED
  BY <1>3, <1>4

LEMMA DescendKeeps ==
    ASSUME CodeInvariant, Descend
    PROVE  CodeInvariant' /\ iloc' = iloc
<1> DEFINE tree == t0.kids[Len(Top.cc) + 1]
<1>1. /\ ast' = ast /\ tests' = tests /\ status' = status /\ status = "generating" /\ iloc' = iloc /\ labels' = labels
      /\ calls' = Append(calls, Call(tree, <<>>)) /\ Len(Top.cc) < Len(t0.kids)
  BY DEF Descend, machine
<1>2. Held /\ Len(calls) \in Nat /\ Len(calls) >= 1
  BY <1>1, Calls DEF CodeInvariant
<1>3. tree \in Trees /\ tree.kids \in Seq(Trees)
  <2>1. t0.kids \in Seq(Trees) /\ Len(Top.cc) \in Nat
    BY <1>2, Calls DEF Held, Stacked, Top, t0
  <2>2. tree \in Trees
    BY <1>1, <2>1
  <2> HIDE DEF tree
  <2> QED
    BY <2>2, TreesAssumption
<1> HIDE DEF tree
<1>4. Held' /\ Len(calls') >= 1
  BY <1>1, <1>2, <1>3, Started
<1> QED
  BY <1>1, <1>4 DEF CodeInvariant

LEMMA VisitKeeps ==
    ASSUME CodeInvariant, Visit
    PROVE  CodeInvariant' /\ Went
<1>1. Went /\ Ready /\ status' = status /\ ast' = ast /\ machine' = machine
  BY VisitGoes DEF CodeInvariant
<1>2. Held' /\ Len(calls') >= 1 /\ tests' = tests
  BY <1>1 DEF Went, machine
<1> QED
  BY <1>1, <1>2 DEF CodeInvariant

LEMMA BuildKeeps ==
    ASSUME CodeInvariant, Build
    PROVE  CodeInvariant' /\ iloc' = <<>>
<1>1. status' = "built" /\ calls' = <<>> /\ iloc' = <<>> /\ labels' = labels /\ ast' = ast /\ tests' = tests
  BY DEF Build
<1>2. labels \in Nat
  BY DEF CodeInvariant, Held, Listing
<1>3. Held'
  BY <1>1, <1>2, NothingCalled, EmptyListing
<1> QED
  BY <1>1, <1>3 DEF CodeInvariant

LEMMA MachineKeeps ==
    ASSUME CodeInvariant, Crash \/ Load \/ Run \/ Stop \/ UNCHANGED vars
    PROVE  CodeInvariant' /\ iloc' = iloc
<1>1. ast' = ast /\ calls' = calls /\ iloc' = iloc /\ labels' = labels
  BY DEF Crash, Load, Run, Stop, vars, compiler
<1>2. Held'
  BY <1>1, HeldStays DEF CodeInvariant
<1>3. tests' \in 0 .. MaxTests
  <2>1. CASE Run
    <3>1. tests' \in {tests, tests + 1} /\ tests < MaxTests
      BY <2>1 DEF Run, StepValue, StepStore, StepJump
    <3> QED
      BY <3>1, BoundsAssumption DEF CodeInvariant
  <2>2. CASE Crash \/ Load \/ Stop \/ UNCHANGED vars
    <3>1. tests' = tests
      BY <2>2 DEF Crash, Load, Stop, vars, machine
    <3> QED
      BY <3>1 DEF CodeInvariant
  <2> QED
    BY <2>1, <2>2
<1>4. \/ status' = status
      \/ status' \in {"crashed", "running", "refused", "halted"}
  BY DEF Crash, Load, Run, Stop, vars
<1> QED
  BY <1>1, <1>2, <1>3, <1>4 DEF CodeInvariant

\* Before the check no call has been made.
NotBegun == status = "parsed" => calls = <<>>

LEMMA CodeInit ==
    ASSUME Init
    PROVE  CodeInvariant /\ NotBegun
<1>1. ast \in Programs /\ status = "parsed" /\ calls = <<>> /\ iloc = <<>> /\ labels = 0 /\ tests = 0
  BY DEF Init, MachineInit
<1>2. Listing(iloc, labels)
  BY <1>1, EmptyListing
<1>3. Len(calls) = 0 /\ 1 .. Len(calls) = {} /\ calls \in Seq(Range(calls))
  BY <1>1
<1>4. Held
  BY <1>2, <1>3 DEF Held, Stacked, Results, Separate
<1>5. tests \in 0 .. MaxTests
  BY <1>1, BoundsAssumption
<1> QED
  BY <1>1, <1>4, <1>5 DEF CodeInvariant, NotBegun

LEMMA NotBegunKept ==
    ASSUME NotBegun, [Next]_vars
    PROVE  NotBegun'
<1>1. CASE Visit
  <2>1. \E kinds : Visiting(kinds)
    BY <1>1 DEF Visit, Literal, Variable, Indexed, Minus, Arithmetic, Comparison, Not, And, Or, Shift, Assign, If,
           IfElse, While, DoWhile, For, Foreach, ExpList, Return, Main, Default
  <2>2. status' = "generating"
    BY <2>1 DEF Visiting, Ready
  <2> QED
    BY <2>2 DEF NotBegun
<1>2. CASE UNCHANGED vars
  BY <1>2 DEF NotBegun, vars
<1>3. CASE Check \/ Descend \/ Crash \/ Build \/ Load \/ Run \/ Stop
  <2>1. status' # "parsed"
    BY ZenonT(60), <1>3 DEF Check, Descend, Crash, Build, Load, Run, Stop
  <2> QED
    BY <2>1 DEF NotBegun
<1> QED
  BY <1>1, <1>2, <1>3 DEF Next

LEMMA CodeStep ==
    ASSUME CodeInvariant, NotBegun, [Next]_vars
    PROVE  /\ CodeInvariant'
           /\ iloc' = iloc \/ iloc' = <<>> \/ Grown(iloc, labels, iloc', labels', TopReach)
<1>1. CASE Check
  <2>1. calls = <<>> /\ iloc' = iloc
    BY <1>1 DEF Check, NotBegun
  <2> QED
    BY <1>1, <2>1, CheckKeeps
<1>2. CASE Visit
  BY <1>2, VisitKeeps DEF Went
<1>3. CASE Descend
  BY <1>3, DescendKeeps
<1>4. CASE Build
  BY <1>4, BuildKeeps
<1>5. CASE Crash \/ Load \/ Run \/ Stop \/ UNCHANGED vars
  BY <1>5, MachineKeeps
<1> QED
  BY <1>1, <1>2, <1>3, <1>4, <1>5 DEF Next

LEMMA InvariantTypes == CodeInvariant => TypeOK
<1> SUFFICES ASSUME CodeInvariant PROVE TypeOK
  OBVIOUS
<1>1. Held /\ Listing(iloc, labels)
  BY DEF CodeInvariant, Held
<1>2. DOMAIN iloc = 1 .. Len(iloc) /\ Len(iloc) \in Nat /\ labels \in Nat
  BY <1>1, ListingFacts
<1>3. ASSUME NEW k \in DOMAIN calls, NEW n \in DOMAIN calls[k].cc
      PROVE  LET x == calls[k].cc[n]
             IN  /\ x.code \in Seq(DOMAIN iloc)
                 /\ \A slot \in x.rem_true \cup x.rem_false :
                       slot.at \in Range(x.code) /\ slot.op \in Targets(iloc[slot.at].type)
  <2> DEFINE x == calls[k].cc[n]
  <2>1. Sound(x, iloc)
    <3>1. k \in 1 .. Len(calls) /\ n \in 1 .. Len(calls[k].cc)
      BY <1>1, Calls
    <3> QED
      BY <1>1, <3>1 DEF Held, Results
  <2> HIDE DEF x
  <2>2. x.code \in Codes(Reach(x)) /\ Reach(x) \subseteq 1 .. Len(iloc)
    BY <2>1, ResultFacts
  <2>3. x.code \in Codes(1 .. Len(iloc))
    BY <2>2, CodeGrows
  <2>4. x.code \in Seq(DOMAIN iloc)
    BY <1>2, <2>3, CodeFacts
  <2>5. \A slot \in x.rem_true \cup x.rem_false : slot.at \in Range(x.code) /\ slot.op \in Targets(iloc[slot.at].type)
    BY <2>1 DEF Sound, Waits
  <2> QED
    BY <2>4, <2>5 DEF x
<1>4. \A i \in DOMAIN iloc : iloc[i].label = None \/ iloc[i].label \in 1 .. labels
  BY <1>1, <1>2, ListingFacts DEF Fits, LabelIn
<1> QED
  BY <1>2, <1>3, <1>4 DEF CodeInvariant, TypeOK

LEMMA InvariantApart == CodeInvariant => CodesApart
<1> SUFFICES ASSUME CodeInvariant,
                    NEW k \in DOMAIN calls, NEW l \in DOMAIN calls,
                    NEW m \in DOMAIN calls[k].cc, NEW n \in DOMAIN calls[l].cc
             PROVE  LET x == calls[k].cc[m]
                        y == calls[l].cc[n]
                    IN  /\ x.code \in {<<>>, Head(x.exps)}
                        /\ \A d \in DOMAIN x.exps, e \in DOMAIN y.exps :
                              \A i \in DOMAIN x.exps[d], j \in DOMAIN y.exps[e] :
                                 x.exps[d][i] = y.exps[e][j] => <<k, m, d, i>> = <<l, n, e, j>>
  BY DEF CodesApart
<1> DEFINE x == calls[k].cc[m]
           y == calls[l].cc[n]
<1>1. Held /\ k \in 1 .. Len(calls) /\ l \in 1 .. Len(calls) /\ m \in 1 .. Len(calls[k].cc) /\ n \in 1 .. Len(calls[l].cc)
  BY Calls DEF CodeInvariant
<1>2. Sound(x, iloc) /\ Sound(y, iloc)
  BY <1>1 DEF Held, Results
<1>3. (k # l \/ m # n) => Reach(x) \cap Reach(y) = {}
  BY <1>1 DEF Held, Separate
<1>4. k = l /\ m = n => x = y
  OBVIOUS
<1> HIDE DEF x, y
<1>5. x.code \in {<<>>, Head(x.exps)}
  <2>1. x.code \in {<<>>, x.exps[1]} /\ x.exps \in Seq(Codes(1 .. Len(iloc))) /\ Len(x.exps) >= 1
    BY <1>2 DEF Sound
  <2>2. Head(x.exps) = x.exps[1]
    BY <2>1
  <2> QED
    BY <2>1, <2>2
<1>6. ASSUME NEW d \in DOMAIN x.exps, NEW e \in DOMAIN y.exps,
             NEW i \in DOMAIN x.exps[d], NEW j \in DOMAIN y.exps[e], x.exps[d][i] = y.exps[e][j]
      PROVE  <<k, m, d, i>> = <<l, n, e, j>>
  <2> DEFINE same == x.exps[d][i]
  <2>1. same \in Range(x.exps[d]) /\ same \in Range(y.exps[e])
    BY <1>6 DEF Range
  <2>2. Range(x.exps[d]) \subseteq Reach(x) /\ Range(y.exps[e]) \subseteq Reach(y)
    BY <1>2, ResultFacts
  <2>3. k = l /\ m = n
    BY <1>3, <2>1, <2>2
  <2>4. y = x
    BY <1>4, <2>3
  <2>5. d = e
    BY <1>2, <2>1, <2>4 DEF Sound
  <2>6. x.exps[d] \in Codes(1 .. Len(iloc))
    BY <1>2, ResultFacts
  <2>7. i = j
    BY <1>6, <2>4, <2>5, <2>6, CodeFacts
  <2> QED
    BY <2>3, <2>5, <2>7
<1> QED
  BY <1>5, <1>6 DEF x, y

LEMMA InvariantHolds == Spec => [](CodeInvariant /\ NotBegun)
<1>1. Init => CodeInvariant /\ NotBegun
  BY CodeInit
<1>2. (CodeInvariant /\ NotBegun) /\ [Next]_vars => (CodeInvariant /\ NotBegun)'
  BY CodeStep, NotBegunKept
<1> QED
  BY <1>1, <1>2, PTL DEF Spec

\* For programs of any size, the instruction, label and slot numbers stay in
\* range (TypeOK): what is kept of a code names instructions of iloc_list, the
\* slots that wait are targets of branches the same code holds, and every label
\* is one that create_label made.
THEOREM CodeTypes == Spec => []TypeOK
BY InvariantHolds, InvariantTypes, PTL

\* For programs of any size, no instruction is in two codes the calls of
\* code_generator hold, nor twice in one: append_iloc never joins a list with a
\* part of itself, also where foreach duplicates a body with iloc_dup.
THEOREM CodesStayApart == Spec => []CodesApart
BY InvariantHolds, InvariantApart, PTL

\* For programs of any size, no operator or command that is generated later
\* patches a branch again: patchup_true and patchup_false reach only the slots
\* that wait in the codes of the children.
THEOREM TargetsStayFinal == Spec => TargetsFinal
<1>1. CodeInvariant /\ NotBegun /\ [Next]_vars =>
        [iloc' # <<>> =>
           \A i \in DOMAIN iloc : \A op \in Targets(iloc[i].type) :
              (iloc[i][op] # None /\ iloc'[i].type # "halt") => iloc'[i][op] = iloc[i][op]]_vars
  <2> SUFFICES ASSUME CodeInvariant, NotBegun, [Next]_vars, iloc' # <<>>,
                      NEW i \in DOMAIN iloc, NEW op \in Targets(iloc[i].type),
                      iloc[i][op] # None, iloc'[i].type # "halt"
               PROVE  iloc'[i][op] = iloc[i][op]
    OBVIOUS
  <2>1. iloc' = iloc \/ Grown(iloc, labels, iloc', labels', TopReach)
    BY CodeStep
  <2>2. CASE iloc' = iloc
    BY <2>2
  <2>3. CASE Grown(iloc, labels, iloc', labels', TopReach)
    <3>1. i \in 1 .. Len(iloc)
      BY ListingFacts DEF CodeInvariant, Held
    <3>2. Firm(iloc[i], iloc'[i])
      BY <2>3, <3>1 DEF Grown
    <3> QED
      BY <3>2 DEF Firm
  <2> QED
    BY <2>1, <2>2, <2>3
<1> QED
  BY <1>1, InvariantHolds, PTL DEF Spec, TargetsFinal
=============================================================================
