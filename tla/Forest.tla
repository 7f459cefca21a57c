------------------------------- MODULE Forest -------------------------------
(***************************************************************************)
(* What the parser promises about the syntax tree while it builds it: an   *)
(* ordered forest.  Every node has a sequence of children, and every value *)
(* on the parser's stack stands for a sequence of subtrees: one for most   *)
(* productions, none for a production that yields NULL, several for a      *)
(* list of arguments.  A reduction combines the values it finds on top.    *)
(* How the sequences are stored is the business of Tree.                   *)
(***************************************************************************)
EXTENDS Naturals, SequencesExt

CONSTANT Nodes             \* the nodes there can be

VARIABLES kids,            \* node in use -> its children, from left to right
          values           \* what is on the parser's stack, the newest last

fvars == <<kids, values>>

\* the last k values, the first of them the deepest, and what lies below
Top(k) == SubSeq(values, Len(values) - k + 1, Len(values))
Below(k) == SubSeq(values, 1, Len(values) - k)
Push(k, v) == values' = Append(Below(k), v)

With(new, ks) == [n \in DOMAIN kids \cup {new} |-> IF n = new THEN ks ELSE kids[n]]

\* the children of a piped function with the previous one as its first argument
Second(ks, c) == <<ks[1], c>> \o Tail(ks)

ForestInit == kids = [n \in {} |-> << >>] /\ values = << >>

\* a production without a tree
Nothing == Push(0, << >>) /\ UNCHANGED kids

\* a node over the last k values, in the order of the text
Grow(new, k) == Push(k, <<new>>) /\ kids' = With(new, FlattenSeq(Top(k)))

\* a while: the body comes before its condition
GrowSwapped(new) == Push(2, <<new>>) /\ kids' = With(new, FlattenSeq(Reverse(Top(2))))

\* an if with nothing but an else: the negated condition, then the branch
GrowNegated(not, new) ==
  /\ Push(3, <<new>>)
  /\ not # new
  /\ kids' = [n \in DOMAIN kids \cup {not, new} |->
                CASE n = not -> Top(3)[1] [] n = new -> <<not>> \o Top(3)[3] [] OTHER -> kids[n]]

\* one argument before the others, or a statement and a rest of which one is
\* absent
Join == Push(2, FlattenSeq(Top(2))) /\ UNCHANGED kids

\* what follows a statement becomes its last child
Adopt ==
  \E p \in DOMAIN kids :
     /\ Top(2)[1] = <<p>>
     /\ Push(2, <<p>>)
     /\ kids' = [kids EXCEPT ![p] = @ \o Top(2)[2]]

\* the chain so far becomes the first argument of one more piped function
Extend(new) ==
  \E f \in DOMAIN kids :
     /\ Top(2)[2] = <<f>> /\ kids[f] # << >> /\ Len(Top(2)[1]) = 1
     /\ Push(2, <<new>>)
     /\ kids' = [With(new, <<f>>) EXCEPT ![f] = Second(@, Top(2)[1][1])]

\* the call before the chain becomes the first argument of a function f in it:
\* f's place is taken by the pipe, and f moves below it
Complete(new) ==
  /\ Push(2, Top(2)[2])
  /\ Len(Top(2)[1]) = 1
  /\ \E f \in DOMAIN kids :
        /\ kids[f] # << >>
        /\ kids' = [With(new, Second(kids[f], Top(2)[1][1])) EXCEPT ![f] = <<new>>]

\* the last k values are dropped, with all of their trees or none of them
Drop(k) ==
  /\ Push(k, << >>)
  /\ \E dropped \in {{}, DOMAIN kids \ DOMAIN kids'} :
        /\ kids' = [n \in DOMAIN kids \ dropped |-> kids[n]]
        /\ \A n \in DOMAIN kids' : Range(kids[n]) \cap dropped = {}
        /\ \A n \in dropped : Range(kids[n]) \subseteq dropped
        /\ dropped = {} \/ Range(FlattenSeq(Top(k))) \subseteq dropped
        /\ Range(FlattenSeq(Below(k))) \cap dropped = {}

\* the parser's process ends
Stop == kids' = [n \in {} |-> << >>] /\ values' = << >>

ForestNext ==
  \/ Stop
  \/ Nothing
  \/ \E new \in Nodes \ DOMAIN kids :
       \/ \E k \in 0..4 : k <= Len(values) /\ Grow(new, k)
       \/ Len(values) >= 2 /\ (GrowSwapped(new) \/ Extend(new) \/ Complete(new))
       \/ Len(values) >= 3 /\ \E not \in Nodes \ DOMAIN kids : GrowNegated(not, new)
  \/ Len(values) >= 2 /\ (Join \/ Adopt)
  \/ \E k \in 1..4 : k <= Len(values) /\ Drop(k)

ForestSpec == ForestInit /\ [][ForestNext]_fvars
=============================================================================
