------------------------------ MODULE MachineProofs ------------------------------
(***************************************************************************)
(* Theorems about the machines whose runs are migrated: what is read off   *)
(* them (StateTree, Analysis) and the timers of their interpreter          *)
(* (AfterTimer), for every value of the constants.                         *)
(***************************************************************************)
EXTENDS Analysis, AfterTimer, SequenceTheorems, FiniteSetTheorems, NaturalsInduction,
        WellFoundedInduction, TLAPS

-----------------------------------------------------------------------------
(* Induction.  A set of numbers that is not empty has a least one, and one *)
(* that is bounded a greatest: with them a property is shown by the least  *)
(* number for which it would fail.                                         *)

LEMMA Least ==
  ASSUME NEW S, S \subseteq Nat, S # {}
  PROVE  \E n \in S : \A m \in S : n <= m
<1> DEFINE R == OpToRel(<, Nat)
<1>1. IsWellFoundedOn(R, Nat)
  BY NatLessThanWellFounded
<1>2. \A x, y \in Nat : x < y => <<x, y>> \in R
  BY DEF OpToRel
<1> HIDE DEF R
<1>3. PICK n \in S : \A m \in S : <<m, n>> \notin R
  BY <1>1, WFMin
<1>4. ASSUME NEW m \in S PROVE n <= m
  <2>1. n \in Nat /\ m \in Nat
    OBVIOUS
  <2>2. ~ (m < n)
    BY <1>2, <1>3, <2>1, Zenon
  <2> QED
    BY <2>1, <2>2
<1> QED
  BY <1>4

LEMMA Greatest ==
  ASSUME NEW S, S \subseteq Nat, S # {}, NEW limit \in Nat, \A n \in S : n <= limit
  PROVE  \E n \in S : \A m \in S : m <= n
<1> DEFINE T == {limit - n : n \in S}
<1>1. \A n \in S : n \in Nat /\ limit - n \in Nat
  OBVIOUS
<1>2. T \subseteq Nat /\ T # {}
  BY <1>1, Zenon
<1>3. PICK k \in T : \A m \in T : k <= m
  BY <1>2, Least
<1>4. PICK n \in S : k = limit - n
  OBVIOUS
<1>5. ASSUME NEW m \in S PROVE m <= n
  <2>1. k <= limit - m
    BY <1>3
  <2> QED
    BY <1>1, <1>4, <2>1
<1> QED
  BY <1>5

-----------------------------------------------------------------------------
(* Paths.  A state is the sequence of the keys that lead to it; Paths are  *)
(* ordered by being a prefix.                                              *)

Path == Seq(Keys)

LEMMA PrefixIs ==
  ASSUME NEW p \in Path, NEW q \in Path
  PROVE  IsPrefix(p, q) <=> Len(p) <= Len(q) /\ \A i \in 1..Len(p) : p[i] = q[i]
<1>0. Len(p) \in Nat /\ Len(q) \in Nat
  BY LenProperties DEF Path
<1>1. CASE Len(p) <= Len(q)
  <2>1. /\ \A i \in 1..Len(p) : p[i] \in Keys
        /\ \A i \in 1..Len(p) : q[i] \in Keys
    BY <1>0, <1>1, ElementOfSeq DEF Path
  <2>2. /\ SubSeq(p, 1, Len(p)) \in Path
        /\ Len(SubSeq(p, 1, Len(p))) = Len(p)
        /\ \A i \in 1..Len(p) : SubSeq(p, 1, Len(p))[i] = p[i]
    BY <1>0, <2>1, SubSeqFull DEF Path
  <2>3. /\ SubSeq(q, 1, Len(p)) \in Path
        /\ Len(SubSeq(q, 1, Len(p))) = Len(p)
        /\ \A i \in 1..Len(p) : SubSeq(q, 1, Len(p))[i] = q[i]
    <3>1. /\ SubSeq(q, 1, Len(p)) \in Seq(Keys)
          /\ Len(SubSeq(q, 1, Len(p))) = IF 1 <= Len(p) THEN Len(p) - 1 + 1 ELSE 0
          /\ \A i \in 1..(Len(p) - 1 + 1) : SubSeq(q, 1, Len(p))[i] = q[1 + i - 1]
      BY <1>0, <2>1, SubSeqProperties
    <3> QED
      BY <1>0, <3>1 DEF Path
  <2>4. ASSUME \A i \in 1..Len(p) : p[i] = q[i]
        PROVE  SubSeq(p, 1, Len(p)) = SubSeq(q, 1, Len(p))
    BY <2>2, <2>3, <2>4, SeqEqual DEF Path
  <2> QED
    BY <1>1, <2>2, <2>3, <2>4 DEF IsPrefix
<1>2. CASE ~(Len(p) <= Len(q))
  BY <1>2 DEF IsPrefix
<1> QED
  BY <1>1, <1>2

\* The first n keys of a path are its only prefix of that length.
LEMMA TakeIs ==
  ASSUME NEW p \in Path, NEW n \in 0..Len(p)
  PROVE  /\ SubSeq(p, 1, n) \in Path
         /\ Len(SubSeq(p, 1, n)) = n
         /\ IsPrefix(SubSeq(p, 1, n), p)
<1>0. Len(p) \in Nat /\ n \in Nat
  BY LenProperties DEF Path
<1>1. \A i \in 1..n : p[i] \in Keys
  BY <1>0, ElementOfSeq DEF Path
<1>2. /\ SubSeq(p, 1, n) \in Seq(Keys)
      /\ Len(SubSeq(p, 1, n)) = IF 1 <= n THEN n - 1 + 1 ELSE 0
      /\ \A i \in 1..(n - 1 + 1) : SubSeq(p, 1, n)[i] = p[1 + i - 1]
  BY <1>0, <1>1, SubSeqProperties
<1>3. /\ SubSeq(p, 1, n) \in Path
      /\ Len(SubSeq(p, 1, n)) = n
      /\ \A i \in 1..n : SubSeq(p, 1, n)[i] = p[i]
  BY <1>0, <1>2 DEF Path
<1> DEFINE q == SubSeq(p, 1, n)
<1>4. q \in Path /\ Len(q) = n /\ \A i \in 1..n : q[i] = p[i]
  BY <1>3
<1> HIDE DEF q
<1>5. IsPrefix(q, p)
  BY <1>0, <1>4, PrefixIs
<1> QED
  BY <1>4, <1>5 DEF q

LEMMA LengthIs ==
  ASSUME NEW p \in Path
  PROVE  Len(p) \in Nat
BY LenProperties DEF Path

LEMMA PrefixOrder ==
  /\ \A p \in Path : IsPrefix(p, p)
  /\ \A p, q \in Path : IsPrefix(p, q) => Len(p) <= Len(q)
  /\ \A p, q \in Path : IsPrefix(p, q) /\ Len(p) = Len(q) => p = q
  /\ \A p, q, r \in Path : IsPrefix(p, q) /\ IsPrefix(q, r) => IsPrefix(p, r)
  /\ \A p, q, r \in Path :
       IsPrefix(p, r) /\ IsPrefix(q, r) /\ Len(p) <= Len(q) => IsPrefix(p, q)
<1>1. ASSUME NEW p \in Path PROVE IsPrefix(p, p)
  BY PrefixIs, LengthIs
<1>2. ASSUME NEW p \in Path, NEW q \in Path, IsPrefix(p, q)
      PROVE  /\ Len(p) <= Len(q)
             /\ Len(p) = Len(q) => p = q
  <2>1. Len(p) <= Len(q) /\ \A i \in 1..Len(p) : p[i] = q[i]
    BY <1>2, PrefixIs
  <2> QED
    BY <2>1, SeqEqual DEF Path
<1>3. ASSUME NEW p \in Path, NEW q \in Path, NEW r \in Path, IsPrefix(p, q), IsPrefix(q, r)
      PROVE  IsPrefix(p, r)
  <2>1. Len(p) \in Nat /\ Len(q) \in Nat /\ Len(r) \in Nat
    BY LengthIs
  <2>2. Len(p) <= Len(q) /\ \A i \in 1..Len(p) : p[i] = q[i]
    BY <1>3, PrefixIs
  <2>3. Len(q) <= Len(r) /\ \A i \in 1..Len(q) : q[i] = r[i]
    BY <1>3, PrefixIs
  <2> QED
    BY <2>1, <2>2, <2>3, PrefixIs
<1>4. ASSUME NEW p \in Path, NEW q \in Path, NEW r \in Path,
             IsPrefix(p, r), IsPrefix(q, r), Len(p) <= Len(q)
      PROVE  IsPrefix(p, q)
  <2>1. Len(p) \in Nat /\ Len(q) \in Nat /\ Len(r) \in Nat
    BY LengthIs
  <2>2. \A i \in 1..Len(p) : p[i] = r[i]
    BY <1>4, PrefixIs
  <2>3. \A i \in 1..Len(q) : q[i] = r[i]
    BY <1>4, PrefixIs
  <2> QED
    BY <1>4, <2>1, <2>2, <2>3, PrefixIs
<1> QED
  BY <1>1, <1>2, <1>3, <1>4

LEMMA RootIs ==
  /\ Root \in Path
  /\ Len(Root) = 0
  /\ \A p \in Path : p # Root <=> Len(p) > 0
  /\ \A p \in Path : IsPrefix(Root, p)
<1>1. Root \in Path /\ Len(Root) = 0
  BY EmptySeq DEF Root, Path
<1>2. ASSUME NEW p \in Path PROVE p # Root <=> Len(p) > 0
  BY <1>1, EmptySeq DEF Root, Path
<1>3. ASSUME NEW p \in Path PROVE IsPrefix(Root, p)
  BY <1>1, PrefixIs, LengthIs
<1> QED
  BY <1>1, <1>2, <1>3

LEMMA ParentIs ==
  ASSUME NEW p \in Path, p # Root
  PROVE  /\ Parent(p) \in Path
         /\ Len(Parent(p)) = Len(p) - 1
         /\ IsPrefix(Parent(p), p)
         /\ ~ IsPrefix(p, Parent(p))
<1>1. Len(p) \in Nat /\ Len(p) > 0
  BY RootIs, LengthIs
<1> DEFINE n == Len(p) - 1
<1>2. n \in 0..Len(p)
  BY <1>1
<1>3. Parent(p) \in Path /\ Len(Parent(p)) = Len(p) - 1 /\ IsPrefix(Parent(p), p)
  <2>1. Parent(p) = SubSeq(p, 1, n)
    BY DEF Parent, Front
  <2> HIDE DEF n
  <2>2. Parent(p) \in Path /\ Len(Parent(p)) = n /\ IsPrefix(Parent(p), p)
    BY <1>2, <2>1, TakeIs
  <2> QED
    BY <2>2 DEF n
<1> QED
  BY <1>1, <1>3, PrefixOrder

\* What is above a path and is not itself is above its parent.
LEMMA AboveParent ==
  ASSUME NEW p \in Path, NEW q \in Path, IsPrefix(q, p), q # p
  PROVE  p # Root /\ IsPrefix(q, Parent(p))
<1>1. Len(p) \in Nat /\ Len(q) \in Nat /\ Len(q) <= Len(p) /\ Len(q) # Len(p)
  BY PrefixOrder, LengthIs
<1>2. p # Root
  BY <1>1, RootIs
<1>3. Parent(p) \in Path /\ Len(Parent(p)) = Len(p) - 1 /\ IsPrefix(Parent(p), p)
  BY <1>2, ParentIs
<1>4. Len(q) <= Len(Parent(p))
  BY <1>1, <1>3
<1> QED
  BY <1>2, <1>3, <1>4, PrefixOrder

LEMMA AncestryIs ==
  ASSUME NEW p \in Path
  PROVE  \A q : q \in Ancestry(p) <=> q \in Path /\ IsPrefix(q, p)
<1>1. ASSUME NEW q \in Ancestry(p) PROVE q \in Path /\ IsPrefix(q, p)
  <2>1. PICK n \in 0..Len(p) : q = SubSeq(p, 1, n)
    BY DEF Ancestry, Prefixes
  <2> QED
    BY <2>1, TakeIs
<1>2. ASSUME NEW q \in Path, IsPrefix(q, p) PROVE q \in Ancestry(p)
  <2>1. Len(q) \in Nat /\ Len(p) \in Nat /\ Len(q) <= Len(p)
    BY <1>2, PrefixOrder, LengthIs
  <2>2. SubSeq(p, 1, Len(q)) = q
    <3>1. /\ SubSeq(p, 1, Len(q)) \in Path
          /\ Len(SubSeq(p, 1, Len(q))) = Len(q)
          /\ IsPrefix(SubSeq(p, 1, Len(q)), p)
      BY <2>1, TakeIs
    <3>2. IsPrefix(SubSeq(p, 1, Len(q)), q)
      BY <1>2, <2>1, <3>1, PrefixOrder
    <3> QED
      BY <3>1, <3>2, PrefixOrder
  <2>3. Len(q) \in 0..Len(p)
    BY <2>1
  <2> QED
    BY <2>2, <2>3, Zenon DEF Ancestry, Prefixes
<1> QED
  BY <1>1, <1>2

LEMMA AppendIs ==
  ASSUME NEW p \in Path, NEW k \in Keys
  PROVE  /\ Append(p, k) \in Path
         /\ Append(p, k) # Root
         /\ Parent(Append(p, k)) = p
         /\ Len(Append(p, k)) = Len(p) + 1
<1> DEFINE q == Append(p, k)
<1>1. /\ q \in Path
      /\ Len(q) = Len(p) + 1
      /\ \A i \in 1..Len(p) : q[i] = p[i]
  BY DEF Path
<1>2. Len(p) \in Nat
  BY LengthIs
<1> HIDE DEF q
<1>3. q # Root
  BY <1>1, <1>2, RootIs
<1>4. Parent(q) \in Path /\ Len(Parent(q)) = Len(p) /\ IsPrefix(Parent(q), q)
  BY <1>1, <1>2, <1>3, ParentIs
<1>5. IsPrefix(p, q)
  BY <1>1, <1>2, PrefixIs
<1>6. IsPrefix(p, Parent(q))
  BY <1>1, <1>2, <1>4, <1>5, PrefixOrder
<1>7. Parent(q) = p
  BY <1>4, <1>6, PrefixOrder
<1> QED
  BY <1>1, <1>3, <1>7 DEF q

\* Two paths of which neither is above the other part under a common path.
LEMMA Parting ==
  ASSUME NEW p \in Path, NEW q \in Path, ~ IsPrefix(p, q), ~ IsPrefix(q, p)
  PROVE  \E c \in Path, d \in Path :
           /\ c # d /\ c # Root /\ d # Root
           /\ Parent(c) = Parent(d)
           /\ IsPrefix(c, p) /\ IsPrefix(d, q)
<1>0. Len(p) \in Nat /\ Len(q) \in Nat
  BY LengthIs
<1> DEFINE S == {i \in Nat : 1 <= i /\ i <= Len(p) /\ i <= Len(q) /\ p[i] # q[i]}
<1>1. S # {}
  <2>1. CASE Len(p) <= Len(q)
    BY <1>0, <2>1, PrefixIs
  <2>2. CASE Len(q) <= Len(p)
    BY <1>0, <2>2, PrefixIs
  <2> QED
    BY <1>0, <2>1, <2>2
<1>2. PICK n \in S : \A m \in S : n <= m
  BY <1>1, Least
<1> DEFINE c == SubSeq(p, 1, n)
           d == SubSeq(q, 1, n)
<1>3. /\ c \in Path /\ Len(c) = n /\ IsPrefix(c, p)
      /\ d \in Path /\ Len(d) = n /\ IsPrefix(d, q)
  BY <1>0, <1>2, TakeIs
<1> HIDE DEF c, d
<1>4. c[n] = p[n] /\ d[n] = q[n]
  BY <1>3, PrefixIs
<1>5. c # d /\ c # Root /\ d # Root
  BY <1>3, <1>4, RootIs
<1>6. /\ Parent(c) \in Path /\ Len(Parent(c)) = n - 1 /\ IsPrefix(Parent(c), p)
      /\ Parent(d) \in Path /\ Len(Parent(d)) = n - 1 /\ IsPrefix(Parent(d), q)
  BY <1>3, <1>5, ParentIs, PrefixOrder
<1>7. \A i \in 1..(n - 1) : p[i] = q[i]
  BY <1>0, <1>2
<1>8. IsPrefix(Parent(c), q)
  <2>1. \A i \in 1..(n - 1) : Parent(c)[i] = p[i]
    BY <1>6, PrefixIs
  <2>2. n - 1 <= Len(q)
    BY <1>0, <1>2
  <2> QED
    BY <1>6, <1>7, <2>1, <2>2, PrefixIs
<1>9. Parent(c) = Parent(d)
  <2>1. IsPrefix(Parent(c), Parent(d))
    BY <1>6, <1>8, PrefixOrder
  <2> QED
    BY <1>6, <2>1, PrefixOrder
<1> QED
  BY <1>3, <1>5, <1>9

-----------------------------------------------------------------------------
(* Trees.  What the tree of a machine always is: the states above a state  *)
(* are there, and a final one has none below it.                           *)

Kinds == {"plain", "parallel", "final"}

IsTree(t) ==
  /\ DOMAIN t \subseteq Path
  /\ IsFiniteSet(DOMAIN t)
  /\ t \in [DOMAIN t -> Kinds]
  /\ Root \in DOMAIN t
  /\ \A p \in DOMAIN t : Len(p) <= MaxLevel
  /\ \A p \in DOMAIN t, q \in Path : IsPrefix(q, p) => q \in DOMAIN t
  /\ \A p \in DOMAIN t : p # Root => t[Parent(p)] # "final"

LEMMA ChildIs ==
  ASSUME NEW t, IsTree(t), NEW p \in DOMAIN t, NEW c \in Children(t, p)
  PROVE  /\ c \in DOMAIN t /\ c \in Path /\ c # Root
         /\ Parent(c) = p
         /\ IsPrefix(p, c) /\ p # c
         /\ Len(c) = Len(p) + 1
<1>1. c \in DOMAIN t /\ c # Root /\ Parent(c) = p /\ c \in Path /\ p \in Path
  BY DEF Children, IsTree
<1>2. Len(p) = Len(c) - 1 /\ IsPrefix(p, c) /\ ~ IsPrefix(c, p)
  BY <1>1, ParentIs
<1>3. Len(c) \in Nat /\ Len(p) \in Nat
  BY <1>1, LengthIs
<1>4. p # c
  BY <1>2, <1>3
<1> QED
  BY <1>1, <1>2, <1>3, <1>4

LEMMA ParentIsState ==
  ASSUME NEW t, IsTree(t), NEW c \in DOMAIN t, c # Root
  PROVE  /\ Parent(c) \in DOMAIN t
         /\ c \in Children(t, Parent(c))
BY ParentIs DEF IsTree, Children

LEMMA TypeIs ==
  ASSUME NEW t, IsTree(t), NEW p \in DOMAIN t
  PROVE  /\ Type(t, p) \in {"parallel", "final", "atomic", "compound"}
         /\ Type(t, p) = "parallel" <=> t[p] = "parallel"
         /\ Type(t, p) = "compound" => Children(t, p) # {}
         /\ Type(t, p) \notin {"compound", "parallel"} => Children(t, p) = {}
<1>1. t[p] \in Kinds
  BY DEF IsTree
<1>2. t[p] = "final" => Children(t, p) = {}
  BY DEF IsTree, Children
<1> QED
  BY <1>1, <1>2 DEF Type, Kinds

\* Where one state is above another, one of its children is.
LEMMA TowardsIs ==
  ASSUME NEW t, IsTree(t), NEW p \in DOMAIN t, NEW q \in DOMAIN t, IsPrefix(p, q), p # q
  PROVE  \E c \in Children(t, p) : IsPrefix(c, q)
<1>0. p \in Path /\ q \in Path /\ Len(p) \in Nat /\ Len(q) \in Nat
  BY LengthIs DEF IsTree
<1>1. Len(p) < Len(q)
  BY <1>0, PrefixOrder
<1> DEFINE n == Len(p) + 1
           c == SubSeq(q, 1, n)
<1>2. n \in 0..Len(q)
  BY <1>0, <1>1
<1>3. c \in Path /\ Len(c) = Len(p) + 1 /\ IsPrefix(c, q)
  <2> HIDE DEF n
  <2>1. c \in Path /\ Len(c) = n /\ IsPrefix(c, q)
    BY <1>0, <1>2, TakeIs
  <2> QED
    BY <2>1 DEF n
<1> HIDE DEF c
<1>4. IsPrefix(p, c) /\ p # c
  <2>1. Len(p) <= Len(c) /\ Len(p) # Len(c)
    BY <1>0, <1>3
  <2> QED
    BY <1>0, <1>3, <2>1, PrefixOrder
<1>5. c # Root /\ IsPrefix(p, Parent(c))
  BY <1>0, <1>3, <1>4, AboveParent
<1>6. Parent(c) \in Path /\ Len(Parent(c)) = Len(p)
  BY <1>0, <1>3, <1>5, ParentIs
<1>7. Parent(c) = p
  BY <1>0, <1>5, <1>6, PrefixOrder
<1>8. c \in DOMAIN t
  BY <1>3 DEF IsTree
<1> QED
  BY <1>3, <1>5, <1>7, <1>8 DEF Children

\* Nothing is below two children of a state.
LEMMA SiblingsPart ==
  ASSUME NEW t, IsTree(t), NEW p \in DOMAIN t, NEW c \in Children(t, p),
         NEW d \in Children(t, p), NEW x \in Path, IsPrefix(c, x), IsPrefix(d, x)
  PROVE  c = d
<1>1. c \in Path /\ d \in Path /\ Len(c) = Len(p) + 1 /\ Len(d) = Len(p) + 1
  BY ChildIs
<1>2. Len(p) \in Nat
  BY LengthIs DEF IsTree
<1>3. IsPrefix(c, d)
  BY <1>1, <1>2, PrefixOrder
<1> QED
  BY <1>1, <1>3, PrefixOrder

LEMMA LeafIs ==
  ASSUME NEW t, IsTree(t), NEW p \in DOMAIN t, NEW leaf \in LeavesOf(t, p)
  PROVE  /\ leaf \in DOMAIN t /\ leaf \in Path
         /\ IsPrefix(p, leaf)
         /\ Type(t, leaf) \notin {"compound", "parallel"}
         /\ \A q \in DOMAIN t : IsPrefix(leaf, q) => q = leaf
<1>1. leaf \in DOMAIN t /\ IsPrefix(p, leaf) /\ Type(t, leaf) \notin {"compound", "parallel"}
  BY DEF LeavesOf
<1>2. Children(t, leaf) = {}
  BY <1>1, TypeIs
<1>3. \A q \in DOMAIN t : IsPrefix(leaf, q) => q = leaf
  BY <1>1, <1>2, TowardsIs
<1>4. leaf \in Path
  BY <1>1 DEF IsTree
<1> QED
  BY <1>1, <1>3, <1>4

-----------------------------------------------------------------------------
(* State values.                                                           *)

\* What a state value is in, from p down.
IsIn(t, value, p, q) == q \in DOMAIN t /\ IsPrefix(p, q) /\ (q = p \/ Reaches(value, q))

LEMMA ValueIs ==
  ASSUME NEW t, IsTree(t), NEW p \in DOMAIN t, NEW value
  PROVE  value \in ValuesBelow(t, p) <=>
           /\ value \subseteq LeavesOf(t, p)
           /\ \A q : IsIn(t, value, p, q) /\ Type(t, q) = "compound" =>
                \E c \in Children(t, q) : ActiveChildren(t, value, q) = {c}
           /\ \A q : IsIn(t, value, p, q) /\ Type(t, q) = "parallel" =>
                ActiveChildren(t, value, q) = Children(t, q)
           /\ \A q : IsIn(t, value, p, q) /\ Type(t, q) \notin {"compound", "parallel"} =>
                q \in value
<1> DEFINE Rule(q) ==
      CASE Type(t, q) = "compound" -> \E c \in Children(t, q) : ActiveChildren(t, value, q) = {c}
        [] Type(t, q) = "parallel" -> ActiveChildren(t, value, q) = Children(t, q)
        [] OTHER -> q \in value
<1>1. value \in ValuesBelow(t, p) <=>
        value \subseteq LeavesOf(t, p) /\ \A q : IsIn(t, value, p, q) => Rule(q)
  BY DEF ValuesBelow, IsIn
<1>2. ASSUME NEW q
      PROVE  Rule(q) <=>
               /\ Type(t, q) = "compound" =>
                    \E c \in Children(t, q) : ActiveChildren(t, value, q) = {c}
               /\ Type(t, q) = "parallel" => ActiveChildren(t, value, q) = Children(t, q)
               /\ Type(t, q) \notin {"compound", "parallel"} => q \in value
  OBVIOUS
<1> HIDE DEF Rule
<1> QED
  BY <1>1, <1>2

\* It is in its top, and what it is in has what is above it.
LEMMA ValueReaches ==
  ASSUME NEW t, IsTree(t), Sound(t), NEW p \in DOMAIN t, NEW value \in ValuesBelow(t, p)
  PROVE  /\ Reaches(value, p)
         /\ \A leaf \in value : leaf \in LeavesOf(t, p)
         /\ \A q \in DOMAIN t, r \in DOMAIN t :
              IsPrefix(q, r) /\ Reaches(value, r) => Reaches(value, q)
<1>1. value \subseteq LeavesOf(t, p)
  BY ValueIs
<1>2. Reaches(value, p)
  <2>0. IsIn(t, value, p, p)
    BY PrefixOrder DEF IsIn, IsTree
  <2>1. CASE Type(t, p) = "compound"
    <3>1. PICK c \in Children(t, p) : ActiveChildren(t, value, p) = {c}
      BY <2>0, <2>1, ValueIs
    <3>2. PICK leaf \in value : IsPrefix(c, leaf)
      BY <3>1 DEF ActiveChildren, Reaches
    <3> QED
      BY <1>1, <3>2 DEF LeavesOf, Reaches
  <2>2. CASE Type(t, p) = "parallel"
    <3>1. ActiveChildren(t, value, p) = Children(t, p)
      BY <2>0, <2>2, ValueIs
    <3>2. Children(t, p) # {}
      BY <2>2, TypeIs DEF Sound
    <3>3. PICK leaf \in value : TRUE
      BY <3>1, <3>2 DEF ActiveChildren, Reaches
    <3> QED
      BY <1>1, <3>3 DEF LeavesOf, Reaches
  <2>3. CASE Type(t, p) \notin {"compound", "parallel"}
    <3>1. p \in value
      BY <2>0, <2>3, ValueIs
    <3> QED
      BY <1>1, <3>1 DEF LeavesOf, Reaches
  <2> QED
    BY <2>1, <2>2, <2>3
<1>3. ASSUME NEW q \in DOMAIN t, NEW r \in DOMAIN t, IsPrefix(q, r), Reaches(value, r)
      PROVE  Reaches(value, q)
  <2>1. PICK leaf \in value : IsPrefix(r, leaf)
    BY <1>3 DEF Reaches
  <2>2. q \in Path /\ r \in Path /\ leaf \in Path
    BY <1>1, LeafIs DEF IsTree
  <2> QED
    BY <1>3, <2>1, <2>2, PrefixOrder DEF Reaches
<1> QED
  BY <1>1, <1>2, <1>3

\* Only in a parallel state is it in two children.
LEMMA TwoActive ==
  ASSUME NEW t, IsTree(t), Sound(t), NEW p \in DOMAIN t, NEW value \in ValuesBelow(t, p),
         NEW q \in DOMAIN t, IsPrefix(p, q),
         NEW c \in Children(t, q), NEW d \in Children(t, q), c # d,
         Reaches(value, c), Reaches(value, d)
  PROVE  Type(t, q) = "parallel"
<1>1. IsIn(t, value, p, q)
  BY ChildIs, ValueReaches DEF IsIn
<1>2. Type(t, q) # "compound"
  BY <1>1, ValueIs DEF ActiveChildren
<1>3. Type(t, q) \in {"compound", "parallel"}
  BY TypeIs
<1> QED
  BY <1>2, <1>3

\* So two of its leaves part in a parallel state.
LEMMA LeavesPart ==
  ASSUME NEW t, IsTree(t), Sound(t), NEW p \in DOMAIN t, NEW value \in ValuesBelow(t, p),
         NEW leaf \in value, NEW other \in value, leaf # other
  PROVE  \E q \in DOMAIN t : IsPrefix(p, q) /\ Type(t, q) = "parallel" /\ IsPrefix(q, leaf)
<1>1. leaf \in LeavesOf(t, p) /\ other \in LeavesOf(t, p)
  BY ValueReaches
<1>2. /\ leaf \in DOMAIN t /\ leaf \in Path /\ IsPrefix(p, leaf)
      /\ other \in DOMAIN t /\ other \in Path /\ IsPrefix(p, other)
      /\ ~ IsPrefix(leaf, other) /\ ~ IsPrefix(other, leaf)
  BY <1>1, LeafIs
<1>3. PICK c \in Path, d \in Path :
        /\ c # d /\ c # Root /\ d # Root
        /\ Parent(c) = Parent(d)
        /\ IsPrefix(c, leaf) /\ IsPrefix(d, other)
  BY <1>2, Parting
<1>4. c \in DOMAIN t /\ d \in DOMAIN t
  BY <1>2, <1>3 DEF IsTree
<1> DEFINE q == Parent(c)
<1>5. /\ q \in DOMAIN t
      /\ c \in Children(t, q) /\ d \in Children(t, q)
  BY <1>3, <1>4, ParentIsState
<1>6. q \in Path /\ p \in Path /\ Len(q) \in Nat /\ Len(p) \in Nat
  BY <1>5, LengthIs DEF IsTree
<1> HIDE DEF q
<1>7. /\ Len(c) = Len(q) + 1 /\ IsPrefix(q, c)
      /\ Len(d) = Len(q) + 1 /\ IsPrefix(q, d)
  BY <1>5, ChildIs
<1>8. Len(p) <= Len(q)
  <2>1. SUFFICES ASSUME Len(c) <= Len(p) PROVE FALSE
    BY <1>6, <1>7
  <2>2. IsPrefix(c, p)
    BY <1>2, <1>3, <1>6, <2>1, PrefixOrder
  <2>3. IsPrefix(c, other)
    BY <1>2, <1>6, <2>2, PrefixOrder
  <2> QED
    BY <1>2, <1>3, <1>5, <2>3, SiblingsPart
<1>9. IsPrefix(q, leaf)
  BY <1>2, <1>3, <1>6, <1>7, PrefixOrder
<1>10. IsPrefix(p, q)
  BY <1>2, <1>6, <1>8, <1>9, PrefixOrder
<1>11. Reaches(value, c) /\ Reaches(value, d)
  BY <1>3 DEF Reaches
<1>12. Type(t, q) = "parallel"
  BY <1>3, <1>5, <1>10, <1>11, TwoActive
<1> QED
  BY <1>5, <1>9, <1>10, <1>12

\* The part of a state value at or below a state.
Within(value, c) == {leaf \in value : IsPrefix(c, leaf)}

LEMMA WithinIs ==
  ASSUME NEW t, IsTree(t), NEW p \in DOMAIN t, NEW value, value \subseteq LeavesOf(t, p),
         NEW c \in Children(t, p)
  PROVE  /\ Within(value, c) \subseteq LeavesOf(t, c)
         /\ \A q : IsPrefix(c, q) /\ q \in DOMAIN t =>
              /\ Reaches(Within(value, c), q) <=> Reaches(value, q)
              /\ ActiveChildren(t, Within(value, c), q) = ActiveChildren(t, value, q)
         /\ Reaches(value, c) => \A q : IsIn(t, Within(value, c), c, q) => IsIn(t, value, p, q)
         /\ \A q : IsIn(t, value, p, q) /\ IsPrefix(c, q) => IsIn(t, Within(value, c), c, q)
<1>1. Within(value, c) \subseteq LeavesOf(t, c)
  BY DEF Within, LeavesOf
<1>0. c \in Path /\ c \in DOMAIN t /\ IsPrefix(p, c) /\ p # c /\ p \in Path
  BY ChildIs DEF IsTree
<1>2. ASSUME NEW q \in DOMAIN t, IsPrefix(c, q)
      PROVE  Reaches(Within(value, c), q) <=> Reaches(value, q)
  <2>1. ASSUME NEW leaf \in value, IsPrefix(q, leaf) PROVE IsPrefix(c, leaf)
    <3>1. leaf \in Path /\ q \in Path
      BY LeafIs DEF IsTree
    <3> QED
      BY <1>0, <1>2, <2>1, <3>1, PrefixOrder
  <2> QED
    BY <2>1 DEF Within, Reaches
<1>3. ASSUME NEW q \in DOMAIN t, IsPrefix(c, q)
      PROVE  ActiveChildren(t, Within(value, c), q) = ActiveChildren(t, value, q)
  <2>1. ASSUME NEW d \in Children(t, q) PROVE d \in DOMAIN t /\ IsPrefix(c, d)
    <3>1. d \in DOMAIN t /\ d \in Path /\ IsPrefix(q, d) /\ q \in Path
      BY ChildIs DEF IsTree
    <3> QED
      BY <1>0, <1>3, <3>1, PrefixOrder
  <2> QED
    BY <1>2, <2>1 DEF ActiveChildren
<1>4. ASSUME Reaches(value, c), NEW q, IsIn(t, Within(value, c), c, q)
      PROVE  IsIn(t, value, p, q)
  <2>1. q \in DOMAIN t /\ IsPrefix(c, q) /\ q \in Path
    BY <1>4 DEF IsIn, IsTree
  <2>2. Reaches(value, q)
    BY <1>2, <1>4, <2>1 DEF IsIn
  <2>3. IsPrefix(p, q)
    BY <1>0, <2>1, PrefixOrder
  <2> QED
    BY <2>1, <2>2, <2>3 DEF IsIn
<1>5. ASSUME NEW q, IsIn(t, value, p, q), IsPrefix(c, q)
      PROVE  IsIn(t, Within(value, c), c, q)
  <2>1. q \in DOMAIN t /\ q \in Path
    BY <1>5 DEF IsIn, IsTree
  <2>2. q # p
    BY <1>0, <1>5, <2>1, PrefixOrder
  <2>3. Reaches(value, q)
    BY <1>5, <2>2 DEF IsIn
  <2> QED
    BY <1>2, <1>5, <2>1, <2>3 DEF IsIn
<1> QED
  BY <1>1, <1>2, <1>3, <1>4, <1>5

\* What is within a child that a state value is in is a state value below it.
LEMMA WithinIsValue ==
  ASSUME NEW t, IsTree(t), NEW p \in DOMAIN t, NEW value \in ValuesBelow(t, p),
         NEW c \in Children(t, p), Reaches(value, c)
  PROVE  Within(value, c) \in ValuesBelow(t, c)
<1> DEFINE part == Within(value, c)
<1>1. value \subseteq LeavesOf(t, p) /\ c \in DOMAIN t
  BY ValueIs, ChildIs
<1>2. part \subseteq LeavesOf(t, c)
  BY <1>1, WithinIs
<1>3. ASSUME NEW q, IsIn(t, part, c, q)
      PROVE  /\ IsIn(t, value, p, q) /\ IsPrefix(c, q)
             /\ ActiveChildren(t, part, q) = ActiveChildren(t, value, q)
  <2>1. q \in DOMAIN t /\ IsPrefix(c, q)
    BY <1>3 DEF IsIn
  <2> QED
    BY <1>1, <1>3, <2>1, WithinIs
<1>4. ASSUME NEW q, IsIn(t, part, c, q), Type(t, q) = "compound"
      PROVE  \E d \in Children(t, q) : ActiveChildren(t, part, q) = {d}
  BY <1>3, <1>4, ValueIs
<1>5. ASSUME NEW q, IsIn(t, part, c, q), Type(t, q) = "parallel"
      PROVE  ActiveChildren(t, part, q) = Children(t, q)
  BY <1>3, <1>5, ValueIs
<1>6. ASSUME NEW q, IsIn(t, part, c, q), Type(t, q) \notin {"compound", "parallel"}
      PROVE  q \in part
  <2>1. q \in value /\ IsPrefix(c, q)
    BY <1>3, <1>6, ValueIs
  <2> QED
    BY <2>1 DEF Within
<1> HIDE DEF part
<1>7. part \in ValuesBelow(t, c)
  BY <1>1, <1>2, <1>4, <1>5, <1>6, ValueIs
<1> QED
  BY <1>7 DEF part

\* And with a state value below each child it is in, it is one.
LEMMA ValueOfParts ==
  ASSUME NEW t, IsTree(t), NEW p \in DOMAIN t, NEW value, value \subseteq LeavesOf(t, p),
         \A c \in Children(t, p) : Reaches(value, c) => Within(value, c) \in ValuesBelow(t, c),
         \/ Type(t, p) = "compound" /\ \E c \in Children(t, p) : ActiveChildren(t, value, p) = {c}
         \/ Type(t, p) = "parallel" /\ ActiveChildren(t, value, p) = Children(t, p)
  PROVE  value \in ValuesBelow(t, p)
<1>1. ASSUME NEW q, IsIn(t, value, p, q), q # p
      PROVE  \E c \in Children(t, p) :
               /\ Within(value, c) \in ValuesBelow(t, c)
               /\ IsIn(t, Within(value, c), c, q)
               /\ ActiveChildren(t, Within(value, c), q) = ActiveChildren(t, value, q)
  <2>1. q \in DOMAIN t /\ q \in Path /\ IsPrefix(p, q) /\ Reaches(value, q)
    BY <1>1 DEF IsIn, IsTree
  <2>2. PICK c \in Children(t, p) : IsPrefix(c, q)
    BY <1>1, <2>1, TowardsIs
  <2>3. Reaches(value, c)
    <3>1. PICK leaf \in value : IsPrefix(q, leaf)
      BY <2>1 DEF Reaches
    <3>2. leaf \in Path /\ c \in Path
      BY ChildIs, LeafIs
    <3> QED
      BY <2>1, <2>2, <3>1, <3>2, PrefixOrder DEF Reaches
  <2>4. Within(value, c) \in ValuesBelow(t, c)
    BY <2>3
  <2>5. /\ IsIn(t, Within(value, c), c, q)
        /\ ActiveChildren(t, Within(value, c), q) = ActiveChildren(t, value, q)
    BY <1>1, <2>1, <2>2, WithinIs
  <2> QED
    BY <2>4, <2>5
<1>2. \A c \in Children(t, p) : c \in DOMAIN t
  BY ChildIs
<1>3. ASSUME NEW q, IsIn(t, value, p, q), Type(t, q) = "compound"
      PROVE  \E d \in Children(t, q) : ActiveChildren(t, value, q) = {d}
  <2>1. CASE q = p
    BY <1>3, <2>1
  <2>2. CASE q # p
    BY <1>1, <1>2, <1>3, <2>2, ValueIs
  <2> QED
    BY <2>1, <2>2
<1>4. ASSUME NEW q, IsIn(t, value, p, q), Type(t, q) = "parallel"
      PROVE  ActiveChildren(t, value, q) = Children(t, q)
  <2>1. CASE q = p
    BY <1>4, <2>1
  <2>2. CASE q # p
    BY <1>1, <1>2, <1>4, <2>2, ValueIs
  <2> QED
    BY <2>1, <2>2
<1>5. ASSUME NEW q, IsIn(t, value, p, q), Type(t, q) \notin {"compound", "parallel"}
      PROVE  q \in value
  <2>1. q # p
    BY <1>5
  <2>2. PICK c \in Children(t, p) :
          /\ Within(value, c) \in ValuesBelow(t, c)
          /\ IsIn(t, Within(value, c), c, q)
    BY <1>1, <1>5, <2>1
  <2>3. q \in Within(value, c)
    BY <1>2, <1>5, <2>2, ValueIs
  <2> QED
    BY <2>3 DEF Within
<1> QED
  BY <1>3, <1>4, <1>5, ValueIs

\* The state values below a state, by its type.
LEMMA BelowCompound ==
  ASSUME NEW t, IsTree(t), Sound(t), NEW p \in DOMAIN t, Type(t, p) = "compound"
  PROVE  ValuesBelow(t, p) = UNION {ValuesBelow(t, c) : c \in Children(t, p)}
<1>0. IsIn(t, {}, p, p) /\ \A value : IsIn(t, value, p, p)
  BY PrefixOrder DEF IsIn, IsTree
<1>1. ASSUME NEW value \in ValuesBelow(t, p)
      PROVE  \E c \in Children(t, p) : value \in ValuesBelow(t, c)
  <2>1. PICK c \in Children(t, p) : ActiveChildren(t, value, p) = {c}
    BY <1>0, ValueIs
  <2>2. ASSUME NEW leaf \in value PROVE IsPrefix(c, leaf)
    <3>1. leaf \in LeavesOf(t, p)
      BY ValueIs
    <3>2. leaf \in DOMAIN t /\ IsPrefix(p, leaf) /\ p # leaf
      BY <3>1, LeafIs
    <3>3. PICK d \in Children(t, p) : IsPrefix(d, leaf)
      BY <3>2, TowardsIs
    <3> QED
      BY <2>1, <3>3 DEF ActiveChildren, Reaches
  <2>3. Within(value, c) = value
    BY <2>2 DEF Within
  <2>4. Reaches(value, c)
    BY <2>1 DEF ActiveChildren
  <2> QED
    BY <2>3, <2>4, WithinIsValue
<1>2. ASSUME NEW c \in Children(t, p), NEW value \in ValuesBelow(t, c)
      PROVE  value \in ValuesBelow(t, p)
  <2>0. c \in DOMAIN t /\ c \in Path /\ IsPrefix(p, c) /\ p \in Path
    BY ChildIs DEF IsTree
  <2>1. ASSUME NEW leaf \in value
        PROVE  /\ leaf \in LeavesOf(t, p)
               /\ IsPrefix(c, leaf)
               /\ \A d \in Children(t, p) : IsPrefix(d, leaf) => d = c
    <3>1. leaf \in LeavesOf(t, c)
      BY <2>0, ValueIs
    <3>2. leaf \in DOMAIN t /\ leaf \in Path /\ IsPrefix(c, leaf)
      BY <2>0, <3>1, LeafIs
    <3>3. IsPrefix(p, leaf)
      BY <2>0, <3>2, PrefixOrder
    <3> QED
      BY <3>1, <3>2, <3>3, SiblingsPart DEF LeavesOf
  <2>2. Reaches(value, c)
    BY <2>0, ValueReaches
  <2>3. ActiveChildren(t, value, p) = {c}
    BY <2>1, <2>2 DEF ActiveChildren, Reaches
  <2>4. Within(value, c) = value
    BY <2>1 DEF Within
  <2>5. \A d \in Children(t, p) : Reaches(value, d) => Within(value, d) \in ValuesBelow(t, d)
    BY <2>3, <2>4 DEF ActiveChildren
  <2> QED
    BY <2>1, <2>3, <2>5, ValueOfParts
<1> QED
  BY <1>1, <1>2

LEMMA BelowParallel ==
  ASSUME NEW t, IsTree(t), Sound(t), NEW p \in DOMAIN t, Type(t, p) = "parallel",
         NEW c \in Children(t, p), NEW d \in Children(t, p), c # d,
         Children(t, p) = {c, d}
  PROVE  ValuesBelow(t, p) = {u \cup v : u \in ValuesBelow(t, c), v \in ValuesBelow(t, d)}
<1>0. /\ c \in DOMAIN t /\ c \in Path /\ IsPrefix(p, c)
      /\ d \in DOMAIN t /\ d \in Path /\ IsPrefix(p, d)
      /\ p \in Path
  BY ChildIs DEF IsTree
<1>1. ASSUME NEW value \in ValuesBelow(t, p)
      PROVE  \E u \in ValuesBelow(t, c), v \in ValuesBelow(t, d) : value = u \cup v
  <2>0. IsIn(t, value, p, p)
    BY PrefixOrder DEF IsIn, IsTree
  <2>1. ActiveChildren(t, value, p) = Children(t, p)
    BY <2>0, ValueIs
  <2>2. /\ Within(value, c) \in ValuesBelow(t, c)
        /\ Within(value, d) \in ValuesBelow(t, d)
    BY <2>1, WithinIsValue DEF ActiveChildren
  <2>3. ASSUME NEW leaf \in value PROVE IsPrefix(c, leaf) \/ IsPrefix(d, leaf)
    <3>1. leaf \in LeavesOf(t, p)
      BY ValueIs
    <3>2. leaf \in DOMAIN t /\ IsPrefix(p, leaf) /\ p # leaf
      BY <3>1, LeafIs
    <3> QED
      BY <3>2, TowardsIs
  <2>4. value = Within(value, c) \cup Within(value, d)
    BY <2>3 DEF Within
  <2> QED
    BY <2>2, <2>4
<1>2. ASSUME NEW x \in {c, d}, NEW w \in ValuesBelow(t, x), NEW leaf \in w
      PROVE  /\ leaf \in LeavesOf(t, p)
             /\ IsPrefix(x, leaf)
             /\ \A y \in {c, d} : IsPrefix(y, leaf) => y = x
  <2>1. x \in DOMAIN t /\ x \in Path /\ IsPrefix(p, x) /\ x \in Children(t, p)
    BY <1>0
  <2>2. leaf \in LeavesOf(t, x)
    BY <2>1, ValueIs
  <2>3. leaf \in DOMAIN t /\ leaf \in Path /\ IsPrefix(x, leaf)
    BY <2>1, <2>2, LeafIs
  <2>4. IsPrefix(p, leaf)
    BY <1>0, <2>1, <2>3, PrefixOrder
  <2> QED
    BY <2>1, <2>2, <2>3, <2>4, SiblingsPart DEF LeavesOf
<1>3. ASSUME NEW u \in ValuesBelow(t, c), NEW v \in ValuesBelow(t, d)
      PROVE  u \cup v \in ValuesBelow(t, p)
  <2>1. Within(u \cup v, c) = u /\ Within(u \cup v, d) = v
    BY <1>2 DEF Within
  <2>2. Reaches(u, c) /\ Reaches(v, d)
    BY <1>0, ValueReaches
  <2>3. ActiveChildren(t, u \cup v, p) = Children(t, p)
    BY <2>2 DEF ActiveChildren, Reaches
  <2>4. u \cup v \subseteq LeavesOf(t, p)
    BY <1>2
  <2> QED
    BY <2>1, <2>3, <2>4, ValueOfParts
<1> QED
  BY <1>1, <1>3

LEMMA BelowLeaf ==
  ASSUME NEW t, IsTree(t), NEW p \in DOMAIN t, Type(t, p) \notin {"compound", "parallel"}
  PROVE  ValuesBelow(t, p) = {{p}}
<1>1. p \in LeavesOf(t, p)
  BY PrefixOrder DEF LeavesOf, IsTree
<1>2. \A q \in DOMAIN t : IsPrefix(p, q) => q = p
  BY <1>1, LeafIs
<1>3. LeavesOf(t, p) = {p}
  BY <1>1, <1>2 DEF LeavesOf
<1>4. \A value : IsIn(t, value, p, p) /\ \A q : IsIn(t, value, p, q) => q = p
  BY <1>1, <1>2, LeafIs DEF IsIn
<1>5. ASSUME NEW value
      PROVE  value \in ValuesBelow(t, p) <=> value = {p}
  BY <1>3, <1>4, ValueIs
<1> QED
  BY <1>5

\* Below each state there is a leaf.
LEMMA LeafBelow ==
  ASSUME NEW t, IsTree(t), Sound(t), NEW p \in DOMAIN t
  PROVE  LeavesOf(t, p) # {}
<1> DEFINE S == {Len(q) : q \in {r \in DOMAIN t : IsPrefix(p, r)}}
<1>1. \A q \in DOMAIN t : q \in Path /\ Len(q) \in Nat /\ Len(q) <= MaxLevel
  BY LengthIs DEF IsTree
<1>2. MaxLevel \in Nat
  BY TreeAssumption
<1>3. S \subseteq Nat /\ \A n \in S : n <= MaxLevel
  BY <1>1
<1>a. Len(p) \in S
  BY <1>1, PrefixOrder
<1>4. PICK n \in S : \A m \in S : m <= n
  <2> HIDE DEF S
  <2> QED
    BY <1>2, <1>3, <1>a, Greatest
<1>5. PICK q \in DOMAIN t : IsPrefix(p, q) /\ Len(q) = n
  BY <1>4
<1>6. ASSUME NEW c \in Children(t, q) PROVE FALSE
  <2>1. c \in DOMAIN t /\ c \in Path /\ IsPrefix(q, c) /\ Len(c) = Len(q) + 1
    BY ChildIs
  <2>2. IsPrefix(p, c)
    BY <1>1, <1>5, <2>1, PrefixOrder
  <2>3. Len(c) \in S
    BY <2>1, <2>2
  <2> QED
    BY <1>1, <1>4, <1>5, <2>1, <2>3
<1>7. Type(t, q) # "compound"
  BY <1>6, TypeIs
<1>8. Type(t, q) # "parallel"
  BY <1>6, TypeIs DEF Sound
<1> QED
  BY <1>5, <1>7, <1>8 DEF LeavesOf

\* Where no parallel state is, a state value is one leaf, and each leaf is one.
LEMMA BelowChoice ==
  ASSUME NEW t, IsTree(t), Sound(t), NEW p \in DOMAIN t,
         \A q \in DOMAIN t : IsPrefix(p, q) => Type(t, q) # "parallel"
  PROVE  ValuesBelow(t, p) = {{leaf} : leaf \in LeavesOf(t, p)}
<1>0. p \in Path
  BY DEF IsTree
<1>1. ASSUME NEW value \in ValuesBelow(t, p)
      PROVE  \E leaf \in LeavesOf(t, p) : value = {leaf}
  <2>1. PICK leaf \in value : TRUE
    BY ValueReaches DEF Reaches
  <2>2. \A other \in value : other = leaf
    BY LeavesPart
  <2> QED
    BY <2>1, <2>2, ValueReaches
<1>2. ASSUME NEW leaf \in LeavesOf(t, p)
      PROVE  {leaf} \in ValuesBelow(t, p)
  <2>1. leaf \in DOMAIN t /\ leaf \in Path /\ IsPrefix(p, leaf)
    BY LeafIs
  <2>2. ASSUME NEW q, IsIn(t, {leaf}, p, q) PROVE q \in DOMAIN t /\ q \in Path /\ IsPrefix(p, q) /\ IsPrefix(q, leaf)
    BY <2>1, <2>2 DEF IsIn, IsTree, Reaches
  <2>3. ASSUME NEW q, IsIn(t, {leaf}, p, q), Type(t, q) = "compound"
        PROVE  \E c \in Children(t, q) : ActiveChildren(t, {leaf}, q) = {c}
    <3>1. q # leaf
      BY <2>3, LeafIs
    <3>2. PICK c \in Children(t, q) : IsPrefix(c, leaf)
      BY <2>1, <2>2, <2>3, <3>1, TowardsIs
    <3>3. \A d \in Children(t, q) : IsPrefix(d, leaf) => d = c
      BY <2>1, <2>2, <2>3, <3>2, SiblingsPart
    <3> QED
      BY <3>2, <3>3 DEF ActiveChildren, Reaches
  <2>4. ASSUME NEW q, IsIn(t, {leaf}, p, q), Type(t, q) \notin {"compound", "parallel"}
        PROVE  q \in {leaf}
    <3>1. q \in LeavesOf(t, p)
      BY <2>2, <2>4 DEF LeavesOf
    <3> QED
      BY <2>1, <2>2, <2>4, <3>1, LeafIs
  <2>5. \A q : IsIn(t, {leaf}, p, q) => Type(t, q) # "parallel"
    BY <2>2
  <2> QED
    BY <2>3, <2>4, <2>5, ValueIs
<1> QED
  BY <1>1, <1>2

-----------------------------------------------------------------------------
(* What visit.ts makes of the regions of a parallel state.                 *)

LEMMA TwoElements ==
  ASSUME NEW S, IsFiniteSet(S), Cardinality(S) = 2
  PROVE  \E x \in S, y \in S : x # y /\ S = {x, y}
<1>1. PICK x \in S : TRUE
  BY FS_EmptySet
<1>2. IsFiniteSet(S \ {x}) /\ Cardinality(S \ {x}) = 1
  BY FS_RemoveElement
<1>3. PICK y : S \ {x} = {y}
  BY <1>2, FS_Singleton
<1> QED
  BY <1>1, <1>3

LEMMA PairIsTwo ==
  ASSUME NEW x, NEW y, x # y
  PROVE  Cardinality({x, y}) = 2
<1>1. IsFiniteSet({x}) /\ Cardinality({x}) = 1
  BY FS_Singleton
<1>2. Cardinality({x} \cup {y}) = 2
  BY <1>1, FS_AddElement
<1>3. {x} \cup {y} = {x, y}
  OBVIOUS
<1> QED
  BY <1>2, <1>3

\* One of each of two sets of state values together.
Together(groups) == {UNION values : values \in Choices(groups)}
Joined(A, B) == {u \cup v : u \in A, v \in B}

LEMMA TogetherIsJoined ==
  ASSUME NEW A, NEW B, A # B
  PROVE  Together({A, B}) = Joined(A, B)
<1> DEFINE F == {f \in [{A, B} -> UNION {A, B}] : \A T \in {A, B} : f[T] \in T}
<1>1. Choices({A, B}) = {Range(f) : f \in F}
  BY DEF Choices
<1>2. ASSUME NEW f \in F
      PROVE  f[A] \in A /\ f[B] \in B /\ UNION Range(f) = f[A] \cup f[B]
  <2>1. f \in [{A, B} -> UNION {A, B}] /\ f[A] \in A /\ f[B] \in B
    OBVIOUS
  <2>2. Range(f) = {f[A], f[B]}
    BY <2>1 DEF Range
  <2> QED
    BY <2>1, <2>2
<1>3. ASSUME NEW u \in A, NEW v \in B
      PROVE  \E f \in F : UNION Range(f) = u \cup v
  <2> DEFINE g == [T \in {A, B} |-> IF T = A THEN u ELSE v]
  <2>1. g \in F /\ g[A] = u /\ g[B] = v
    OBVIOUS
  <2> HIDE DEF g, F
  <2> QED
    BY <1>2, <2>1
<1> HIDE DEF F
<1>4. ASSUME NEW values \in Choices({A, B})
      PROVE  \E u \in A, v \in B : UNION values = u \cup v
  BY <1>1, <1>2
<1>5. ASSUME NEW u \in A, NEW v \in B
      PROVE  \E values \in Choices({A, B}) : UNION values = u \cup v
  <2>1. PICK f \in F : UNION Range(f) = u \cup v
    BY <1>3
  <2>2. Range(f) \in Choices({A, B})
    BY <1>1
  <2> QED
    BY <2>1, <2>2
<1>6. ASSUME NEW x \in Together({A, B}) PROVE x \in Joined(A, B)
  <2>1. PICK values \in Choices({A, B}) : x = UNION values
    BY Zenon DEF Together
  <2>2. PICK u \in A, v \in B : UNION values = u \cup v
    BY <1>4, Zenon
  <2>3. x = u \cup v
    BY <2>1, <2>2, Zenon
  <2> QED
    BY <2>3 DEF Joined
<1>7. ASSUME NEW x \in Joined(A, B) PROVE x \in Together({A, B})
  <2>1. PICK u \in A, v \in B : x = u \cup v
    BY DEF Joined
  <2>2. PICK values \in Choices({A, B}) : UNION values = u \cup v
    BY <1>5, Zenon
  <2> QED
    BY <2>1, <2>2, Zenon DEF Together
<1> QED
  BY <1>6, <1>7, Zenon

\* The regions of a parallel state in a machine that is supported.
LEMMA RegionsAre ==
  ASSUME IsTree(tree), Sound(tree), Supported,
         NEW p \in States, Type(tree, p) = "parallel",
         NEW c \in Children(tree, p)
  PROVE  /\ Kept(ValuesBelow(tree, c), p) = ValuesBelow(tree, c)
         /\ ValuesBelow(tree, c) # {}
<1>0. /\ c \in States /\ c \in Path /\ p \in Path
      /\ IsPrefix(p, c) /\ Len(c) = Len(p) + 1 /\ Len(p) \in Nat
  BY ChildIs, LengthIs DEF States, IsTree
<1>1. Type(tree, c) = "compound"
  BY DEF Supported
<1>2. ASSUME NEW q \in States, IsPrefix(c, q), Type(tree, q) = "parallel" PROVE FALSE
  <2>1. q \in Path /\ IsPrefix(p, q) /\ Len(q) \in Nat /\ Len(c) <= Len(q)
    BY <1>0, <1>2, PrefixOrder, LengthIs DEF States, IsTree
  <2>2. p \in Ancestry(q) \ {q}
    BY <1>0, <2>1, AncestryIs
  <2> QED
    BY <1>2, <2>2 DEF Supported
<1>3. ValuesBelow(tree, c) = {{leaf} : leaf \in LeavesOf(tree, c)}
  BY <1>0, <1>2, BelowChoice DEF States
<1>4. ASSUME NEW leaf \in LeavesOf(tree, c)
      PROVE  Cardinality({leaf}) = 1 /\ Len(leaf) > Len(p) + 1
  <2>1. leaf \in Path /\ IsPrefix(c, leaf) /\ leaf # c /\ Len(leaf) \in Nat
    BY <1>0, <1>1, LeafIs, LengthIs DEF States
  <2>2. Len(c) <= Len(leaf) /\ Len(c) # Len(leaf)
    BY <1>0, <2>1, PrefixOrder
  <2>3. Len(leaf) > Len(p) + 1
    BY <1>0, <2>1, <2>2
  <2> QED
    BY <2>3, FS_Singleton, Zenon
<1>5. LeavesOf(tree, c) # {}
  BY <1>0, LeafBelow DEF States
<1> QED
  BY <1>3, <1>4, <1>5 DEF Kept

LEMMA GroupsAre ==
  ASSUME IsTree(tree), Sound(tree), Supported,
         NEW p \in States, Type(tree, p) = "parallel"
  PROVE  LET groups == Groups({ValuesBelow(tree, c) : c \in Children(tree, p)}, p)
         IN  /\ Cardinality(groups) = 2
             /\ ValuesBelow(tree, p) = Together(groups)
<1> DEFINE below(x) == ValuesBelow(tree, x)
           groups == Groups({below(x) : x \in Children(tree, p)}, p)
<1>1. PICK c \in Children(tree, p), d \in Children(tree, p) : c # d /\ Children(tree, p) = {c, d}
  <2>1. IsFiniteSet(Children(tree, p))
    BY FS_Subset DEF Children, IsTree
  <2>2. Cardinality(Children(tree, p)) = 2
    BY DEF Supported
  <2> QED
    BY <2>1, <2>2, TwoElements
<1>2. /\ Kept(below(c), p) = below(c) /\ below(c) # {}
      /\ Kept(below(d), p) = below(d) /\ below(d) # {}
  BY RegionsAre
<1>3. below(c) # below(d)
  <2>1. PICK value \in below(c) : TRUE
    BY <1>2
  <2>2. c \in States /\ d \in States /\ p \in States
    BY ChildIs DEF States
  <2>3. PICK leaf \in value : IsPrefix(c, leaf) /\ leaf \in LeavesOf(tree, c)
    BY <2>2, ValueReaches DEF Reaches, States
  <2>4. ASSUME value \in below(d) PROVE FALSE
    <3>1. leaf \in LeavesOf(tree, d)
      BY <2>2, <2>3, <2>4, ValueReaches DEF States
    <3>2. leaf \in Path /\ IsPrefix(d, leaf)
      BY <2>2, <3>1, LeafIs DEF States
    <3> QED
      BY <1>1, <2>2, <2>3, <3>2, SiblingsPart DEF States
  <2> QED
    BY <2>1, <2>4
<1>4. {below(x) : x \in Children(tree, p)} = {below(c), below(d)}
  BY <1>1
<1> HIDE DEF below
<1>5. groups = {below(c), below(d)}
  BY <1>2, <1>4 DEF Groups
<1> HIDE DEF groups
<1>6. Cardinality(groups) = 2
  BY <1>3, <1>5, PairIsTwo
<1>7. Together(groups) = Joined(below(c), below(d))
  BY <1>3, <1>5, TogetherIsJoined
<1>8. ValuesBelow(tree, p) = Joined(below(c), below(d))
  BY <1>1, BelowParallel DEF below, States, Joined
<1> QED
  BY <1>6, <1>7, <1>8 DEF below, groups

\* What the visit of a state is, from the visits of its children.
VisitOf(f, p) ==
  CASE Type(tree, p) = "compound" -> UNION {f[c] : c \in Children(tree, p)}
    [] Type(tree, p) = "parallel" ->
         {UNION values : values \in Choices(Groups({f[c] : c \in Children(tree, p)}, p))}
    [] OTHER -> {{p}}

LEMMA VisitOfIs ==
  ASSUME NEW f, NEW p
  PROVE  /\ Type(tree, p) = "compound" => VisitOf(f, p) = UNION {f[c] : c \in Children(tree, p)}
         /\ Type(tree, p) = "parallel" =>
              VisitOf(f, p) = Together(Groups({f[c] : c \in Children(tree, p)}, p))
         /\ Type(tree, p) \notin {"compound", "parallel"} => VisitOf(f, p) = {{p}}
BY DEF VisitOf, Together

VisitEach(f) == [p \in States \ {Root} |-> VisitOf(f, p)]

\* It depends on the children only.
LEMMA VisitDepends ==
  ASSUME NEW f, NEW g, NEW p, \A c \in Children(tree, p) : f[c] = g[c]
  PROVE  VisitOf(f, p) = VisitOf(g, p)
<1>1. {f[c] : c \in Children(tree, p)} = {g[c] : c \in Children(tree, p)}
  OBVIOUS
<1> QED
  BY <1>1 DEF VisitOf

\* In a machine that is supported, the visit of a state finds the state values below.
LEMMA VisitedIs ==
  ASSUME IsTree(tree), Sound(tree), Supported
  PROVE  \A p \in States \ {Root} : Visited[p] = ValuesBelow(tree, p)
<1> DEFINE S == States \ {Root}
<1> DEFINE below == [p \in S |-> ValuesBelow(tree, p)]
<1>1. \A p \in S : \A c \in Children(tree, p) : c \in S
  BY ChildIs DEF States
<1>2. below = VisitEach(below)
  <2>1. ASSUME NEW p \in S PROVE ValuesBelow(tree, p) = VisitOf(below, p)
    <3>0. p \in States /\ p \in DOMAIN tree
      BY DEF States
    <3>1. {below[c] : c \in Children(tree, p)} = {ValuesBelow(tree, c) : c \in Children(tree, p)}
      BY <1>1
    <3> HIDE DEF below
    <3>2. CASE Type(tree, p) = "compound"
      <4>1. VisitOf(below, p) = UNION {below[c] : c \in Children(tree, p)}
        BY <3>2, VisitOfIs
      <4>2. ValuesBelow(tree, p) = UNION {ValuesBelow(tree, c) : c \in Children(tree, p)}
        BY <3>0, <3>2, BelowCompound
      <4> QED
        BY <3>1, <4>1, <4>2, Zenon
    <3>3. CASE Type(tree, p) = "parallel"
      <4>1. VisitOf(below, p) = Together(Groups({below[c] : c \in Children(tree, p)}, p))
        BY <3>3, VisitOfIs
      <4>2. ValuesBelow(tree, p) =
              Together(Groups({ValuesBelow(tree, c) : c \in Children(tree, p)}, p))
        BY <3>0, <3>3, GroupsAre
      <4> QED
        BY <3>1, <4>1, <4>2, Zenon
    <3>4. CASE Type(tree, p) \notin {"compound", "parallel"}
      <4>1. VisitOf(below, p) = {{p}}
        BY <3>4, VisitOfIs
      <4>2. ValuesBelow(tree, p) = {{p}}
        BY <3>0, <3>4, BelowLeaf
      <4> QED
        BY <4>1, <4>2, Zenon
    <3> QED
      BY <3>2, <3>3, <3>4
  <2> QED
    BY <2>1 DEF VisitEach
<1>3. Visited = VisitEach(Visited)
  <2>1. Visited = CHOOSE f : f = VisitEach(f)
    BY DEF Visited, VisitEach, VisitOf
  <2> HIDE DEF below
  <2> QED
    BY <1>2, <2>1, Zenon
<1>4. \A p \in S : Visited[p] = VisitOf(Visited, p) /\ below[p] = VisitOf(below, p)
  BY <1>2, <1>3 DEF VisitEach
<1> DEFINE Differ == {p \in S : Visited[p] # below[p]}
           T == {Len(p) : p \in Differ}
<1> HIDE DEF below
<1>5. Differ = {}
  <2>1. SUFFICES ASSUME Differ # {} PROVE FALSE
    OBVIOUS
  <2>2. \A p \in S : p \in Path /\ Len(p) \in Nat /\ Len(p) <= MaxLevel
    BY LengthIs DEF IsTree, States
  <2>3. PICK n \in T : \A m \in T : m <= n
    <3>1. T \subseteq Nat /\ T # {} /\ \A m \in T : m <= MaxLevel
      BY <2>1, <2>2
    <3>2. MaxLevel \in Nat
      BY TreeAssumption
    <3> HIDE DEF T
    <3> QED
      BY <3>1, <3>2, Greatest
  <2>4. PICK p \in Differ : Len(p) = n
    BY <2>3
  <2>5. ASSUME NEW c \in Children(tree, p) PROVE Visited[c] = below[c]
    <3>1. c \in S /\ Len(c) = Len(p) + 1
      BY <1>1, ChildIs DEF States
    <3>2. c \notin Differ
      BY <2>2, <2>3, <2>4, <3>1
    <3> QED
      BY <3>1, <3>2
  <2>6. VisitOf(Visited, p) = VisitOf(below, p)
    BY <2>5, VisitDepends
  <2> QED
    BY <1>4, <2>4, <2>6
<1> QED
  BY <1>5 DEF below

LEMMA NeverFails ==
  ASSUME IsTree(tree), Sound(tree), Supported
  PROVE  ~Fails
<1> SUFFICES ASSUME NEW p \in States \ {Root}, Type(tree, p) = "parallel"
             PROVE  Cardinality(Groups({Visited[c] : c \in Children(tree, p)}, p)) = 2
  BY DEF Fails
<1>1. \A c \in Children(tree, p) : Visited[c] = ValuesBelow(tree, c)
  BY VisitedIs, ChildIs DEF States
<1>2. {Visited[c] : c \in Children(tree, p)} = {ValuesBelow(tree, c) : c \in Children(tree, p)}
  BY <1>1
<1> QED
  BY <1>2, GroupsAre

-----------------------------------------------------------------------------
(* What XState makes of a state value that is complete.                    *)

LEMMA ResolveIs ==
  ASSUME IsTree(tree), Sound(tree), NEW value \in ValuesBelow(tree, Root)
  PROVE  Resolve(value) = value
<1>0. Root \in States /\ \A p \in States : p \in Path /\ IsPrefix(Root, p)
  BY RootIs DEF IsTree, States
<1>1. \A q \in States : Reaches(value, q) => IsIn(tree, value, Root, q)
  BY <1>0 DEF IsIn, States
<1>2. ASSUME NEW q \in States, Reaches(value, q), Type(tree, q) = "compound"
      PROVE  ActiveChildren(tree, value, q) = {Chosen(value, q)}
  BY <1>0, <1>1, <1>2, ValueIs DEF Chosen, States
<1>3. ASSUME NEW leaf \in value PROVE leaf \in Resolve(value)
  <2>1. leaf \in LeavesOf(tree, Root) /\ leaf \in Path
    BY <1>0, ValueReaches, LeafIs DEF States
  <2>2. ASSUME NEW c \in Ancestry(leaf) \ {Root}, Type(tree, Parent(c)) = "compound"
        PROVE  c = Chosen(value, Parent(c))
    <3>1. c \in Path /\ IsPrefix(c, leaf)
      BY <2>1, AncestryIs
    <3>2. c \in States /\ leaf \in States
      BY <1>0, <2>1, <3>1, LeafIs DEF IsTree, States
    <3>3. Parent(c) \in States /\ c \in Children(tree, Parent(c)) /\ IsPrefix(Parent(c), c)
      BY <2>2, <3>1, <3>2, ParentIsState, ParentIs DEF States
    <3>4. Reaches(value, c)
      BY <3>1 DEF Reaches
    <3>5. Reaches(value, Parent(c))
      BY <1>0, <3>2, <3>3, <3>4, ValueReaches DEF States
    <3> QED
      BY <1>2, <2>2, <3>3, <3>4, <3>5 DEF ActiveChildren
  <2> QED
    BY <2>1, <2>2 DEF Resolve
<1>4. ASSUME NEW leaf \in Resolve(value) PROVE leaf \in value
  <2>1. leaf \in LeavesOf(tree, Root) /\ leaf \in Path /\ leaf \in States
    BY <1>0, LeafIs DEF Resolve, States
  <2> DEFINE T == {Len(q) : q \in {r \in Ancestry(leaf) : ~ Reaches(value, r)}}
  <2>2. \A q \in Ancestry(leaf) : q \in Path /\ Len(q) \in Nat /\ IsPrefix(q, leaf) /\ q \in States
    BY <2>1, AncestryIs, LengthIs DEF IsTree, States
  <2>3. T = {}
    <3>1. SUFFICES ASSUME T # {} PROVE FALSE
      OBVIOUS
    <3>2. PICK n \in T : \A m \in T : n <= m
      <4>1. T \subseteq Nat
        BY <2>2
      <4> HIDE DEF T
      <4> QED
        BY <3>1, <4>1, Least
    <3>3. PICK c \in Ancestry(leaf) : ~ Reaches(value, c) /\ Len(c) = n
      BY <3>2
    <3>4. c # Root
      BY <1>0, <3>3, ValueReaches DEF States
    <3>5. /\ Parent(c) \in States /\ c \in Children(tree, Parent(c))
          /\ Parent(c) \in Path /\ Len(Parent(c)) = Len(c) - 1
          /\ IsPrefix(Parent(c), leaf)
      BY <2>1, <2>2, <3>3, <3>4, ParentIsState, ParentIs, PrefixOrder DEF States
    <3>6. Parent(c) \in Ancestry(leaf)
      BY <2>1, <3>5, AncestryIs
    <3>7. Reaches(value, Parent(c))
      <4>1. SUFFICES ASSUME ~ Reaches(value, Parent(c)) PROVE FALSE
        OBVIOUS
      <4>2. Len(Parent(c)) \in T
        BY <3>6, <4>1
      <4> QED
        BY <2>2, <3>2, <3>3, <3>5, <4>2
    <3>8. CASE Type(tree, Parent(c)) = "compound"
      <4>1. c = Chosen(value, Parent(c))
        BY <3>3, <3>4, <3>8 DEF Resolve
      <4>2. ActiveChildren(tree, value, Parent(c)) = {c}
        BY <1>2, <3>5, <3>7, <3>8, <4>1
      <4> QED
        BY <3>3, <4>2 DEF ActiveChildren
    <3>9. CASE Type(tree, Parent(c)) = "parallel"
      <4>1. ActiveChildren(tree, value, Parent(c)) = Children(tree, Parent(c))
        BY <1>0, <1>1, <3>5, <3>7, <3>9, ValueIs DEF States
      <4> QED
        BY <3>3, <3>5, <4>1 DEF ActiveChildren
    <3>10. Type(tree, Parent(c)) \in {"compound", "parallel"}
      BY <3>5, TypeIs DEF States
    <3> QED
      BY <3>8, <3>9, <3>10
  <2>4. leaf \in Ancestry(leaf)
    BY <2>1, PrefixOrder, AncestryIs
  <2>5. Reaches(value, leaf)
    BY <2>3, <2>4
  <2> QED
    BY <1>0, <1>1, <2>1, <2>5, ValueIs, LeafIs DEF States
<1> QED
  BY <1>3, <1>4

LEMMA MigrationStatesFollow ==
  ASSUME IsTree(tree)
  PROVE  MigrationStatesAreAll
<1> SUFFICES ASSUME Sound(tree), Supported
             PROVE  /\ ~Fails
                    /\ getAllStateValues = ValuesBelow(tree, Root)
                    /\ getMigrationStateValues =
                         {value \in ValuesBelow(tree, Root) : CanMigrate(value)}
  BY DEF MigrationStatesAreAll
<1>1. getAllStateValues = ValuesBelow(tree, Root)
  <2>1. Root \in DOMAIN tree /\ Type(tree, Root) = "compound"
    BY DEF IsTree, Supported
  <2>2. \A c \in Children(tree, Root) : Visited[c] = ValuesBelow(tree, c)
    BY <2>1, VisitedIs, ChildIs DEF States
  <2>3. {Visited[c] : c \in Children(tree, Root)} = {ValuesBelow(tree, c) : c \in Children(tree, Root)}
    BY <2>2
  <2> QED
    BY <2>1, <2>3, BelowCompound DEF getAllStateValues
<1>2. {Resolve(v) : v \in getAllStateValues} = ValuesBelow(tree, Root)
  BY <1>1, ResolveIs
<1> QED
  BY <1>1, <1>2, NeverFails DEF getMigrationStateValues

-----------------------------------------------------------------------------
(* What analysis.ts makes of the events.                                   *)

\* Descriptors are named by states, and a delay's is in the states' names.
IsHandled ==
  /\ DOMAIN handlers \subseteq States \X Descriptors
  /\ delays \subseteq States \X Delays

InboundOf(f, p) == IF p = Root THEN {} ELSE Names(p) \cup f[Parent(p)]
InboundEach(f) == [p \in States |-> InboundOf(f, p)]

\* What a state has is what those above it name, itself included, but not the root.
NamedAbove(p) == UNION {Names(q) : q \in Ancestry(p) \ {Root}}

LEMMA InboundIs ==
  ASSUME IsTree(tree)
  PROVE  \A p \in States : Inbound[p] = NamedAbove(p)
<1> DEFINE named == [p \in States |-> NamedAbove(p)]
<1>0. \A p \in States : p \in Path /\ Len(p) \in Nat
  BY LengthIs DEF IsTree, States
<1>1. \A p \in States \ {Root} : Parent(p) \in States /\ Len(Parent(p)) = Len(p) - 1
  BY <1>0, ParentIsState, ParentIs DEF States
<1>2. \A p \in States : NamedAbove(p) = InboundOf(named, p)
  <2>1. NamedAbove(Root) = {}
    <3>1. ASSUME NEW q \in Ancestry(Root) PROVE q = Root
      BY RootIs, AncestryIs, PrefixOrder
    <3> QED
      BY <3>1 DEF NamedAbove
  <2>2. ASSUME NEW p \in States, p # Root
        PROVE  NamedAbove(p) = Names(p) \cup named[Parent(p)]
    <3>1. Ancestry(p) = Ancestry(Parent(p)) \cup {p}
      <4>1. p \in Path /\ Parent(p) \in Path /\ IsPrefix(Parent(p), p)
        BY <1>0, <2>2, ParentIs
      <4>2. ASSUME NEW q \in Ancestry(p) PROVE q \in Ancestry(Parent(p)) \cup {p}
        BY <4>1, AncestryIs, AboveParent
      <4>3. ASSUME NEW q \in Ancestry(Parent(p)) \cup {p} PROVE q \in Ancestry(p)
        BY <4>1, AncestryIs, PrefixOrder
      <4> QED
        BY <4>2, <4>3
    <3>2. Ancestry(p) \ {Root} = (Ancestry(Parent(p)) \ {Root}) \cup {p}
      BY <2>2, <3>1
    <3>3. named[Parent(p)] = NamedAbove(Parent(p))
      BY <1>1, <2>2
    <3> QED
      BY <3>2, <3>3 DEF NamedAbove
  <2> HIDE DEF named
  <2> QED
    BY <2>1, <2>2 DEF InboundOf
<1>3. named = InboundEach(named)
  BY <1>2 DEF InboundEach
<1>4. Inbound = InboundEach(Inbound)
  <2>1. Inbound = CHOOSE f : f = InboundEach(f)
    BY DEF Inbound, InboundEach, InboundOf
  <2> HIDE DEF named
  <2> QED
    BY <1>3, <2>1, Zenon
<1>5. \A p \in States : Inbound[p] = InboundOf(Inbound, p) /\ named[p] = InboundOf(named, p)
  BY <1>3, <1>4 DEF InboundEach
<1> HIDE DEF named
<1> DEFINE Differ == {p \in States : Inbound[p] # named[p]}
           T == {Len(p) : p \in Differ}
<1>6. Differ = {}
  <2>1. SUFFICES ASSUME Differ # {} PROVE FALSE
    OBVIOUS
  <2>2. PICK n \in T : \A m \in T : n <= m
    <3>1. T \subseteq Nat /\ T # {}
      BY <1>0, <2>1
    <3> HIDE DEF T
    <3> QED
      BY <3>1, Least
  <2>3. PICK p \in Differ : Len(p) = n
    BY <2>2
  <2>4. p # Root
    BY <1>5, <2>3 DEF InboundOf
  <2>5. Parent(p) \in States /\ Len(Parent(p)) = Len(p) - 1 /\ Len(p) \in Nat
    BY <1>0, <1>1, <2>4
  <2>6. Inbound[Parent(p)] = named[Parent(p)]
    <3>1. SUFFICES ASSUME Parent(p) \in Differ PROVE FALSE
      BY <2>5
    <3>2. Len(Parent(p)) \in T
      BY <3>1
    <3> QED
      BY <2>2, <2>3, <2>5, <3>2
  <2> QED
    BY <1>5, <2>3, <2>4, <2>6 DEF InboundOf
<1> QED
  BY <1>6 DEF named

LEMMA EventsFollow ==
  ASSUME IsTree(tree), IsHandled
  PROVE  EventsAreListed
<1> SUFFICES ASSUME NEW p \in States \ {Root}
             PROVE  /\ \A e \in Signals : \A h \in Does(p, e) :
                         h[1] # Root /\ h[2] # Star => h[2] \in getStateToInboundEvents[p]
                    /\ \A d \in getStateToInboundEvents[p] :
                         /\ ~IsDelay(d)
                         /\ \E q \in Ancestry(p) \ {Root} : <<q, d>> \in DOMAIN handlers
  BY Zenon DEF EventsAreListed
<1>0. p \in Path /\ States \subseteq Path
  BY DEF IsTree, States
<1>1. \A d : d \in getStateToInboundEvents[p] <=>
               d \in NamedAbove(p) /\ d \in MachineEvents /\ d # Star /\ ~IsDelay(d)
  BY InboundIs DEF getStateToInboundEvents, signals
<1>2. ASSUME NEW e \in Signals, NEW h \in Does(p, e), h[1] # Root, h[2] # Star
      PROVE  h[2] \in getStateToInboundEvents[p]
  <2> DEFINE q == h[1]
             d == h[2]
  <2>1. h \in Takes(handlers, p, e) /\ handlers[h] # "nothing"
    BY <1>2 DEF Does, Nearest
  <2>2. h \in DOMAIN handlers /\ q \in Ancestry(p) \ {Root}
    BY <1>2, <2>1 DEF Takes
  <2>3. q \in States /\ d \in Descriptors /\ h = <<q, d>>
    BY <2>2 DEF IsHandled
  <2> HIDE DEF q, d
  <2>4. d \in NamedAbove(p)
    BY <2>2, <2>3 DEF NamedAbove, Names
  <2>5. d \in MachineEvents
    BY <2>1, <2>2, <2>3 DEF MachineEvents
  <2>6. ~IsDelay(d)
    <3>1. d \notin Path \X Delays
      BY <2>3, EventAssumption DEF Path, Descriptors
    <3> QED
      BY <1>0, <3>1 DEF IsDelay
  <2>7. d # Star
    BY <1>2 DEF d
  <2> QED
    BY <1>1, <2>4, <2>5, <2>6, <2>7 DEF d
<1>3. ASSUME NEW d \in getStateToInboundEvents[p]
      PROVE  /\ ~IsDelay(d)
             /\ \E q \in Ancestry(p) \ {Root} : <<q, d>> \in DOMAIN handlers
  <2>1. d \in NamedAbove(p) /\ ~IsDelay(d)
    BY <1>1
  <2>2. PICK q \in Ancestry(p) \ {Root} : d \in Names(q)
    BY <2>1 DEF NamedAbove
  <2>3. <<q, d>> \in DOMAIN handlers
    BY <2>1, <2>2 DEF Names, IsDelay, IsHandled
  <2> QED
    BY <2>1, <2>2, <2>3
<1> QED
  BY <1>2, <1>3

-----------------------------------------------------------------------------
(* What a migration carries over.                                          *)

LEMMA ChosenIs ==
  ASSUME IsTree(tree), NEW p \in States, Type(tree, p) = "compound", NEW value
  PROVE  /\ Chosen(value, p) \in Children(tree, p)
         /\ ActiveChildren(tree, value, p) # {} => Reaches(value, Chosen(value, p))
<1>1. CASE ActiveChildren(tree, value, p) # {}
  <2>1. Chosen(value, p) \in ActiveChildren(tree, value, p)
    BY <1>1 DEF Chosen
  <2> QED
    BY <2>1 DEF ActiveChildren
<1>2. CASE ActiveChildren(tree, value, p) = {}
  <2> DEFINE T == {Last(c) : c \in Children(tree, p)}
  <2>1. Children(tree, p) # {}
    BY TypeIs DEF States
  <2>2. ASSUME NEW c \in Children(tree, p) PROVE Last(c) \in Nat
    <3>1. c \in Path /\ Len(c) \in Nat /\ Len(c) > 0
      BY ChildIs, RootIs, LengthIs DEF States
    <3>2. Last(c) \in Keys
      BY <3>1, ElementOfSeq DEF Path, Last
    <3> QED
      BY <3>2, TreeAssumption
  <2>3. PICK n \in T : \A m \in T : n <= m
    <3>1. T \subseteq Nat /\ T # {}
      BY <2>1, <2>2
    <3> HIDE DEF T
    <3> QED
      BY <3>1, Least
  <2>4. \E c \in Children(tree, p) : \A d \in Children(tree, p) : Last(c) <= Last(d)
    BY <2>3
  <2>5. Initial(p) \in Children(tree, p)
    BY <2>4, Zenon DEF Initial
  <2> QED
    BY <1>2, <2>5 DEF Chosen
<1> QED
  BY <1>1, <1>2

\* A state is entered with a state value if each state on the way to it is.
Enters(value, p) ==
  \A c \in Ancestry(p) \ {Root} :
    Type(tree, Parent(c)) = "compound" => c = Chosen(value, Parent(c))

\* What is entered is in the state value that results.
LEMMA EnteredIsActive ==
  ASSUME IsTree(tree), Sound(tree), NEW value, NEW p \in States, Enters(value, p)
  PROVE  \E leaf \in Resolve(value) : leaf \in Path /\ IsPrefix(p, leaf)
<1> DEFINE S == {q \in States : IsPrefix(p, q) /\ Enters(value, q)}
           T == {Len(q) : q \in S}
<1>0. \A q \in States : q \in Path /\ Len(q) \in Nat /\ Len(q) <= MaxLevel
  BY LengthIs DEF IsTree, States
<1>1. p \in S
  BY <1>0, PrefixOrder
<1>2. PICK n \in T : \A m \in T : m <= n
  <2>1. T \subseteq Nat /\ \A m \in T : m <= MaxLevel
    BY <1>0
  <2>2. T # {}
    BY <1>1
  <2>3. MaxLevel \in Nat
    BY TreeAssumption
  <2> HIDE DEF T
  <2> QED
    BY <2>1, <2>2, <2>3, Greatest
<1>3. PICK q \in S : Len(q) = n
  BY <1>2
<1>4. ASSUME NEW c \in Children(tree, q),
             Type(tree, q) = "compound" => c = Chosen(value, q)
      PROVE  FALSE
  <2>1. c \in States /\ c \in Path /\ c # Root /\ Parent(c) = q /\ IsPrefix(q, c) /\ Len(c) = Len(q) + 1
    BY <1>3, ChildIs DEF States
  <2>2. ASSUME NEW r \in Ancestry(c), r # c PROVE r \in Ancestry(q)
    <3>1. r \in Path /\ IsPrefix(r, c)
      BY <2>1, AncestryIs
    <3> QED
      BY <1>0, <1>3, <2>1, <2>2, <3>1, AboveParent, AncestryIs
  <2>3. Enters(value, c)
    BY <1>3, <1>4, <2>1, <2>2 DEF Enters
  <2>4. c \in S
    BY <1>0, <1>3, <2>1, <2>3, PrefixOrder
  <2> QED
    BY <1>0, <1>2, <1>3, <2>1, <2>4
<1>5. Type(tree, q) # "compound"
  BY <1>3, <1>4, ChosenIs DEF States
<1>6. Type(tree, q) # "parallel"
  <2>1. SUFFICES ASSUME Type(tree, q) = "parallel" PROVE FALSE
    OBVIOUS
  <2>2. PICK c \in Children(tree, q) : TRUE
    BY <1>3, <2>1, TypeIs DEF States, Sound
  <2> QED
    BY <1>4, <2>1, <2>2
<1>7. q \in LeavesOf(tree, Root)
  BY <1>0, <1>3, <1>5, <1>6, RootIs DEF LeavesOf, States
<1>8. q \in Resolve(value)
  BY <1>3, <1>7 DEF Resolve, Enters
<1> QED
  BY <1>0, <1>3, <1>8

\* The migration function leaves each state of version a in a state of version b.
LEMMA MapIs ==
  ASSUME IsTree(tree), IsTree(a.tree), getBreakingChanges = {}, NEW p \in DOMAIN a.tree
  PROVE  /\ p \in Path /\ Map(p) \in Path /\ Map(p) \in States
         /\ IsPrefix(Map(p), p)
         /\ Map(p) \in {p, Parent(p)}
         /\ p \in States => Map(p) = p
<1>1. p \in Path /\ States \subseteq Path /\ Root \in States
  BY DEF IsTree, States
<1>2. p \in States => Map(p) = p
  BY DEF Map
<1>3. p \notin States => Map(p) \in States
  <2>1. SUFFICES ASSUME p \notin States, Map(p) \notin States PROVE FALSE
    OBVIOUS
  <2>2. p \in compare.missingStates /\ Map(p) \notin stateIds(b)
    BY <2>1 DEF compare, stateIds, b, States
  <2>3. <<"missing_state", p>> \in getBreakingChanges
    BY <2>2 DEF getBreakingChanges
  <2> QED
    BY <2>3
<1>4. Map(p) \in {p, Parent(p)}
  BY DEF Map
<1>5. IsPrefix(p, p)
  BY <1>1, PrefixOrder
<1>6. p # Root => IsPrefix(Parent(p), p)
  BY <1>1, ParentIs
<1> QED
  BY <1>1, <1>2, <1>3, <1>4, <1>5, <1>6

\* A state value of version a enters, mapped, the states it is mapped to.
LEMMA MappedEnters ==
  ASSUME IsTree(tree), Sound(tree), IsTree(a.tree), Sound(a.tree), RegionsStay,
         getBreakingChanges = {},
         NEW value \in ValuesBelow(a.tree, Root), NEW leaf \in value
  PROVE  Enters({Map(p) : p \in value}, Map(leaf))
<1> DEFINE mapped == {Map(p) : p \in value}
<1>0. Root \in DOMAIN a.tree /\ \A p \in value : p \in DOMAIN a.tree
  BY ValueReaches, LeafIs DEF IsTree
<1>1. \A p \in value : /\ p \in Path /\ Map(p) \in Path /\ Map(p) \in States
                       /\ IsPrefix(Map(p), p)
  BY <1>0, MapIs
<1> SUFFICES ASSUME NEW c \in Ancestry(Map(leaf)) \ {Root}, Type(tree, Parent(c)) = "compound"
             PROVE  c = Chosen(mapped, Parent(c))
  BY DEF Enters
<1> DEFINE q == Parent(c)
           d == Chosen(mapped, q)
<1>2. c \in Path /\ IsPrefix(c, Map(leaf))
  BY <1>1, AncestryIs
<1>3. c \in States /\ q \in States /\ c \in Children(tree, q)
  <2>1. c \in States
    BY <1>1, <1>2 DEF IsTree, States
  <2> QED
    BY <2>1, ParentIsState DEF States
<1>4. Reaches(mapped, c)
  BY <1>2 DEF Reaches
<1>5. d \in Children(tree, q) /\ Reaches(mapped, d)
  <2>1. ActiveChildren(tree, mapped, q) # {}
    BY <1>3, <1>4 DEF ActiveChildren
  <2> HIDE DEF mapped, q
  <2> QED
    BY <1>3, <2>1, ChosenIs DEF q
<1> HIDE DEF d
<1>6. PICK other \in value : IsPrefix(d, Map(other))
  BY <1>5 DEF Reaches
<1>7. d \in Path /\ d # Root /\ Parent(d) = q
  BY <1>3, <1>5, ChildIs DEF States
<1>8. IsPrefix(c, leaf) /\ IsPrefix(d, other)
  BY <1>1, <1>2, <1>6, <1>7, PrefixOrder
<1>9. c \in DOMAIN a.tree /\ d \in DOMAIN a.tree
  BY <1>0, <1>2, <1>7, <1>8 DEF IsTree
<1>10. /\ q \in DOMAIN a.tree
       /\ c \in Children(a.tree, q) /\ d \in Children(a.tree, q)
  BY <1>7, <1>9, ParentIsState
<1>11. IsPrefix(Root, q) /\ Reaches(value, c) /\ Reaches(value, d)
  BY <1>8, <1>10, RootIs DEF Reaches, IsTree
<1>12. c # d => Type(a.tree, q) = "parallel"
  <2> HIDE DEF q
  <2> QED
    BY <1>0, <1>10, <1>11, TwoActive
<1>13. Type(a.tree, q) # "parallel"
  BY <1>3, <1>10 DEF RegionsStay
<1> QED
  BY <1>12, <1>13 DEF d

LEMMA CarriesOverFollows ==
  ASSUME IsTree(tree), IsHandled, Sound(tree), IsTree(a.tree), Sound(a.tree), RegionsStay,
         getBreakingChanges = {},
         NEW value \in ValuesBelow(a.tree, Root)
  PROVE  CarriesOver(value)
<1> DEFINE mapped == {Map(p) : p \in value}
           next == Active(Resolve(mapped))
<1>0. Root \in DOMAIN a.tree /\ \A p \in value : p \in DOMAIN a.tree
  BY ValueReaches, LeafIs DEF IsTree
<1>1. ASSUME NEW p \in value, NEW q \in Path, IsPrefix(q, Map(p))
      PROVE  q \in next
  <2>1. Map(p) \in Path /\ Map(p) \in States
    BY <1>0, MapIs
  <2>2. Enters(mapped, Map(p))
    BY MappedEnters
  <2> HIDE DEF mapped
  <2>3. PICK leaf \in Resolve(mapped) : leaf \in Path /\ IsPrefix(Map(p), leaf)
    BY <2>1, <2>2, EnteredIsActive
  <2>4. q \in Ancestry(leaf)
    BY <1>1, <2>1, <2>3, PrefixOrder, AncestryIs
  <2> QED
    BY <2>4 DEF Active
<1>2. mapped \subseteq next
  <2>1. ASSUME NEW p \in value PROVE Map(p) \in next
    <3>1. Map(p) \in Path /\ IsPrefix(Map(p), Map(p))
      BY <1>0, MapIs, PrefixOrder
    <3> HIDE DEF next
    <3> QED
      BY <1>1, <3>1
  <2> QED
    BY <2>1
<1>3. ASSUME NEW d \in a.delays, d[1] \in Active(value)
      PROVE  d \in delays /\ d[1] \in next
  <2>1. d \in delays
    <3>1. SUFFICES ASSUME d \notin delays PROVE FALSE
      OBVIOUS
    <3>2. d \in DelayReferences(a) \ DelayReferences(b)
      BY <3>1 DEF DelayReferences, b
    <3>3. <<"missing_delay", d>> \in getBreakingChanges
      BY <3>2 DEF getBreakingChanges
    <3> QED
      BY <3>3
  <2>2. d[1] \in States
    BY <2>1 DEF IsHandled
  <2>3. PICK leaf \in value : d[1] \in Ancestry(leaf)
    BY <1>3 DEF Active
  <2>4. leaf \in Path /\ d[1] \in Path /\ IsPrefix(d[1], leaf)
    BY <1>0, <2>3, MapIs, AncestryIs
  <2>5. IsPrefix(d[1], Map(leaf))
    <3>1. CASE leaf \in States
      <4>1. Map(leaf) = leaf
        BY <1>0, <3>1, MapIs
      <4> QED
        BY <2>4, <4>1
    <3>2. CASE leaf \notin States
      <4>1. Map(leaf) = Parent(leaf)
        BY <1>0, <3>2, MapIs
      <4>2. d[1] # leaf
        BY <2>2, <3>2
      <4> QED
        BY <2>4, <4>1, <4>2, AboveParent
    <3> QED
      BY <3>1, <3>2
  <2> HIDE DEF next
  <2> QED
    BY <1>1, <2>1, <2>4, <2>5
<1> QED
  BY <1>2, <1>3 DEF CarriesOver

-----------------------------------------------------------------------------
(* Every machine and each of its versions is a tree.                       *)

MachineInv ==
  /\ IsTree(tree)
  /\ IsHandled
  /\ Released => IsTree(a.tree)

LEMMA TreeGrows ==
  ASSUME NEW t, IsTree(t), NEW p \in DOMAIN t, t[p] # "final", Len(p) < MaxLevel,
         NEW k \in Keys, Append(p, k) \notin DOMAIN t, NEW type \in Kinds
  PROVE  IsTree(With(t, Append(p, k), type))
<1> DEFINE c == Append(p, k)
           u == With(t, c, type)
<1>1. c \in Path /\ c # Root /\ Parent(c) = p /\ Len(c) = Len(p) + 1 /\ p \in Path /\ Len(p) \in Nat
  BY AppendIs, LengthIs DEF IsTree
<1> HIDE DEF c
<1>2. c \notin DOMAIN t
  BY DEF c
<1>3. /\ DOMAIN u = DOMAIN t \cup {c}
      /\ u[c] = type
      /\ \A q \in DOMAIN t : u[q] = t[q]
      /\ u \in [DOMAIN u -> Kinds]
  BY <1>2 DEF With, IsTree
<1> HIDE DEF u
<1>4. DOMAIN u \subseteq Path /\ Root \in DOMAIN u
  BY <1>1, <1>3 DEF IsTree
<1>5. IsFiniteSet(DOMAIN u)
  BY <1>3, FS_AddElement DEF IsTree
<1>6. \A q \in DOMAIN u : Len(q) <= MaxLevel
  <2>1. Len(c) <= MaxLevel
    BY <1>1, TreeAssumption
  <2> QED
    BY <1>3, <2>1 DEF IsTree
<1>7. ASSUME NEW q \in DOMAIN u, NEW r \in Path, IsPrefix(r, q) PROVE r \in DOMAIN u
  <2>1. CASE q \in DOMAIN t
    BY <1>3, <1>7, <2>1 DEF IsTree
  <2>2. CASE q = c
    <3>1. r = c \/ IsPrefix(r, p)
      BY <1>1, <1>7, <2>2, AboveParent
    <3> QED
      BY <1>3, <3>1 DEF IsTree
  <2> QED
    BY <1>3, <2>1, <2>2
<1>8. ASSUME NEW q \in DOMAIN u, q # Root PROVE u[Parent(q)] # "final"
  <2>1. CASE q \in DOMAIN t
    <3>1. Parent(q) \in DOMAIN t
      BY <1>8, <2>1, ParentIsState
    <3> QED
      BY <1>3, <1>8, <2>1, <3>1 DEF IsTree
  <2>2. CASE q = c
    BY <1>1, <1>3, <2>2
  <2> QED
    BY <1>3, <2>1, <2>2
<1> QED
  BY <1>3, <1>4, <1>5, <1>6, <1>7, <1>8 DEF IsTree, u, c

LEMMA TreeShrinks ==
  ASSUME NEW t, IsTree(t), NEW p \in DOMAIN t, p # Root
  PROVE  IsTree(Restrict(t, {q \in DOMAIN t : ~IsPrefix(p, q)}))
<1> DEFINE u == Restrict(t, {q \in DOMAIN t : ~IsPrefix(p, q)})
<1>1. /\ DOMAIN u = {q \in DOMAIN t : ~IsPrefix(p, q)}
      /\ \A q \in DOMAIN u : u[q] = t[q]
      /\ u \in [DOMAIN u -> Kinds]
  BY DEF Restrict, IsTree
<1> HIDE DEF u
<1>2. p \in Path /\ DOMAIN u \subseteq Path /\ \A q \in DOMAIN u : Len(q) <= MaxLevel
  BY <1>1 DEF IsTree
<1>3. Root \in DOMAIN u
  <2>1. Len(p) > 0 /\ Len(Root) = 0 /\ Root \in Path /\ Len(p) \in Nat
    BY <1>2, RootIs, LengthIs
  <2>2. ~IsPrefix(p, Root)
    BY <1>2, <2>1, PrefixOrder
  <2> QED
    BY <1>1, <2>2 DEF IsTree
<1>4. IsFiniteSet(DOMAIN u)
  BY <1>1, FS_Subset DEF IsTree
<1>5. ASSUME NEW q \in DOMAIN u, NEW r \in Path, IsPrefix(r, q) PROVE r \in DOMAIN u
  <2>1. q \in DOMAIN t /\ ~IsPrefix(p, q) /\ r \in DOMAIN t /\ q \in Path
    BY <1>1, <1>5 DEF IsTree
  <2>2. ~IsPrefix(p, r)
    BY <1>2, <1>5, <2>1, PrefixOrder
  <2> QED
    BY <1>1, <2>1, <2>2
<1>6. ASSUME NEW q \in DOMAIN u, q # Root PROVE u[Parent(q)] # "final"
  <2>1. Parent(q) \in Path /\ IsPrefix(Parent(q), q)
    BY <1>2, <1>6, ParentIs
  <2>2. Parent(q) \in DOMAIN u
    BY <1>5, <2>1
  <2> QED
    BY <1>1, <1>6, <2>2 DEF IsTree
<1> QED
  BY <1>1, <1>2, <1>3, <1>4, <1>5, <1>6 DEF IsTree, u

LEMMA TreeRetyped ==
  ASSUME NEW t, IsTree(t), NEW p \in DOMAIN t, NEW type \in {"plain", "parallel"}
  PROVE  IsTree([t EXCEPT ![p] = type])
BY DEF IsTree, Kinds

\* The actions, for the tree and for what it handles.
LEMMA AddStateKeeps ==
  ASSUME MachineInv, NEW p \in States, NEW type \in Kinds, AddState(p, type)
  PROVE  IsTree(tree)' /\ IsHandled'
<1>1. IsTree(tree')
  BY TreeGrows DEF AddState, MachineInv, States
<1>2. States \subseteq States'
  BY DEF AddState, With, States
<1>3. handlers' = handlers /\ delays' = delays
  BY DEF AddState
<1> QED
  BY <1>1, <1>2, <1>3 DEF MachineInv, IsHandled

LEMMA MovesKeep ==
  ASSUME MachineInv, tree' = tree,
         DOMAIN handlers' \subseteq States \X Descriptors,
         delays' \subseteq States \X Delays
  PROVE  IsTree(tree)' /\ IsHandled'
<1>1. States' = States
  BY DEF States
<1> QED
  BY <1>1 DEF MachineInv, IsHandled

LEMMA AddHandlerKeeps ==
  ASSUME MachineInv, NEW p \in States, NEW e \in Descriptors, NEW effect,
         AddHandler(p, e, effect)
  PROVE  IsTree(tree)' /\ IsHandled'
<1>1. DOMAIN handlers' = DOMAIN handlers \cup {<<p, e>>}
  BY DEF AddHandler, With
<1> QED
  BY <1>1, MovesKeep DEF AddHandler, MachineInv, IsHandled

LEMMA AddDelayKeeps ==
  ASSUME MachineInv, NEW p \in States, NEW d \in Delays, AddDelay(p, d)
  PROVE  IsTree(tree)' /\ IsHandled'
BY MovesKeep DEF AddDelay, MachineInv, IsHandled

LEMMA RemoveStateKeeps ==
  ASSUME MachineInv, NEW p \in States, RemoveState(p)
  PROVE  IsTree(tree)' /\ IsHandled'
<1>1. IsTree(tree')
  BY TreeShrinks DEF RemoveState, MachineInv, States
<1>2. States' = {q \in States : ~IsPrefix(p, q)}
  BY DEF RemoveState, Restrict, States
<1>3. DOMAIN handlers' = {h \in DOMAIN handlers : ~IsPrefix(p, h[1])}
  BY DEF RemoveState, Restrict
<1>4. delays' = {d \in delays : ~IsPrefix(p, d[1])}
  BY DEF RemoveState
<1> QED
  BY <1>1, <1>2, <1>3, <1>4 DEF MachineInv, IsHandled

LEMMA RetypeKeeps ==
  ASSUME MachineInv, NEW p \in States, NEW type \in {"plain", "parallel"}, Retype(p, type)
  PROVE  IsTree(tree)' /\ IsHandled'
<1>1. IsTree(tree')
  BY TreeRetyped DEF Retype, MachineInv, States
<1>2. States' = States
  BY DEF Retype, States
<1> QED
  BY <1>1, <1>2 DEF MachineInv, IsHandled, Retype

LEMMA RemoveMoveKeeps ==
  ASSUME MachineInv, (\E h \in DOMAIN handlers : RemoveHandler(h))
                     \/ (\E d \in delays : RemoveDelay(d))
  PROVE  IsTree(tree)' /\ IsHandled'
<1>1. ASSUME NEW h \in DOMAIN handlers, RemoveHandler(h)
      PROVE  IsTree(tree)' /\ IsHandled'
  <2>1. DOMAIN handlers' = DOMAIN handlers \ {h}
    BY <1>1 DEF RemoveHandler, Restrict
  <2> QED
    BY <1>1, <2>1, MovesKeep DEF RemoveHandler, MachineInv, IsHandled
<1>2. ASSUME NEW d \in delays, RemoveDelay(d)
      PROVE  IsTree(tree)' /\ IsHandled'
  BY <1>2, MovesKeep DEF RemoveDelay, MachineInv, IsHandled
<1> QED
  BY <1>1, <1>2

LEMMA MachineInvInit == AnalysisInit => MachineInv
<1> SUFFICES ASSUME AnalysisInit PROVE MachineInv
  OBVIOUS
<1>1. tree \in [{Root} -> {"plain", "parallel"}] /\ handlers = <<>> /\ delays = {}
  BY DEF AnalysisInit, MachineInit
<1>2. DOMAIN tree = {Root} /\ tree \in [DOMAIN tree -> Kinds]
  BY <1>1 DEF Kinds
<1>3. Root \in Path /\ Len(Root) = 0 /\ MaxLevel \in Nat
  BY RootIs, TreeAssumption
<1>4. ASSUME NEW q \in Path, IsPrefix(q, Root) PROVE q = Root
  BY <1>3, <1>4, RootIs, PrefixOrder
<1>5. IsFiniteSet(DOMAIN tree)
  BY <1>2, FS_Singleton
<1>6. IsTree(tree)
  BY <1>2, <1>3, <1>4, <1>5 DEF IsTree
<1>7. IsHandled
  BY <1>1 DEF IsHandled
<1>8. ~Released
  BY DEF AnalysisInit, Released
<1> QED
  BY <1>6, <1>7, <1>8 DEF MachineInv

LEMMA MachineInvNext ==
  MachineInv /\ [AnalysisNext]_<<machine, a, toParent, edits>> => MachineInv'
<1> SUFFICES ASSUME MachineInv, [AnalysisNext]_<<machine, a, toParent, edits>>
             PROVE  MachineInv'
  OBVIOUS
<1>1. CASE Grow
  <2>1. ~Released' /\ a' = a
    BY <1>1 DEF Grow, Released
  <2>2. PICK p \in States :
          \/ \E type \in {"plain", "parallel", "final"} : AddState(p, type)
          \/ \E mark \in {"no-migrate", "interruptible"} : AddMark(p, mark)
          \/ \E e \in Descriptors, effect \in Effects : AddHandler(p, e, effect)
          \/ \E d \in Delays : AddDelay(p, d)
    BY <1>1 DEF Grow, MachineNext
  <2>3. CASE \E type \in {"plain", "parallel", "final"} : AddState(p, type)
    BY <2>1, <2>3, AddStateKeeps DEF MachineInv, Kinds
  <2>4. CASE \E mark \in {"no-migrate", "interruptible"} : AddMark(p, mark)
    BY <2>1, <2>4, MovesKeep DEF MachineInv, AddMark, IsHandled
  <2>5. CASE \E e \in Descriptors, effect \in Effects : AddHandler(p, e, effect)
    BY <2>1, <2>5, AddHandlerKeeps DEF MachineInv
  <2>6. CASE \E d \in Delays : AddDelay(p, d)
    BY <2>1, <2>6, AddDelayKeeps DEF MachineInv
  <2> QED
    BY <2>2, <2>3, <2>4, <2>5, <2>6
<1>2. CASE Release
  <2>1. a'.tree = tree /\ UNCHANGED machine
    BY <1>2 DEF Release, b
  <2> QED
    BY <2>1, MovesKeep DEF MachineInv, machine, IsHandled
<1>3. CASE Edit
  <2>1. a' = a /\ IsTree(a'.tree)
    BY <1>3 DEF Edit, MachineInv
  <2>2. IsTree(tree)' /\ IsHandled'
    <3>1. ASSUME NEW p \in States, NEW type \in {"plain", "parallel"},
                 AddState(p, type) \/ Retype(p, type)
          PROVE  IsTree(tree)' /\ IsHandled'
      BY <3>1, AddStateKeeps, RetypeKeeps DEF Kinds
    <3>2. ASSUME NEW p \in States, RemoveState(p)
          PROVE  IsTree(tree)' /\ IsHandled'
      BY <3>2, RemoveStateKeeps
    <3>3. ASSUME NEW p \in States, NEW e \in Descriptors, NEW effect, AddHandler(p, e, effect)
          PROVE  IsTree(tree)' /\ IsHandled'
      BY <3>3, AddHandlerKeeps
    <3>4. ASSUME NEW p \in States, NEW d \in Delays, AddDelay(p, d)
          PROVE  IsTree(tree)' /\ IsHandled'
      BY <3>4, AddDelayKeeps
    <3> QED
      BY <1>3, <3>1, <3>2, <3>3, <3>4, RemoveMoveKeeps DEF Edit
  <2> QED
    BY <2>1, <2>2 DEF MachineInv
<1>4. CASE UNCHANGED <<machine, a, toParent, edits>>
  BY <1>4, MovesKeep DEF MachineInv, machine, IsHandled, Released
<1> QED
  BY <1>1, <1>2, <1>3, <1>4 DEF AnalysisNext

\* However a machine is put together and edited, and however large it gets, its
\* states form a tree, a final one has none below it, and what is handled is handled
\* in a state that is there: what the reading of it (visit.ts, analysis.ts) rests on.
THEOREM MachinesAreTrees == AnalysisSpec => []MachineInv
<1>1. AnalysisInit => MachineInv
  BY MachineInvInit
<1>2. MachineInv /\ [AnalysisNext]_<<machine, a, toParent, edits>> => MachineInv'
  BY MachineInvNext
<1> QED
  BY <1>1, <1>2, PTL DEF AnalysisSpec

\* getMigrationStateValues: of a machine as the comments say it must be, however deep
\* and wide it is, it lists each state value the machine can be in and be migrated in,
\* and no other, so that the types make a migration function exhaustive; and visitor
\* does not throw.
THEOREM MigrationStatesExhaustive == AnalysisSpec => []MigrationStatesAreAll
<1>1. MachineInv => MigrationStatesAreAll
  BY MigrationStatesFollow DEF MachineInv
<1> QED
  BY <1>1, MachinesAreTrees, PTL

\* getStateToInboundEvents: for each state it lists every event that does something
\* there by a transition below the machine's own, by the descriptor that takes it, but
\* for "*", which no list shows; and it lists none that no state above names.
THEOREM InboundEventsComplete == AnalysisSpec => []EventsAreListed
<1>1. MachineInv => EventsAreListed
  BY EventsFollow DEF MachineInv
<1> QED
  BY <1>1, MachinesAreTrees, PTL

\* getBreakingChanges: whatever a machine has become by edits, if none is reported
\* and parallel states stayed so, each state value of the released version is entered
\* in the new one, with its timers.
THEOREM ReportedOrCarried == AnalysisSpec => []NothingBreaksUnseen
<1>1. MachineInv => NothingBreaksUnseen
  BY CarriesOverFollows DEF MachineInv, NothingBreaksUnseen, Compared
<1> QED
  BY <1>1, MachinesAreTrees, PTL

-----------------------------------------------------------------------------
(* Timers (AfterTimer), for every choice of versions, delays, migration    *)
(* functions and bounds.                                                   *)

USE VersionsAssumption, DelayAssumption, BoundAssumption

\* What the invariants rest on: no entry, nor the one a broken list restores, is
\* ahead of time, and between two runs nothing is armed and no list is run.
EntryNotAhead     == entry # NoEntry => entry.start <= now
ListNotAhead      == list.entry # NoEntry => list.entry.start <= now
DownMeansDisarmed == ~up => pending = None /\ orphans = {} /\ list = NoList

IInv == /\ TypeOK
        /\ EntryNotAhead
        /\ ListNotAhead
        /\ DownMeansDisarmed
        /\ EntryIsTheTimer
        /\ WaitIsBounded

-----------------------------------------------------------------------------
(* The arithmetic of a restore.                                            *)

\* A restored timer is armed for at least one tick, and never for longer than
\* the delay of the current code.
LEMMA RestoredDelayBounds ==
  ASSUME NEW e \in Entry, NEW d \in Nat \ {0}, NEW t \in Nat, e.start <= t
  PROVE  /\ RestoredDelay(e, d, t) \in Nat \ {0}
         /\ RestoredDelay(e, d, t) <= d
<1>1. e.start \in Nat /\ e.delay \in Nat
  BY DEF Entry
<1>2. CASE d = e.delay
  BY <1>1, <1>2 DEF RestoredDelay, AtLeastOne
<1>3. CASE d # e.delay
  BY <1>1, <1>3 DEF RestoredDelay, AtLeastOne
<1> QED
  BY <1>2, <1>3

\* The value that stands for the missing entry is not an entry.
LEMMA NoEntryIsNone == NoEntry \notin Entry
  BY DEF NoEntry, Entry, None

\* A list that broke off, and that none did, are of the list's type.
LEMMA ListsAreTyped ==
  /\ NoList \in List /\ NoList.entry = NoEntry
  /\ \A e \in Entry \cup {NoEntry}, here \in BOOLEAN :
       [entry |-> e, in |-> here] \in List /\ [entry |-> e, in |-> here].entry = e
  BY DEF NoList, List

\* Every version's delay is a positive number.
LEMMA DelayPositive == \A v \in Versions : Delay[v] \in Nat \ {0}
  OBVIOUS

-----------------------------------------------------------------------------
(* What arming a timer does to the invariant.                              *)

\* delaySend of a delay between one tick and the delay of the current version
\* leaves entry and timer in agreement and within bounds.
LEMMA DelaySendKeeps ==
  ASSUME TypeOK, NEW d \in Nat \ {0}, d <= Delay[version], DelaySend(d)
  PROVE  /\ entry' \in Entry
         /\ pending' \in Nat
         /\ orphans' \in SUBSET Nat
         /\ entry'.start = now
         /\ entry'.start + entry'.delay = pending'
         /\ \A v \in Versions : (\A w \in Versions : Delay[w] <= Delay[v])
                                  => pending' <= now + Delay[v]
<1>1. now \in Nat /\ version \in Versions /\ pending \in Nat \cup {None}
  BY DEF TypeOK
<1>2. pending' = now + d /\ entry' = [start |-> now, delay |-> d]
  BY DEF DelaySend
<1>3. orphans' \in SUBSET Nat
  BY <1>1 DEF DelaySend, TypeOK
<1>4. ASSUME NEW v \in Versions, \A w \in Versions : Delay[w] <= Delay[v]
      PROVE  pending' <= now + Delay[v]
  <2>1. Delay[version] <= Delay[v]
    BY <1>1, <1>4
  <2> QED
    BY <1>1, <1>2, <2>1, DelayPositive
<1> QED
  BY <1>1, <1>2, <1>3, <1>4 DEF Entry

-----------------------------------------------------------------------------
(* Initial states and steps.                                               *)

\* At first nothing is armed and nothing recorded.
LEMMA InitIInv == Init => IInv
<1> SUFFICES ASSUME Init PROVE IInv
  OBVIOUS
<1>1. FirstVersion \in Versions /\ 0 \in 0..MaxTime /\ 0 \in 0..MaxMigrations
  OBVIOUS
<1>2. TypeOK
  BY <1>1 DEF Init, TypeOK, List, NoList
<1>3. /\ EntryNotAhead /\ ListNotAhead /\ DownMeansDisarmed /\ EntryIsTheTimer
      /\ WaitIsBounded
  BY DEF Init, EntryNotAhead, ListNotAhead, NoList, DownMeansDisarmed,
         EntryIsTheTimer, WaitIsBounded
<1> QED
  BY <1>2, <1>3 DEF IInv

\* Entering the state arms the timer and records it together.
LEMMA EnterIInv == IInv /\ Enter => IInv'
<1> SUFFICES ASSUME IInv, Enter PROVE IInv'
  OBVIOUS
<1> USE DEF IInv
<1>1. /\ UNCHANGED <<now, version, up, list, migrations, resumed, kept, dropped>>
      /\ inState' = TRUE /\ since' = now /\ fired' = 0 /\ skipped' = FALSE /\ up
  BY DEF Enter
<1>2. now \in Nat /\ version \in Versions
  BY DEF TypeOK
<1>3. CASE version \in Has
  <2>1. DelaySend(Delay[version])
    BY <1>3 DEF Enter
  <2>2. /\ Delay[version] \in Nat \ {0}
        /\ Delay[version] <= Delay[version]
    BY <1>2, DelayPositive
  <2>3. /\ entry' \in Entry /\ pending' \in Nat /\ orphans' \in SUBSET Nat
        /\ entry'.start = now /\ entry'.start + entry'.delay = pending'
        /\ \A v \in Versions : (\A w \in Versions : Delay[w] <= Delay[v])
                                 => pending' <= now + Delay[v]
    BY <2>1, <2>2, DelaySendKeeps
  <2>4. TypeOK'
    BY <1>1, <1>2, <2>3 DEF TypeOK
  <2>5. EntryNotAhead' /\ ListNotAhead' /\ EntryIsTheTimer'
    BY <1>1, <1>2, <2>3 DEF EntryNotAhead, ListNotAhead, EntryIsTheTimer
  <2>6. DownMeansDisarmed' /\ WaitIsBounded'
    BY <1>1, <1>2, <2>3 DEF DownMeansDisarmed, WaitIsBounded
  <2> QED
    BY <2>4, <2>5, <2>6
<1>4. CASE version \notin Has
  <2>1. UNCHANGED <<entry, pending, orphans>>
    BY <1>4 DEF Enter
  <2> QED
    BY <1>1, <1>2, <2>1
    DEF TypeOK, EntryNotAhead, ListNotAhead, DownMeansDisarmed, EntryIsTheTimer,
        WaitIsBounded
<1> QED
  BY <1>3, <1>4

\* Leaving it disarms the timer and deletes the record together, or neither.
LEMMA ExitIInv == IInv /\ Exit => IInv'
<1> SUFFICES ASSUME IInv, Exit PROVE IInv'
  OBVIOUS
<1>1. /\ UNCHANGED <<now, version, up, list, migrations, since, resumed, fired,
                     skipped, kept, dropped>>
      /\ up /\ inState' = FALSE /\ orphans' = orphans
      /\ \/ pending' = None /\ entry' = NoEntry
         \/ pending' = pending /\ entry' = entry
  BY DEF Exit, Cancel
<1>2. TypeOK'
  BY <1>1 DEF IInv, TypeOK
<1>3. /\ EntryNotAhead' /\ ListNotAhead' /\ DownMeansDisarmed' /\ EntryIsTheTimer'
      /\ WaitIsBounded'
  BY <1>1 DEF IInv, EntryNotAhead, ListNotAhead, DownMeansDisarmed, EntryIsTheTimer,
              WaitIsBounded
<1> QED
  BY <1>2, <1>3 DEF IInv

\* A timer that fired is no longer armed, whichever of them it was.
LEMMA FireIInv == IInv /\ Fire => IInv'
<1> SUFFICES ASSUME IInv, Fire PROVE IInv'
  OBVIOUS
<1> USE DEF IInv
<1>1. /\ UNCHANGED <<now, version, up, list, migrations, since, resumed, skipped,
                     kept, dropped>>
      /\ up
      /\ inState' = (inState /\ ~Leaving)
      /\ fired' = fired \/ fired' = fired + 1
  BY DEF Fire
<1>2. /\ orphans' \in SUBSET Nat
      /\ \/ pending' = None /\ (entry' = NoEntry \/ entry' = entry)
         \/ pending' = pending /\ entry' = entry
  BY DEF Fire, Cancel, TypeOK
<1>3. TypeOK'
  BY <1>1, <1>2 DEF TypeOK
<1>4. EntryNotAhead' /\ ListNotAhead'
  BY <1>1, <1>2 DEF EntryNotAhead, ListNotAhead
<1>5. DownMeansDisarmed' /\ EntryIsTheTimer' /\ WaitIsBounded'
  BY <1>1, <1>2 DEF DownMeansDisarmed, EntryIsTheTimer, WaitIsBounded
<1> QED
  BY <1>3, <1>4, <1>5

\* A run that ends takes its armed timers along and leaves the entry.
LEMMA MigrateIInv ==
  ASSUME NEW v \in Versions, IInv, Migrate(v)
  PROVE  IInv'
<1>1. /\ UNCHANGED <<now, inState, entry, since, resumed, fired, kept, dropped>>
      /\ version' = v /\ up' = FALSE /\ pending' = None /\ orphans' = {}
      /\ list' = NoList /\ skipped' = FALSE
      /\ migrations < MaxMigrations /\ migrations' = migrations + 1
  BY DEF Migrate
<1>2. migrations' \in 0..MaxMigrations
  BY <1>1 DEF IInv, TypeOK
<1>3. TypeOK'
  BY <1>1, <1>2 DEF IInv, TypeOK, List, NoList
<1>4. /\ EntryNotAhead' /\ ListNotAhead' /\ DownMeansDisarmed' /\ EntryIsTheTimer'
      /\ WaitIsBounded'
  BY <1>1 DEF IInv, EntryNotAhead, ListNotAhead, NoList, DownMeansDisarmed,
              EntryIsTheTimer, WaitIsBounded
<1> QED
  BY <1>3, <1>4 DEF IInv

\* However the next run restores the entry, record and timer agree, and so they
\* do if a list of timers breaks off.
LEMMA ResumeIInv == IInv /\ Resume => IInv'
<1> SUFFICES ASSUME IInv, Resume PROVE IInv'
  OBVIOUS
<1> USE DEF IInv
<1>1. /\ now' = now /\ version' = version /\ up' = TRUE /\ ~up
      /\ migrations' = migrations /\ resumed' = now /\ fired' = fired
      /\ kept' = (kept \/ (inState /\ version \in Keeps))
      /\ inState' = (inState /\ version \notin Leaves)
  BY DEF Resume
<1>2. /\ now \in Nat /\ version \in Versions /\ pending = None /\ orphans = {}
      /\ entry \in Entry \cup {NoEntry}
  BY <1>1 DEF TypeOK, DownMeansDisarmed
<1>3. /\ since' \in Nat \cup {None} /\ dropped' \in BOOLEAN
      /\ inState' \in BOOLEAN /\ kept' \in BOOLEAN
  BY <1>1, <1>2 DEF Resume, StartNewTimer, RestoreTimer, NothingToStart, TypeOK
<1>4. ASSUME NEW e \in Entry \cup {NoEntry}, e # NoEntry => e.start <= now,
             NEW d \in Nat \ {0}, d <= Delay[version], Armed(e, d)
      PROVE  IInv'
  <2>1. /\ entry' \in Entry /\ pending' \in Nat /\ orphans' \in SUBSET Nat
        /\ entry'.start = now /\ entry'.start + entry'.delay = pending'
        /\ \A v \in Versions : (\A w \in Versions : Delay[w] <= Delay[v])
                                 => pending' <= now + Delay[v]
    BY <1>4, DelaySendKeeps DEF Armed
  <2>2. /\ list' \in List /\ skipped' = FALSE
        /\ list'.entry # NoEntry => list'.entry.start <= now
    BY <1>3, <1>4, ListsAreTyped DEF Armed
  <2>3. TypeOK'
    BY <1>1, <1>2, <1>3, <2>1, <2>2 DEF TypeOK
  <2>4. EntryNotAhead' /\ ListNotAhead' /\ EntryIsTheTimer'
    BY <1>1, <1>2, <2>1, <2>2 DEF EntryNotAhead, ListNotAhead, EntryIsTheTimer
  <2>5. DownMeansDisarmed' /\ WaitIsBounded'
    BY <1>1, <1>2, <2>1 DEF DownMeansDisarmed, WaitIsBounded
  <2> QED
    BY <2>3, <2>4, <2>5
<1>5. ASSUME NEW e \in Entry \cup {NoEntry}, e # NoEntry => e.start <= now,
             Skipped(e) \/ NotArmed
      PROVE  IInv'
  <2>1. /\ list' \in List /\ skipped' \in BOOLEAN
        /\ list'.entry # NoEntry => list'.entry.start <= now
        /\ entry' = NoEntry /\ pending' = None /\ orphans' = {}
    BY <1>2, <1>3, <1>5, ListsAreTyped DEF Skipped, NotArmed
  <2> QED
    BY <1>1, <1>2, <1>3, <2>1
    DEF TypeOK, EntryNotAhead, ListNotAhead, DownMeansDisarmed, EntryIsTheTimer,
        WaitIsBounded
<1>6. CASE StartNewTimer
  BY <1>2, <1>4, <1>5, <1>6, DelayPositive DEF StartNewTimer
<1>7. CASE RestoreTimer
  <2>1. entry \in Entry /\ entry.start <= now
    BY <1>2, <1>7 DEF RestoreTimer, EntryNotAhead
  <2>2. CASE Armed(entry, RestoredDelay(entry, Delay[version], now))
    <3>1. /\ RestoredDelay(entry, Delay[version], now) \in Nat \ {0}
          /\ RestoredDelay(entry, Delay[version], now) <= Delay[version]
      BY <1>2, <2>1, DelayPositive, RestoredDelayBounds
    <3> QED
      BY <1>4, <2>1, <2>2, <3>1
  <2>3. CASE Skipped(entry) \/ NotArmed
    BY <1>5, <2>1, <2>3
  <2> QED
    BY <1>7, <2>2, <2>3 DEF RestoreTimer
<1>8. CASE NothingToStart
  BY <1>5, <1>8 DEF NothingToStart
<1> QED
  BY <1>6, <1>7, <1>8 DEF Resume

\* What a broken list arms each time it is run: a delay that is not longer than
\* the one of the current code.
LEMMA NotifiedSends ==
  ASSUME TypeOK, ListNotAhead, Notified
  PROVE  \E d \in Nat \ {0} : d <= Delay[version] /\ DelaySend(d)
<1>1. now \in Nat /\ version \in Versions /\ list.entry \in Entry \cup {NoEntry}
  BY DEF TypeOK, List
<1>2. Delay[version] \in Nat \ {0} /\ Delay[version] <= Delay[version]
  BY <1>1, DelayPositive
<1>3. CASE list.entry = NoEntry
  BY <1>2, <1>3 DEF Notified
<1>4. CASE list.entry # NoEntry
  <2>1. /\ RestoredDelay(list.entry, Delay[version], now) \in Nat \ {0}
        /\ RestoredDelay(list.entry, Delay[version], now) <= Delay[version]
    BY <1>1, <1>2, <1>4, RestoredDelayBounds DEF ListNotAhead
  <2> QED
    BY <1>4, <2>1 DEF Notified
<1> QED
  BY <1>3, <1>4

\* A list that is run again keeps record and timer in agreement.
LEMMA NotifiedIInv == IInv /\ Notified => IInv'
<1> SUFFICES ASSUME IInv, Notified PROVE IInv'
  OBVIOUS
<1> USE DEF IInv
<1>1. /\ UNCHANGED <<now, version, up, inState, list, migrations, since, resumed,
                     fired, kept, dropped>>
      /\ up /\ skipped' = FALSE
  BY DEF Notified
<1>2. PICK d \in Nat \ {0} : d <= Delay[version] /\ DelaySend(d)
  BY NotifiedSends
<1>3. /\ entry' \in Entry /\ pending' \in Nat /\ orphans' \in SUBSET Nat
      /\ entry'.start = now /\ entry'.start + entry'.delay = pending'
      /\ \A v \in Versions : (\A w \in Versions : Delay[w] <= Delay[v])
                               => pending' <= now + Delay[v]
  BY <1>2, DelaySendKeeps
<1>4. now \in Nat
  BY DEF TypeOK
<1>5. TypeOK'
  BY <1>1, <1>3 DEF TypeOK
<1>6. EntryNotAhead' /\ ListNotAhead' /\ EntryIsTheTimer'
  BY <1>1, <1>3, <1>4 DEF EntryNotAhead, ListNotAhead, EntryIsTheTimer
<1>7. DownMeansDisarmed' /\ WaitIsBounded'
  BY <1>1, <1>3 DEF DownMeansDisarmed, WaitIsBounded
<1> QED
  BY <1>5, <1>6, <1>7

\* Time passing brings the timer nearer.
LEMMA TickIInv == IInv /\ Tick => IInv'
<1> SUFFICES ASSUME IInv, Tick PROVE IInv'
  OBVIOUS
<1> USE DEF IInv
<1>1. /\ now < MaxTime /\ now' = now + 1
      /\ UNCHANGED <<version, up, inState, entry, pending, orphans, list, migrations,
                     since, resumed, fired, skipped, kept, dropped>>
  BY DEF Tick
<1>2. /\ now \in Nat /\ pending \in Nat \cup {None} /\ entry \in Entry \cup {NoEntry}
      /\ list.entry \in Entry \cup {NoEntry}
  BY DEF TypeOK, List
<1>3. TypeOK'
  BY <1>1, <1>2 DEF TypeOK
<1>4. EntryNotAhead' /\ ListNotAhead'
  <2>1. ASSUME entry # NoEntry PROVE entry.start <= now + 1
    BY <1>2, <2>1 DEF EntryNotAhead, Entry
  <2>2. ASSUME list.entry # NoEntry PROVE list.entry.start <= now + 1
    BY <1>2, <2>2 DEF ListNotAhead, Entry
  <2> QED
    BY <1>1, <2>1, <2>2 DEF EntryNotAhead, ListNotAhead
<1>5. DownMeansDisarmed' /\ EntryIsTheTimer'
  BY <1>1 DEF DownMeansDisarmed, EntryIsTheTimer
<1>6. WaitIsBounded'
  BY <1>1, <1>2, DelayPositive DEF WaitIsBounded, None
<1> QED
  BY <1>3, <1>4, <1>5, <1>6

\* IInv is inductive.
LEMMA NextIInv == IInv /\ [Next]_vars => IInv'
<1> SUFFICES ASSUME IInv, [Next]_vars PROVE IInv'
  OBVIOUS
<1>1. CASE UNCHANGED vars
  BY <1>1 DEF IInv, vars, TypeOK, EntryNotAhead, ListNotAhead, DownMeansDisarmed,
              EntryIsTheTimer, WaitIsBounded
<1> QED
  BY <1>1, EnterIInv, ExitIInv, FireIInv, ResumeIInv, NotifiedIInv, TickIInv,
     MigrateIInv
  DEF Next

\* IInv holds in every state of the model.
LEMMA IInvHolds == Spec => []IInv
  BY InitIInv, NextIInv, PTL DEF Spec

-----------------------------------------------------------------------------
(* Theorems.                                                               *)

\* Every variable keeps its type; restoring never yields a time in the past or
\* a delay that is no number.
THEOREM TimerTypeCorrect == Spec => []TypeOK
<1>1. IInv => TypeOK
  BY DEF IInv
<1> QED
  BY <1>1, IInvHolds, PTL

\* What a migration would take along in data.timers describes the armed timer.
THEOREM EntryDescribesTimer == Spec => []EntryIsTheTimer
<1>1. IInv => EntryIsTheTimer
  BY DEF IInv
<1> QED
  BY <1>1, IInvHolds, PTL

\* However often the workflow migrates and delays change, no timer waits longer
\* than the longest delay, counted from now.
THEOREM WaitsAreBounded == Spec => []WaitIsBounded
<1>1. IInv => WaitIsBounded
  BY DEF IInv
<1> QED
  BY <1>1, IInvHolds, PTL

-----------------------------------------------------------------------------
(* Two properties that history bears on.                                   *)

\* Why there is nothing to overwrite: unless a migration function kept a timer or
\* a version without the transition restored one, outside the state nothing is
\* armed and nothing recorded, and a list that broke off is one of the state.
OInv == kept \/ dropped \/
          /\ list = NoList => orphans = {}
          /\ list # NoList => version \in Has /\ list.in = TRUE
          /\ ~up => pending = None /\ orphans = {} /\ list = NoList
          /\ ~inState => pending = None /\ entry = NoEntry
          /\ up /\ version \notin Has => pending = None /\ entry = NoEntry

\* Two timers are never armed under one id, in a run that broke off no list of
\* timers, unless a migration function once returned the timer of a state it left
\* or a version that had dropped the transition restored its timer.
THEOREM NoOrphansUnlessKept == Spec => []NoOrphans
<1>1. Init => OInv
  BY DEF Init, OInv
<1>2. OInv /\ [Next]_vars => OInv'
  <2> SUFFICES ASSUME OInv, [Next]_vars PROVE OInv'
    OBVIOUS
  <2> USE DEF OInv
  <2>1. CASE Enter
    BY <2>1 DEF Enter, DelaySend
  <2>2. CASE Exit
    BY <2>2 DEF Exit, Cancel
  <2>3. CASE Fire
    BY <2>3 DEF Fire, Cancel
  <2>4. CASE Tick
    BY <2>4 DEF Tick
  <2>5. CASE UNCHANGED vars
    BY <2>5 DEF vars
  <2>6. ASSUME NEW v \in Versions, Migrate(v) PROVE OInv'
    BY <2>6 DEF Migrate
  <2>7. CASE Notified
    <3>1. /\ UNCHANGED <<version, up, inState, list, kept, dropped>>
          /\ up /\ list # NoList /\ inState = list.in
      BY <2>7 DEF Notified
    <3> QED
      BY <3>1
  <2>8. CASE Resume
    <3>1. /\ ~up /\ up' = TRUE /\ inState' = (inState /\ version \notin Leaves)
          /\ kept' = (kept \/ (inState /\ version \in Keeps)) /\ version' = version
      BY <2>8 DEF Resume
    <3>2. CASE NotArmed
      <4>1. /\ entry' = NoEntry /\ list' = NoList
            /\ pending' = pending /\ orphans' = orphans
        BY <3>2 DEF NotArmed
      <4>2. dropped => dropped'
        BY <2>8 DEF Resume, StartNewTimer, RestoreTimer, NothingToStart
      <4> QED
        BY <3>1, <4>1, <4>2
    <3>3. CASE StartNewTimer /\ ~NotArmed
      <4>1. /\ inState' /\ version \in Has /\ dropped' = dropped
            /\ Armed(NoEntry, Delay[version]) \/ Skipped(NoEntry)
        BY <3>3 DEF StartNewTimer
      <4>2. (pending = None /\ orphans = {}) \/ kept' \/ dropped'
        BY <3>1, <4>1
      <4>3. CASE Skipped(NoEntry)
        BY <3>1, <4>1, <4>2, <4>3 DEF Skipped
      <4>4. CASE Armed(NoEntry, Delay[version])
        BY <3>1, <4>1, <4>2, <4>4 DEF Armed, DelaySend
      <4> QED
        BY <4>1, <4>3, <4>4
    <3>4. CASE RestoreTimer /\ ~NotArmed
      <4>1. /\ entry # NoEntry /\ version \in Named
            /\ kept' \/ (inState /\ version \notin Leaves) \/ ~inState
            /\ dropped' = (dropped \/ version \in Named \ Has)
            /\ Armed(entry, RestoredDelay(entry, Delay[version], now)) \/ Skipped(entry)
        BY <3>1, <3>4 DEF RestoreTimer, Omitted
      <4>2. CASE kept' \/ dropped'
        BY <4>2
      <4>3. CASE ~(kept' \/ dropped')
        <5>1. inState /\ inState' = TRUE /\ version \in Has
          BY <3>1, <4>1, <4>3
        <5>2. pending = None /\ orphans = {}
          BY <3>1, <4>1, <4>3
        <5> QED
          BY <3>1, <4>1, <5>1, <5>2 DEF Armed, Skipped, DelaySend
      <4> QED
        BY <4>2, <4>3
    <3> QED
      BY <2>8, <3>2, <3>3, <3>4 DEF Resume, NothingToStart
  <2> QED
    BY <2>1, <2>2, <2>3, <2>4, <2>5, <2>6, <2>7, <2>8 DEF Next
<1>3. OInv => NoOrphans
  BY DEF OInv, NoOrphans
<1> QED
  BY <1>1, <1>2, <1>3, PTL DEF Spec

\* No migration to a version whose delay is a named function that does not read
\* the context leaves the workflow in a state it was to leave by itself, unless
\* another timer threw and broke off the list before this one.
THEOREM NamedIsNotForgotten == Spec => []NotForgotten
<1>1. Init => NotForgotten
  BY DEF Init, NotForgotten
<1>2. IInv /\ NotForgotten /\ [Next]_vars => NotForgotten'
  <2> SUFFICES ASSUME IInv, NotForgotten, [Next]_vars PROVE NotForgotten'
    OBVIOUS
  <2>1. /\ now \in Nat /\ fired \in Nat /\ version \in Versions
        /\ entry \in Entry \cup {NoEntry}
    BY DEF IInv, TypeOK
  <2>2. ASSUME NEW d \in Nat, DelaySend(d) PROVE pending' # None
    BY <2>1, <2>2 DEF DelaySend, None
  <2>3. CASE Enter
    BY <2>1, <2>2, <2>3, DelayPositive DEF Enter, NotForgotten
  <2>4. CASE Exit
    BY <2>4 DEF Exit, NotForgotten
  <2>5. CASE Fire
    <3>1. /\ inState' = (inState /\ ~Leaving) /\ version' = version
          /\ fired' = IF Taken THEN fired + 1 ELSE fired
      BY <2>5 DEF Fire
    <3>2. inState' => inState
      BY <3>1
    <3>3. inState' /\ version' \in Has => Taken
      BY <3>1, <3>2 DEF Taken
    <3>4. inState' /\ version' \in Has => fired' # 0
      BY <2>1, <3>1, <3>3
    <3> QED
      BY <3>4 DEF NotForgotten
  <2>6. CASE Tick
    BY <2>6 DEF Tick, NotForgotten
  <2>7. CASE UNCHANGED vars
    BY <2>7 DEF vars, NotForgotten
  <2>8. ASSUME NEW v \in Versions, Migrate(v) PROVE NotForgotten'
    BY <2>8 DEF Migrate, NotForgotten
  <2>9. CASE Notified
    BY <2>2, <2>9, NotifiedSends DEF IInv, NotForgotten
  <2>10. CASE Resume
    <3>1. /\ version' = version /\ now' = now
          /\ inState' = (inState /\ version \notin Leaves)
      BY <2>10 DEF Resume
    <3>2. CASE StartNewTimer
      <4>1. version \in Named \ ReadsContext
              => DelaySend(Delay[version]) \/ skipped'
        BY <3>2 DEF StartNewTimer, Armed, Skipped
      <4> QED
        BY <2>1, <2>2, <3>1, <4>1, DelayPositive DEF NotForgotten
    <3>3. CASE RestoreTimer
      <4>1. CASE Armed(entry, RestoredDelay(entry, Delay[version], now))
        <5>1. DelaySend(RestoredDelay(entry, Delay[version], now))
          BY <4>1 DEF Armed
        <5>2. entry \in Entry /\ entry.start <= now
          BY <2>1, <3>3 DEF RestoreTimer, IInv, EntryNotAhead
        <5>3. RestoredDelay(entry, Delay[version], now) \in Nat
          BY <2>1, <5>2, DelayPositive, RestoredDelayBounds
        <5> QED
          BY <2>2, <5>1, <5>3 DEF NotForgotten
      <4>2. CASE Skipped(entry)
        BY <4>2 DEF Skipped, NotForgotten
      <4>3. CASE version \notin Named
        BY <3>1, <4>3 DEF NotForgotten
      <4> QED
        BY <3>3, <4>1, <4>2, <4>3 DEF RestoreTimer
    <3>4. CASE NothingToStart
      BY <3>1, <3>4 DEF NothingToStart, NotForgotten
    <3> QED
      BY <2>10, <3>2, <3>3, <3>4 DEF Resume
  <2> QED
    BY <2>3, <2>4, <2>5, <2>6, <2>7, <2>8, <2>9, <2>10 DEF Next
<1> QED
  BY <1>1, <1>2, IInvHolds, PTL DEF Spec

-----------------------------------------------------------------------------
(* The first migration keeps the schedule.                                 *)

\* The record with which the first migration restores the timer: it was made on
\* entering the state, with the delay as it is in the first version.
AsEntered ==
  inState /\ entry # NoEntry => entry.start = since /\ entry.delay = Delay[FirstVersion]

\* Up to the first migration a version without the transition has no record of it.
NoneWithout == migrations = 0 /\ version \notin Has => entry = NoEntry

\* Before the first migration the run is the first and up, and runs no list of
\* timers; until the next run has started the record is as entered.
SInv ==
  /\ NoneWithout
  /\ migrations = 0 => /\ up /\ version = FirstVersion /\ resumed = 0
                        /\ list = NoList
  /\ resumed <= now
  /\ migrations = 0 \/ (migrations = 1 /\ ~up) => AsEntered
  /\ OnScheduleOnce

\* Arming the delay afresh puts the timer on schedule.
LEMMA AfreshOnSchedule ==
  ASSUME TypeOK, DelaySend(Delay[version]), version' = version, since' = now,
         resumed' <= now, resumed' \in Nat
  PROVE  OnSchedule'
<1>1. now \in Nat /\ Delay[version] \in Nat \ {0}
  BY DelayPositive DEF TypeOK
<1>2. pending' = now + Delay[version]
  BY DEF DelaySend
<1> QED
  BY <1>1, <1>2 DEF OnSchedule

\* So does restoring a record made on entering, with the delay it was made with:
\* what is left of it is armed, or one tick if nothing is.
LEMMA RestoredOnSchedule ==
  ASSUME TypeOK, EntryNotAhead, entry # NoEntry, entry.start = since,
         entry.delay = Delay[version],
         DelaySend(RestoredDelay(entry, Delay[version], now)),
         version' = version, since' = since, resumed' = now
  PROVE  OnSchedule'
<1> DEFINE d == Delay[version]
<1>1. /\ now \in Nat /\ d \in Nat \ {0} /\ since \in Nat /\ since <= now
  BY DelayPositive DEF TypeOK, EntryNotAhead, Entry
<1>2. pending' = now + AtLeastOne(d - (now - since))
  BY DEF DelaySend, RestoredDelay
<1> HIDE DEF d
<1>3. CASE since + d <= now
  <2>1. d - (now - since) <= 0 /\ now > 0
    BY <1>1, <1>3
  <2>2. pending' = now + 1
    BY <1>2, <2>1 DEF AtLeastOne
  <2> QED
    BY <1>1, <1>3, <2>1, <2>2 DEF OnSchedule, d
<1>4. CASE ~(since + d <= now)
  <2>1. ~(d - (now - since) <= 0)
    BY <1>1, <1>4
  <2>2. pending' = since + d
    BY <1>1, <1>2, <2>1 DEF AtLeastOne
  <2> QED
    BY <1>1, <1>4, <2>2 DEF OnSchedule, d
<1> QED
  BY <1>3, <1>4

\* The next run restores the record as entered or starts the delay afresh.
LEMMA ResumeSInv == IInv /\ SInv /\ Resume => SInv'
<1> SUFFICES ASSUME IInv, SInv, Resume PROVE SInv'
  OBVIOUS
<1>1. /\ now' = now /\ version' = version /\ up' = TRUE /\ ~up
      /\ migrations' = migrations /\ resumed' = now
      /\ inState' = (inState /\ version \notin Leaves)
  BY DEF Resume
<1>2. /\ TypeOK /\ EntryNotAhead /\ pending = None /\ now \in Nat
      /\ migrations \in Nat /\ migrations # 0
  BY <1>1 DEF IInv, TypeOK, DownMeansDisarmed, SInv
<1>3. ASSUME migrations <= 1, Delay[version] = Delay[FirstVersion] PROVE OnSchedule'
  <2>1. AsEntered
    BY <1>1, <1>2, <1>3 DEF SInv
  <2>2. CASE inState' /\ pending' # None
    <3>1. CASE Skipped(entry) \/ Skipped(NoEntry) \/ NotArmed
      BY <1>2, <2>2, <3>1 DEF Skipped, NotArmed
    <3>2. CASE StartNewTimer /\ Armed(NoEntry, Delay[version])
      BY <1>1, <1>2, <2>2, <3>2, AfreshOnSchedule DEF StartNewTimer, Armed
    <3>3. CASE RestoreTimer /\ Armed(entry, RestoredDelay(entry, Delay[version], now))
      BY <1>1, <1>2, <1>3, <2>1, <2>2, <3>3, RestoredOnSchedule
      DEF RestoreTimer, Armed, AsEntered
    <3> QED
      BY <3>1, <3>2, <3>3 DEF Resume, StartNewTimer, RestoreTimer, NothingToStart
  <2>3. CASE ~(inState' /\ pending' # None)
    BY <2>3 DEF OnSchedule
  <2> QED
    BY <2>2, <2>3
<1>4. OnScheduleOnce'
  BY <1>1, <1>3 DEF OnScheduleOnce
<1>5. NoneWithout'
  BY <1>1, <1>2 DEF NoneWithout
<1> QED
  BY <1>1, <1>2, <1>4, <1>5 DEF SInv

\* A timer is on time over the first migration, however long the downtime, if the
\* version it arrives in has the delay of the first.
THEOREM OnTimeOverFirstMigration == Spec => []OnScheduleOnce
<1>1. Init => SInv
  BY DEF Init, SInv, NoneWithout, AsEntered, OnScheduleOnce, OnSchedule
<1>2. IInv /\ SInv /\ [Next]_vars => SInv'
  <2> SUFFICES ASSUME IInv, SInv, [Next]_vars PROVE SInv'
    OBVIOUS
  <2>1. /\ TypeOK /\ now \in Nat /\ fired \in Nat /\ migrations \in Nat /\ resumed \in Nat
        /\ resumed <= now
    BY DEF IInv, TypeOK, SInv
  <2>2. CASE Enter
    <3>1. /\ now' = now /\ version' = version /\ up' = up /\ since' = now /\ up
          /\ migrations' = migrations /\ resumed' = resumed /\ list' = list
      BY <2>2 DEF Enter
    <3>2. CASE version \in Has
      <4>1. DelaySend(Delay[version])
        BY <2>2, <3>2 DEF Enter
      <4>2. OnSchedule'
        BY <2>1, <3>1, <4>1, AfreshOnSchedule
      <4>3. version = FirstVersion => AsEntered'
        BY <3>1, <4>1 DEF AsEntered, DelaySend
      <4> QED
        BY <2>1, <3>1, <3>2, <4>2, <4>3 DEF SInv, NoneWithout, OnScheduleOnce
    <3>3. CASE version \notin Has
      <4>1. UNCHANGED <<entry, pending>>
        BY <2>2, <3>3 DEF Enter
      <4> QED
        BY <2>1, <3>1, <3>3, <4>1
        DEF SInv, NoneWithout, AsEntered, OnScheduleOnce, OnSchedule
    <3> QED
      BY <3>2, <3>3
  <2>3. CASE Exit
    BY <2>3 DEF Exit, Cancel, SInv, NoneWithout, AsEntered, OnScheduleOnce, OnSchedule
  <2>4. CASE Fire
    <3>1. /\ UNCHANGED <<now, version, up, list, migrations, since, resumed>>
          /\ inState' = (inState /\ ~Leaving)
          /\ fired' = IF Taken THEN fired + 1 ELSE fired
      BY <2>4 DEF Fire
    <3>2. inState' => inState /\ entry' = entry
      BY <2>4, <3>1 DEF Fire
    <3>3. OnSchedule'
      <4>1. inState' /\ version' \in Has => fired' # 0
        BY <2>1, <3>1, <3>2 DEF Taken
      <4> QED
        BY <4>1 DEF OnSchedule
    <3>4. NoneWithout'
      BY <2>4, <3>1 DEF Fire, Cancel, SInv, NoneWithout
    <3> QED
      BY <3>1, <3>2, <3>3, <3>4 DEF SInv, AsEntered, OnScheduleOnce
  <2>5. CASE Tick
    BY <2>1, <2>5 DEF Tick, SInv, NoneWithout, AsEntered, OnScheduleOnce, OnSchedule
  <2>6. CASE UNCHANGED vars
    BY <2>6 DEF vars, SInv, NoneWithout, AsEntered, OnScheduleOnce, OnSchedule
  <2>7. ASSUME NEW v \in Versions, Migrate(v) PROVE SInv'
    BY <2>1, <2>7 DEF Migrate, SInv, NoneWithout, AsEntered, OnScheduleOnce, OnSchedule
  <2>8. CASE Notified
    <3>1. /\ UNCHANGED <<now, version, up, list, migrations, resumed>>
          /\ up /\ list # NoList
      BY <2>8 DEF Notified
    <3> QED
      BY <3>1 DEF SInv, NoneWithout, OnScheduleOnce
  <2> QED
    BY <2>2, <2>3, <2>4, <2>5, <2>6, <2>7, <2>8, ResumeSInv DEF Next
<1>3. SInv => OnScheduleOnce
  BY DEF SInv
<1> QED
  BY <1>1, <1>2, <1>3, IInvHolds, PTL DEF Spec

=================================================================================
