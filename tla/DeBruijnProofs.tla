--------------------------- MODULE DeBruijnProofs ---------------------------
(***************************************************************************)
(* Lemmas about terms and the operations on their indices, for size_t of   *)
(* any width and terms nested to any depth.                                *)
(*                                                                         *)
(* The operations are recursive functions on the set Term, so that such a  *)
(* function exists has to be proved before anything else can be: for the   *)
(* leaves it is given by its definition, and from the terms of one level   *)
(* of nesting it is extended to those of the next.  For every operation    *)
(* the two lemmas that follow, for leaves and for other terms, are all     *)
(* that the rest of the proofs uses.                                       *)
(***************************************************************************)
EXTENDS Renumbering, SequenceTheorems, WellFoundedInduction, TLAPS

(***************************************************************************)
(* Terms of each class.                                                    *)
(***************************************************************************)

\* A function on 1 .. n is a sequence of length n (the vectors of subterms that
\* shift and visit_transform build).
LEMMA FixedSeq ==
  ASSUME NEW S, NEW n \in Nat, NEW s \in [1 .. n -> S]
  PROVE  s \in Seq(S) /\ Len(s) = n
OBVIOUS

\* What each class of term has: how many subterms, and the numbers beside them
\* (the data members of the classes of constr.h).
LEMMA NodeShape ==
  ASSUME NEW S, NEW t \in Nodes(S)
  PROVE  /\ ~IsLeaf(t)
         /\ t.k \in {"product", "lambda", "apply", "let", "cast", "match", "fix"}
         /\ t.sub \in Seq(S)
         /\ t.k = "let" => Len(t.sub) = 3
         /\ t.k = "cast" => Len(t.sub) = 2
         /\ t.k = "match" => t.nargs \in Seq(Nat) /\ Len(t.sub) = Len(t.nargs) + 2
         /\ t.k = "fix" => t.arity \in Seq(Nat) /\ FixDepths(t) \in [DOMAIN t.sub -> Nat]
<1>1. CASE t \in [k : {"product", "lambda", "apply"}, sub : Seq(S) \ {<<>>}]
  BY <1>1 DEF IsLeaf
<1>2. CASE t \in [k : {"let"}, sub : [1 .. 3 -> S]]
  <2>1. t.k = "let" /\ t.sub \in [1 .. 3 -> S]
    BY <1>2
  <2> DEFINE s == t.sub
  <2> HIDE DEF s
  <2>3. s \in [1 .. 3 -> S] => s \in Seq(S) /\ Len(s) = 3
    BY FixedSeq
  <2>2. t.sub \in Seq(S) /\ Len(t.sub) = 3
    BY <2>1, <2>3 DEF s
  <2> QED
    BY <2>1, <2>2 DEF IsLeaf
<1>3. CASE t \in [k : {"cast"}, sub : [1 .. 2 -> S]]
  <2>1. t.k = "cast" /\ t.sub \in [1 .. 2 -> S]
    BY <1>3
  <2>2. t.sub \in Seq(S) /\ Len(t.sub) = 2
    BY <2>1, FixedSeq
  <2> QED
    BY <2>1, <2>2 DEF IsLeaf
<1>4. CASE t \in {u \in [k : {"match"}, sub : Seq(S), nargs : Seq(Nat)] :
                    Len(u.sub) = Len(u.nargs) + 2}
  BY <1>4 DEF IsLeaf
<1>5. CASE t \in {u \in [k : {"fix"}, entry : Nat, sub : Seq(S), arity : Seq(Nat)] :
                    FixDepths(u) \in [DOMAIN u.sub -> Nat]}
  BY <1>5 DEF IsLeaf
<1> QED
  BY <1>1, <1>2, <1>3, <1>4, <1>5 DEF Nodes

\* With as many subterms as before, a term stays in its class (the constructors
\* that shift and visit_transform call when they rebuild a term).
LEMMA WithSubShape ==
  ASSUME NEW S, NEW t \in Nodes(S), NEW R, NEW s \in Seq(R), Len(s) = Len(t.sub)
  PROVE  /\ WithSub(t, s) \in Nodes(R)
         /\ WithSub(t, s).k = t.k
         /\ WithSub(t, s).sub = s
         /\ t.k = "match" => WithSub(t, s).nargs = t.nargs
         /\ t.k = "fix" => WithSub(t, s).arity = t.arity
<1>1. CASE t \in [k : {"product", "lambda", "apply"}, sub : Seq(S) \ {<<>>}]
  <2>1. s # <<>>
    BY <1>1, EmptySeq
  <2> QED
    BY <1>1, <2>1 DEF WithSub, Nodes
<1>2. CASE t \in [k : {"let"}, sub : [1 .. 3 -> S]]
  <2>1. s \in [1 .. 3 -> R]
    BY <1>2, FixedSeq, LenProperties
  <2> QED
    BY <1>2, <2>1 DEF WithSub, Nodes
<1>3. CASE t \in [k : {"cast"}, sub : [1 .. 2 -> S]]
  <2>1. s \in [1 .. 2 -> R]
    BY <1>3, FixedSeq, LenProperties
  <2> QED
    BY <1>3, <2>1 DEF WithSub, Nodes
<1>4. CASE t \in {u \in [k : {"match"}, sub : Seq(S), nargs : Seq(Nat)] :
                    Len(u.sub) = Len(u.nargs) + 2}
  BY <1>4 DEF WithSub, Nodes
<1>5. CASE t \in {u \in [k : {"fix"}, entry : Nat, sub : Seq(S), arity : Seq(Nat)] :
                    FixDepths(u) \in [DOMAIN u.sub -> Nat]}
  <2> DEFINE v == WithSub(t, s)
  <2>1. v \in [k : {"fix"}, entry : Nat, sub : Seq(R), arity : Seq(Nat)] /\ v.sub = s
          /\ v.arity = t.arity /\ v.k = t.k
    BY <1>5 DEF WithSub
  <2>2. FixDepths(v) = FixDepths(t)
    BY <2>1 DEF FixDepths
  <2>3. DOMAIN v.sub = DOMAIN t.sub
    BY <2>1, <1>5
  <2> QED
    BY <1>5, <2>1, <2>2, <2>3 DEF Nodes
<1> QED
  BY <1>1, <1>2, <1>3, <1>4, <1>5 DEF Nodes

\* Terms made of some subterms are made of those and others (Nodes).
LEMMA NodesMonotone ==
  ASSUME NEW S, NEW R, S \subseteq R
  PROVE  Nodes(S) \subseteq Nodes(R)
<1>1. Seq(S) \subseteq Seq(R)
  OBVIOUS
<1>2. [1 .. 3 -> S] \subseteq [1 .. 3 -> R] /\ [1 .. 2 -> S] \subseteq [1 .. 2 -> R]
  OBVIOUS
<1> QED
  BY <1>1, <1>2 DEF Nodes

(***************************************************************************)
(* Levels of nesting and induction on them.                                *)
(***************************************************************************)

\* The recursive function in NestedTerms: for each depth the terms nested at most
\* that deep
Levels(indices) ==
  CHOOSE terms : terms =
    [nesting \in 0 .. MaxNesting |->
       IF nesting = 0 THEN Leaves(indices)
       ELSE Leaves(indices) \cup Nodes(terms[nesting - 1])]

\* NestedTerms and TermsOver are values of that function.
LEMMA TermsOverLevels ==
  ASSUME NEW I
  PROVE  /\ \A n : NestedTerms(I, n) = Levels(I)[n]
         /\ TermsOver(I) = Levels(I)[MaxNesting]
BY DEF TermsOver, NestedTerms, Levels

\* Induction on numbers, for a set of numbers.
LEMMA CountUp ==
  ASSUME NEW Good \in SUBSET Nat, 0 \in Good, \A n \in Good : n + 1 \in Good
  PROVE  Good = Nat
<1> SUFFICES ASSUME Nat \ Good # {} PROVE FALSE
  OBVIOUS
<1>1. IsWellFoundedOn(OpToRel(<, Nat), Nat)
  BY NatLessThanWellFounded
<1>2. PICK n \in Nat \ Good : \A m \in Nat \ Good : ~(<<m, n>> \in OpToRel(<, Nat))
  BY <1>1, WFMin, Nat \ Good \subseteq Nat, Zenon
<1>3. n # 0 /\ n \in Nat
  BY <1>2
<1>6. n - 1 \in Nat /\ n - 1 + 1 = n
  BY <1>3
<1>4. n - 1 \in Nat \ Good
  BY <1>2, <1>6
<1>5. <<n - 1, n>> \in Nat \X Nat /\ n - 1 < n
  BY <1>3, <1>6
<1> QED
  BY <1>2, <1>4, <1>5 DEF OpToRel

\* There are terms of every depth: the recursive function in NestedTerms exists.
LEMMA LevelsDef ==
  ASSUME NEW I
  PROVE  Levels(I) =
           [nesting \in 0 .. MaxNesting |->
              IF nesting = 0 THEN Leaves(I) ELSE Leaves(I) \cup Nodes(Levels(I)[nesting - 1])]
<1> DEFINE Upto(f, n) == f = [m \in 0 .. n |-> IF m = 0 THEN Leaves(I) ELSE Leaves(I) \cup Nodes(f[m - 1])]
           Good == {n \in Nat : \E f : Upto(f, n)}
<1>1. 0 \in Good
  <2>1. Upto([m \in 0 .. 0 |-> Leaves(I)], 0)
    OBVIOUS
  <2> QED
    BY <2>1
<1>2. ASSUME NEW n \in Good PROVE n + 1 \in Good
  <2>1. PICK f : Upto(f, n)
    BY <1>2
  <2> DEFINE g == [m \in 0 .. n + 1 |-> IF m = n + 1 THEN Leaves(I) \cup Nodes(f[n]) ELSE f[m]]
  <2>2. Upto(g, n + 1)
    <3>1. ASSUME NEW m \in 0 .. n + 1
          PROVE g[m] = IF m = 0 THEN Leaves(I) ELSE Leaves(I) \cup Nodes(g[m - 1])
      <4>1. CASE m = n + 1
        <5>1. m - 1 \in 0 .. n + 1 /\ m - 1 # n + 1 /\ m - 1 = n /\ m # 0
          BY <4>1, <1>2
        <5>2. g[m - 1] = f[n]
          BY <5>1
        <5> QED
          BY <4>1, <5>1, <5>2
      <4>2. CASE m # n + 1 /\ m # 0
        <5>1. m - 1 \in 0 .. n + 1 /\ m - 1 # n + 1 /\ m \in 0 .. n
          BY <4>2, <1>2
        <5>2. g[m - 1] = f[m - 1] /\ g[m] = f[m]
          BY <5>1, <4>2
        <5>3. f[m] = Leaves(I) \cup Nodes(f[m - 1])
          BY <2>1, <5>1, <4>2
        <5> QED
          BY <4>2, <5>2, <5>3
      <4>3. CASE m # n + 1 /\ m = 0
        <5>1. 0 \in 0 .. n
          BY <1>2
        <5>2. f[0] = Leaves(I)
          BY <2>1, <5>1
        <5> QED
          BY <4>3, <5>2
      <4> QED
        BY <4>1, <4>2, <4>3
    <3> QED
      BY <3>1
  <2> HIDE DEF g, Upto
  <2>3. \E h : Upto(h, n + 1)
    BY <2>2
  <2> QED
    BY <2>3, <1>2
<1>3. MaxNesting \in Good
  <2> HIDE DEF Good
  <2>1. Good \subseteq Nat
    BY DEF Good
  <2> QED
    BY <2>1, <1>1, <1>2, CountUp, NestingAssumption
<1>4. PICK f : Upto(f, MaxNesting)
  BY <1>3
<1> QED
  BY <1>4, Zenon DEF Levels

\* A term of one level is a leaf or is made of terms of the level below; every level
\* has the terms of the one below (NestedTerms).
LEMMA LevelsRise ==
  ASSUME NEW I, NEW n \in 0 .. MaxNesting
  PROVE  /\ Leaves(I) \subseteq Levels(I)[n]
         /\ n > 0 => Levels(I)[n] = Leaves(I) \cup Nodes(Levels(I)[n - 1])
         /\ n > 0 => Levels(I)[n - 1] \subseteq Levels(I)[n]
<1> DEFINE L(m) == Levels(I)[m]
<1>1. \A m \in 0 .. MaxNesting :
        L(m) = IF m = 0 THEN Leaves(I) ELSE Leaves(I) \cup Nodes(L(m - 1))
  BY LevelsDef
<1> HIDE DEF L
<1>2. \A m \in 0 .. MaxNesting : Leaves(I) \subseteq L(m)
  BY <1>1
<1> DEFINE Good == {m \in Nat : m + 1 \in 0 .. MaxNesting => L(m) \subseteq L(m + 1)}
<1>3. 0 \in Good
  <2>1. 0 + 1 \in 0 .. MaxNesting => L(0) = Leaves(I)
    BY <1>1, NestingAssumption
  <2> QED
    BY <2>1, <1>2, NestingAssumption
<1>4. ASSUME NEW m \in Good PROVE m + 1 \in Good
  <2> SUFFICES ASSUME m + 1 + 1 \in 0 .. MaxNesting PROVE L(m + 1) \subseteq L(m + 1 + 1)
    BY <1>4
  <2>1. m \in Nat /\ m + 1 \in 0 .. MaxNesting /\ m + 1 # 0 /\ m + 1 - 1 = m
          /\ m + 1 + 1 # 0 /\ m + 1 + 1 - 1 = m + 1
    BY <1>4, NestingAssumption
  <2>2. Nodes(L(m)) \subseteq Nodes(L(m + 1))
    BY <1>4, <2>1, NodesMonotone
  <2>4. ASSUME NEW k \in 0 .. MaxNesting, k # 0
        PROVE  L(k) = Leaves(I) \cup Nodes(L(k - 1))
    BY <1>1, <2>4, Zenon
  <2>3. L(m + 1) = Leaves(I) \cup Nodes(L(m)) /\ L(m + 1 + 1) = Leaves(I) \cup Nodes(L(m + 1))
    BY <2>1, <2>4
  <2> QED
    BY <2>2, <2>3
<1>5. Good = Nat
  <2> HIDE DEF Good
  <2>1. Good \subseteq Nat
    BY DEF Good
  <2> QED
    BY <2>1, <1>3, <1>4, CountUp
<1>6. n > 0 => L(n - 1) \subseteq L(n)
  <2> SUFFICES ASSUME n > 0 PROVE L(n - 1) \subseteq L(n)
    OBVIOUS
  <2>1. n - 1 \in Nat /\ n - 1 + 1 = n
    OBVIOUS
  <2> QED
    BY <2>1, <1>5
<1>7. n > 0 => L(n) = Leaves(I) \cup Nodes(L(n - 1))
  <2>1. n > 0 => n # 0
    OBVIOUS
  <2> QED
    BY <1>1, <2>1, Zenon
<1> QED
  BY <1>2, <1>6, <1>7 DEF L

\* Every level has the terms of all levels below (NestedTerms).
LEMMA LevelsClimb ==
  ASSUME NEW I, NEW n \in Nat, NEW q \in Nat, n + q <= MaxNesting
  PROVE  Levels(I)[n] \subseteq Levels(I)[n + q]
<1> DEFINE Good == {m \in Nat : n + m <= MaxNesting => Levels(I)[n] \subseteq Levels(I)[n + m]}
<1>1. 0 \in Good
  <2>1. n + 0 = n
    OBVIOUS
  <2> QED
    BY <2>1
<1>2. ASSUME NEW m \in Good PROVE m + 1 \in Good
  <2> SUFFICES ASSUME n + (m + 1) <= MaxNesting
               PROVE  Levels(I)[n] \subseteq Levels(I)[n + (m + 1)]
    BY <1>2
  <2>1. n + m <= MaxNesting /\ n + (m + 1) \in 0 .. MaxNesting /\ n + (m + 1) > 0
          /\ n + (m + 1) - 1 = n + m
    BY <1>2, NestingAssumption
  <2>2. Levels(I)[n + (m + 1) - 1] \subseteq Levels(I)[n + (m + 1)]
    BY <2>1, LevelsRise
  <2> QED
    BY <1>2, <2>1, <2>2
<1>3. Good = Nat
  <2> HIDE DEF Good
  <2>1. Good \subseteq Nat
    BY DEF Good
  <2> QED
    BY <2>1, <1>1, <1>2, CountUp
<1> QED
  BY <1>3

\* Terms of every level are terms (TermsOver).
LEMMA LevelsInTerms ==
  ASSUME NEW I, NEW n \in 0 .. MaxNesting
  PROVE  Levels(I)[n] \subseteq TermsOver(I)
<1> DEFINE Good == {m \in Nat : m \in 0 .. MaxNesting =>
                                  Levels(I)[MaxNesting - m] \subseteq Levels(I)[MaxNesting]}
<1>1. 0 \in Good
  <2>1. MaxNesting - 0 = MaxNesting
    BY NestingAssumption
  <2> QED
    BY <2>1
<1>2. ASSUME NEW m \in Good PROVE m + 1 \in Good
  <2> SUFFICES ASSUME m + 1 \in 0 .. MaxNesting
               PROVE  Levels(I)[MaxNesting - (m + 1)] \subseteq Levels(I)[MaxNesting]
    BY <1>2
  <2>1. m \in 0 .. MaxNesting /\ MaxNesting - m \in 0 .. MaxNesting /\ MaxNesting - m > 0
          /\ MaxNesting - (m + 1) = MaxNesting - m - 1
    BY <1>2, NestingAssumption
  <2>2. Levels(I)[MaxNesting - m - 1] \subseteq Levels(I)[MaxNesting - m]
    BY <2>1, LevelsRise
  <2> QED
    BY <1>2, <2>1, <2>2
<1>3. Good = Nat
  <2> HIDE DEF Good
  <2>1. Good \subseteq Nat
    BY DEF Good
  <2> QED
    BY <2>1, <1>1, <1>2, CountUp
<1>4. MaxNesting - n \in 0 .. MaxNesting /\ MaxNesting - (MaxNesting - n) = n
  BY NestingAssumption
<1> QED
  BY <1>3, <1>4, TermsOverLevels

\* Leaves are terms (TermsOver).
LEMMA LeavesAreTerms ==
  ASSUME NEW I
  PROVE  Leaves(I) \subseteq TermsOver(I)
<1>1. MaxNesting \in 0 .. MaxNesting
  BY NestingAssumption
<1>2. Leaves(I) \subseteq Levels(I)[MaxNesting]
  BY <1>1, LevelsRise
<1> QED
  BY <1>2, TermsOverLevels

\* A term is a leaf or is made of terms (TermsOver).
LEMMA TermCases ==
  ASSUME NEW I, NEW t \in TermsOver(I)
  PROVE  t \in Leaves(I) \/ t \in Nodes(TermsOver(I))
<1>1. MaxNesting \in 0 .. MaxNesting /\ t \in Levels(I)[MaxNesting]
  BY TermsOverLevels, NestingAssumption
<1>2. CASE MaxNesting = 0
  BY <1>1, <1>2, LevelsDef
<1>3. CASE MaxNesting > 0
  <2>1. t \in Leaves(I) \cup Nodes(Levels(I)[MaxNesting - 1])
    BY <1>1, <1>3, LevelsRise
  <2>2. Levels(I)[MaxNesting - 1] \subseteq TermsOver(I)
    BY <1>1, <1>3, LevelsRise, TermsOverLevels
  <2> QED
    BY <2>1, <2>2, NodesMonotone
<1> QED
  BY <1>2, <1>3, NestingAssumption

\* A constr_t is a leaf or has subterms that are terms (Term).
LEMMA TermShape ==
  ASSUME NEW t \in Term
  PROVE  \/ IsLeaf(t) /\ t \in Leaves(0 .. Word - 1)
         \/ ~IsLeaf(t) /\ t \in Nodes(Term) /\ t.sub \in Seq(Term)
<1>1. t \in Leaves(0 .. Word - 1) => IsLeaf(t)
  BY DEF Leaves, IsLeaf
<1> QED
  BY <1>1, TermCases, NodeShape DEF Term

\* A term of a level that is no leaf has its subterms one level below (NestedTerms).
LEMMA LevelShape ==
  ASSUME NEW I, NEW n \in 0 .. MaxNesting, NEW t \in Levels(I)[n]
  PROVE  \/ IsLeaf(t)
         \/ /\ ~IsLeaf(t) /\ n > 0
            /\ t \in Nodes(Levels(I)[n - 1]) /\ t.sub \in Seq(Levels(I)[n - 1])
<1>1. t \in Leaves(I) => IsLeaf(t)
  BY DEF Leaves, IsLeaf
<1>2. n = 0 => t \in Leaves(I)
  BY LevelsDef, NestingAssumption
<1>3. n > 0 => t \in Leaves(I) \/ t \in Nodes(Levels(I)[n - 1])
  BY LevelsRise
<1>4. n > 0 /\ t \in Nodes(Levels(I)[n - 1]) => ~IsLeaf(t) /\ t.sub \in Seq(Levels(I)[n - 1])
  BY NodeShape
<1> QED
  BY <1>1, <1>2, <1>3, <1>4

\* Induction on terms: what holds for leaves, and for each term when it holds for its
\* subterms, holds for all terms.
LEMMA TermInduction ==
  ASSUME NEW I, NEW Good, Leaves(I) \subseteq Good,
         \A t \in Nodes(TermsOver(I)) \cap TermsOver(I) :
           (\A i \in DOMAIN t.sub : t.sub[i] \in Good) => t \in Good
  PROVE  TermsOver(I) \subseteq Good
<1> DEFINE Fine == {n \in Nat : n \in 0 .. MaxNesting => Levels(I)[n] \subseteq Good}
<1>1. 0 \in Fine
  <2>1. Levels(I)[0] = Leaves(I)
    BY LevelsDef, NestingAssumption
  <2> QED
    BY <2>1
<1>2. ASSUME NEW n \in Fine PROVE n + 1 \in Fine
  <2> SUFFICES ASSUME n + 1 \in 0 .. MaxNesting, NEW t \in Levels(I)[n + 1] PROVE t \in Good
    BY <1>2
  <2>1. n \in 0 .. MaxNesting /\ n + 1 > 0 /\ n + 1 - 1 = n
    BY <1>2, NestingAssumption
  <2>2. CASE t \in Leaves(I)
    BY <2>2
  <2>3. CASE t \in Nodes(Levels(I)[n])
    <3>1. t \in Nodes(TermsOver(I)) \cap TermsOver(I)
      BY <2>1, <2>3, LevelsInTerms, NodesMonotone
    <3>2. \A i \in DOMAIN t.sub : t.sub[i] \in Levels(I)[n]
      BY <2>3, NodeShape
    <3>3. \A i \in DOMAIN t.sub : t.sub[i] \in Good
      BY <3>2, <1>2, <2>1
    <3> QED
      BY <3>1, <3>3
  <2> QED
    BY <2>1, <2>2, <2>3, LevelsRise
<1>3. Fine = Nat
  <2> HIDE DEF Fine
  <2>1. Fine \subseteq Nat
    BY DEF Fine
  <2> QED
    BY <2>1, <1>1, <1>2, CountUp
<1> QED
  BY <1>3, TermsOverLevels, NestingAssumption

\* Induction on nesting: the same for sets of terms that differ from level to level.
LEMMA LevelInduction ==
  ASSUME NEW I, NEW Good,
         \A n \in 0 .. MaxNesting : Leaves(I) \subseteq Good[n],
         \A n \in 1 .. MaxNesting : \A t \in Nodes(Levels(I)[n - 1]) :
           (\A i \in DOMAIN t.sub : t.sub[i] \in Good[n - 1]) => t \in Good[n]
  PROVE  \A n \in 0 .. MaxNesting : Levels(I)[n] \subseteq Good[n]
<1> DEFINE Fine == {n \in Nat : n \in 0 .. MaxNesting => Levels(I)[n] \subseteq Good[n]}
<1>1. 0 \in Fine
  <2>1. 0 \in 0 .. MaxNesting
    BY NestingAssumption
  <2>2. Levels(I)[0] = Leaves(I)
    BY <2>1, LevelsDef
  <2>3. Leaves(I) \subseteq Good[0]
    BY <2>1
  <2> QED
    BY <2>2, <2>3
<1>2. ASSUME NEW n \in Fine PROVE n + 1 \in Fine
  <2> SUFFICES ASSUME n + 1 \in 0 .. MaxNesting, NEW t \in Levels(I)[n + 1] PROVE t \in Good[n + 1]
    BY <1>2
  <2>1. n \in 0 .. MaxNesting /\ n + 1 > 0 /\ n + 1 - 1 = n /\ n + 1 \in 1 .. MaxNesting
    BY <1>2, NestingAssumption
  <2>2. CASE t \in Leaves(I)
    BY <2>2
  <2>3. CASE t \in Nodes(Levels(I)[n])
    <3>1. \A i \in DOMAIN t.sub : t.sub[i] \in Levels(I)[n]
      BY <2>3, NodeShape
    <3>2. \A i \in DOMAIN t.sub : t.sub[i] \in Good[n]
      BY <3>1, <1>2, <2>1
    <3>3. \A m \in 1 .. MaxNesting : m - 1 = n =>
            (t \in Nodes(Levels(I)[n]) /\ (\A i \in DOMAIN t.sub : t.sub[i] \in Good[n]) => t \in Good[m])
      OBVIOUS
    <3> QED
      BY <3>2, <3>3, <2>1, <2>3
  <2> QED
    BY <2>1, <2>2, <2>3, LevelsRise
<1>3. Fine = Nat
  <2> HIDE DEF Fine
  <2>1. Fine \subseteq Nat
    BY DEF Fine
  <2> QED
    BY <2>1, <1>1, <1>2, CountUp
<1> QED
  BY <1>3

(***************************************************************************)
(* Binders: where they are, and how the operations count them.             *)
(***************************************************************************)

\* The binders of a term are counted for each of its subterms; a match has none, a let
\* none for its type (Binds).
LEMMA BindsShape ==
  ASSUME NEW S, NEW t \in Nodes(S)
  PROVE  /\ Binds(t) \in [DOMAIN t.sub -> Nat]
         /\ t.k = "match" => \A i \in DOMAIN t.sub : Binds(t)[i] = 0
         /\ t.k = "let" => Binds(t)[2] = 0
<1>1. DOMAIN t.sub = 1 .. Len(t.sub) /\ Len(t.sub) \in Nat
  BY NodeShape
<1>2. CASE t.k \in {"product", "lambda"}
  BY <1>1, <1>2 DEF Binds
<1>3. CASE t.k = "let"
  <2>1. Len(t.sub) = 3
    BY <1>3, NodeShape
  <2>2. Binds(t) = [i \in 1 .. 3 |-> IF i = 3 THEN 1 ELSE 0]
    BY <1>3, <2>1 DEF Binds
  <2> QED
    BY <1>1, <1>3, <2>1, <2>2
<1>4. CASE t.k = "fix"
  BY <1>4, NodeShape DEF Binds
<1>5. CASE t.k \in {"apply", "cast", "match"}
  BY <1>1, <1>5 DEF Binds
<1> QED
  BY <1>2, <1>3, <1>4, <1>5, NodeShape

\* The shift method of every class counts exactly the binders that are there
\* (ShiftDepths).
LEMMA ShiftCountsBinders ==
  ASSUME NEW S, NEW t \in Nodes(S)
  PROVE  ShiftDepths(t) = Binds(t)
<1>1. DOMAIN t.sub = 1 .. Len(t.sub) /\ Len(t.sub) \in Nat
  BY NodeShape
<1>2. CASE t.k \in {"product", "lambda"}
  <2>1. Binds(t) = [i \in 1 .. Len(t.sub) |-> i - 1]
    BY <1>2 DEF Binds
  <2>2. ShiftDepths(t) = Telescope(Len(t.sub), 0)
    BY <1>2 DEF ShiftDepths
  <2>3. \A n \in Nat : Telescope(n, 0) = [i \in 1 .. n |-> i - 1]
    BY DEF Telescope
  <2> QED
    BY <1>1, <2>1, <2>2, <2>3, Zenon
<1>3. CASE t.k = "let"
  <2>1. Len(t.sub) = 3
    BY <1>3, NodeShape
  <2>2. [i \in 1 .. 3 |-> IF i = 3 THEN 1 ELSE 0] = <<0, 0, 1>>
    OBVIOUS
  <2> QED
    BY <1>3, <2>1, <2>2 DEF Binds, ShiftDepths
<1>4. CASE t.k = "fix"
  BY <1>4 DEF Binds, ShiftDepths
<1>5. CASE t.k \in {"apply", "cast", "match"}
  BY <1>1, <1>5 DEF Binds, ShiftDepths
<1> QED
  BY <1>2, <1>3, <1>4, <1>5, NodeShape

\* visit_transform counts the binders that are there in every class but match, where it
\* takes the arguments of constructors for locals (VisitDepths).
LEMMA VisitCounts ==
  ASSUME NEW S, NEW t \in Nodes(S)
  PROVE  /\ VisitDepths(t) \in [DOMAIN t.sub -> Nat]
         /\ t.k # "match" => VisitDepths(t) = Binds(t)
         /\ t.k = "match" =>
              /\ VisitDepths(t)[2] = 0
              /\ \A i \in DOMAIN t.nargs : VisitDepths(t)[i + 2] = t.nargs[i]
<1>1. DOMAIN t.sub = 1 .. Len(t.sub) /\ Len(t.sub) \in Nat
  BY NodeShape
<1>2. CASE t.k # "match"
  <2>1. t.k # "match" => VisitDepths(t) = ShiftDepths(t)
    BY <1>1, NodeShape DEF VisitDepths, ShiftDepths
  <2> QED
    BY <1>2, <2>1, ShiftCountsBinders, BindsShape
<1>3. CASE t.k = "match"
  <2>1. t.nargs \in Seq(Nat) /\ Len(t.sub) = Len(t.nargs) + 2
    BY <1>3, NodeShape
  <2>2. VisitDepths(t) = <<1, 0>> \o t.nargs
    BY <1>3 DEF VisitDepths
  <2>3. <<1, 0>> \in Seq(Nat) /\ Len(<<1, 0>>) = 2
    OBVIOUS
  <2>4. VisitDepths(t) \in Seq(Nat) /\ Len(VisitDepths(t)) = Len(t.sub)
    BY <2>1, <2>2, <2>3
  <2>5. VisitDepths(t)[2] = 0 /\ \A i \in DOMAIN t.nargs : VisitDepths(t)[i + 2] = t.nargs[i]
    BY <2>1, <2>2, <2>3
  <2> QED
    BY <1>1, <1>3, <2>4, <2>5
<1> QED
  BY <1>2, <1>3

\* visit_transform never counts too few (VisitDepths).
LEMMA VisitCountsAtLeast ==
  ASSUME NEW S, NEW t \in Nodes(S), NEW i \in DOMAIN t.sub
  PROVE  VisitDepths(t)[i] \in Nat /\ Binds(t)[i] \in Nat /\ VisitDepths(t)[i] >= Binds(t)[i]
<1>1. VisitDepths(t)[i] \in Nat /\ Binds(t)[i] \in Nat
  BY VisitCounts, BindsShape
<1>2. CASE t.k = "match"
  BY <1>1, <1>2, BindsShape
<1>3. CASE t.k # "match"
  BY <1>1, <1>3, VisitCounts
<1> QED
  BY <1>1, <1>2, <1>3

\* A term rebuilt with other subterms has the same binders in the same places.
LEMMA RebuiltNode ==
  ASSUME NEW S, NEW t \in Nodes(S), NEW R, NEW s \in Seq(R), Len(s) = Len(t.sub)
  PROVE  /\ Binds(WithSub(t, s)) = Binds(t)
         /\ ShiftDepths(WithSub(t, s)) = ShiftDepths(t)
         /\ WithSub(t, t.sub) = t
         /\ \A r : WithSub(WithSub(t, s), r) = WithSub(t, r)
<1> DEFINE v == WithSub(t, s)
<1>1. v \in Nodes(R) /\ v.k = t.k /\ v.sub = s /\ (t.k = "fix" => v.arity = t.arity)
  BY WithSubShape
<1>2. t.k = "fix" => FixDepths(v) = FixDepths(t)
  BY <1>1 DEF FixDepths
<1>3. Binds(v) = Binds(t)
  <2> HIDE DEF v
  <2> QED
    BY <1>1, <1>2 DEF Binds
<1>4. ShiftDepths(v) = ShiftDepths(t)
  BY <1>1, <1>3, ShiftCountsBinders
<1>5. WithSub(t, t.sub) = t
  BY DEF WithSub, Nodes
<1>6. \A r : WithSub(WithSub(t, s), r) = WithSub(t, r)
  BY DEF WithSub, Nodes
<1> QED
  BY <1>3, <1>4, <1>5, <1>6

\* What makes visit_transform rebuild a term is among its subterms (RebuildFor).
LEMMA RebuildsSubterms ==
  ASSUME NEW S, NEW t \in Nodes(S)
  PROVE  RebuildFor(t) \subseteq DOMAIN t.sub
<1>1. t.k = "let" => DOMAIN t.sub = 1 .. 3
  BY NodeShape
<1> QED
  BY <1>1 DEF RebuildFor

(***************************************************************************)
(* With more indices there are more terms.                                 *)
(***************************************************************************)

\* With more indices there are more terms, at every level (NestedTerms).
LEMMA LevelsWiden ==
  ASSUME NEW I, NEW J, I \subseteq J, NEW n \in 0 .. MaxNesting
  PROVE  Levels(I)[n] \subseteq Levels(J)[n]
<1> DEFINE Good == [m \in 0 .. MaxNesting |-> Levels(J)[m]]
<1>1. Leaves(I) \subseteq Leaves(J)
  BY DEF Leaves
<1>2. \A m \in 0 .. MaxNesting : Leaves(I) \subseteq Good[m]
  BY <1>1, LevelsRise
<1>3. ASSUME NEW m \in 1 .. MaxNesting, NEW t \in Nodes(Levels(I)[m - 1]),
             \A i \in DOMAIN t.sub : t.sub[i] \in Good[m - 1]
      PROVE  t \in Good[m]
  <2>1. m - 1 \in 0 .. MaxNesting /\ m \in 0 .. MaxNesting /\ m > 0
    BY NestingAssumption
  <2>2. t.sub \in Seq(Levels(J)[m - 1])
    <3>1. t.sub \in Seq(Levels(I)[m - 1])
      BY NodeShape
    <3>2. \A i \in DOMAIN t.sub : t.sub[i] \in Levels(J)[m - 1]
      BY <1>3, <2>1
    <3> QED
      BY <3>1, <3>2
  <2>3. WithSub(t, t.sub) \in Nodes(Levels(J)[m - 1]) /\ WithSub(t, t.sub) = t
    BY <2>2, WithSubShape, RebuiltNode
  <2> QED
    BY <2>1, <2>3, LevelsRise
<1> HIDE DEF Good
<1>4. Levels(I)[n] \subseteq Good[n]
  BY <1>2, <1>3, LevelInduction
<1> QED
  BY <1>4 DEF Good

\* With more indices there are more terms (TermsOver).
LEMMA TermsWiden ==
  ASSUME NEW I, NEW J, I \subseteq J
  PROVE  TermsOver(I) \subseteq TermsOver(J)
BY LevelsWiden, TermsOverLevels, NestingAssumption

\* Terms whose indices are less than some number of values of size_t are terms.
LEMMA SmallIndices ==
  ASSUME NEW m \in Nat, m <= Word
  PROVE  TermsOver(0 .. m - 1) \subseteq Term
<1>1. 0 .. m - 1 \subseteq 0 .. Word - 1
  BY WordAssumption
<1> QED
  BY <1>1, TermsWiden DEF Term

(***************************************************************************)
(* constr_t::shift.                                                        *)
(***************************************************************************)

\* One call of a shift method, the calls for the subterms given by f
ShiftAt(f, u, dir) ==
  [l \in Nat |->
     IF u.k = "local"
     THEN IF u.index >= l THEN local(ShiftIndex(u.index, dir)) ELSE u
     ELSE IF IsLeaf(u) THEN u
     ELSE WithSub(u, [i \in DOMAIN u.sub |-> f[u.sub[i]][l + ShiftDepths(u)[i]]])]

\* The recursive function in Shift
Shifted(dir) == CHOOSE shift : shift = [u \in Term |-> ShiftAt(shift, u, dir)]

\* Shift is the value of that function.
LEMMA ShiftIsShifted ==
  ASSUME NEW t, NEW l, NEW dir
  PROVE  Shift(t, l, dir) = Shifted(dir)[t][l]
BY DEF Shift, Shifted, ShiftAt

\* shift ends for every term: there is a function that does what its methods do, one
\* level of nesting after the other.
LEMMA ShiftedDef ==
  ASSUME NEW dir
  PROVE  Shifted(dir) = [u \in Term |-> ShiftAt(Shifted(dir), u, dir)]
<1> DEFINE L(n) == Levels(0 .. Word - 1)[n]
           Upto(f, n) == f = [u \in L(n) |-> ShiftAt(f, u, dir)]
           Good == {n \in Nat : n \in 0 .. MaxNesting => \E f : Upto(f, n)}
<1>1. ASSUME NEW n \in 0 .. MaxNesting, NEW f, NEW g, NEW u \in L(n),
             n > 0 => \A s \in L(n - 1) : f[s] = g[s]
      PROVE  ShiftAt(f, u, dir) = ShiftAt(g, u, dir)
  <2>1. CASE IsLeaf(u)
    BY <2>1 DEF ShiftAt
  <2>2. CASE ~IsLeaf(u)
    <3>1. \A i \in DOMAIN u.sub : f[u.sub[i]] = g[u.sub[i]]
      BY <1>1, <2>2, LevelShape
    <3>2. \A l : [i \in DOMAIN u.sub |-> f[u.sub[i]][l + ShiftDepths(u)[i]]]
                    = [i \in DOMAIN u.sub |-> g[u.sub[i]][l + ShiftDepths(u)[i]]]
      BY <3>1
    <3> QED
      BY <3>2, <2>2, Zenon DEF ShiftAt
  <2> QED
    BY <2>1, <2>2
<1> HIDE DEF L
<1>2. 0 \in Good
  <2> DEFINE g == [u \in L(0) |-> ShiftAt(<<>>, u, dir)]
  <2>1. \A u \in L(0) : ShiftAt(<<>>, u, dir) = ShiftAt(g, u, dir)
    BY <1>1, NestingAssumption
  <2>2. Upto(g, 0)
    BY <2>1
  <2> QED
    BY <2>2
<1>3. ASSUME NEW n \in Good PROVE n + 1 \in Good
  <2> SUFFICES ASSUME n + 1 \in 0 .. MaxNesting PROVE \E f : Upto(f, n + 1)
    BY <1>3
  <2>1. n \in 0 .. MaxNesting /\ n + 1 > 0 /\ n + 1 - 1 = n
    BY <1>3, NestingAssumption
  <2>2. PICK f : Upto(f, n)
    BY <1>3, <2>1
  <2> DEFINE g == [u \in L(n + 1) |-> ShiftAt(f, u, dir)]
  <2>3. L(n) \subseteq L(n + 1)
    BY <2>1, LevelsRise DEF L
  <2>4. \A s \in L(n) : f[s] = g[s]
    BY <2>2, <2>3
  <2> HIDE DEF g
  <2>5. \A u \in L(n + 1) : ShiftAt(f, u, dir) = ShiftAt(g, u, dir)
    BY <1>1, <2>1, <2>4
  <2>6. Upto(g, n + 1)
    BY <2>5 DEF g
  <2> QED
    BY <2>6
<1>4. Good = Nat
  <2> HIDE DEF Good
  <2>1. Good \subseteq Nat
    BY DEF Good
  <2> QED
    BY <2>1, <1>2, <1>3, CountUp
<1>5. PICK f : Upto(f, MaxNesting)
  BY <1>4, NestingAssumption
<1>6. L(MaxNesting) = Term
  BY TermsOverLevels DEF L, Term
<1> QED
  BY <1>5, <1>6, Zenon DEF Shifted

\* shift of a variable or a global (local_t::shift).
LEMMA ShiftLeaf ==
  ASSUME NEW t \in Term, IsLeaf(t), NEW l \in Nat, NEW dir
  PROVE  Shift(t, l, dir) =
           IF t.k = "local" /\ t.index >= l THEN local(ShiftIndex(t.index, dir)) ELSE t
<1>1. Shifted(dir)[t] = ShiftAt(Shifted(dir), t, dir)
  BY ShiftedDef
<1>2. Shifted(dir)[t][l] = IF t.k = "local" /\ t.index >= l THEN local(ShiftIndex(t.index, dir)) ELSE t
  BY <1>1, Zenon DEF ShiftAt
<1> QED
  BY <1>2, ShiftIsShifted

\* shift of any other class: that of the subterms, under the binders that are there.
LEMMA ShiftNode ==
  ASSUME NEW t \in Term, ~IsLeaf(t), NEW l \in Nat, NEW dir
  PROVE  Shift(t, l, dir) =
           WithSub(t, [i \in DOMAIN t.sub |-> Shift(t.sub[i], l + Binds(t)[i], dir)])
<1>1. Shifted(dir)[t] = ShiftAt(Shifted(dir), t, dir)
  BY ShiftedDef
<1>2. t.k # "local"
  BY DEF IsLeaf
<1>3. Shifted(dir)[t][l] =
        WithSub(t, [i \in DOMAIN t.sub |-> Shifted(dir)[t.sub[i]][l + ShiftDepths(t)[i]]])
  BY <1>1, <1>2, Zenon DEF ShiftAt
<1>4. ShiftDepths(t) = Binds(t)
  BY TermShape, ShiftCountsBinders
<1>5. [i \in DOMAIN t.sub |-> Shift(t.sub[i], l + Binds(t)[i], dir)]
        = [i \in DOMAIN t.sub |-> Shifted(dir)[t.sub[i]][l + ShiftDepths(t)[i]]]
  BY <1>4, ShiftIsShifted
<1> QED
  BY <1>3, <1>5, ShiftIsShifted

(***************************************************************************)
(* What terms mean.                                                        *)
(***************************************************************************)

\* The meaning of a term, that of the subterms given by f
OpenAt(f, u, env) ==
  [b \in Nat |->
     IF u.k = "local"
     THEN IF u.index < b THEN u ELSE env[u.index - b + 1]
     ELSE IF IsLeaf(u) THEN u
     ELSE WithSub(u, [i \in DOMAIN u.sub |-> f[u.sub[i]][b + Binds(u)[i]]])]

\* The recursive function in Open
Opened(env) == CHOOSE open : open = [u \in Term |-> OpenAt(open, u, env)]

\* Open is the value of that function.
LEMMA OpenIsOpened ==
  ASSUME NEW t, NEW env, NEW b
  PROVE  Open(t, env, b) = Opened(env)[t][b]
BY DEF Open, Opened, OpenAt

\* Every term has a meaning in every environment (Open).
LEMMA OpenedDef ==
  ASSUME NEW env
  PROVE  Opened(env) = [u \in Term |-> OpenAt(Opened(env), u, env)]
<1> DEFINE L(n) == Levels(0 .. Word - 1)[n]
           Upto(f, n) == f = [u \in L(n) |-> OpenAt(f, u, env)]
           Good == {n \in Nat : n \in 0 .. MaxNesting => \E f : Upto(f, n)}
<1>1. ASSUME NEW n \in 0 .. MaxNesting, NEW f, NEW g, NEW u \in L(n),
             n > 0 => \A s \in L(n - 1) : f[s] = g[s]
      PROVE  OpenAt(f, u, env) = OpenAt(g, u, env)
  <2>1. CASE IsLeaf(u)
    BY <2>1 DEF OpenAt
  <2>2. CASE ~IsLeaf(u)
    <3>1. \A i \in DOMAIN u.sub : f[u.sub[i]] = g[u.sub[i]]
      BY <1>1, <2>2, LevelShape
    <3>2. \A b : [i \in DOMAIN u.sub |-> f[u.sub[i]][b + Binds(u)[i]]]
                    = [i \in DOMAIN u.sub |-> g[u.sub[i]][b + Binds(u)[i]]]
      BY <3>1
    <3> QED
      BY <3>2, <2>2, Zenon DEF OpenAt
  <2> QED
    BY <2>1, <2>2
<1> HIDE DEF L
<1>2. 0 \in Good
  <2> DEFINE g == [u \in L(0) |-> OpenAt(<<>>, u, env)]
  <2>1. \A u \in L(0) : OpenAt(<<>>, u, env) = OpenAt(g, u, env)
    BY <1>1, NestingAssumption
  <2>2. Upto(g, 0)
    BY <2>1
  <2> QED
    BY <2>2
<1>3. ASSUME NEW n \in Good PROVE n + 1 \in Good
  <2> SUFFICES ASSUME n + 1 \in 0 .. MaxNesting PROVE \E f : Upto(f, n + 1)
    BY <1>3
  <2>1. n \in 0 .. MaxNesting /\ n + 1 > 0 /\ n + 1 - 1 = n
    BY <1>3, NestingAssumption
  <2>2. PICK f : Upto(f, n)
    BY <1>3, <2>1
  <2> DEFINE g == [u \in L(n + 1) |-> OpenAt(f, u, env)]
  <2>3. L(n) \subseteq L(n + 1)
    BY <2>1, LevelsRise DEF L
  <2>4. \A s \in L(n) : f[s] = g[s]
    BY <2>2, <2>3
  <2> HIDE DEF g
  <2>5. \A u \in L(n + 1) : OpenAt(f, u, env) = OpenAt(g, u, env)
    BY <1>1, <2>1, <2>4
  <2>6. Upto(g, n + 1)
    BY <2>5 DEF g
  <2> QED
    BY <2>6
<1>4. Good = Nat
  <2> HIDE DEF Good
  <2>1. Good \subseteq Nat
    BY DEF Good
  <2> QED
    BY <2>1, <1>2, <1>3, CountUp
<1>5. PICK f : Upto(f, MaxNesting)
  BY <1>4, NestingAssumption
<1>6. L(MaxNesting) = Term
  BY TermsOverLevels DEF L, Term
<1> QED
  BY <1>5, <1>6, Zenon DEF Opened

\* What a variable and a global mean (Open).
LEMMA OpenLeaf ==
  ASSUME NEW t \in Term, IsLeaf(t), NEW b \in Nat, NEW env
  PROVE  Open(t, env, b) =
           IF t.k = "local" /\ ~(t.index < b) THEN env[t.index - b + 1] ELSE t
<1>1. Opened(env)[t] = OpenAt(Opened(env), t, env)
  BY OpenedDef
<1>2. Opened(env)[t][b] = IF t.k = "local" /\ ~(t.index < b) THEN env[t.index - b + 1] ELSE t
  BY <1>1, Zenon DEF OpenAt
<1> QED
  BY <1>2, OpenIsOpened

\* What any other term means: what its subterms do under its binders (Open).
LEMMA OpenNode ==
  ASSUME NEW t \in Term, ~IsLeaf(t), NEW b \in Nat, NEW env
  PROVE  Open(t, env, b) =
           WithSub(t, [i \in DOMAIN t.sub |-> Open(t.sub[i], env, b + Binds(t)[i])])
<1>1. Opened(env)[t] = OpenAt(Opened(env), t, env)
  BY OpenedDef
<1>2. t.k # "local"
  BY DEF IsLeaf
<1>3. Opened(env)[t][b] =
        WithSub(t, [i \in DOMAIN t.sub |-> Opened(env)[t.sub[i]][b + Binds(t)[i]]])
  BY <1>1, <1>2, Zenon DEF OpenAt
<1>4. [i \in DOMAIN t.sub |-> Open(t.sub[i], env, b + Binds(t)[i])]
        = [i \in DOMAIN t.sub |-> Opened(env)[t.sub[i]][b + Binds(t)[i]]]
  BY OpenIsOpened
<1> QED
  BY <1>3, <1>4, OpenIsOpened

(***************************************************************************)
(* Free variables.                                                         *)
(***************************************************************************)

\* The free variables of a term, those of the subterms given by f
FreeAt(f, u) ==
  [b \in Nat |->
     IF u.k = "local" THEN IF u.index >= b THEN {u.index - b} ELSE {}
     ELSE IF IsLeaf(u) THEN {}
     ELSE UNION {f[u.sub[i]][b + Binds(u)[i]] : i \in DOMAIN u.sub}]

\* The recursive function in FreeIn
FreeIndices == CHOOSE free : free = [u \in Term |-> FreeAt(free, u)]

\* FreeIn is the value of that function.
LEMMA FreeIsFree ==
  ASSUME NEW t, NEW b
  PROVE  FreeIn(t, b) = FreeIndices[t][b]
BY DEF FreeIn, FreeIndices, FreeAt

\* Every term has a set of free variables (FreeIn).
LEMMA FreeDef ==
  FreeIndices = [u \in Term |-> FreeAt(FreeIndices, u)]
<1> DEFINE L(n) == Levels(0 .. Word - 1)[n]
           Upto(f, n) == f = [u \in L(n) |-> FreeAt(f, u)]
           Good == {n \in Nat : n \in 0 .. MaxNesting => \E f : Upto(f, n)}
<1>1. ASSUME NEW n \in 0 .. MaxNesting, NEW f, NEW g, NEW u \in L(n),
             n > 0 => \A s \in L(n - 1) : f[s] = g[s]
      PROVE  FreeAt(f, u) = FreeAt(g, u)
  <2>1. CASE IsLeaf(u)
    BY <2>1 DEF FreeAt
  <2>2. CASE ~IsLeaf(u)
    <3>1. \A i \in DOMAIN u.sub : f[u.sub[i]] = g[u.sub[i]]
      BY <1>1, <2>2, LevelShape
    <3>2. \A b : {f[u.sub[i]][b + Binds(u)[i]] : i \in DOMAIN u.sub}
                    = {g[u.sub[i]][b + Binds(u)[i]] : i \in DOMAIN u.sub}
      BY <3>1
    <3> QED
      BY <3>2, <2>2, Zenon DEF FreeAt
  <2> QED
    BY <2>1, <2>2
<1> HIDE DEF L
<1>2. 0 \in Good
  <2> DEFINE g == [u \in L(0) |-> FreeAt(<<>>, u)]
  <2>1. \A u \in L(0) : FreeAt(<<>>, u) = FreeAt(g, u)
    BY <1>1, NestingAssumption
  <2>2. Upto(g, 0)
    BY <2>1
  <2> QED
    BY <2>2
<1>3. ASSUME NEW n \in Good PROVE n + 1 \in Good
  <2> SUFFICES ASSUME n + 1 \in 0 .. MaxNesting PROVE \E f : Upto(f, n + 1)
    BY <1>3
  <2>1. n \in 0 .. MaxNesting /\ n + 1 > 0 /\ n + 1 - 1 = n
    BY <1>3, NestingAssumption
  <2>2. PICK f : Upto(f, n)
    BY <1>3, <2>1
  <2> DEFINE g == [u \in L(n + 1) |-> FreeAt(f, u)]
  <2>3. L(n) \subseteq L(n + 1)
    BY <2>1, LevelsRise DEF L
  <2>4. \A s \in L(n) : f[s] = g[s]
    BY <2>2, <2>3
  <2> HIDE DEF g
  <2>5. \A u \in L(n + 1) : FreeAt(f, u) = FreeAt(g, u)
    BY <1>1, <2>1, <2>4
  <2>6. Upto(g, n + 1)
    BY <2>5 DEF g
  <2> QED
    BY <2>6
<1>4. Good = Nat
  <2> HIDE DEF Good
  <2>1. Good \subseteq Nat
    BY DEF Good
  <2> QED
    BY <2>1, <1>2, <1>3, CountUp
<1>5. PICK f : Upto(f, MaxNesting)
  BY <1>4, NestingAssumption
<1>6. L(MaxNesting) = Term
  BY TermsOverLevels DEF L, Term
<1> QED
  BY <1>5, <1>6, Zenon DEF FreeIndices

\* The free variables of a leaf (FreeIn).
LEMMA FreeLeaf ==
  ASSUME NEW t \in Term, IsLeaf(t), NEW b \in Nat
  PROVE  FreeIn(t, b) = IF t.k = "local" /\ t.index >= b THEN {t.index - b} ELSE {}
<1>1. FreeIndices[t] = FreeAt(FreeIndices, t)
  BY FreeDef
<1>2. FreeIndices[t][b] = IF t.k = "local" /\ t.index >= b THEN {t.index - b} ELSE {}
  BY <1>1, Zenon DEF FreeAt
<1> QED
  BY <1>2, FreeIsFree

\* The free variables of any other term: those of the subterms under its binders.
LEMMA FreeNode ==
  ASSUME NEW t \in Term, ~IsLeaf(t), NEW b \in Nat
  PROVE  FreeIn(t, b) = UNION {FreeIn(t.sub[i], b + Binds(t)[i]) : i \in DOMAIN t.sub}
<1>1. FreeIndices[t] = FreeAt(FreeIndices, t)
  BY FreeDef
<1>2. t.k # "local"
  BY DEF IsLeaf
<1>3. FreeIndices[t][b] = UNION {FreeIndices[t.sub[i]][b + Binds(t)[i]] : i \in DOMAIN t.sub}
  BY <1>1, <1>2, Zenon DEF FreeAt
<1>4. {FreeIndices[t.sub[i]][b + Binds(t)[i]] : i \in DOMAIN t.sub}
        = {FreeIn(t.sub[i], b + Binds(t)[i]) : i \in DOMAIN t.sub}
  BY FreeIsFree
<1> QED
  BY <1>3, <1>4, FreeIsFree

(***************************************************************************)
(* local_subst.                                                            *)
(***************************************************************************)

\* One call of visit_transform, as far as whether it returns a term
ChangesAt(f, u) ==
  [th \in Nat |->
     IF u.k = "local" THEN u.index >= th
     ELSE /\ ~IsLeaf(u)
          /\ \E i \in RebuildFor(u) : f[u.sub[i]][th + VisitDepths(u)[i]]]

\* The recursive function in Changes
Changed == CHOOSE changes : changes = [u \in Term |-> ChangesAt(changes, u)]

\* Changes is the value of that function.
LEMMA ChangesIsChanged ==
  ASSUME NEW t, NEW th
  PROVE  Changes(t, th) = Changed[t][th]
BY DEF Changes, Changed, ChangesAt

\* For every term visit_transform returns or does not return a term (Changes).
LEMMA ChangedDef ==
  Changed = [u \in Term |-> ChangesAt(Changed, u)]
<1> DEFINE L(n) == Levels(0 .. Word - 1)[n]
           Upto(f, n) == f = [u \in L(n) |-> ChangesAt(f, u)]
           Good == {n \in Nat : n \in 0 .. MaxNesting => \E f : Upto(f, n)}
<1>1. ASSUME NEW n \in 0 .. MaxNesting, NEW f, NEW g, NEW u \in L(n),
             n > 0 => \A s \in L(n - 1) : f[s] = g[s]
      PROVE  ChangesAt(f, u) = ChangesAt(g, u)
  <2>1. CASE IsLeaf(u)
    BY <2>1 DEF ChangesAt
  <2>2. CASE ~IsLeaf(u)
    <3>1. \A i \in DOMAIN u.sub : f[u.sub[i]] = g[u.sub[i]]
      BY <1>1, <2>2, LevelShape
    <3>2. RebuildFor(u) \subseteq DOMAIN u.sub
      BY <2>2, LevelShape, RebuildsSubterms DEF L
    <3>3. \A i \in RebuildFor(u) : f[u.sub[i]] = g[u.sub[i]]
      BY <3>1, <3>2
    <3>4. \A th : (\E i \in RebuildFor(u) : f[u.sub[i]][th + VisitDepths(u)[i]])
                  <=> (\E i \in RebuildFor(u) : g[u.sub[i]][th + VisitDepths(u)[i]])
      BY <3>3, Zenon
    <3> QED
      BY <3>4, <2>2, Zenon DEF ChangesAt
  <2> QED
    BY <2>1, <2>2
<1> HIDE DEF L
<1>2. 0 \in Good
  <2> DEFINE g == [u \in L(0) |-> ChangesAt(<<>>, u)]
  <2>1. \A u \in L(0) : ChangesAt(<<>>, u) = ChangesAt(g, u)
    BY <1>1, NestingAssumption
  <2>2. Upto(g, 0)
    BY <2>1
  <2> QED
    BY <2>2
<1>3. ASSUME NEW n \in Good PROVE n + 1 \in Good
  <2> SUFFICES ASSUME n + 1 \in 0 .. MaxNesting PROVE \E f : Upto(f, n + 1)
    BY <1>3
  <2>1. n \in 0 .. MaxNesting /\ n + 1 > 0 /\ n + 1 - 1 = n
    BY <1>3, NestingAssumption
  <2>2. PICK f : Upto(f, n)
    BY <1>3, <2>1
  <2> DEFINE g == [u \in L(n + 1) |-> ChangesAt(f, u)]
  <2>3. L(n) \subseteq L(n + 1)
    BY <2>1, LevelsRise DEF L
  <2>4. \A s \in L(n) : f[s] = g[s]
    BY <2>2, <2>3
  <2> HIDE DEF g
  <2>5. \A u \in L(n + 1) : ChangesAt(f, u) = ChangesAt(g, u)
    BY <1>1, <2>1, <2>4
  <2>6. Upto(g, n + 1)
    BY <2>5 DEF g
  <2> QED
    BY <2>6
<1>4. Good = Nat
  <2> HIDE DEF Good
  <2>1. Good \subseteq Nat
    BY DEF Good
  <2> QED
    BY <2>1, <1>2, <1>3, CountUp
<1>5. PICK f : Upto(f, MaxNesting)
  BY <1>4, NestingAssumption
<1>6. L(MaxNesting) = Term
  BY TermsOverLevels DEF L, Term
<1> QED
  BY <1>5, <1>6, Zenon DEF Changed

\* Of the leaves, local_subst changes the variables from its threshold on (Changes).
LEMMA ChangesLeaf ==
  ASSUME NEW t \in Term, IsLeaf(t), NEW th \in Nat
  PROVE  Changes(t, th) <=> t.k = "local" /\ t.index >= th
<1>1. Changed[t] = ChangesAt(Changed, t)
  BY ChangedDef
<1>2. t.k # "local" => Changed[t][th] = FALSE
  BY <1>1, Zenon DEF ChangesAt
<1>3. t.k = "local" => Changed[t][th] = (t.index >= th)
  BY <1>1, Zenon DEF ChangesAt
<1> QED
  BY <1>2, <1>3, ChangesIsChanged

\* Any other term is rebuilt when a subterm is that makes visit_transform rebuild it.
LEMMA ChangesNode ==
  ASSUME NEW t \in Term, ~IsLeaf(t), NEW th \in Nat
  PROVE  Changes(t, th) = \E i \in RebuildFor(t) : Changes(t.sub[i], th + VisitDepths(t)[i])
<1>1. Changed[t] = ChangesAt(Changed, t)
  BY ChangedDef
<1>2. t.k # "local"
  BY DEF IsLeaf
<1>3. Changed[t][th] = \E i \in RebuildFor(t) : Changed[t.sub[i]][th + VisitDepths(t)[i]]
  BY <1>1, <1>2, Zenon DEF ChangesAt
<1> QED
  BY <1>3, ChangesIsChanged, Zenon

\* One call of visit_transform with the visitor of local_subst, the calls for the
\* subterms given by f
VisitAt(f, u, index, subst) ==
  [depth \in Nat |->
     IF ~Changes(u, index + depth) THEN u
     ELSE IF u.k = "local" THEN HandleLocal(u.index, depth, index, subst)
     ELSE WithSub(u, [i \in DOMAIN u.sub |-> f[u.sub[i]][depth + VisitDepths(u)[i]]])]

\* The recursive function in LocalSubst
Visited(index, subst) == CHOOSE visit : visit = [u \in Term |-> VisitAt(visit, u, index, subst)]

\* visit_transform under depth locals that have been pushed
Visit(t, depth, index, subst) == Visited(index, subst)[t][depth]

\* local_subst is visit_transform with no local pushed.
LEMMA SubstIsVisit ==
  ASSUME NEW t, NEW index, NEW subst
  PROVE  LocalSubst(t, index, subst) = Visit(t, 0, index, subst)
BY DEF LocalSubst, Visit, Visited, VisitAt

\* visit_transform ends for every term: there is a function that does what its methods
\* do with the visitor of local_subst.
LEMMA VisitedDef ==
  ASSUME NEW index \in Nat, NEW subst
  PROVE  Visited(index, subst) = [u \in Term |-> VisitAt(Visited(index, subst), u, index, subst)]
<1> DEFINE L(n) == Levels(0 .. Word - 1)[n]
           Upto(f, n) == f = [u \in L(n) |-> VisitAt(f, u, index, subst)]
           Good == {n \in Nat : n \in 0 .. MaxNesting => \E f : Upto(f, n)}
<1>1. ASSUME NEW n \in 0 .. MaxNesting, NEW f, NEW g, NEW u \in L(n),
             n > 0 => \A s \in L(n - 1) : f[s] = g[s]
      PROVE  VisitAt(f, u, index, subst) = VisitAt(g, u, index, subst)
  <2>1. CASE IsLeaf(u)
    <3>1. u \in Term
      BY LevelsInTerms DEF L, Term
    <3>2. \A depth \in Nat : u.k # "local" => ~Changes(u, index + depth)
      BY <2>1, <3>1, ChangesLeaf
    <3>3. \A depth \in Nat : VisitAt(f, u, index, subst)[depth] = VisitAt(g, u, index, subst)[depth]
      BY <3>2, Zenon DEF VisitAt
    <3>4. \A h : VisitAt(h, u, index, subst) = [depth \in Nat |-> VisitAt(h, u, index, subst)[depth]]
      BY DEF VisitAt
    <3> QED
      BY <3>3, <3>4
  <2>2. CASE ~IsLeaf(u)
    <3>1. \A i \in DOMAIN u.sub : f[u.sub[i]] = g[u.sub[i]]
      BY <1>1, <2>2, LevelShape
    <3>2. \A depth : [i \in DOMAIN u.sub |-> f[u.sub[i]][depth + VisitDepths(u)[i]]]
                    = [i \in DOMAIN u.sub |-> g[u.sub[i]][depth + VisitDepths(u)[i]]]
      BY <3>1
    <3> QED
      BY <3>2, <2>2, Zenon DEF VisitAt
  <2> QED
    BY <2>1, <2>2
<1> HIDE DEF L
<1>2. 0 \in Good
  <2> DEFINE g == [u \in L(0) |-> VisitAt(<<>>, u, index, subst)]
  <2>1. \A u \in L(0) : VisitAt(<<>>, u, index, subst) = VisitAt(g, u, index, subst)
    BY <1>1, NestingAssumption
  <2>2. Upto(g, 0)
    BY <2>1
  <2> QED
    BY <2>2
<1>3. ASSUME NEW n \in Good PROVE n + 1 \in Good
  <2> SUFFICES ASSUME n + 1 \in 0 .. MaxNesting PROVE \E f : Upto(f, n + 1)
    BY <1>3
  <2>1. n \in 0 .. MaxNesting /\ n + 1 > 0 /\ n + 1 - 1 = n
    BY <1>3, NestingAssumption
  <2>2. PICK f : Upto(f, n)
    BY <1>3, <2>1
  <2> DEFINE g == [u \in L(n + 1) |-> VisitAt(f, u, index, subst)]
  <2>3. L(n) \subseteq L(n + 1)
    BY <2>1, LevelsRise DEF L
  <2>4. \A s \in L(n) : f[s] = g[s]
    BY <2>2, <2>3
  <2> HIDE DEF g
  <2>5. \A u \in L(n + 1) : VisitAt(f, u, index, subst) = VisitAt(g, u, index, subst)
    BY <1>1, <2>1, <2>4
  <2>6. Upto(g, n + 1)
    BY <2>5 DEF g
  <2> QED
    BY <2>6
<1>4. Good = Nat
  <2> HIDE DEF Good
  <2>1. Good \subseteq Nat
    BY DEF Good
  <2> QED
    BY <2>1, <1>2, <1>3, CountUp
<1>5. PICK f : Upto(f, MaxNesting)
  BY <1>4, NestingAssumption
<1>6. L(MaxNesting) = Term
  BY TermsOverLevels DEF L, Term
<1> QED
  BY <1>5, <1>6, Zenon DEF Visited

\* visit_transform leaves alone what does not change.
LEMMA VisitSame ==
  ASSUME NEW t \in Term, NEW index \in Nat, NEW subst, NEW depth \in Nat,
         ~Changes(t, index + depth)
  PROVE  Visit(t, depth, index, subst) = t
<1>1. Visited(index, subst)[t] = VisitAt(Visited(index, subst), t, index, subst)
  BY VisitedDef
<1> QED
  BY <1>1, Zenon DEF Visit, VisitAt

\* visit_transform asks handle_local for a variable that changes.
LEMMA VisitLocal ==
  ASSUME NEW t \in Term, NEW index \in Nat, NEW subst, NEW depth \in Nat,
         Changes(t, index + depth), t.k = "local"
  PROVE  Visit(t, depth, index, subst) = HandleLocal(t.index, depth, index, subst)
<1>1. Visited(index, subst)[t] = VisitAt(Visited(index, subst), t, index, subst)
  BY VisitedDef
<1> QED
  BY <1>1, Zenon DEF Visit, VisitAt

\* visit_transform of any other term that changes: that of the subterms, with the locals
\* pushed that it counts.
LEMMA VisitNode ==
  ASSUME NEW t \in Term, NEW index \in Nat, NEW subst, NEW depth \in Nat,
         Changes(t, index + depth), ~IsLeaf(t)
  PROVE  Visit(t, depth, index, subst) =
           WithSub(t, [i \in DOMAIN t.sub |-> Visit(t.sub[i], depth + VisitDepths(t)[i], index, subst)])
<1>1. Visited(index, subst)[t] = VisitAt(Visited(index, subst), t, index, subst)
  BY VisitedDef
<1>2. t.k # "local"
  BY DEF IsLeaf
<1> QED
  BY <1>1, <1>2, Zenon DEF Visit, VisitAt

(***************************************************************************)
(* The terms in which local_subst counts right.                            *)
(***************************************************************************)

\* Whether visit_transform counts the locals of a term right, its subterms given by f
CountedAt(f, u) ==
  IsLeaf(u) \/ /\ u.k = "match" =>
                    /\ Free(u.sub[1]) = {}
                    /\ \A i \in DOMAIN u.nargs : u.nargs[i] > 0 => Free(u.sub[i + 2]) = {}
               /\ u.k = "let" => Free(u.sub[2]) = {}
               /\ \A i \in DOMAIN u.sub : f[u.sub[i]]

\* The recursive function in Counted
CountedTerms == CHOOSE counted : counted = [u \in Term |-> CountedAt(counted, u)]

\* Counted is the value of that function.
LEMMA CountedIsCounted ==
  ASSUME NEW t
  PROVE  Counted(t) = CountedTerms[t]
BY DEF Counted, CountedTerms, CountedAt

\* Every term is Counted or is not.
LEMMA CountedDef ==
  CountedTerms = [u \in Term |-> CountedAt(CountedTerms, u)]
<1> DEFINE L(n) == Levels(0 .. Word - 1)[n]
           Upto(f, n) == f = [u \in L(n) |-> CountedAt(f, u)]
           Good == {n \in Nat : n \in 0 .. MaxNesting => \E f : Upto(f, n)}
<1>1. ASSUME NEW n \in 0 .. MaxNesting, NEW f, NEW g, NEW u \in L(n),
             n > 0 => \A s \in L(n - 1) : f[s] = g[s]
      PROVE  CountedAt(f, u) = CountedAt(g, u)
  <2>1. CASE IsLeaf(u)
    BY <2>1 DEF CountedAt
  <2>2. CASE ~IsLeaf(u)
    <3>1. \A i \in DOMAIN u.sub : f[u.sub[i]] = g[u.sub[i]]
      BY <1>1, <2>2, LevelShape
    <3> QED
      BY <3>1, <2>2, Zenon DEF CountedAt
  <2> QED
    BY <2>1, <2>2
<1> HIDE DEF L
<1>2. 0 \in Good
  <2> DEFINE g == [u \in L(0) |-> CountedAt(<<>>, u)]
  <2>1. \A u \in L(0) : CountedAt(<<>>, u) = CountedAt(g, u)
    BY <1>1, NestingAssumption
  <2>2. Upto(g, 0)
    BY <2>1
  <2> QED
    BY <2>2
<1>3. ASSUME NEW n \in Good PROVE n + 1 \in Good
  <2> SUFFICES ASSUME n + 1 \in 0 .. MaxNesting PROVE \E f : Upto(f, n + 1)
    BY <1>3
  <2>1. n \in 0 .. MaxNesting /\ n + 1 > 0 /\ n + 1 - 1 = n
    BY <1>3, NestingAssumption
  <2>2. PICK f : Upto(f, n)
    BY <1>3, <2>1
  <2> DEFINE g == [u \in L(n + 1) |-> CountedAt(f, u)]
  <2>3. L(n) \subseteq L(n + 1)
    BY <2>1, LevelsRise DEF L
  <2>4. \A s \in L(n) : f[s] = g[s]
    BY <2>2, <2>3
  <2> HIDE DEF g
  <2>5. \A u \in L(n + 1) : CountedAt(f, u) = CountedAt(g, u)
    BY <1>1, <2>1, <2>4
  <2>6. Upto(g, n + 1)
    BY <2>5 DEF g
  <2> QED
    BY <2>6
<1>4. Good = Nat
  <2> HIDE DEF Good
  <2>1. Good \subseteq Nat
    BY DEF Good
  <2> QED
    BY <2>1, <1>2, <1>3, CountUp
<1>5. PICK f : Upto(f, MaxNesting)
  BY <1>4, NestingAssumption
<1>6. L(MaxNesting) = Term
  BY TermsOverLevels DEF L, Term
<1> QED
  BY <1>5, <1>6, Zenon DEF CountedTerms

\* In a Counted term each subterm is Counted, and has no free variable or is counted
\* right by visit_transform and looked at when it decides whether to rebuild.
LEMMA CountedSub ==
  ASSUME NEW t \in Term, ~IsLeaf(t), Counted(t), NEW i \in DOMAIN t.sub
  PROVE  /\ Counted(t.sub[i])
         /\ Free(t.sub[i]) = {} \/ (i \in RebuildFor(t) /\ VisitDepths(t)[i] = Binds(t)[i])
<1>1. CountedTerms[t] = CountedAt(CountedTerms, t)
  BY CountedDef
<1>2. CountedAt(CountedTerms, t)
  BY <1>1, CountedIsCounted
<1>3. Counted(t.sub[i])
  BY <1>2, CountedIsCounted, Zenon DEF CountedAt
<1>4. t \in Nodes(Term) /\ DOMAIN t.sub = 1 .. Len(t.sub) /\ Len(t.sub) \in Nat
  <2>1. t \in Nodes(Term) /\ t.sub \in Seq(Term)
    BY TermShape
  <2> QED
    BY <2>1
<1>5. CASE t.k = "match"
  <2>1. RebuildFor(t) = DOMAIN t.sub
    BY <1>5 DEF RebuildFor
  <2>2. Binds(t)[i] = 0
    BY <1>4, <1>5, BindsShape
  <2>3. t.nargs \in Seq(Nat) /\ Len(t.sub) = Len(t.nargs) + 2
    BY <1>4, <1>5, NodeShape
  <2>4. CASE i = 1
    <3>1. Free(t.sub[1]) = {}
      BY <1>2, <1>5, Zenon DEF CountedAt
    <3> QED
      BY <1>3, <2>4, <3>1
  <2>5. CASE i = 2
    <3>1. VisitDepths(t)[2] = 0
      BY <1>4, <1>5, VisitCounts
    <3> QED
      BY <1>3, <2>1, <2>2, <2>5, <3>1
  <2>6. CASE i > 2
    <3>1. i - 2 \in DOMAIN t.nargs /\ i - 2 + 2 = i
      BY <1>4, <2>3, <2>6
    <3>2. t.nargs[i - 2] > 0 => Free(t.sub[i - 2 + 2]) = {}
      BY <1>2, <1>5, <3>1, Zenon DEF CountedAt
    <3>3. VisitDepths(t)[i - 2 + 2] = t.nargs[i - 2]
      BY <1>4, <1>5, <3>1, VisitCounts
    <3>4. t.nargs[i - 2] \in Nat
      BY <2>3, <3>1
    <3>5. t.nargs[i - 2] = 0 => VisitDepths(t)[i] = 0
      BY <3>1, <3>3
    <3>6. t.nargs[i - 2] # 0 => Free(t.sub[i]) = {}
      BY <3>1, <3>2, <3>4
    <3> QED
      BY <1>3, <2>1, <2>2, <3>5, <3>6
  <2> QED
    BY <1>3, <1>4, <2>4, <2>5, <2>6
<1>6. CASE t.k = "let"
  <2>1. i \in 1 .. 3
    BY <1>4, <1>6, NodeShape
  <2>2. VisitDepths(t) = Binds(t)
    BY <1>4, <1>6, VisitCounts
  <2>3. i = 2 => Free(t.sub[i]) = {}
    BY <1>2, <1>6 DEF CountedAt
  <2>4. i # 2 => i \in RebuildFor(t)
    BY <1>6, <2>1 DEF RebuildFor
  <2> QED
    BY <1>3, <2>2, <2>3, <2>4
<1>7. CASE t.k # "match" /\ t.k # "let"
  <2>1. RebuildFor(t) = DOMAIN t.sub
    BY <1>7 DEF RebuildFor
  <2>2. VisitDepths(t) = Binds(t)
    BY <1>4, <1>7, VisitCounts
  <2> QED
    BY <1>3, <2>1, <2>2
<1> QED
  BY <1>5, <1>6, <1>7

(***************************************************************************)
(* What shift returns, and what that means.                                *)
(***************************************************************************)

\* Index arithmetic modulo the number of values of size_t stays in size_t, and is that of
\* integers as long as it does not wrap around (local_t::shift).
LEMMA ShiftIndexRange ==
  ASSUME NEW i \in Int, NEW dir \in Int
  PROVE  /\ ShiftIndex(i, dir) \in 0 .. Word - 1
         /\ i + dir \in 0 .. Word - 1 => ShiftIndex(i, dir) = i + dir
<1>1. \A a \in Int, w \in Nat \ {0} : a % w \in 0 .. w - 1
  OBVIOUS
<1>2. \A a \in Int, w \in Nat \ {0} : a \in 0 .. w - 1 => a % w = a
  OBVIOUS
<1>3. i + dir \in Int
  OBVIOUS
<1> QED
  BY <1>1, <1>2, <1>3, WordAssumption DEF ShiftIndex

\* shift does not change how deep a term is nested, and its indices are the old ones or
\* shifted ones (shift).
LEMMA ShiftInLevel ==
  ASSUME NEW I \in SUBSET (0 .. Word - 1), NEW J, NEW dir,
         \A index \in I : index \in J /\ ShiftIndex(index, dir) \in J,
         NEW n \in 0 .. MaxNesting, NEW t \in Levels(I)[n], NEW l \in Nat
  PROVE  Shift(t, l, dir) \in Levels(J)[n]
<1> DEFINE Good == [m \in 0 .. MaxNesting |->
                      {u \in Levels(I)[m] : \A limit \in Nat : Shift(u, limit, dir) \in Levels(J)[m]}]
<1>1. \A m \in 0 .. MaxNesting : Levels(I)[m] \subseteq Term
  BY LevelsInTerms, TermsWiden DEF Term
<1>2. ASSUME NEW m \in 0 .. MaxNesting, NEW u \in Leaves(I) PROVE u \in Good[m]
  <2>1. u \in Levels(I)[m] /\ u \in Term /\ IsLeaf(u)
    BY <1>1, LevelsRise DEF Leaves, IsLeaf
  <2>2. ASSUME NEW limit \in Nat PROVE Shift(u, limit, dir) \in Leaves(J)
    <3>1. CASE u.k = "local" /\ u.index >= limit
      <4>1. u.index \in I
        BY <3>1 DEF Leaves
      <4>2. Shift(u, limit, dir) = local(ShiftIndex(u.index, dir))
        BY <2>1, <3>1, ShiftLeaf
      <4>3. ShiftIndex(u.index, dir) \in J
        BY <4>1
      <4> QED
        BY <4>2, <4>3 DEF Leaves, local
    <3>2. CASE ~(u.k = "local" /\ u.index >= limit)
      <4>1. Shift(u, limit, dir) = u
        BY <2>1, <3>2, ShiftLeaf, Zenon
      <4> QED
        BY <4>1 DEF Leaves
    <3> QED
      BY <3>1, <3>2
  <2>3. \A limit \in Nat : Shift(u, limit, dir) \in Levels(J)[m]
    BY <2>2, LevelsRise
  <2> QED
    BY <2>1, <2>3
<1>3. ASSUME NEW m \in 1 .. MaxNesting, NEW u \in Nodes(Levels(I)[m - 1]),
             \A i \in DOMAIN u.sub : u.sub[i] \in Good[m - 1]
      PROVE  u \in Good[m]
  <2>1. m - 1 \in 0 .. MaxNesting /\ m \in 0 .. MaxNesting /\ m > 0
    BY NestingAssumption
  <2>2. u \in Levels(I)[m] /\ u \in Term
    BY <1>1, <2>1, LevelsRise
  <2>3. ~IsLeaf(u) /\ u.sub \in Seq(Levels(I)[m - 1]) /\ Binds(u) \in [DOMAIN u.sub -> Nat]
    BY NodeShape, BindsShape
  <2>4. ASSUME NEW limit \in Nat PROVE Shift(u, limit, dir) \in Levels(J)[m]
    <3> DEFINE s == [i \in DOMAIN u.sub |-> Shift(u.sub[i], limit + Binds(u)[i], dir)]
    <3>1. \A i \in DOMAIN u.sub : s[i] \in Levels(J)[m - 1]
      BY <1>3, <2>1, <2>3
    <3>2. s \in Seq(Levels(J)[m - 1]) /\ Len(s) = Len(u.sub)
      <4>1. DOMAIN u.sub = 1 .. Len(u.sub) /\ Len(u.sub) \in Nat
        BY <2>3
      <4>2. s \in [1 .. Len(u.sub) -> Levels(J)[m - 1]]
        BY <3>1, <4>1
      <4> HIDE DEF s
      <4> QED
        BY <4>1, <4>2, FixedSeq
    <3> HIDE DEF s
    <3>3. WithSub(u, s) \in Nodes(Levels(J)[m - 1])
      BY <3>2, WithSubShape
    <3>4. Shift(u, limit, dir) = WithSub(u, s)
      BY <2>2, <2>3, ShiftNode DEF s
    <3> QED
      BY <3>3, <3>4, <2>1, LevelsRise
  <2> QED
    BY <2>1, <2>2, <2>4
<1> HIDE DEF Good
<1>4. Levels(I)[n] \subseteq Good[n]
  BY <1>2, <1>3, LevelInduction
<1> QED
  BY <1>4 DEF Good

\* shift returns a term, whatever it is asked for (shift).
LEMMA ShiftInTerm ==
  ASSUME NEW t \in Term, NEW l \in Nat, NEW dir \in Int
  PROVE  Shift(t, l, dir) \in Term
<1> DEFINE I == 0 .. Word - 1
<1>1. \A index \in I : index \in I /\ ShiftIndex(index, dir) \in I
  BY ShiftIndexRange, WordAssumption
<1>2. MaxNesting \in 0 .. MaxNesting /\ t \in Levels(I)[MaxNesting]
  BY NestingAssumption, TermsOverLevels DEF Term
<1> HIDE DEF I
<1>3. I \in SUBSET (0 .. Word - 1)
  BY DEF I
<1>4. Shift(t, l, dir) \in Levels(I)[MaxNesting]
  BY <1>1, <1>2, <1>3, ShiftInLevel
<1> QED
  BY <1>4, TermsOverLevels DEF I, Term

\* What shift returns for a term that is no leaf: the same construct of shifted subterms.
LEMMA ShiftedNode ==
  ASSUME NEW t \in Term, ~IsLeaf(t), NEW l \in Nat, NEW dir \in Int
  PROVE  /\ Shift(t, l, dir) \in Term
         /\ ~IsLeaf(Shift(t, l, dir))
         /\ DOMAIN Shift(t, l, dir).sub = DOMAIN t.sub
         /\ \A i \in DOMAIN t.sub : Shift(t, l, dir).sub[i] = Shift(t.sub[i], l + Binds(t)[i], dir)
         /\ Binds(Shift(t, l, dir)) = Binds(t)
         /\ \A r : WithSub(Shift(t, l, dir), r) = WithSub(t, r)
<1> DEFINE s == [i \in DOMAIN t.sub |-> Shift(t.sub[i], l + Binds(t)[i], dir)]
<1>1. t \in Nodes(Term) /\ t.sub \in Seq(Term) /\ Binds(t) \in [DOMAIN t.sub -> Nat]
  BY TermShape, BindsShape
<1>2. DOMAIN t.sub = 1 .. Len(t.sub) /\ Len(t.sub) \in Nat
  BY <1>1
<1>3. ASSUME NEW i \in DOMAIN t.sub PROVE s[i] \in Term
  <2>1. l + Binds(t)[i] \in Nat /\ t.sub[i] \in Term
    BY <1>1
  <2> QED
    BY <2>1, ShiftInTerm
<1>4. s \in [1 .. Len(t.sub) -> Term]
  BY <1>2, <1>3
<1>5. Shift(t, l, dir) = WithSub(t, s)
  BY ShiftNode
<1>6. \A i \in DOMAIN t.sub : s[i] = Shift(t.sub[i], l + Binds(t)[i], dir)
  OBVIOUS
<1> HIDE DEF s
<1>7. s \in Seq(Term) /\ Len(s) = Len(t.sub)
  BY <1>2, <1>4, FixedSeq
<1>8. WithSub(t, s).sub = s /\ WithSub(t, s).k = t.k
  BY <1>1, <1>7, WithSubShape
<1>9. Binds(WithSub(t, s)) = Binds(t) /\ \A r : WithSub(WithSub(t, s), r) = WithSub(t, r)
  BY <1>1, <1>7, RebuiltNode
<1>10. DOMAIN s = DOMAIN t.sub
  BY <1>2, <1>4
<1> QED
  BY <1>5, <1>6, <1>8, <1>9, <1>10, ShiftInTerm DEF IsLeaf

\* What a shifted term means, by what its shifted subterms do (shift, Open).
LEMMA OpenShiftedNode ==
  ASSUME NEW t \in Term, ~IsLeaf(t), NEW l \in Nat, NEW dir \in Int, NEW b \in Nat, NEW env
  PROVE  Open(Shift(t, l, dir), env, b) =
           WithSub(t, [i \in DOMAIN t.sub |->
                         Open(Shift(t.sub[i], l + Binds(t)[i], dir), env, b + Binds(t)[i])])
<1> DEFINE v == Shift(t, l, dir)
<1>1. /\ v \in Term /\ ~IsLeaf(v) /\ DOMAIN v.sub = DOMAIN t.sub /\ Binds(v) = Binds(t)
      /\ \A i \in DOMAIN t.sub : v.sub[i] = Shift(t.sub[i], l + Binds(t)[i], dir)
      /\ \A r : WithSub(v, r) = WithSub(t, r)
  BY ShiftedNode, Zenon
<1> HIDE DEF v
<1>2. Open(v, env, b) = WithSub(v, [i \in DOMAIN v.sub |-> Open(v.sub[i], env, b + Binds(v)[i])])
  BY <1>1, OpenNode
<1>3. [i \in DOMAIN v.sub |-> Open(v.sub[i], env, b + Binds(v)[i])]
        = [i \in DOMAIN t.sub |-> Open(Shift(t.sub[i], l + Binds(t)[i], dir), env, b + Binds(t)[i])]
  BY <1>1
<1>4. Open(v, env, b) = WithSub(t, [i \in DOMAIN t.sub |->
                         Open(Shift(t.sub[i], l + Binds(t)[i], dir), env, b + Binds(t)[i])])
  BY <1>1, <1>2, <1>3, Zenon
<1> QED
  BY <1>4 DEF v

\* room is env with dir more entries at limit, as far as m variables of env go
HasRoom(room, env, limit, dir, m) ==
  /\ \A j \in 1 .. limit : room[j] = env[j]
  /\ \A j \in limit + 1 .. m : room[j + dir] = env[j]

\* A shifted term means in the larger environment what the term meant (shift).  b is the
\* number of binders around the term.
THEOREM ShiftedMeans ==
  ASSUME NEW m \in Nat, NEW dir \in Nat, m + dir <= Word, NEW limit \in Nat,
         NEW env, NEW room, HasRoom(room, env, limit, dir, m),
         NEW t \in TermsOver(0 .. m - 1), NEW b \in Nat
  PROVE  Open(Shift(t, limit + b, dir), room, b) = Open(t, env, b)
<1> DEFINE Good == {u \in TermsOver(0 .. m - 1) :
                      \A d \in Nat : Open(Shift(u, limit + d, dir), room, d) = Open(u, env, d)}
<1>1. TermsOver(0 .. m - 1) \subseteq Term
  <2>1. 0 .. m - 1 \subseteq 0 .. Word - 1
    BY WordAssumption
  <2> QED
    BY <2>1, TermsWiden DEF Term
<1>2. ASSUME NEW u \in Leaves(0 .. m - 1) PROVE u \in Good
  <2>1. u \in TermsOver(0 .. m - 1) /\ u \in Term /\ IsLeaf(u)
    BY <1>1, LeavesAreTerms DEF Leaves, IsLeaf
  <2>2. ASSUME NEW d \in Nat
        PROVE  Open(Shift(u, limit + d, dir), room, d) = Open(u, env, d)
    <3>1. CASE u.k = "local" /\ u.index >= limit + d
      <4>1. u.index \in 0 .. m - 1
        BY <3>1 DEF Leaves
      <4>10. u.index \in Int /\ dir \in Int /\ u.index + dir \in 0 .. Word - 1
        BY <4>1, WordAssumption
      <4>2. ShiftIndex(u.index, dir) = u.index + dir
        BY <4>10, ShiftIndexRange
      <4>3. Shift(u, limit + d, dir) = local(u.index + dir)
        BY <2>1, <3>1, <4>2, ShiftLeaf
      <4>4. local(u.index + dir) \in Term
        BY <2>1, <4>3, ShiftInTerm
      <4>5. /\ IsLeaf(local(u.index + dir)) /\ local(u.index + dir).k = "local"
            /\ local(u.index + dir).index = u.index + dir
        BY DEF IsLeaf, local
      <4>6. Open(local(u.index + dir), room, d) = room[u.index + dir - d + 1]
        <5> DEFINE v == local(u.index + dir)
        <5>1. v \in Term /\ IsLeaf(v) /\ v.k = "local" /\ v.index = u.index + dir
          BY <4>4, <4>5
        <5> HIDE DEF v
        <5>2. ~(v.index < d)
          BY <3>1, <4>1, <5>1
        <5>3. Open(v, room, d) = room[v.index - d + 1]
          BY <5>1, <5>2, OpenLeaf
        <5>5. v.index - d + 1 = u.index + dir - d + 1
          BY <4>1, <5>1
        <5>4. Open(v, room, d) = room[u.index + dir - d + 1]
          BY <5>3, <5>5, Zenon
        <5> QED
          BY <5>4 DEF v
      <4>7. Open(u, env, d) = env[u.index - d + 1]
        BY <2>1, <3>1, <4>1, OpenLeaf
      <4>8. u.index - d + 1 \in limit + 1 .. m /\ u.index + dir - d + 1 = u.index - d + 1 + dir
        BY <3>1, <4>1
      <4> QED
        BY <4>3, <4>6, <4>7, <4>8 DEF HasRoom
    <3>2. CASE u.k = "local" /\ ~(u.index >= limit + d)
      <4>1. u.index \in 0 .. m - 1
        BY <3>2 DEF Leaves
      <4>2. Shift(u, limit + d, dir) = u
        BY <2>1, <3>2, ShiftLeaf
      <4>3. CASE u.index < d
        BY <2>1, <4>2, <4>3, OpenLeaf
      <4>4. CASE ~(u.index < d)
        <5>1. u.index - d + 1 \in 1 .. limit
          BY <3>2, <4>1, <4>4
        <5> QED
          BY <2>1, <3>2, <4>2, <4>4, <5>1, OpenLeaf DEF HasRoom
      <4> QED
        BY <4>3, <4>4
    <3>3. CASE u.k # "local"
      BY <2>1, <3>3, ShiftLeaf, OpenLeaf
    <3> QED
      BY <3>1, <3>2, <3>3
  <2> QED
    BY <2>1, <2>2
<1>3. ASSUME NEW u \in Nodes(TermsOver(0 .. m - 1)) \cap TermsOver(0 .. m - 1),
             \A i \in DOMAIN u.sub : u.sub[i] \in Good
      PROVE  u \in Good
  <2>1. u \in Term /\ ~IsLeaf(u) /\ u.sub \in Seq(TermsOver(0 .. m - 1))
          /\ Binds(u) \in [DOMAIN u.sub -> Nat]
    BY <1>1, <1>3, NodeShape, BindsShape
  <2>2. ASSUME NEW d \in Nat
        PROVE  Open(Shift(u, limit + d, dir), room, d) = Open(u, env, d)
    <3>1. Open(Shift(u, limit + d, dir), room, d) =
            WithSub(u, [i \in DOMAIN u.sub |->
              Open(Shift(u.sub[i], limit + d + Binds(u)[i], dir), room, d + Binds(u)[i])])
      <4>1. limit + d \in Nat /\ dir \in Int
        OBVIOUS
      <4> QED
        BY <2>1, <4>1, OpenShiftedNode
    <3>2. ASSUME NEW i \in DOMAIN u.sub
          PROVE  Open(Shift(u.sub[i], limit + d + Binds(u)[i], dir), room, d + Binds(u)[i])
                   = Open(u.sub[i], env, d + Binds(u)[i])
      <4>1. d + Binds(u)[i] \in Nat /\ limit + d + Binds(u)[i] = limit + (d + Binds(u)[i])
        BY <2>1
      <4> QED
        BY <1>3, <4>1
    <3>3. [i \in DOMAIN u.sub |->
              Open(Shift(u.sub[i], limit + d + Binds(u)[i], dir), room, d + Binds(u)[i])]
            = [i \in DOMAIN u.sub |-> Open(u.sub[i], env, d + Binds(u)[i])]
      BY <3>2
    <3>4. Open(u, env, d) = WithSub(u, [i \in DOMAIN u.sub |-> Open(u.sub[i], env, d + Binds(u)[i])])
      BY <2>1, OpenNode
    <3> QED
      BY <3>1, <3>3, <3>4, Zenon
  <2> QED
    BY <1>3, <2>2
<1> QED
  <2> HIDE DEF Good
  <2>1. TermsOver(0 .. m - 1) \subseteq Good
    BY <1>2, <1>3, TermInduction
  <2> QED
    BY <2>1 DEF Good

\* shift twice of a term that is no leaf: that of the subterms twice (shift).
LEMMA ShiftShiftedNode ==
  ASSUME NEW t \in Term, ~IsLeaf(t), NEW l \in Nat, NEW dir \in Int, NEW l2 \in Nat, NEW dir2
  PROVE  Shift(Shift(t, l, dir), l2, dir2) =
           WithSub(t, [i \in DOMAIN t.sub |->
                         Shift(Shift(t.sub[i], l + Binds(t)[i], dir), l2 + Binds(t)[i], dir2)])
<1> DEFINE v == Shift(t, l, dir)
<1>1. /\ v \in Term /\ ~IsLeaf(v) /\ DOMAIN v.sub = DOMAIN t.sub /\ Binds(v) = Binds(t)
      /\ \A i \in DOMAIN t.sub : v.sub[i] = Shift(t.sub[i], l + Binds(t)[i], dir)
      /\ \A r : WithSub(v, r) = WithSub(t, r)
  BY ShiftedNode, Zenon
<1> HIDE DEF v
<1>2. Shift(v, l2, dir2) = WithSub(v, [i \in DOMAIN v.sub |-> Shift(v.sub[i], l2 + Binds(v)[i], dir2)])
  BY <1>1, ShiftNode
<1>3. [i \in DOMAIN v.sub |-> Shift(v.sub[i], l2 + Binds(v)[i], dir2)]
        = [i \in DOMAIN t.sub |-> Shift(Shift(t.sub[i], l + Binds(t)[i], dir), l2 + Binds(t)[i], dir2)]
  BY <1>1
<1>4. Shift(v, l2, dir2) = WithSub(t, [i \in DOMAIN t.sub |->
                         Shift(Shift(t.sub[i], l + Binds(t)[i], dir), l2 + Binds(t)[i], dir2)])
  BY <1>1, <1>2, <1>3, Zenon
<1> QED
  BY <1>4 DEF v

\* shift(limit, -dir) takes back shift(limit, dir), if no index has wrapped around.
THEOREM ShiftUndone ==
  ASSUME NEW m \in Nat, NEW dir \in Nat, m + dir <= Word,
         NEW t \in TermsOver(0 .. m - 1), NEW l \in Nat
  PROVE  Shift(Shift(t, l, dir), l, -dir) = t
<1> DEFINE Good == {u \in TermsOver(0 .. m - 1) :
                      \A d \in Nat : Shift(Shift(u, d, dir), d, -dir) = u}
<1>1. TermsOver(0 .. m - 1) \subseteq Term
  <2>1. m <= Word
    BY WordAssumption
  <2> QED
    BY <2>1, SmallIndices
<1>2. ASSUME NEW u \in Leaves(0 .. m - 1) PROVE u \in Good
  <2>1. u \in TermsOver(0 .. m - 1) /\ u \in Term /\ IsLeaf(u)
    BY <1>1, LeavesAreTerms DEF Leaves, IsLeaf
  <2>2. ASSUME NEW d \in Nat
        PROVE  Shift(Shift(u, d, dir), d, -dir) = u
    <3>1. CASE u.k = "local" /\ u.index >= d
      <4> DEFINE v == local(u.index + dir)
      <4>1. u.index \in 0 .. m - 1 /\ u = local(u.index)
        BY <3>1 DEF Leaves, local
      <4>10. u.index \in Int /\ dir \in Int /\ u.index + dir \in 0 .. Word - 1
        BY <4>1, WordAssumption
      <4>2. ShiftIndex(u.index, dir) = u.index + dir
        BY <4>10, ShiftIndexRange
      <4>3. Shift(u, d, dir) = v
        BY <2>1, <3>1, <4>2, ShiftLeaf
      <4>4. v \in Term
        BY <2>1, <4>3, ShiftInTerm
      <4>5. IsLeaf(v) /\ v.k = "local" /\ v.index = u.index + dir
        BY DEF IsLeaf, local
      <4> HIDE DEF v
      <4>6. v.index >= d
        BY <3>1, <4>1, <4>5
      <4>7. Shift(v, d, -dir) = local(ShiftIndex(v.index, -dir))
        BY <4>4, <4>5, <4>6, ShiftLeaf
      <4>8. v.index + (-dir) = u.index /\ v.index \in Int /\ -dir \in Int /\ u.index \in 0 .. Word - 1
        BY <4>1, <4>5, WordAssumption
      <4>9. ShiftIndex(v.index, -dir) = u.index
        BY <4>8, ShiftIndexRange
      <4> QED
        BY <4>1, <4>3, <4>7, <4>9
    <3>2. CASE ~(u.k = "local" /\ u.index >= d)
      <4>1. \A k : Shift(u, d, k) = u
        BY <2>1, <3>2, ShiftLeaf, Zenon
      <4> QED
        BY <4>1
    <3> QED
      BY <3>1, <3>2
  <2> QED
    BY <2>1, <2>2
<1>3. ASSUME NEW u \in Nodes(TermsOver(0 .. m - 1)) \cap TermsOver(0 .. m - 1),
             \A i \in DOMAIN u.sub : u.sub[i] \in Good
      PROVE  u \in Good
  <2>1. u \in Term /\ ~IsLeaf(u) /\ u.sub \in Seq(TermsOver(0 .. m - 1))
          /\ Binds(u) \in [DOMAIN u.sub -> Nat] /\ WithSub(u, u.sub) = u
    BY <1>1, <1>3, NodeShape, BindsShape, RebuiltNode
  <2>2. ASSUME NEW d \in Nat
        PROVE  Shift(Shift(u, d, dir), d, -dir) = u
    <3>1. Shift(Shift(u, d, dir), d, -dir) =
            WithSub(u, [i \in DOMAIN u.sub |->
              Shift(Shift(u.sub[i], d + Binds(u)[i], dir), d + Binds(u)[i], -dir)])
      BY <2>1, ShiftShiftedNode
    <3>2. ASSUME NEW i \in DOMAIN u.sub
          PROVE  Shift(Shift(u.sub[i], d + Binds(u)[i], dir), d + Binds(u)[i], -dir) = u.sub[i]
      <4>1. d + Binds(u)[i] \in Nat
        BY <2>1
      <4> QED
        BY <1>3, <4>1
    <3>3. [i \in DOMAIN u.sub |->
             Shift(Shift(u.sub[i], d + Binds(u)[i], dir), d + Binds(u)[i], -dir)] = u.sub
      BY <2>1, <3>2
    <3> QED
      BY <2>1, <3>1, <3>3
  <2> QED
    BY <1>3, <2>2
<1> QED
  <2> HIDE DEF Good
  <2>1. TermsOver(0 .. m - 1) \subseteq Good
    BY <1>2, <1>3, TermInduction
  <2> QED
    BY <2>1 DEF Good

\* A term that is shifted by the binders it is put under means there what it meant
\* outside (the substitutes in handle_local).
LEMMA ShiftedUnder ==
  ASSUME NEW k \in Nat, NEW dir \in Nat, k + dir <= Word, NEW env,
         NEW t \in TermsOver(0 .. k - 1), NEW b \in Nat
  PROVE  Open(Shift(t, b, dir), env, dir + b) = Open(t, env, b)
<1> DEFINE Good == {u \in TermsOver(0 .. k - 1) :
                      \A d \in Nat : Open(Shift(u, d, dir), env, dir + d) = Open(u, env, d)}
<1>1. TermsOver(0 .. k - 1) \subseteq Term
  <2>1. k <= Word
    BY WordAssumption
  <2> QED
    BY <2>1, SmallIndices
<1>2. ASSUME NEW u \in Leaves(0 .. k - 1) PROVE u \in Good
  <2>1. u \in TermsOver(0 .. k - 1) /\ u \in Term /\ IsLeaf(u)
    BY <1>1, LeavesAreTerms DEF Leaves, IsLeaf
  <2>2. ASSUME NEW d \in Nat
        PROVE  Open(Shift(u, d, dir), env, dir + d) = Open(u, env, d)
    <3>1. CASE u.k = "local" /\ u.index >= d
      <4>1. u.index \in 0 .. k - 1
        BY <3>1 DEF Leaves
      <4>2. u.index \in Int /\ dir \in Int /\ u.index + dir \in 0 .. Word - 1
        BY <4>1, WordAssumption
      <4>3. ShiftIndex(u.index, dir) = u.index + dir
        BY <4>2, ShiftIndexRange
      <4>4. Shift(u, d, dir) = local(u.index + dir)
        BY <2>1, <3>1, <4>3, ShiftLeaf
      <4>5. local(u.index + dir) \in Term
        BY <2>1, <4>4, ShiftInTerm
      <4>6. Open(local(u.index + dir), env, dir + d) = env[u.index - d + 1]
        <5> DEFINE v == local(u.index + dir)
        <5>1. v \in Term /\ IsLeaf(v) /\ v.k = "local" /\ v.index = u.index + dir
          BY <4>5 DEF IsLeaf, local
        <5> HIDE DEF v
        <5>2. ~(v.index < dir + d) /\ v.index - (dir + d) + 1 = u.index - d + 1
          BY <3>1, <4>1, <5>1
        <5>3. dir + d \in Nat
          OBVIOUS
        <5>4. Open(v, env, dir + d) = env[v.index - (dir + d) + 1]
          BY <5>1, <5>2, <5>3, OpenLeaf
        <5>5. Open(v, env, dir + d) = env[u.index - d + 1]
          BY <5>2, <5>4, Zenon
        <5> QED
          BY <5>5 DEF v
      <4>7. Open(u, env, d) = env[u.index - d + 1]
        BY <2>1, <3>1, <4>1, OpenLeaf
      <4> QED
        BY <4>4, <4>6, <4>7
    <3>2. CASE u.k = "local" /\ ~(u.index >= d)
      <4>1. u.index \in 0 .. k - 1
        BY <3>2 DEF Leaves
      <4>2. Shift(u, d, dir) = u
        BY <2>1, <3>2, ShiftLeaf
      <4>3. u.index < d /\ u.index < dir + d /\ dir + d \in Nat
        BY <3>2, <4>1
      <4> QED
        BY <2>1, <4>2, <4>3, OpenLeaf
    <3>3. CASE u.k # "local"
      <4>1. dir + d \in Nat
        OBVIOUS
      <4> QED
        BY <2>1, <3>3, <4>1, ShiftLeaf, OpenLeaf
    <3> QED
      BY <3>1, <3>2, <3>3
  <2> QED
    BY <2>1, <2>2
<1>3. ASSUME NEW u \in Nodes(TermsOver(0 .. k - 1)) \cap TermsOver(0 .. k - 1),
             \A i \in DOMAIN u.sub : u.sub[i] \in Good
      PROVE  u \in Good
  <2>1. u \in Term /\ ~IsLeaf(u) /\ u.sub \in Seq(TermsOver(0 .. k - 1))
          /\ Binds(u) \in [DOMAIN u.sub -> Nat]
    BY <1>1, <1>3, NodeShape, BindsShape
  <2>2. ASSUME NEW d \in Nat
        PROVE  Open(Shift(u, d, dir), env, dir + d) = Open(u, env, d)
    <3>1. Open(Shift(u, d, dir), env, dir + d) =
            WithSub(u, [i \in DOMAIN u.sub |->
              Open(Shift(u.sub[i], d + Binds(u)[i], dir), env, dir + d + Binds(u)[i])])
      <4>1. dir + d \in Nat /\ dir \in Int
        OBVIOUS
      <4> QED
        BY <2>1, <4>1, OpenShiftedNode
    <3>2. ASSUME NEW i \in DOMAIN u.sub
          PROVE  Open(Shift(u.sub[i], d + Binds(u)[i], dir), env, dir + d + Binds(u)[i])
                   = Open(u.sub[i], env, d + Binds(u)[i])
      <4>1. d + Binds(u)[i] \in Nat /\ dir + d + Binds(u)[i] = dir + (d + Binds(u)[i])
        BY <2>1
      <4> QED
        BY <1>3, <4>1
    <3>3. [i \in DOMAIN u.sub |->
              Open(Shift(u.sub[i], d + Binds(u)[i], dir), env, dir + d + Binds(u)[i])]
            = [i \in DOMAIN u.sub |-> Open(u.sub[i], env, d + Binds(u)[i])]
      BY <3>2
    <3>4. Open(u, env, d) = WithSub(u, [i \in DOMAIN u.sub |-> Open(u.sub[i], env, d + Binds(u)[i])])
      BY <2>1, OpenNode
    <3> QED
      BY <3>1, <3>3, <3>4, Zenon
  <2> QED
    BY <1>3, <2>2
<1> QED
  <2> HIDE DEF Good
  <2>1. TermsOver(0 .. k - 1) \subseteq Good
    BY <1>2, <1>3, TermInduction
  <2> QED
    BY <2>1 DEF Good

(***************************************************************************)
(* What local_subst returns, and what that means.                          *)
(***************************************************************************)

\* A term without free variables beyond c means itself under c binders and more, and
\* local_subst leaves it alone there, however many locals it has counted.
LEMMA ClosedStays ==
  ASSUME NEW t \in Term, NEW c \in Nat, FreeIn(t, c) = {}, NEW b \in Nat, b >= c
  PROVE  /\ \A env : Open(t, env, b) = t
         /\ ~Changes(t, b)
<1> DEFINE Good == {u \in Term : \A x \in Nat, y \in Nat :
                      y >= x /\ FreeIn(u, x) = {} => (\A env : Open(u, env, y) = u) /\ ~Changes(u, y)}
<1>1. ASSUME NEW u \in Leaves(0 .. Word - 1) PROVE u \in Good
  <2>1. u \in Term /\ IsLeaf(u)
    BY LeavesAreTerms DEF Leaves, IsLeaf, Term
  <2>2. ASSUME NEW x \in Nat, NEW y \in Nat, y >= x, FreeIn(u, x) = {}
        PROVE  (\A env : Open(u, env, y) = u) /\ ~Changes(u, y)
    <3>1. CASE u.k = "local"
      <4>1. u.index \in Nat
        BY <3>1 DEF Leaves
      <4>2. ~(u.index >= x)
        BY <2>1, <2>2, <3>1, FreeLeaf
      <4>3. u.index < y
        BY <2>2, <4>1, <4>2
      <4> QED
        BY <2>1, <3>1, <4>1, <4>3, OpenLeaf, ChangesLeaf
    <3>2. CASE u.k # "local"
      BY <2>1, <3>2, OpenLeaf, ChangesLeaf
    <3> QED
      BY <3>1, <3>2
  <2> QED
    BY <2>1, <2>2
<1>2. ASSUME NEW u \in Nodes(Term) \cap Term, \A i \in DOMAIN u.sub : u.sub[i] \in Good
      PROVE  u \in Good
  <2>1. u \in Term /\ ~IsLeaf(u) /\ u.sub \in Seq(Term) /\ WithSub(u, u.sub) = u
          /\ RebuildFor(u) \subseteq DOMAIN u.sub
    BY NodeShape, RebuiltNode, RebuildsSubterms
  <2>2. ASSUME NEW x \in Nat, NEW y \in Nat, y >= x, FreeIn(u, x) = {}
        PROVE  (\A env : Open(u, env, y) = u) /\ ~Changes(u, y)
    <3>1. ASSUME NEW i \in DOMAIN u.sub
          PROVE  /\ \A env : Open(u.sub[i], env, y + Binds(u)[i]) = u.sub[i]
                 /\ ~Changes(u.sub[i], y + VisitDepths(u)[i])
      <4>1. VisitDepths(u)[i] \in Nat /\ Binds(u)[i] \in Nat /\ VisitDepths(u)[i] >= Binds(u)[i]
        BY VisitCountsAtLeast
      <4>2. FreeIn(u.sub[i], x + Binds(u)[i]) = {}
        <5>1. FreeIn(u, x) = UNION {FreeIn(u.sub[j], x + Binds(u)[j]) : j \in DOMAIN u.sub}
          BY <2>1, <2>2, FreeNode
        <5>2. FreeIn(u.sub[i], x + Binds(u)[i]) \subseteq FreeIn(u, x)
          BY <5>1, Zenon
        <5> QED
          BY <2>2, <5>2
      <4>3. /\ x + Binds(u)[i] \in Nat
            /\ y + Binds(u)[i] \in Nat /\ y + Binds(u)[i] >= x + Binds(u)[i]
            /\ y + VisitDepths(u)[i] \in Nat /\ y + VisitDepths(u)[i] >= x + Binds(u)[i]
        BY <2>2, <4>1
      <4> QED
        BY <1>2, <4>2, <4>3
    <3>2. ASSUME NEW env PROVE Open(u, env, y) = u
      <4>1. ASSUME NEW i \in DOMAIN u.sub
            PROVE  Open(u.sub[i], env, y + Binds(u)[i]) = u.sub[i]
        BY <3>1
      <4>2. u.sub = [i \in DOMAIN u.sub |-> u.sub[i]]
        BY <2>1
      <4>3. [i \in DOMAIN u.sub |-> Open(u.sub[i], env, y + Binds(u)[i])] = u.sub
        BY <4>1, <4>2
      <4> QED
        BY <2>1, <4>3, OpenNode
    <3>3. ~Changes(u, y)
      BY <2>1, <3>1, ChangesNode
    <3> QED
      BY <3>2, <3>3
  <2> QED
    BY <2>1, <2>2
<1> QED
  <2> HIDE DEF Good
  <2>1. Term \subseteq Good
    BY <1>1, <1>2, TermInduction DEF Term
  <2> QED
    BY <2>1 DEF Good

\* What local_subst leaves alone in a Counted term means the same in both environments.
LEMMA UnchangedMeans ==
  ASSUME NEW index \in Nat, NEW env, NEW room, \A j \in 1 .. index : room[j] = env[j],
         NEW t \in Term, Counted(t), NEW b \in Nat, ~Changes(t, index + b)
  PROVE  Open(t, env, b) = Open(t, room, b)
<1> DEFINE Good == {u \in Term : \A d \in Nat :
                      Counted(u) /\ ~Changes(u, index + d) => Open(u, env, d) = Open(u, room, d)}
<1>1. ASSUME NEW u \in Leaves(0 .. Word - 1) PROVE u \in Good
  <2>1. u \in Term /\ IsLeaf(u)
    BY LeavesAreTerms DEF Leaves, IsLeaf, Term
  <2>2. ASSUME NEW d \in Nat, ~Changes(u, index + d)
        PROVE  Open(u, env, d) = Open(u, room, d)
    <3>1. CASE u.k = "local" /\ ~(u.index < d)
      <4>1. u.index \in Nat
        BY <3>1 DEF Leaves
      <4>2. ~(u.index >= index + d)
        BY <2>1, <2>2, <3>1, ChangesLeaf
      <4>3. u.index - d + 1 \in 1 .. index
        BY <3>1, <4>1, <4>2
      <4> QED
        BY <2>1, <3>1, <4>3, OpenLeaf
    <3>2. CASE ~(u.k = "local" /\ ~(u.index < d))
      BY <2>1, <3>2, OpenLeaf
    <3> QED
      BY <3>1, <3>2
  <2> QED
    BY <2>1, <2>2
<1>2. ASSUME NEW u \in Nodes(Term) \cap Term, \A i \in DOMAIN u.sub : u.sub[i] \in Good
      PROVE  u \in Good
  <2>1. u \in Term /\ ~IsLeaf(u) /\ u.sub \in Seq(Term)
    BY NodeShape
  <2>2. ASSUME NEW d \in Nat, Counted(u), ~Changes(u, index + d)
        PROVE  Open(u, env, d) = Open(u, room, d)
    <3>1. ASSUME NEW i \in DOMAIN u.sub
          PROVE  Open(u.sub[i], env, d + Binds(u)[i]) = Open(u.sub[i], room, d + Binds(u)[i])
      <4>1. Binds(u)[i] \in Nat /\ d + Binds(u)[i] \in Nat /\ u.sub[i] \in Term
        BY <2>1, VisitCountsAtLeast
      <4>2. CASE Free(u.sub[i]) = {}
        BY <4>1, <4>2, ClosedStays DEF Free
      <4>3. CASE i \in RebuildFor(u) /\ VisitDepths(u)[i] = Binds(u)[i]
        <5>1. ~Changes(u.sub[i], index + d + Binds(u)[i])
          <6>1. index + d \in Nat
            OBVIOUS
          <6>2. ~Changes(u.sub[i], index + d + VisitDepths(u)[i])
            BY <2>1, <2>2, <4>3, <6>1, ChangesNode
          <6> QED
            BY <4>3, <6>2
        <5>2. index + d + Binds(u)[i] = index + (d + Binds(u)[i])
          BY <4>1
        <5>3. Counted(u.sub[i])
          BY <2>1, <2>2, CountedSub
        <5> QED
          BY <1>2, <4>1, <5>1, <5>2, <5>3
      <4> QED
        BY <2>1, <2>2, <4>2, <4>3, CountedSub
    <3>2. [i \in DOMAIN u.sub |-> Open(u.sub[i], env, d + Binds(u)[i])]
            = [i \in DOMAIN u.sub |-> Open(u.sub[i], room, d + Binds(u)[i])]
      BY <3>1
    <3>3. /\ Open(u, env, d) = WithSub(u, [i \in DOMAIN u.sub |-> Open(u.sub[i], env, d + Binds(u)[i])])
          /\ Open(u, room, d) = WithSub(u, [i \in DOMAIN u.sub |-> Open(u.sub[i], room, d + Binds(u)[i])])
      BY <2>1, OpenNode
    <3> QED
      BY <3>2, <3>3, Zenon
  <2> QED
    BY <2>1, <2>2
<1> QED
  <2> HIDE DEF Good
  <2>1. Term \subseteq Good
    BY <1>1, <1>2, TermInduction DEF Term
  <2> QED
    BY <2>1 DEF Good

\* room is env with what the substitutes mean put in at index.  Terms with m variables,
\* substitutes with k that are nested q deep, and no index that wraps around.
HasSubstituted(room, env, index, subst, m, k, q) ==
  /\ m \in Nat /\ k \in Nat /\ m + k <= Word
  /\ index \in Nat
  /\ q \in 0 .. MaxNesting
  /\ subst \in Seq(Levels(0 .. k - 1)[q])
  /\ \A j \in 1 .. index : room[j] = env[j]
  /\ \A j \in 1 .. Len(subst) : room[index + j] = Open(subst[j], env, 0)
  /\ \A j \in index + 1 .. m : room[j + Len(subst)] = env[j]

\* What handle_local returns for a variable under d binders: a term that means what the
\* variable means in the environment with the substitutes.
LEMMA LocalMeans ==
  ASSUME NEW room, NEW env, NEW index, NEW subst, NEW m, NEW k, NEW q,
         HasSubstituted(room, env, index, subst, m, k, q),
         NEW i \in 0 .. m - 1, NEW d \in Nat, i >= index + d
  PROVE  /\ HandleLocal(i, d, index, subst) \in Levels(0 .. Word - 1)[q]
         /\ Open(HandleLocal(i, d, index, subst), env, d) = room[i - d + 1]
<1> DEFINE N == Len(subst)
           v == HandleLocal(i, d, index, subst)
<1>1. /\ N \in Nat /\ DOMAIN subst = 1 .. N
      /\ m \in Nat /\ k \in Nat /\ m + k <= Word /\ index \in Nat /\ q \in 0 .. MaxNesting
      /\ subst \in Seq(Levels(0 .. k - 1)[q])
  BY DEF HasSubstituted
<1> HIDE DEF N
<1>2. CASE i >= index + N + d
  <2>1. v = local(i - N)
    BY <1>2 DEF HandleLocal, N
  <2>2. i - N \in 0 .. Word - 1 /\ ~(i - N < d)
    BY <1>1, <1>2, WordAssumption
  <2>3. v \in Leaves(0 .. Word - 1) /\ v.k = "local" /\ v.index = i - N /\ IsLeaf(v)
    BY <2>1, <2>2 DEF Leaves, local, IsLeaf
  <2>4. v \in Levels(0 .. Word - 1)[q] /\ v \in Term
    BY <1>1, <2>3, LevelsRise, LeavesAreTerms DEF Term
  <2> DEFINE j == i - N - d + 1
  <2>5. j \in index + 1 .. m /\ j + N = i - d + 1
    BY <1>1, <1>2
  <2>6. room[j + N] = env[j]
    BY <2>5 DEF HasSubstituted, N
  <2> HIDE DEF v, j
  <2>7. ~(v.index < d)
    BY <2>2, <2>3
  <2>8. Open(v, env, d) = env[v.index - d + 1]
    BY <2>3, <2>4, <2>7, OpenLeaf
  <2>9. v.index - d + 1 = j
    BY <2>3, <1>1 DEF j
  <2>10. Open(v, env, d) = room[i - d + 1]
    BY <2>5, <2>6, <2>8, <2>9, Zenon
  <2> QED
    BY <2>4, <2>10 DEF v
<1>3. CASE ~(i >= index + N + d)
  <2> DEFINE j == i - index - d + 1
  <2>1. v = Shift(subst[j], 0, d)
    BY <1>3 DEF HandleLocal, N
  <2>2. j \in 1 .. N /\ index + j = i - d + 1 /\ k + d <= Word /\ k <= Word
    BY <1>1, <1>3, WordAssumption
  <2> HIDE DEF j, v
  <2>3. subst[j] \in Levels(0 .. k - 1)[q]
    BY <1>1, <2>2
  <2>4. subst[j] \in TermsOver(0 .. k - 1)
    BY <1>1, <2>3, LevelsInTerms
  <2>5. v \in Levels(0 .. Word - 1)[q]
    <3>1. 0 .. k - 1 \in SUBSET (0 .. Word - 1)
      BY <1>1, <2>2, WordAssumption
    <3>2. ASSUME NEW x \in 0 .. k - 1
          PROVE  x \in 0 .. Word - 1 /\ ShiftIndex(x, d) \in 0 .. Word - 1
      <4>1. x \in Int /\ d \in Int
        BY <1>1
      <4>2. ShiftIndex(x, d) \in 0 .. Word - 1
        BY <4>1, ShiftIndexRange
      <4> QED
        BY <3>1, <4>2
    <3> QED
      BY <1>1, <2>1, <2>3, <3>1, <3>2, ShiftInLevel
  <2>6. Open(Shift(subst[j], 0, d), env, d) = Open(subst[j], env, 0)
    <3>1. PICK x \in Nat : x = 0
      OBVIOUS
    <3>2. Open(Shift(subst[j], x, d), env, d + x) = Open(subst[j], env, x)
      BY <1>1, <2>2, <2>4, ShiftedUnder
    <3>3. d + x = d
      BY <3>1
    <3> QED
      BY <3>1, <3>2, <3>3
  <2>7. room[index + j] = Open(subst[j], env, 0)
    BY <2>2 DEF HasSubstituted, N
  <2> QED
    BY <2>1, <2>2, <2>5, <2>6, <2>7, Zenon DEF v
<1> QED
  BY <1>2, <1>3

\* local_subst of a Counted term is a term, as deep as both together at most, that means
\* what the term means when its variables stand for the substitutes.
THEOREM VisitMeans ==
  ASSUME NEW room, NEW env, NEW index, NEW subst, NEW m, NEW k, NEW q,
         HasSubstituted(room, env, index, subst, m, k, q),
         NEW n \in Nat, n + q <= MaxNesting,
         NEW t \in Levels(0 .. m - 1)[n], Counted(t), NEW b \in Nat
  PROVE  Open(Visit(t, b, index, subst), env, b) = Open(t, room, b)
<1>1. m \in Nat /\ k \in Nat /\ m + k <= Word /\ index \in Nat /\ q \in 0 .. MaxNesting
  BY DEF HasSubstituted
<1> DEFINE I == 0 .. m - 1
           J == 0 .. Word - 1
           Means(u, h, d) == /\ Visit(u, d, index, subst) \in Levels(J)[h + q]
                             /\ Open(Visit(u, d, index, subst), env, d) = Open(u, room, d)
           Good == [h \in 0 .. MaxNesting |->
                      {u \in Levels(I)[h] : h + q <= MaxNesting /\ Counted(u) =>
                                              \A d \in Nat : Means(u, h, d)}]
<1>2. /\ I \subseteq J /\ TermsOver(J) = Term
      /\ \A j \in 1 .. index : room[j] = env[j]
  <2>1. I \subseteq J
    BY <1>1, WordAssumption
  <2> QED
    BY <2>1 DEF HasSubstituted, Term
<1> HIDE DEF I, J
<1>3. ASSUME NEW h \in 0 .. MaxNesting
      PROVE  /\ Levels(I)[h] \subseteq Term
             /\ h + q <= MaxNesting => Levels(I)[h] \subseteq Levels(J)[h + q]
  <2>1. Levels(I)[h] \subseteq Levels(J)[h]
    BY <1>2, LevelsWiden
  <2>2. Levels(J)[h] \subseteq Term
    BY <1>2, LevelsInTerms
  <2>3. h + q <= MaxNesting => Levels(J)[h] \subseteq Levels(J)[h + q]
    BY <1>1, LevelsClimb
  <2> QED
    BY <2>1, <2>2, <2>3
<1>4. ASSUME NEW h \in 0 .. MaxNesting, h + q <= MaxNesting,
             NEW u \in Levels(I)[h], Counted(u), NEW d \in Nat, ~Changes(u, index + d)
      PROVE  Means(u, h, d)
  <2>1. u \in Term /\ u \in Levels(J)[h + q]
    BY <1>3, <1>4
  <2>2. Visit(u, d, index, subst) = u
    BY <1>1, <1>4, <2>1, VisitSame
  <2>3. Open(u, env, d) = Open(u, room, d)
    BY <1>1, <1>2, <1>4, <2>1, UnchangedMeans
  <2> QED
    BY <2>1, <2>2, <2>3
<1>5. ASSUME NEW h \in 0 .. MaxNesting, NEW u \in Leaves(I) PROVE u \in Good[h]
  <2>1. u \in Levels(I)[h] /\ u \in Term /\ IsLeaf(u)
    BY <1>3, LevelsRise DEF Leaves, IsLeaf
  <2>2. ASSUME h + q <= MaxNesting, NEW d \in Nat, Changes(u, index + d)
        PROVE  Means(u, h, d)
    <3>1. index + d \in Nat
      BY <1>1
    <3>2. u.k = "local" /\ u.index >= index + d
      BY <2>1, <2>2, <3>1, ChangesLeaf
    <3>3. u.index \in 0 .. m - 1
      BY <3>2 DEF Leaves, I
    <3>4. Visit(u, d, index, subst) = HandleLocal(u.index, d, index, subst)
      BY <1>1, <2>1, <2>2, <3>2, VisitLocal
    <3>5. /\ HandleLocal(u.index, d, index, subst) \in Levels(J)[q]
          /\ Open(HandleLocal(u.index, d, index, subst), env, d) = room[u.index - d + 1]
      BY <3>2, <3>3, LocalMeans DEF J
    <3>6. Levels(J)[q] \subseteq Levels(J)[h + q]
      <4>1. q + h <= MaxNesting /\ q + h = h + q /\ q \in Nat /\ h \in Nat
        BY <1>1, <2>2
      <4>2. Levels(J)[q] \subseteq Levels(J)[q + h]
        BY <4>1, LevelsClimb
      <4> QED
        BY <4>1, <4>2
    <3>7. Open(u, room, d) = room[u.index - d + 1]
      <4>1. ~(u.index < d)
        BY <1>1, <3>2, <3>3
      <4> QED
        BY <2>1, <3>2, <4>1, OpenLeaf
    <3> QED
      BY <3>4, <3>5, <3>6, <3>7
  <2> HIDE DEF Means
  <2> QED
    BY <1>4, <2>1, <2>2
<1>6. ASSUME NEW h \in 1 .. MaxNesting, NEW u \in Nodes(Levels(I)[h - 1]),
             \A i \in DOMAIN u.sub : u.sub[i] \in Good[h - 1]
      PROVE  u \in Good[h]
  <2>1. h - 1 \in 0 .. MaxNesting /\ h \in 0 .. MaxNesting /\ h > 0
    BY NestingAssumption
  <2>2. u \in Levels(I)[h] /\ u \in Term /\ ~IsLeaf(u) /\ u.sub \in Seq(Levels(I)[h - 1])
    BY <1>3, <2>1, LevelsRise, NodeShape
  <2>3. ASSUME h + q <= MaxNesting, Counted(u), NEW d \in Nat, Changes(u, index + d)
        PROVE  Means(u, h, d)
    <3> DEFINE s == [i \in DOMAIN u.sub |-> Visit(u.sub[i], d + VisitDepths(u)[i], index, subst)]
               v == WithSub(u, s)
    <3>1. ASSUME NEW i \in DOMAIN u.sub
          PROVE  /\ s[i] \in Levels(J)[h - 1 + q]
                 /\ Open(s[i], env, d + Binds(u)[i]) = Open(u.sub[i], room, d + Binds(u)[i])
      <4>1. /\ d + VisitDepths(u)[i] \in Nat /\ d + Binds(u)[i] \in Nat
            /\ index + (d + VisitDepths(u)[i]) \in Nat
            /\ h - 1 + q <= MaxNesting
        <5>1. VisitDepths(u)[i] \in Nat /\ Binds(u)[i] \in Nat
          BY VisitCountsAtLeast
        <5>2. \A x \in Nat : d + x \in Nat /\ index + (d + x) \in Nat
          BY <1>1
        <5>3. h - 1 + q <= MaxNesting
          BY <1>1, <2>3, NestingAssumption
        <5> QED
          BY <5>1, <5>2, <5>3
      <4>2. u.sub[i] \in Levels(I)[h - 1] /\ u.sub[i] \in Term /\ Counted(u.sub[i])
        BY <1>3, <2>1, <2>2, <2>3, CountedSub
      <4>3. CASE Free(u.sub[i]) = {}
        <5>1. \A x \in Nat : x >= 0 /\ 0 \in Nat
          OBVIOUS
        <5>2. /\ ~Changes(u.sub[i], index + (d + VisitDepths(u)[i]))
              /\ \A e : Open(u.sub[i], e, d + Binds(u)[i]) = u.sub[i]
          BY <4>1, <4>2, <4>3, <5>1, ClosedStays DEF Free
        <5>3. s[i] = u.sub[i]
          BY <1>1, <4>1, <4>2, <5>2, VisitSame
        <5>4. u.sub[i] \in Levels(J)[h - 1 + q]
          BY <1>3, <2>1, <4>1, <4>2
        <5> QED
          BY <5>2, <5>3, <5>4
      <4>4. CASE VisitDepths(u)[i] = Binds(u)[i]
        <5>1. s[i] = Visit(u.sub[i], d + Binds(u)[i], index, subst)
          BY <4>4
        <5>2. Means(u.sub[i], h - 1, d + Binds(u)[i])
          BY <1>6, <2>1, <4>1, <4>2 DEF Good
        <5> QED
          BY <5>1, <5>2
      <4> QED
        BY <2>2, <2>3, <4>3, <4>4, CountedSub
    <3>2. Visit(u, d, index, subst) = v
      <4>1. index \in Nat /\ u \in Term /\ ~IsLeaf(u) /\ d \in Nat /\ Changes(u, index + d)
        BY <1>1, <2>2, <2>3
      <4> QED
        BY <4>1, VisitNode
    <3>3. DOMAIN u.sub = 1 .. Len(u.sub) /\ Len(u.sub) \in Nat
      BY <2>2
    <3>4. s \in [1 .. Len(u.sub) -> Levels(J)[h - 1 + q]]
      BY <3>1, <3>3
    <3> HIDE DEF s
    <3>5. s \in Seq(Levels(J)[h - 1 + q]) /\ Len(s) = Len(u.sub) /\ DOMAIN s = DOMAIN u.sub
      BY <3>3, <3>4, FixedSeq
    <3>6. v \in Nodes(Levels(J)[h - 1 + q]) /\ v.sub = s /\ Binds(v) = Binds(u)
            /\ \A r : WithSub(v, r) = WithSub(u, r)
      BY <3>5, WithSubShape, RebuiltNode
    <3> HIDE DEF v
    <3>7. v \in Levels(J)[h + q]
      <4>1. PICK x \in 1 .. MaxNesting : x = h + q /\ x - 1 = h - 1 + q
        BY <1>1, <2>1, <2>3, NestingAssumption
      <4>2. v \in Nodes(Levels(J)[x - 1])
        BY <3>6, <4>1
      <4>3. v \in Levels(J)[x]
        BY <4>2, LevelsRise, NestingAssumption
      <4> QED
        BY <4>1, <4>3
    <3>8. v \in Term /\ ~IsLeaf(v)
      <4>1. h + q \in 0 .. MaxNesting
        BY <1>1, <2>1, <2>3, NestingAssumption
      <4> QED
        BY <1>2, <3>6, <3>7, <4>1, LevelsInTerms, NodeShape
    <3>9. [i \in DOMAIN v.sub |-> Open(v.sub[i], env, d + Binds(v)[i])]
            = [i \in DOMAIN u.sub |-> Open(u.sub[i], room, d + Binds(u)[i])]
      BY <3>1, <3>5, <3>6
    <3>10. /\ Open(v, env, d) = WithSub(v, [i \in DOMAIN v.sub |-> Open(v.sub[i], env, d + Binds(v)[i])])
           /\ Open(u, room, d) = WithSub(u, [i \in DOMAIN u.sub |-> Open(u.sub[i], room, d + Binds(u)[i])])
      BY <2>2, <3>8, OpenNode
    <3>11. Open(v, env, d) = Open(u, room, d)
      BY <3>6, <3>9, <3>10, Zenon
    <3> QED
      BY <3>2, <3>7, <3>11
  <2> HIDE DEF Means
  <2>4. ASSUME h + q <= MaxNesting, Counted(u) PROVE \A d \in Nat : Means(u, h, d)
    BY <1>4, <2>1, <2>2, <2>3, <2>4
  <2> QED
    BY <2>1, <2>2, <2>4
<1> QED
  <2> HIDE DEF Good, Means
  <2>1. n \in 0 .. MaxNesting
    BY <1>1, NestingAssumption
  <2>2. Levels(I)[n] \subseteq Good[n]
    BY <1>5, <1>6, <2>1, LevelInduction
  <2>3. Means(t, n, b)
    BY <2>1, <2>2 DEF Good, I
  <2> QED
    BY <2>3 DEF Means
=============================================================================
