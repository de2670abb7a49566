-------------------------- MODULE NormalizingProofs --------------------------
(***************************************************************************)
(* What normalize does to every term that the client can build.            *)
(*                                                                         *)
(* normalize walks along a chain of products, lambdas or applications and  *)
(* then normalizes what it has collected.  The proofs use another view of  *)
(* the same function, NormalNode: the normal form of a term is made of     *)
(* those of its subterms, of which one at most is taken apart.             *)
(***************************************************************************)
EXTENDS Normalizing, RenumberingProofs

Grouping == {"product", "lambda", "apply"}

(***************************************************************************)
(* Sequences.                                                              *)
(***************************************************************************)

\* The last or first entry of a sequence replaced by the entries of another one (how
\* normalize puts the arguments of a chain together).
LEMMA SpliceShape ==
  ASSUME NEW S, NEW s \in Seq(S), s # <<>>, NEW r \in Seq(S)
  PROVE  /\ Front(s) \o r \in Seq(S)
         /\ Len(Front(s) \o r) = Len(s) - 1 + Len(r)
         /\ \A i \in 1 .. Len(s) - 1 : (Front(s) \o r)[i] = s[i]
         /\ \A j \in 1 .. Len(r) : (Front(s) \o r)[Len(s) - 1 + j] = r[j]
         /\ r \o Tail(s) \in Seq(S)
         /\ Len(r \o Tail(s)) = Len(r) + Len(s) - 1
         /\ \A j \in 1 .. Len(r) : (r \o Tail(s))[j] = r[j]
         /\ \A i \in 2 .. Len(s) : (r \o Tail(s))[Len(r) + i - 1] = s[i]
<1>1. Len(s) \in Nat \ {0} /\ Len(r) \in Nat
  BY EmptySeq
<1> DEFINE f == Front(s)
           t == Tail(s)
<1>2. f \in Seq(S) /\ Len(f) = Len(s) - 1 /\ \A i \in 1 .. Len(s) - 1 : f[i] = s[i]
  <2>1. f = SubSeq(s, 1, Len(s) - 1)
    BY DEF Front
  <2>2. 1 \in Int /\ Len(s) - 1 \in Int /\ \A i \in 1 .. Len(s) - 1 : s[i] \in S
    BY <1>1
  <2>3. /\ f \in Seq(S)
        /\ Len(f) = IF 1 <= Len(s) - 1 THEN Len(s) - 1 - 1 + 1 ELSE 0
        /\ \A i \in 1 .. Len(s) - 1 - 1 + 1 : f[i] = s[1 + i - 1]
    BY <2>1, <2>2, SubSeqProperties
  <2>4. /\ (IF 1 <= Len(s) - 1 THEN Len(s) - 1 - 1 + 1 ELSE 0) = Len(s) - 1
        /\ Len(s) - 1 - 1 + 1 = Len(s) - 1
        /\ \A i \in 1 .. Len(s) - 1 : 1 + i - 1 = i
    <3>1. \A n \in Nat \ {0} : /\ (IF 1 <= n - 1 THEN n - 1 - 1 + 1 ELSE 0) = n - 1
                               /\ n - 1 - 1 + 1 = n - 1
      OBVIOUS
    <3>2. \A i \in 1 .. Len(s) - 1 : 1 + i - 1 = i
      BY <1>1
    <3> QED
      BY <1>1, <3>1, <3>2
  <2> HIDE DEF f
  <2> QED
    BY <2>3, <2>4
<1>3. t \in Seq(S) /\ Len(t) = Len(s) - 1 /\ \A i \in 1 .. Len(s) - 1 : t[i] = s[i + 1]
  BY <1>1, HeadTailProperties
<1> HIDE DEF f, t
<1>4. /\ f \o r \in Seq(S) /\ Len(f \o r) = Len(s) - 1 + Len(r)
      /\ \A i \in 1 .. Len(s) - 1 : (f \o r)[i] = s[i]
  <2>1. /\ f \o r \in Seq(S) /\ Len(f \o r) = Len(f) + Len(r)
        /\ \A i \in 1 .. Len(f) + Len(r) : (f \o r)[i] = IF i <= Len(f) THEN f[i] ELSE r[i - Len(f)]
    BY <1>2, ConcatProperties
  <2>2. \A i \in 1 .. Len(s) - 1 : i \in 1 .. Len(f) + Len(r) /\ i <= Len(f)
    BY <1>1, <1>2
  <2> QED
    BY <1>2, <2>1, <2>2
<1>5. ASSUME NEW j \in 1 .. Len(r) PROVE (f \o r)[Len(s) - 1 + j] = r[j]
  <2>1. Len(s) - 1 + j \in Len(f) + 1 .. Len(f) + Len(r) /\ Len(s) - 1 + j - Len(f) = j
    BY <1>1, <1>2
  <2> QED
    BY <1>2, <2>1
<1>6. /\ r \o t \in Seq(S) /\ Len(r \o t) = Len(r) + Len(s) - 1
      /\ \A j \in 1 .. Len(r) : (r \o t)[j] = r[j]
  <2>1. /\ r \o t \in Seq(S) /\ Len(r \o t) = Len(r) + Len(t)
        /\ \A i \in 1 .. Len(r) + Len(t) : (r \o t)[i] = IF i <= Len(r) THEN r[i] ELSE t[i - Len(r)]
    BY <1>3, ConcatProperties
  <2>2. \A i \in 1 .. Len(r) : i \in 1 .. Len(r) + Len(t) /\ i <= Len(r)
    BY <1>1, <1>3
  <2>3. Len(r) + Len(t) = Len(r) + Len(s) - 1
    BY <1>1, <1>3
  <2> QED
    BY <2>1, <2>2, <2>3
<1>7. ASSUME NEW i \in 2 .. Len(s) PROVE (r \o t)[Len(r) + i - 1] = s[i]
  <2>1. Len(r) + i - 1 \in Len(r) + 1 .. Len(r) + Len(t) /\ Len(r) + i - 1 - Len(r) = i - 1
          /\ i - 1 \in 1 .. Len(s) - 1 /\ i - 1 + 1 = i
    BY <1>1, <1>3
  <2>2. (r \o t)[Len(r) + i - 1] = t[i - 1]
    BY <1>3, <2>1
  <2> QED
    BY <1>3, <2>1, <2>2
<1> QED
  BY <1>4, <1>5, <1>6, <1>7 DEF f, t

\* A function applied to each entry
Mapped(f, s) == [i \in DOMAIN s |-> f[s[i]]]

\* There are as many entries as before.
LEMMA MappedEntries ==
  ASSUME NEW S, NEW s \in Seq(S), NEW f
  PROVE  /\ DOMAIN Mapped(f, s) = 1 .. Len(s)
         /\ Len(Mapped(f, s)) = Len(s)
         /\ \A i \in 1 .. Len(s) : Mapped(f, s)[i] = f[s[i]]
BY DEF Mapped

\* The values of a function on the entries of a sequence are a sequence.
LEMMA MappedType ==
  ASSUME NEW S, NEW s \in Seq(S), NEW f, NEW V, \A x \in S : f[x] \in V
  PROVE  Mapped(f, s) \in Seq(V)
<1>1. DOMAIN s = 1 .. Len(s) /\ Len(s) \in Nat
  OBVIOUS
<1>2. \A i \in 1 .. Len(s) : f[s[i]] \in V
  OBVIOUS
<1>3. Mapped(f, s) \in [1 .. Len(s) -> V]
  BY <1>1, <1>2 DEF Mapped
<1> QED
  BY <1>1, <1>3, FixedSeq

\* It does not matter whether entries are spliced in before or after that.
LEMMA MappedSplice ==
  ASSUME NEW S, NEW s \in Seq(S), s # <<>>, NEW r \in Seq(S), NEW f
  PROVE  /\ Mapped(f, Front(s) \o r) = Front(Mapped(f, s)) \o Mapped(f, r)
         /\ Mapped(f, r \o Tail(s)) = Mapped(f, r) \o Tail(Mapped(f, s))
<1>10. PICK V : \A x \in S : f[x] \in V
  <2>1. \A x \in S : f[x] \in {f[y] : y \in S}
    OBVIOUS
  <2> QED
    BY <2>1
<1>11. ASSUME NEW q \in Seq(S)
      PROVE  /\ Mapped(f, q) \in Seq(V) /\ Len(Mapped(f, q)) = Len(q)
             /\ \A i \in 1 .. Len(q) : Mapped(f, q)[i] = f[q[i]]
  <2>1. Mapped(f, q) \in Seq(V)
    BY <1>10, MappedType
  <2> QED
    BY <2>1, MappedEntries
<1> DEFINE ms == Mapped(f, s)
           mr == Mapped(f, r)
           a == Front(s) \o r
           b == r \o Tail(s)
<1>1. /\ ms \in Seq(V) /\ Len(ms) = Len(s) /\ mr \in Seq(V) /\ Len(mr) = Len(r)
      /\ \A i \in 1 .. Len(s) : ms[i] = f[s[i]]
      /\ \A i \in 1 .. Len(r) : mr[i] = f[r[i]]
  BY <1>11
<1>2. /\ a \in Seq(S) /\ Len(a) = Len(s) - 1 + Len(r)
      /\ \A i \in 1 .. Len(s) - 1 : a[i] = s[i]
      /\ \A j \in 1 .. Len(r) : a[Len(s) - 1 + j] = r[j]
      /\ b \in Seq(S) /\ Len(b) = Len(r) + Len(s) - 1
      /\ \A j \in 1 .. Len(r) : b[j] = r[j]
      /\ \A i \in 2 .. Len(s) : b[Len(r) + i - 1] = s[i]
  BY SpliceShape
<1>3. Len(s) \in Nat \ {0} /\ Len(r) \in Nat
  BY EmptySeq
<1>9. ms # <<>>
  BY <1>1, <1>3, EmptySeq
<1> HIDE DEF ms, mr, a, b
<1>4. /\ Mapped(f, a) \in Seq(V) /\ Len(Mapped(f, a)) = Len(a)
      /\ \A i \in 1 .. Len(a) : Mapped(f, a)[i] = f[a[i]]
      /\ Mapped(f, b) \in Seq(V) /\ Len(Mapped(f, b)) = Len(b)
      /\ \A i \in 1 .. Len(b) : Mapped(f, b)[i] = f[b[i]]
  BY <1>2, <1>11
<1> DEFINE ma == Front(ms) \o mr
           mb == mr \o Tail(ms)
<1>5. /\ ma \in Seq(V) /\ Len(ma) = Len(ms) - 1 + Len(mr)
      /\ \A i \in 1 .. Len(ms) - 1 : ma[i] = ms[i]
      /\ \A j \in 1 .. Len(mr) : ma[Len(ms) - 1 + j] = mr[j]
      /\ mb \in Seq(V) /\ Len(mb) = Len(mr) + Len(ms) - 1
      /\ \A j \in 1 .. Len(mr) : mb[j] = mr[j]
      /\ \A i \in 2 .. Len(ms) : mb[Len(mr) + i - 1] = ms[i]
  <2>1. ms \in Seq(V) /\ mr \in Seq(V)
    BY <1>1
  <2> QED
    BY <1>9, <2>1, SpliceShape
<1> HIDE DEF ma, mb
<1>6. ASSUME NEW i \in 1 .. Len(a) PROVE Mapped(f, a)[i] = ma[i]
  <2>1. CASE i \in 1 .. Len(s) - 1
    <3>1. i \in 1 .. Len(s)
      BY <1>3, <2>1
    <3>2. a[i] = s[i] /\ ms[i] = f[s[i]] /\ Mapped(f, a)[i] = f[a[i]]
      BY <1>1, <1>2, <1>4, <2>1, <3>1
    <3>3. ma[i] = ms[i]
      BY <1>1, <1>5, <2>1
    <3> QED
      BY <3>2, <3>3
  <2>2. CASE ~(i \in 1 .. Len(s) - 1)
    <3>1. PICK j \in 1 .. Len(r) : i = Len(s) - 1 + j
      <4>1. i - Len(s) + 1 \in 1 .. Len(r) /\ i = Len(s) - 1 + (i - Len(s) + 1)
        BY <1>2, <1>3, <2>2
      <4> QED
        BY <4>1
    <3>2. a[i] = r[j] /\ ma[i] = mr[j] /\ mr[j] = f[r[j]]
      BY <1>1, <1>2, <1>5, <3>1
    <3> QED
      BY <1>4, <3>2
  <2> QED
    BY <2>1, <2>2
<1>7. ASSUME NEW i \in 1 .. Len(b) PROVE Mapped(f, b)[i] = mb[i]
  <2>1. CASE i \in 1 .. Len(r)
    <3>1. b[i] = r[i] /\ mr[i] = f[r[i]] /\ Mapped(f, b)[i] = f[b[i]]
      BY <1>1, <1>2, <1>4, <2>1
    <3>2. mb[i] = mr[i]
      BY <1>1, <1>5, <2>1
    <3> QED
      BY <3>1, <3>2
  <2>2. CASE ~(i \in 1 .. Len(r))
    <3>1. PICK j \in 2 .. Len(s) : i = Len(r) + j - 1
      <4>1. i - Len(r) + 1 \in 2 .. Len(s) /\ i = Len(r) + (i - Len(r) + 1) - 1
        BY <1>2, <1>3, <2>2
      <4> QED
        BY <4>1
    <3>2. b[i] = s[j] /\ mb[i] = ms[j] /\ ms[j] = f[s[j]]
      <4>1. j \in 1 .. Len(s)
        OBVIOUS
      <4> QED
        BY <1>1, <1>2, <1>5, <3>1, <4>1
    <3> QED
      BY <1>4, <3>2
  <2> QED
    BY <2>1, <2>2
<1>8. Mapped(f, a) = ma /\ Mapped(f, b) = mb
  BY <1>1, <1>2, <1>4, <1>5, <1>6, <1>7, SeqEqual
<1> QED
  BY <1>8 DEF ma, mb, ms, mr, a, b

(***************************************************************************)
(* Chains of products, lambdas and applications.                           *)
(***************************************************************************)

\* A product, lambda or application is its kind and one or more subterms.
LEMMA ChainNode ==
  ASSUME NEW S, NEW t \in Nodes(S), t.k \in Grouping
  PROVE  /\ t.sub \in Seq(S) /\ t.sub # <<>>
         /\ Len(t.sub) \in Nat \ {0}
         /\ t.sub[1] \in S
         /\ Last(t.sub) \in S
         /\ \A r : WithSub(t, r) = [k |-> t.k, sub |-> r]
<1>1. t \in [k : {"product", "lambda", "apply"}, sub : Seq(S) \ {<<>>}]
  BY DEF Nodes, Grouping
<1>2. t.sub \in Seq(S) /\ t.sub # <<>>
  BY <1>1
<1>3. Len(t.sub) \in Nat \ {0}
  BY <1>2, EmptySeq
<1>4. 1 \in 1 .. Len(t.sub) /\ Len(t.sub) \in 1 .. Len(t.sub)
  BY <1>3
<1>5. t.sub[1] \in S /\ Last(t.sub) \in S
  BY <1>2, <1>4, ElementOfSeq DEF Last
<1>6. \A r : WithSub(t, r) = [k |-> t.k, sub |-> r]
  BY <1>1 DEF WithSub
<1> QED
  BY <1>2, <1>3, <1>5, <1>6

\* With any subterms at all it is a term of its class.
LEMMA ChainMade ==
  ASSUME NEW R, NEW kind \in Grouping, NEW r \in Seq(R), r # <<>>
  PROVE  [k |-> kind, sub |-> r] \in Nodes(R)
BY DEF Nodes, Grouping

\* One step along a chain, the rest given by f
PartsAt(f, u) ==
  CASE u.k \in {"product", "lambda"} /\ LastSub(u).k = u.k -> Front(u.sub) \o f[LastSub(u)]
    [] u.k = "apply" /\ u.sub[1].k = "apply" -> f[u.sub[1]] \o Tail(u.sub)
    [] OTHER -> u.sub

\* The recursive function in ChainParts
PartsOf == CHOOSE parts : parts = [u \in Term |-> PartsAt(parts, u)]

\* ChainParts is the value of that function.
LEMMA ChainIsParts ==
  ASSUME NEW t
  PROVE  ChainParts(t) = PartsOf[t]
BY DEF ChainParts, PartsOf, PartsAt

\* normalize comes to the end of every chain (the loops of normalize_rec).
LEMMA PartsDef ==
  PartsOf = [u \in Term |-> PartsAt(PartsOf, u)]
<1> DEFINE L(n) == Levels(0 .. Word - 1)[n]
           Upto(f, n) == f = [u \in L(n) |-> PartsAt(f, u)]
           Good == {n \in Nat : n \in 0 .. MaxNesting => \E f : Upto(f, n)}
<1>1. ASSUME NEW n \in 0 .. MaxNesting, NEW f, NEW g, NEW u \in L(n),
             n > 0 => \A s \in L(n - 1) : f[s] = g[s]
      PROVE  PartsAt(f, u) = PartsAt(g, u)
  <2>1. CASE u.k \in Grouping
    <3>1. ~IsLeaf(u)
      BY <2>1 DEF IsLeaf, Grouping
    <3>2. n > 0 /\ u \in Nodes(Levels(0 .. Word - 1)[n - 1])
      BY <3>1, LevelShape
    <3>3. LastSub(u) \in L(n - 1) /\ u.sub[1] \in L(n - 1)
      BY <2>1, <3>2, ChainNode DEF LastSub
    <3>4. f[LastSub(u)] = g[LastSub(u)] /\ f[u.sub[1]] = g[u.sub[1]]
      BY <1>1, <3>2, <3>3
    <3> QED
      BY <3>4, Zenon DEF PartsAt
  <2>2. CASE ~(u.k \in Grouping)
    BY <2>2 DEF PartsAt, Grouping
  <2> QED
    BY <2>1, <2>2
<1> HIDE DEF L
<1>2. 0 \in Good
  <2> DEFINE g == [u \in L(0) |-> PartsAt(<<>>, u)]
  <2>1. \A u \in L(0) : PartsAt(<<>>, u) = PartsAt(g, u)
    BY <1>1, NestingAssumption
  <2>2. Upto(g, 0)
    BY <2>1
  <2> QED
    BY <2>2
<1>3. ASSUME NEW n \in Good PROVE n + 1 \in Good
  <2> SUFFICES ASSUME n + 1 \in 0 .. MaxNesting PROVE \E f : Upto(f, n + 1)
    BY <1>3
  <2>1. n \in 0 .. MaxNesting /\ n + 1 > 0 /\ n + 1 - 1 = n
    BY <1>3, NestingAssumption
  <2>2. PICK f : Upto(f, n)
    BY <1>3, <2>1
  <2> DEFINE g == [u \in L(n + 1) |-> PartsAt(f, u)]
  <2>3. L(n) \subseteq L(n + 1)
    BY <2>1, LevelsRise DEF L
  <2>4. \A s \in L(n) : f[s] = g[s]
    BY <2>2, <2>3
  <2> HIDE DEF g
  <2>5. \A u \in L(n + 1) : PartsAt(f, u) = PartsAt(g, u)
    BY <1>1, <2>1, <2>4
  <2>6. Upto(g, n + 1)
    BY <2>5 DEF g
  <2> QED
    BY <2>6
<1>4. Good = Nat
  <2> HIDE DEF Good
  <2>1. Good \subseteq Nat
    BY DEF Good
  <2> QED
    BY <2>1, <1>2, <1>3, CountUp
<1>5. PICK f : Upto(f, MaxNesting)
  BY <1>4, NestingAssumption
<1>6. L(MaxNesting) = Term
  BY TermsOverLevels DEF L, Term
<1> QED
  BY <1>5, <1>6, Zenon DEF PartsOf

\* What the loops of normalize_rec collect, step by step.
LEMMA PartsNode ==
  ASSUME NEW t \in Term
  PROVE  /\ t.k \in {"product", "lambda"} /\ LastSub(t).k = t.k =>
              ChainParts(t) = Front(t.sub) \o ChainParts(LastSub(t))
         /\ t.k = "apply" /\ t.sub[1].k = "apply" =>
              ChainParts(t) = ChainParts(t.sub[1]) \o Tail(t.sub)
         /\ ~(t.k \in {"product", "lambda"} /\ LastSub(t).k = t.k)
              /\ ~(t.k = "apply" /\ t.sub[1].k = "apply") => ChainParts(t) = t.sub
<1>1. PartsOf[t] = PartsAt(PartsOf, t)
  BY PartsDef
<1>2. t.k \in {"product", "lambda"} => t.k # "apply"
  OBVIOUS
<1>3. t.k \in {"product", "lambda"} /\ LastSub(t).k = t.k =>
        PartsOf[t] = Front(t.sub) \o PartsOf[LastSub(t)]
  BY <1>1, <1>2, Zenon DEF PartsAt
<1>4. t.k = "apply" /\ t.sub[1].k = "apply" => PartsOf[t] = PartsOf[t.sub[1]] \o Tail(t.sub)
  BY <1>1, <1>2, Zenon DEF PartsAt
<1>5. ~(t.k \in {"product", "lambda"} /\ LastSub(t).k = t.k)
        /\ ~(t.k = "apply" /\ t.sub[1].k = "apply") => PartsOf[t] = t.sub
  BY <1>1, Zenon DEF PartsAt
<1> QED
  BY <1>3, <1>4, <1>5, ChainIsParts, Zenon

\* What is collected are terms nested less deep than the chain, at least one (the loops
\* of normalize_rec).
LEMMA PartsShape ==
  ASSUME NEW I \in SUBSET (0 .. Word - 1), NEW n \in 0 .. MaxNesting, NEW t \in Levels(I)[n],
         ~IsLeaf(t)
  PROVE  /\ n > 0
         /\ ChainParts(t) \in Seq(Levels(I)[n - 1])
         /\ t.k \in Grouping => ChainParts(t) # <<>>
<1> DEFINE L(m) == Levels(I)[m]
           Fine(u, m) == /\ m > 0
                         /\ ChainParts(u) \in Seq(L(m - 1))
                         /\ u.k \in Grouping => ChainParts(u) # <<>>
           Good == [m \in 0 .. MaxNesting |-> {u \in L(m) : ~IsLeaf(u) => Fine(u, m)}]
<1>1. ASSUME NEW m \in 0 .. MaxNesting, NEW u \in Leaves(I) PROVE u \in Good[m]
  <2>1. u \in L(m) /\ IsLeaf(u)
    BY LevelsRise DEF Leaves, IsLeaf
  <2> QED
    BY <2>1
<1>2. ASSUME NEW m \in 1 .. MaxNesting, NEW u \in Nodes(L(m - 1)),
             \A i \in DOMAIN u.sub : u.sub[i] \in Good[m - 1]
      PROVE  u \in Good[m]
  <2>1. m - 1 \in 0 .. MaxNesting /\ m \in 0 .. MaxNesting /\ m > 0
    BY NestingAssumption
  <2>2. u \in L(m) /\ u.sub \in Seq(L(m - 1)) /\ u \in Term
    <3>1. u \in L(m)
      BY <2>1, LevelsRise
    <3>2. L(m) \subseteq Term
      BY <2>1, LevelsInTerms, TermsWiden DEF Term
    <3> QED
      BY <3>1, <3>2, NodeShape
  <2>3. ASSUME NEW s \in L(m - 1), s \in Good[m - 1], s.k \in Grouping
        PROVE  ChainParts(s) \in Seq(L(m - 1)) /\ ChainParts(s) # <<>>
    <3>1. Fine(s, m - 1)
      BY <2>1, <2>3 DEF IsLeaf, Grouping
    <3>2. L(m - 1 - 1) \subseteq L(m - 1)
      BY <2>1, <3>1, LevelsRise
    <3>3. Seq(L(m - 1 - 1)) \subseteq Seq(L(m - 1))
      BY <3>2
    <3> QED
      BY <2>3, <3>1, <3>3
  <2> HIDE DEF L
  <2>4. CASE u.k \in {"product", "lambda"} /\ LastSub(u).k = u.k
    <3>1. u.sub # <<>> /\ LastSub(u) \in L(m - 1) /\ LastSub(u) \in Good[m - 1]
      <4>1. u.sub # <<>> /\ Len(u.sub) \in Nat \ {0} /\ LastSub(u) \in L(m - 1)
        BY <2>4, ChainNode DEF LastSub, Grouping
      <4>2. Len(u.sub) \in DOMAIN u.sub
        BY <2>2, <4>1
      <4> QED
        BY <1>2, <4>1, <4>2 DEF LastSub, Last
    <3>2. ChainParts(LastSub(u)) \in Seq(L(m - 1)) /\ ChainParts(LastSub(u)) # <<>>
      BY <2>3, <2>4, <3>1 DEF Grouping
    <3>3. ChainParts(u) = Front(u.sub) \o ChainParts(LastSub(u))
      BY <2>2, <2>4, PartsNode
    <3> DEFINE s == u.sub
               r == ChainParts(LastSub(u))
    <3> HIDE DEF s, r
    <3>4. /\ Front(s) \o r \in Seq(L(m - 1)) /\ Len(Front(s) \o r) = Len(s) - 1 + Len(r)
          /\ Len(s) \in Nat \ {0} /\ Len(r) \in Nat \ {0}
      <4>1. s \in Seq(L(m - 1)) /\ s # <<>> /\ r \in Seq(L(m - 1)) /\ r # <<>>
        BY <2>2, <3>1, <3>2 DEF s, r
      <4>2. Len(s) \in Nat \ {0} /\ Len(r) \in Nat \ {0}
        BY <4>1, EmptySeq
      <4> QED
        BY <4>1, <4>2, SpliceShape
    <3>5. Len(Front(s) \o r) # 0
      BY <3>4
    <3>6. Front(s) \o r # <<>>
      BY <3>5, EmptySeq
    <3> QED
      BY <2>1, <2>2, <3>3, <3>4, <3>6 DEF s, r
  <2>5. CASE u.k = "apply" /\ u.sub[1].k = "apply"
    <3>1. u.sub # <<>> /\ u.sub[1] \in L(m - 1) /\ u.sub[1] \in Good[m - 1]
      <4>1. u.sub # <<>> /\ Len(u.sub) \in Nat \ {0} /\ u.sub[1] \in L(m - 1)
        BY <2>5, ChainNode DEF Grouping
      <4>2. 1 \in DOMAIN u.sub
        BY <2>2, <4>1
      <4> QED
        BY <1>2, <4>1, <4>2
    <3>2. ChainParts(u.sub[1]) \in Seq(L(m - 1)) /\ ChainParts(u.sub[1]) # <<>>
      BY <2>3, <2>5, <3>1 DEF Grouping
    <3>3. ChainParts(u) = ChainParts(u.sub[1]) \o Tail(u.sub)
      BY <2>2, <2>5, PartsNode
    <3> DEFINE s == u.sub
               r == ChainParts(u.sub[1])
    <3> HIDE DEF s, r
    <3>4. /\ r \o Tail(s) \in Seq(L(m - 1)) /\ Len(r \o Tail(s)) = Len(r) + Len(s) - 1
          /\ Len(s) \in Nat \ {0} /\ Len(r) \in Nat \ {0}
      <4>1. s \in Seq(L(m - 1)) /\ s # <<>> /\ r \in Seq(L(m - 1)) /\ r # <<>>
        BY <2>2, <3>1, <3>2 DEF s, r
      <4>2. Len(s) \in Nat \ {0} /\ Len(r) \in Nat \ {0}
        BY <4>1, EmptySeq
      <4> QED
        BY <4>1, <4>2, SpliceShape
    <3>5. Len(r \o Tail(s)) # 0
      BY <3>4
    <3>6. r \o Tail(s) # <<>>
      BY <3>5, EmptySeq
    <3> QED
      BY <2>1, <2>2, <3>3, <3>4, <3>6 DEF s, r
  <2>6. CASE /\ ~(u.k \in {"product", "lambda"} /\ LastSub(u).k = u.k)
             /\ ~(u.k = "apply" /\ u.sub[1].k = "apply")
    <3>1. ChainParts(u) = u.sub
      BY <2>2, <2>6, PartsNode
    <3>2. u.k \in Grouping => u.sub # <<>>
      BY ChainNode
    <3> QED
      BY <2>1, <2>2, <3>1, <3>2
  <2> QED
    BY <2>4, <2>5, <2>6
<1>3. t \in Good[n]
  <2> HIDE DEF Good, L
  <2>1. \A m \in 0 .. MaxNesting : L(m) \subseteq Good[m]
    BY <1>1, <1>2, LevelInduction DEF L
  <2> QED
    BY <2>1 DEF L
<1> QED
  BY <1>3

\* What is collected along a chain are terms (the loops of normalize_rec).
LEMMA PartsInTerm ==
  ASSUME NEW t \in Term, ~IsLeaf(t)
  PROVE  ChainParts(t) \in Seq(Term)
<1>1. MaxNesting \in 0 .. MaxNesting /\ t \in Levels(0 .. Word - 1)[MaxNesting]
  BY NestingAssumption, TermsOverLevels DEF Term
<1>2. 0 .. Word - 1 \in SUBSET (0 .. Word - 1)
  OBVIOUS
<1>3. MaxNesting > 0 /\ ChainParts(t) \in Seq(Levels(0 .. Word - 1)[MaxNesting - 1])
  BY <1>1, <1>2, PartsShape
<1>4. MaxNesting - 1 \in 0 .. MaxNesting
  BY <1>1, <1>3
<1>5. Levels(0 .. Word - 1)[MaxNesting - 1] \subseteq Term
  BY <1>4, LevelsInTerms DEF Term
<1>6. Seq(Levels(0 .. Word - 1)[MaxNesting - 1]) \subseteq Seq(Term)
  BY <1>5
<1> QED
  BY <1>3, <1>6

(***************************************************************************)
(* normalize.                                                              *)
(***************************************************************************)

\* One call of normalize_rec, the calls for what it has collected given by f
NormalAt(f, u) ==
  IF IsLeaf(u) THEN u
  ELSE WithSub(u, [i \in DOMAIN ChainParts(u) |-> f[ChainParts(u)[i]]])

\* The recursive function in Normalize
NormalForm == CHOOSE normalize : normalize = [u \in Term |-> NormalAt(normalize, u)]

\* Normalize is the value of that function.
LEMMA NormalizeIsNormal ==
  ASSUME NEW t
  PROVE  Normalize(t) = NormalForm[t]
BY DEF Normalize, NormalForm, NormalAt

\* normalize ends for every term (normalize_rec).
LEMMA NormalDef ==
  NormalForm = [u \in Term |-> NormalAt(NormalForm, u)]
<1> DEFINE L(n) == Levels(0 .. Word - 1)[n]
           Upto(f, n) == f = [u \in L(n) |-> NormalAt(f, u)]
           Good == {n \in Nat : n \in 0 .. MaxNesting => \E f : Upto(f, n)}
<1>1. ASSUME NEW n \in 0 .. MaxNesting, NEW f, NEW g, NEW u \in L(n),
             n > 0 => \A s \in L(n - 1) : f[s] = g[s]
      PROVE  NormalAt(f, u) = NormalAt(g, u)
  <2>1. CASE IsLeaf(u)
    BY <2>1 DEF NormalAt
  <2>2. CASE ~IsLeaf(u)
    <3> DEFINE p == ChainParts(u)
    <3>1. n > 0 /\ p \in Seq(L(n - 1))
      <4>1. 0 .. Word - 1 \in SUBSET (0 .. Word - 1)
        OBVIOUS
      <4> QED
        BY <2>2, <4>1, PartsShape
    <3> HIDE DEF p
    <3>2. \A i \in DOMAIN p : f[p[i]] = g[p[i]]
      BY <1>1, <3>1
    <3>3. [i \in DOMAIN p |-> f[p[i]]] = [i \in DOMAIN p |-> g[p[i]]]
      BY <3>2
    <3> QED
      BY <3>3, <2>2, Zenon DEF NormalAt, p
  <2> QED
    BY <2>1, <2>2
<1> HIDE DEF L
<1>2. 0 \in Good
  <2> DEFINE g == [u \in L(0) |-> NormalAt(<<>>, u)]
  <2>1. \A u \in L(0) : NormalAt(<<>>, u) = NormalAt(g, u)
    BY <1>1, NestingAssumption
  <2>2. Upto(g, 0)
    BY <2>1
  <2> QED
    BY <2>2
<1>3. ASSUME NEW n \in Good PROVE n + 1 \in Good
  <2> SUFFICES ASSUME n + 1 \in 0 .. MaxNesting PROVE \E f : Upto(f, n + 1)
    BY <1>3
  <2>1. n \in 0 .. MaxNesting /\ n + 1 > 0 /\ n + 1 - 1 = n
    BY <1>3, NestingAssumption
  <2>2. PICK f : Upto(f, n)
    BY <1>3, <2>1
  <2> DEFINE g == [u \in L(n + 1) |-> NormalAt(f, u)]
  <2>3. L(n) \subseteq L(n + 1)
    BY <2>1, LevelsRise DEF L
  <2>4. \A s \in L(n) : f[s] = g[s]
    BY <2>2, <2>3
  <2> HIDE DEF g
  <2>5. \A u \in L(n + 1) : NormalAt(f, u) = NormalAt(g, u)
    BY <1>1, <2>1, <2>4
  <2>6. Upto(g, n + 1)
    BY <2>5 DEF g
  <2> QED
    BY <2>6
<1>4. Good = Nat
  <2> HIDE DEF Good
  <2>1. Good \subseteq Nat
    BY DEF Good
  <2> QED
    BY <2>1, <1>2, <1>3, CountUp
<1>5. PICK f : Upto(f, MaxNesting)
  BY <1>4, NestingAssumption
<1>6. L(MaxNesting) = Term
  BY TermsOverLevels DEF L, Term
<1> QED
  BY <1>5, <1>6, Zenon DEF NormalForm

\* normalize leaves variables and globals alone.
LEMMA NormalLeaf ==
  ASSUME NEW t \in Term, IsLeaf(t)
  PROVE  Normalize(t) = t
BY NormalDef, NormalizeIsNormal DEF NormalAt

\* normalize of any other term: what is collected, each part normalized.
LEMMA NormalParts ==
  ASSUME NEW t \in Term, ~IsLeaf(t)
  PROVE  Normalize(t) = WithSub(t, Mapped(NormalForm, ChainParts(t)))
<1>1. NormalForm[t] = NormalAt(NormalForm, t)
  BY NormalDef
<1>2. NormalForm[t] = WithSub(t, [i \in DOMAIN ChainParts(t) |-> NormalForm[ChainParts(t)[i]]])
  BY <1>1, Zenon DEF NormalAt
<1> QED
  BY <1>2, NormalizeIsNormal DEF Mapped

\* Whatever is put in place of its subterms, a term keeps its class.
LEMMA WithAnySub ==
  ASSUME NEW S, NEW t \in Nodes(S), NEW r
  PROVE  /\ WithSub(t, r).k = t.k
         /\ WithSub(t, r).sub = r
         /\ \A q : WithSub(WithSub(t, r), q) = WithSub(t, q)
BY DEF Nodes, WithSub

\* normalize makes no other class of a term.
LEMMA NormalKind ==
  ASSUME NEW t \in Term
  PROVE  Normalize(t).k = t.k
<1>1. CASE IsLeaf(t)
  BY <1>1, NormalLeaf
<1>2. CASE ~IsLeaf(t)
  <2>1. t \in Nodes(Term)
    BY <1>2, TermShape
  <2> QED
    BY <1>2, <2>1, NormalParts, WithAnySub
<1> QED
  BY <1>1, <1>2

\* A construct of subterms that are in normal form already, those of the last or first
\* one taken out of it if it continues a chain
Regroup(t, s) ==
  CASE t.k \in {"product", "lambda"} /\ Last(s).k = t.k -> WithSub(t, Front(s) \o Last(s).sub)
    [] t.k = "apply" /\ s[1].k = "apply" -> WithSub(t, s[1].sub \o Tail(s))
    [] OTHER -> WithSub(t, s)

\* The three cases of Regroup.
LEMMA RegroupCases ==
  ASSUME NEW t, NEW s
  PROVE  /\ t.k \in {"product", "lambda"} /\ Last(s).k = t.k =>
              Regroup(t, s) = WithSub(t, Front(s) \o Last(s).sub)
         /\ t.k = "apply" /\ s[1].k = "apply" => Regroup(t, s) = WithSub(t, s[1].sub \o Tail(s))
         /\ ~(t.k \in {"product", "lambda"} /\ Last(s).k = t.k)
              /\ ~(t.k = "apply" /\ s[1].k = "apply") => Regroup(t, s) = WithSub(t, s)
<1>1. t.k \in {"product", "lambda"} => t.k # "apply"
  OBVIOUS
<1> QED
  BY <1>1, Zenon DEF Regroup

\* The normal form of a term is made of the normal forms of its subterms: it does not
\* matter whether what a chain consists of is normalized before or after it is collected
\* (normalize_rec).
LEMMA NormalNode ==
  ASSUME NEW t \in Term, ~IsLeaf(t)
  PROVE  Normalize(t) = Regroup(t, Mapped(NormalForm, t.sub))
<1> DEFINE s == t.sub
           ns == Mapped(NormalForm, s)
<1>1. t \in Nodes(Term) /\ s \in Seq(Term)
  BY TermShape
<1>2. ASSUME t.k \in Grouping
      PROVE  /\ s # <<>>
             /\ Last(s) \in Term /\ Last(ns) = Normalize(Last(s)) /\ Last(ns).k = Last(s).k
             /\ s[1] \in Term /\ ns[1] = Normalize(s[1]) /\ ns[1].k = s[1].k
  <2>1. s # <<>> /\ Len(s) \in Nat \ {0} /\ s[1] \in Term /\ Last(s) \in Term
    BY <1>1, <1>2, ChainNode
  <2>2. Len(ns) = Len(s) /\ \A i \in 1 .. Len(s) : ns[i] = NormalForm[s[i]]
    BY <1>1, MappedEntries
  <2>3. 1 \in 1 .. Len(s) /\ Len(s) \in 1 .. Len(s)
    BY <2>1
  <2> HIDE DEF s, ns
  <2>4. ns[1] = NormalForm[s[1]] /\ Last(ns) = NormalForm[Last(s)]
    BY <2>2, <2>3 DEF Last
  <2> QED
    BY <2>1, <2>4, NormalizeIsNormal, NormalKind
<1>3. CASE t.k \in {"product", "lambda"} /\ LastSub(t).k = t.k
  <2> DEFINE u == LastSub(t)
             r == ChainParts(u)
  <2>1. t.k \in Grouping /\ u \in Term /\ u = Last(s) /\ u.k = t.k /\ s # <<>>
    BY <1>2, <1>3 DEF Grouping, LastSub
  <2>2. ~IsLeaf(u) /\ u \in Nodes(Term)
    BY <1>1, <2>1, TermShape DEF IsLeaf, Grouping
  <2>3. Normalize(u) = WithSub(u, Mapped(NormalForm, r))
    BY <2>1, <2>2, NormalParts
  <2>4. Last(ns).sub = Mapped(NormalForm, r) /\ Last(ns).k = t.k
    BY <1>2, <2>1, <2>2, <2>3, WithAnySub
  <2>5. r \in Seq(Term)
    BY <2>1, <2>2, PartsInTerm
  <2>6. Mapped(NormalForm, Front(s) \o r) = Front(ns) \o Mapped(NormalForm, r)
    BY <1>1, <2>1, <2>5, MappedSplice
  <2>7. ChainParts(t) = Front(s) \o r
    BY <1>3, PartsNode
  <2>8. Normalize(t) = WithSub(t, Front(ns) \o Last(ns).sub)
    BY <2>4, <2>6, <2>7, NormalParts
  <2> HIDE DEF s, ns, u, r
  <2> QED
    BY <1>3, <2>4, <2>8, RegroupCases DEF s, ns
<1>4. CASE t.k = "apply" /\ t.sub[1].k = "apply"
  <2> DEFINE u == s[1]
             r == ChainParts(u)
  <2>1. t.k \in Grouping /\ u \in Term /\ u.k = "apply" /\ s # <<>>
    BY <1>2, <1>4 DEF Grouping
  <2>2. ~IsLeaf(u) /\ u \in Nodes(Term)
    BY <1>1, <2>1, TermShape DEF IsLeaf, Grouping
  <2>3. Normalize(u) = WithSub(u, Mapped(NormalForm, r))
    BY <2>1, <2>2, NormalParts
  <2>4. ns[1].sub = Mapped(NormalForm, r) /\ ns[1].k = "apply"
    BY <1>2, <2>1, <2>2, <2>3, WithAnySub
  <2>5. r \in Seq(Term)
    BY <2>1, <2>2, PartsInTerm
  <2>6. Mapped(NormalForm, r \o Tail(s)) = Mapped(NormalForm, r) \o Tail(ns)
    BY <1>1, <2>1, <2>5, MappedSplice
  <2>7. ChainParts(t) = r \o Tail(s)
    BY <1>4, PartsNode
  <2>8. Normalize(t) = WithSub(t, ns[1].sub \o Tail(ns))
    BY <2>4, <2>6, <2>7, NormalParts
  <2> HIDE DEF s, ns, u, r
  <2> QED
    BY <1>4, <2>4, <2>8, RegroupCases DEF s, ns
<1>5. CASE /\ ~(t.k \in {"product", "lambda"} /\ LastSub(t).k = t.k)
           /\ ~(t.k = "apply" /\ t.sub[1].k = "apply")
  <2>1. Normalize(t) = WithSub(t, ns)
    BY <1>5, PartsNode, NormalParts
  <2>2. ~(t.k \in {"product", "lambda"} /\ Last(ns).k = t.k)
    BY <1>2, <1>5 DEF LastSub, Grouping
  <2>3. ~(t.k = "apply" /\ ns[1].k = "apply")
    BY <1>2, <1>5 DEF Grouping
  <2> HIDE DEF s, ns
  <2> QED
    BY <2>1, <2>2, <2>3, RegroupCases DEF s, ns
<1> QED
  BY <1>3, <1>4, <1>5

\* Regrouped normal forms nest no deeper than the term (normalize_rec).
LEMMA RegroupInLevel ==
  ASSUME NEW I, NEW n \in 1 .. MaxNesting, NEW S, NEW t \in Nodes(S),
         NEW s \in Seq(Levels(I)[n - 1]), Len(s) = Len(t.sub)
  PROVE  Regroup(t, s) \in Levels(I)[n] \cap Nodes(Levels(I)[n - 1])
<1> DEFINE L(m) == Levels(I)[m]
<1>1. n - 1 \in 0 .. MaxNesting /\ n \in 0 .. MaxNesting /\ n > 0 /\ n - 1 + 1 = n
  BY NestingAssumption
<1>2. Nodes(L(n - 1)) \subseteq L(n)
  BY <1>1, LevelsRise
<1>3. ASSUME t.k \in Grouping
      PROVE  s # <<>> /\ Last(s) \in L(n - 1) /\ s[1] \in L(n - 1) /\ Len(s) \in Nat \ {0}
  <2>1. Len(s) \in Nat \ {0}
    BY <1>3, ChainNode
  <2>2. 1 \in 1 .. Len(s) /\ Len(s) \in 1 .. Len(s)
    BY <2>1
  <2> QED
    BY <2>1, <2>2, EmptySeq, ElementOfSeq DEF Last
<1>4. ASSUME NEW u \in L(n - 1), u.k \in Grouping
      PROVE  u.sub \in Seq(L(n - 1)) /\ Len(u.sub) \in Nat \ {0}
  <2>1. ~IsLeaf(u)
    BY <1>4 DEF IsLeaf, Grouping
  <2>2. n - 1 > 0 /\ u \in Nodes(L(n - 1 - 1))
    BY <1>1, <2>1, LevelShape
  <2>3. L(n - 1 - 1) \subseteq L(n - 1)
    BY <1>1, <2>2, LevelsRise
  <2>4. u \in Nodes(L(n - 1))
    BY <2>2, <2>3, NodesMonotone
  <2> QED
    BY <1>4, <2>4, ChainNode
<1> HIDE DEF L
<1>8. s \in Seq(L(n - 1))
  BY DEF L
<1>9. ASSUME NEW r \in Seq(L(n - 1)), Len(r) # 0, t.k \in Grouping
      PROVE  WithSub(t, r) \in Nodes(L(n - 1))
  <2>1. r # <<>>
    BY <1>9, EmptySeq
  <2>2. WithSub(t, r) = [k |-> t.k, sub |-> r]
    BY <1>9, ChainNode
  <2> QED
    BY <1>9, <2>1, <2>2, ChainMade
<1>5. CASE t.k \in {"product", "lambda"} /\ Last(s).k = t.k
  <2> DEFINE r == Last(s).sub
  <2>1. t.k \in Grouping /\ r \in Seq(L(n - 1)) /\ Len(r) \in Nat \ {0}
    BY <1>3, <1>4, <1>5 DEF Grouping
  <2>2. Regroup(t, s) = WithSub(t, Front(s) \o r)
    BY <1>5, RegroupCases
  <2> HIDE DEF r
  <2>3. Front(s) \o r \in Seq(L(n - 1)) /\ Len(Front(s) \o r) = Len(s) - 1 + Len(r)
    <3>1. s \in Seq(L(n - 1)) /\ s # <<>> /\ r \in Seq(L(n - 1))
      BY <1>3, <1>8, <2>1
    <3> QED
      BY <3>1, SpliceShape
  <2>4. Len(Front(s) \o r) # 0
    BY <1>3, <2>1, <2>3
  <2> QED
    BY <1>2, <1>9, <2>1, <2>2, <2>3, <2>4 DEF L
<1>6. CASE t.k = "apply" /\ s[1].k = "apply"
  <2> DEFINE r == s[1].sub
  <2>1. t.k \in Grouping /\ r \in Seq(L(n - 1)) /\ Len(r) \in Nat \ {0}
    BY <1>3, <1>4, <1>6 DEF Grouping
  <2>2. Regroup(t, s) = WithSub(t, r \o Tail(s))
    BY <1>6, RegroupCases
  <2> HIDE DEF r
  <2>3. r \o Tail(s) \in Seq(L(n - 1)) /\ Len(r \o Tail(s)) = Len(r) + Len(s) - 1
    <3>1. s \in Seq(L(n - 1)) /\ s # <<>> /\ r \in Seq(L(n - 1))
      BY <1>3, <1>8, <2>1
    <3> QED
      BY <3>1, SpliceShape
  <2>4. Len(r \o Tail(s)) # 0
    BY <1>3, <2>1, <2>3
  <2> QED
    BY <1>2, <1>9, <2>1, <2>2, <2>3, <2>4 DEF L
<1>7. CASE /\ ~(t.k \in {"product", "lambda"} /\ Last(s).k = t.k)
           /\ ~(t.k = "apply" /\ s[1].k = "apply")
  <2>1. Regroup(t, s) = WithSub(t, s)
    BY <1>7, RegroupCases
  <2> QED
    BY <1>2, <1>8, <2>1, WithSubShape DEF L
<1> QED
  BY <1>5, <1>6, <1>7

\* The normal form of a term is a term that is nested no deeper (normalize).
LEMMA NormalInLevel ==
  ASSUME NEW I \in SUBSET (0 .. Word - 1), NEW n \in 0 .. MaxNesting, NEW t \in Levels(I)[n]
  PROVE  Normalize(t) \in Levels(I)[n]
<1> DEFINE L(m) == Levels(I)[m]
           Good == [m \in 0 .. MaxNesting |-> {u \in L(m) : Normalize(u) \in L(m)}]
<1>1. \A m \in 0 .. MaxNesting : L(m) \subseteq Term
  BY LevelsInTerms, TermsWiden DEF Term
<1>2. ASSUME NEW m \in 0 .. MaxNesting, NEW u \in Leaves(I) PROVE u \in Good[m]
  <2>1. u \in L(m) /\ u \in Term /\ IsLeaf(u)
    BY <1>1, LevelsRise DEF Leaves, IsLeaf
  <2> QED
    BY <2>1, NormalLeaf
<1>3. ASSUME NEW m \in 1 .. MaxNesting, NEW u \in Nodes(L(m - 1)),
             \A i \in DOMAIN u.sub : u.sub[i] \in Good[m - 1]
      PROVE  u \in Good[m]
  <2>1. m - 1 \in 0 .. MaxNesting /\ m \in 0 .. MaxNesting /\ m > 0
    BY NestingAssumption
  <2>2. u \in L(m) /\ u \in Term /\ ~IsLeaf(u) /\ u.sub \in Seq(L(m - 1))
    BY <1>1, <2>1, LevelsRise, NodeShape
  <2> DEFINE s == Mapped(NormalForm, u.sub)
  <2>3. \A i \in DOMAIN u.sub : NormalForm[u.sub[i]] \in L(m - 1)
    BY <1>3, <2>1, NormalizeIsNormal
  <2>4. s \in Seq(L(m - 1)) /\ Len(s) = Len(u.sub)
    <3>1. Len(u.sub) \in Nat /\ DOMAIN u.sub = 1 .. Len(u.sub)
      BY <2>2
    <3>2. s \in [1 .. Len(u.sub) -> L(m - 1)]
      BY <2>3, <3>1 DEF Mapped
    <3> HIDE DEF s
    <3> QED
      BY <3>1, <3>2, FixedSeq
  <2> HIDE DEF s, L
  <2>5. Regroup(u, s) \in L(m)
    BY <2>4, RegroupInLevel DEF L
  <2>6. Normalize(u) = Regroup(u, s)
    BY <2>2, NormalNode DEF s
  <2> QED
    BY <2>1, <2>2, <2>5, <2>6
<1>4. t \in Good[n]
  <2> HIDE DEF Good, L
  <2>1. \A m \in 0 .. MaxNesting : L(m) \subseteq Good[m]
    BY <1>2, <1>3, LevelInduction DEF L
  <2> QED
    BY <2>1 DEF L
<1> QED
  BY <1>4

\* normalize returns a term with the variables of the term it is given, made of normal
\* forms.
LEMMA NormalInTerm ==
  ASSUME NEW t \in Term
  PROVE  /\ Normalize(t) \in Term
         /\ ~IsLeaf(t) => /\ Mapped(NormalForm, t.sub) \in Seq(Term)
                          /\ Len(Mapped(NormalForm, t.sub)) = Len(t.sub)
                          /\ \A i \in 1 .. Len(t.sub) :
                               Mapped(NormalForm, t.sub)[i] = Normalize(t.sub[i])
<1>1. ASSUME NEW u \in Term PROVE Normalize(u) \in Term
  <2>1. MaxNesting \in 0 .. MaxNesting /\ u \in Levels(0 .. Word - 1)[MaxNesting]
    BY NestingAssumption, TermsOverLevels DEF Term
  <2>2. 0 .. Word - 1 \in SUBSET (0 .. Word - 1)
    OBVIOUS
  <2>3. Normalize(u) \in Levels(0 .. Word - 1)[MaxNesting]
    BY <2>1, <2>2, NormalInLevel
  <2> QED
    BY <2>3, TermsOverLevels DEF Term
<1>2. ASSUME ~IsLeaf(t)
      PROVE  /\ Mapped(NormalForm, t.sub) \in Seq(Term)
             /\ Len(Mapped(NormalForm, t.sub)) = Len(t.sub)
             /\ \A i \in 1 .. Len(t.sub) : Mapped(NormalForm, t.sub)[i] = Normalize(t.sub[i])
  <2>1. t.sub \in Seq(Term)
    BY <1>2, TermShape
  <2>2. \A u \in Term : NormalForm[u] \in Term
    BY <1>1, NormalizeIsNormal
  <2>3. Mapped(NormalForm, t.sub) \in Seq(Term)
    BY <2>1, <2>2, MappedType
  <2> QED
    BY <2>1, <2>3, MappedEntries, NormalizeIsNormal
<1> QED
  BY <1>1, <1>2

(***************************************************************************)
(* Where subterms and binders are when a chain is put together.            *)
(***************************************************************************)

\* In a product or lambda each formal argument is in scope of the ones before it, in an
\* application nothing is bound (Binds).
LEMMA ChainBinds ==
  ASSUME NEW S, NEW t \in Nodes(S), t.k \in Grouping
  PROVE  \A i \in 1 .. Len(t.sub) : Binds(t)[i] = IF t.k = "apply" THEN 0 ELSE i - 1
BY DEF Binds, Grouping

\* v is u with the subterms s, where the last of n is a u.k as well and r are its subterms
JoinsLast(u, s, v, r, n) ==
  /\ u \in Nodes(Term) /\ u.k \in {"product", "lambda"}
  /\ s \in Seq(Term) /\ n = Len(s) /\ Len(s) = Len(u.sub)
  /\ Last(s).k = u.k /\ r = Last(s).sub
  /\ v = Regroup(u, s)

\* The subterms of the last one take its place, each under the binders it was under
\* before (normalize_rec).
LEMMA JoinedLast ==
  ASSUME NEW u, NEW s, NEW v, NEW r, NEW n, JoinsLast(u, s, v, r, n)
  PROVE  /\ n \in Nat \ {0} /\ s # <<>> /\ n \in DOMAIN s /\ s[n] = Last(s)
         /\ Last(s) \in Term /\ Last(s) \in Nodes(Term) /\ ~IsLeaf(Last(s))
         /\ r \in Seq(Term) /\ Len(r) \in Nat \ {0} /\ DOMAIN Last(s).sub = 1 .. Len(r)
         /\ v = WithSub(u, Front(s) \o r) /\ v \in Nodes(Term) /\ v.k = u.k
         /\ v.sub \in Seq(Term) /\ v.sub = Front(s) \o r /\ Len(v.sub) = n - 1 + Len(r)
         /\ \A q : WithSub(v, q) = WithSub(u, q)
         /\ Binds(u)[n] = n - 1
         /\ \A i \in 1 .. n - 1 : v.sub[i] = s[i] /\ Binds(v)[i] = i - 1 /\ Binds(u)[i] = i - 1
         /\ \A j \in 1 .. Len(r) : /\ v.sub[n - 1 + j] = r[j]
                                   /\ Binds(v)[n - 1 + j] = n - 1 + j - 1
                                   /\ Binds(Last(s))[j] = j - 1
<1>1. /\ u \in Nodes(Term) /\ u.k \in {"product", "lambda"} /\ u.k \in Grouping /\ u.k # "apply"
      /\ s \in Seq(Term) /\ n = Len(s) /\ Len(s) = Len(u.sub)
      /\ Last(s).k = u.k /\ r = Last(s).sub
      /\ v = Regroup(u, s)
  BY DEF JoinsLast, Grouping
<1>2. n \in Nat \ {0}
  BY <1>1, ChainNode
<1>3. s # <<>> /\ n \in DOMAIN s /\ s[n] = Last(s) /\ Last(s) \in Term
  BY <1>1, <1>2, EmptySeq DEF Last
<1>4. ~IsLeaf(Last(s)) /\ Last(s) \in Nodes(Term)
  BY <1>1, <1>3, TermShape DEF IsLeaf, Grouping
<1>5. r \in Seq(Term) /\ Len(r) \in Nat \ {0} /\ DOMAIN Last(s).sub = 1 .. Len(r)
  <2>1. r \in Seq(Term) /\ Len(r) \in Nat \ {0}
    BY <1>1, <1>4, ChainNode
  <2> QED
    BY <1>1, <2>1
<1> DEFINE a == Front(s) \o r
<1>6. v = WithSub(u, a)
  BY <1>1, RegroupCases
<1>7. /\ a \in Seq(Term) /\ Len(a) = n - 1 + Len(r)
      /\ \A i \in 1 .. n - 1 : a[i] = s[i]
      /\ \A j \in 1 .. Len(r) : a[n - 1 + j] = r[j]
  <2>1. s \in Seq(Term) /\ s # <<>> /\ r \in Seq(Term)
    BY <1>1, <1>3, <1>5
  <2>2. /\ a \in Seq(Term) /\ Len(a) = Len(s) - 1 + Len(r)
        /\ \A i \in 1 .. Len(s) - 1 : a[i] = s[i]
        /\ \A j \in 1 .. Len(r) : a[Len(s) - 1 + j] = r[j]
    BY <2>1, SpliceShape
  <2>3. n = Len(s)
    BY <1>1
  <2> HIDE DEF a
  <2> QED
    BY <2>2, <2>3, Zenon
<1> HIDE DEF a
<1>8. v.k = u.k /\ v.sub = a /\ \A q : WithSub(v, q) = WithSub(u, q)
  BY <1>1, <1>6, WithAnySub
<1>9. v \in Nodes(Term)
  <2>1. Len(a) # 0
    BY <1>2, <1>5, <1>7
  <2>2. a # <<>>
    BY <2>1, EmptySeq
  <2>3. v = [k |-> u.k, sub |-> a]
    BY <1>1, <1>6, ChainNode
  <2> QED
    BY <1>1, <1>7, <2>2, <2>3, ChainMade
<1>10. /\ \A i \in 1 .. n : Binds(u)[i] = i - 1
       /\ \A i \in 1 .. n - 1 + Len(r) : Binds(v)[i] = i - 1
       /\ \A j \in 1 .. Len(r) : Binds(Last(s))[j] = j - 1
  <2>1. ASSUME NEW t \in Nodes(Term), t.k = u.k
        PROVE  \A i \in 1 .. Len(t.sub) : Binds(t)[i] = i - 1
    BY <1>1, <2>1, ChainBinds
  <2>2. n = Len(u.sub) /\ Len(v.sub) = n - 1 + Len(r) /\ Len(Last(s).sub) = Len(r)
    BY <1>1, <1>7, <1>8
  <2>3. \A i \in 1 .. n : Binds(u)[i] = i - 1
    BY <1>1, <2>1, <2>2
  <2>4. \A i \in 1 .. n - 1 + Len(r) : Binds(v)[i] = i - 1
    BY <1>8, <1>9, <2>1, <2>2, Zenon
  <2>5. \A j \in 1 .. Len(r) : Binds(Last(s))[j] = j - 1
    BY <1>1, <1>4, <2>1, <2>2
  <2> QED
    BY <2>3, <2>4, <2>5
<1>11. /\ n \in 1 .. n
       /\ \A i \in 1 .. n - 1 : i \in 1 .. n /\ i \in 1 .. n - 1 + Len(r)
       /\ \A j \in 1 .. Len(r) : n - 1 + j \in 1 .. n - 1 + Len(r)
  BY <1>2, <1>5
<1>12. Binds(u)[n] = n - 1 /\ \A i \in 1 .. n - 1 : Binds(v)[i] = i - 1 /\ Binds(u)[i] = i - 1
  BY <1>10, <1>11
<1>13. ASSUME NEW j \in 1 .. Len(r) PROVE Binds(v)[n - 1 + j] = n - 1 + j - 1
  <2>1. n - 1 + j \in 1 .. n - 1 + Len(r)
    BY <1>11
  <2>2. \A i \in 1 .. n - 1 + Len(r) : Binds(v)[i] = i - 1
    BY <1>10
  <2>3. Binds(v)[n - 1 + j] = (n - 1 + j) - 1
    BY <2>1, <2>2, Zenon
  <2>4. (n - 1 + j) - 1 = n - 1 + j - 1
    BY <1>2, <1>5
  <2> QED
    BY <2>3, <2>4, Zenon
<1> QED
  BY <1>2, <1>3, <1>4, <1>5, <1>6, <1>7, <1>8, <1>9, <1>10, <1>12, <1>13 DEF a

\* v is the application u with the subterms s, where the first of n is one as well and r
\* are its subterms
JoinsFirst(u, s, v, r, n) ==
  /\ u \in Nodes(Term) /\ u.k = "apply"
  /\ s \in Seq(Term) /\ n = Len(s) /\ Len(s) = Len(u.sub)
  /\ s[1].k = "apply" /\ r = s[1].sub
  /\ v = Regroup(u, s)

\* The subterms of the first one take its place (normalize_rec).
LEMMA JoinedFirst ==
  ASSUME NEW u, NEW s, NEW v, NEW r, NEW n, JoinsFirst(u, s, v, r, n)
  PROVE  /\ n \in Nat \ {0} /\ s # <<>> /\ 1 \in DOMAIN s
         /\ s[1] \in Term /\ s[1] \in Nodes(Term) /\ ~IsLeaf(s[1])
         /\ r \in Seq(Term) /\ Len(r) \in Nat \ {0} /\ DOMAIN s[1].sub = 1 .. Len(r)
         /\ v = WithSub(u, r \o Tail(s)) /\ v \in Nodes(Term) /\ v.k = u.k
         /\ v.sub \in Seq(Term) /\ v.sub = r \o Tail(s) /\ Len(v.sub) = Len(r) + n - 1
         /\ \A q : WithSub(v, q) = WithSub(u, q)
         /\ \A i \in 1 .. n : Binds(u)[i] = 0
         /\ \A i \in 1 .. Len(r) + n - 1 : Binds(v)[i] = 0
         /\ \A j \in 1 .. Len(r) : v.sub[j] = r[j] /\ Binds(s[1])[j] = 0
         /\ \A i \in 2 .. n : v.sub[Len(r) + i - 1] = s[i]
<1>1. /\ u \in Nodes(Term) /\ u.k = "apply" /\ u.k \in Grouping
      /\ s \in Seq(Term) /\ n = Len(s) /\ Len(s) = Len(u.sub)
      /\ s[1].k = "apply" /\ r = s[1].sub
      /\ v = Regroup(u, s)
  BY DEF JoinsFirst, Grouping
<1>2. n \in Nat \ {0}
  BY <1>1, ChainNode
<1>3. s # <<>> /\ 1 \in DOMAIN s /\ s[1] \in Term
  BY <1>1, <1>2, EmptySeq
<1>4. ~IsLeaf(s[1]) /\ s[1] \in Nodes(Term)
  BY <1>1, <1>3, TermShape DEF IsLeaf, Grouping
<1>5. r \in Seq(Term) /\ Len(r) \in Nat \ {0} /\ DOMAIN s[1].sub = 1 .. Len(r)
  <2>1. r \in Seq(Term) /\ Len(r) \in Nat \ {0}
    BY <1>1, <1>4, ChainNode
  <2> QED
    BY <1>1, <2>1
<1> DEFINE a == r \o Tail(s)
<1>6. v = WithSub(u, a)
  BY <1>1, RegroupCases
<1>7. /\ a \in Seq(Term) /\ Len(a) = Len(r) + n - 1
      /\ \A j \in 1 .. Len(r) : a[j] = r[j]
      /\ \A i \in 2 .. n : a[Len(r) + i - 1] = s[i]
  <2>1. s \in Seq(Term) /\ s # <<>> /\ r \in Seq(Term)
    BY <1>1, <1>3, <1>5
  <2>2. /\ a \in Seq(Term) /\ Len(a) = Len(r) + Len(s) - 1
        /\ \A j \in 1 .. Len(r) : a[j] = r[j]
        /\ \A i \in 2 .. Len(s) : a[Len(r) + i - 1] = s[i]
    BY <2>1, SpliceShape
  <2>3. n = Len(s)
    BY <1>1
  <2> HIDE DEF a
  <2> QED
    BY <2>2, <2>3, Zenon
<1> HIDE DEF a
<1>8. v.k = u.k /\ v.sub = a /\ \A q : WithSub(v, q) = WithSub(u, q)
  BY <1>1, <1>6, WithAnySub
<1>9. v \in Nodes(Term)
  <2>1. Len(a) # 0
    BY <1>2, <1>5, <1>7
  <2>2. a # <<>>
    BY <2>1, EmptySeq
  <2>3. v = [k |-> u.k, sub |-> a]
    BY <1>1, <1>6, ChainNode
  <2> QED
    BY <1>1, <1>7, <2>2, <2>3, ChainMade
<1>10. /\ \A i \in 1 .. n : Binds(u)[i] = 0
       /\ \A i \in 1 .. Len(r) + n - 1 : Binds(v)[i] = 0
       /\ \A j \in 1 .. Len(r) : Binds(s[1])[j] = 0
  BY <1>1, <1>4, <1>7, <1>8, <1>9, ChainBinds
<1> QED
  BY <1>2, <1>3, <1>4, <1>5, <1>6, <1>7, <1>8, <1>9, <1>10 DEF a

\* Otherwise the subterms stay where they are.
LEMMA JoinedNone ==
  ASSUME NEW u \in Nodes(Term), NEW s \in Seq(Term), Len(s) = Len(u.sub),
         ~(u.k \in {"product", "lambda"} /\ Last(s).k = u.k), ~(u.k = "apply" /\ s[1].k = "apply")
  PROVE  /\ Regroup(u, s) = WithSub(u, s)
         /\ Regroup(u, s) \in Nodes(Term) /\ Regroup(u, s).k = u.k /\ Regroup(u, s).sub = s
         /\ Binds(Regroup(u, s)) = Binds(u)
         /\ \A q : WithSub(Regroup(u, s), q) = WithSub(u, q)
<1>1. Regroup(u, s) = WithSub(u, s)
  BY RegroupCases
<1> QED
  BY <1>1, WithSubShape, RebuiltNode

(***************************************************************************)
(* normalize and shift.                                                    *)
(***************************************************************************)

\* The subterms s of u shifted, each with its limit
ShiftedSubs(u, s, l, dir) == [i \in 1 .. Len(s) |-> Shift(s[i], l + Binds(u)[i], dir)]

\* They are terms, as many as before.
LEMMA ShiftedSubsShape ==
  ASSUME NEW S, NEW u \in Nodes(S), NEW s \in Seq(Term), Len(s) = Len(u.sub),
         NEW l \in Nat, NEW dir \in Int
  PROVE  /\ ShiftedSubs(u, s, l, dir) \in Seq(Term)
         /\ Len(ShiftedSubs(u, s, l, dir)) = Len(s)
         /\ \A i \in 1 .. Len(s) : /\ ShiftedSubs(u, s, l, dir)[i] = Shift(s[i], l + Binds(u)[i], dir)
                                   /\ l + Binds(u)[i] \in Nat
<1> DEFINE q == ShiftedSubs(u, s, l, dir)
<1>1. Len(s) \in Nat /\ Binds(u) \in [1 .. Len(s) -> Nat]
  <2>1. DOMAIN u.sub = 1 .. Len(u.sub)
    BY NodeShape
  <2> QED
    BY <2>1, BindsShape
<1>2. \A i \in 1 .. Len(s) : l + Binds(u)[i] \in Nat /\ s[i] \in Term
  BY <1>1
<1>3. \A i \in 1 .. Len(s) : Shift(s[i], l + Binds(u)[i], dir) \in Term
  BY <1>2, ShiftInTerm
<1>4. q \in [1 .. Len(s) -> Term]
  BY <1>3 DEF ShiftedSubs
<1>5. \A i \in 1 .. Len(s) : q[i] = Shift(s[i], l + Binds(u)[i], dir)
  BY DEF ShiftedSubs
<1> HIDE DEF q
<1>6. q \in Seq(Term) /\ Len(q) = Len(s)
  BY <1>1, <1>4, FixedSeq
<1> QED
  BY <1>2, <1>5, <1>6 DEF q

\* shift of a term that is no leaf, by its subterms.
LEMMA ShiftSubs ==
  ASSUME NEW t \in Term, ~IsLeaf(t), NEW l \in Nat, NEW dir \in Int
  PROVE  /\ Shift(t, l, dir) = WithSub(t, ShiftedSubs(t, t.sub, l, dir))
         /\ Shift(t, l, dir).k = t.k
         /\ Shift(t, l, dir).sub = ShiftedSubs(t, t.sub, l, dir)
<1>1. t \in Nodes(Term) /\ t.sub \in Seq(Term)
  BY TermShape
<1>2. DOMAIN t.sub = 1 .. Len(t.sub)
  BY <1>1
<1>3. Shift(t, l, dir) = WithSub(t, ShiftedSubs(t, t.sub, l, dir))
  BY <1>2, ShiftNode DEF ShiftedSubs
<1> QED
  BY <1>1, <1>3, WithAnySub

\* shift does not change the class of a term.
LEMMA ShiftKind ==
  ASSUME NEW t \in Term, NEW l \in Nat, NEW dir \in Int
  PROVE  Shift(t, l, dir).k = t.k
<1>1. CASE IsLeaf(t)
  BY <1>1, ShiftLeaf DEF local
<1>2. CASE ~IsLeaf(t)
  BY <1>2, ShiftSubs
<1> QED
  BY <1>1, <1>2

\* It does not matter whether a chain is put together before or after it is shifted.
LEMMA ShiftRegroup ==
  ASSUME NEW u \in Nodes(Term), NEW s \in Seq(Term), Len(s) = Len(u.sub),
         Regroup(u, s) \in Term, NEW l \in Nat, NEW dir \in Int
  PROVE  Shift(Regroup(u, s), l, dir) = Regroup(u, ShiftedSubs(u, s, l, dir))
<1> DEFINE n == Len(s)
           v == Regroup(u, s)
           q == ShiftedSubs(u, s, l, dir)
<1>1. /\ q \in Seq(Term) /\ Len(q) = n
      /\ \A i \in 1 .. n : q[i] = Shift(s[i], l + Binds(u)[i], dir) /\ l + Binds(u)[i] \in Nat
  BY ShiftedSubsShape
<1>2. v \in Nodes(Term) => ~IsLeaf(v)
  BY NodeShape
<1>6. ASSUME NEW w \in Nodes(Term), w.sub \in Seq(Term), NEW x \in Nat
      PROVE  LET a == ShiftedSubs(w, w.sub, x, dir)
             IN  /\ a \in Seq(Term) /\ Len(a) = Len(w.sub)
                 /\ \A i \in 1 .. Len(w.sub) : a[i] = Shift(w.sub[i], x + Binds(w)[i], dir)
  BY <1>6, ShiftedSubsShape
<1>3. CASE u.k \in {"product", "lambda"} /\ Last(s).k = u.k
  <2> DEFINE w == Last(s)
             r == w.sub
  <2>1. JoinsLast(u, s, v, r, n)
    BY <1>3 DEF JoinsLast
  <2> HIDE DEF v, n, r, w, q
  <2>2. /\ n \in Nat \ {0} /\ n \in DOMAIN s /\ s[n] = w
        /\ w \in Term /\ ~IsLeaf(w) /\ w \in Nodes(Term)
        /\ r \in Seq(Term) /\ Len(r) \in Nat \ {0}
        /\ v \in Nodes(Term) /\ v.k = u.k /\ v.sub \in Seq(Term) /\ Len(v.sub) = n - 1 + Len(r)
        /\ \A x : WithSub(v, x) = WithSub(u, x)
        /\ Binds(u)[n] = n - 1
    BY <2>1, JoinedLast DEF w
  <2>3. /\ \A i \in 1 .. n - 1 : v.sub[i] = s[i] /\ Binds(v)[i] = i - 1 /\ Binds(u)[i] = i - 1
        /\ \A j \in 1 .. Len(r) : v.sub[n - 1 + j] = r[j] /\ Binds(v)[n - 1 + j] = n - 1 + j - 1
                                  /\ Binds(w)[j] = j - 1
    BY <2>1, JoinedLast DEF w
  <2> DEFINE a == ShiftedSubs(v, v.sub, l, dir)
             b == ShiftedSubs(w, r, l + (n - 1), dir)
  <2>4. Shift(v, l, dir) = WithSub(u, a)
    BY <1>2, <2>2, ShiftSubs DEF v
  <2>5. Last(q) = Shift(w, l + (n - 1), dir)
    <3>1. n \in 1 .. n
      BY <2>2
    <3>2. q[n] = Shift(w, l + (n - 1), dir)
      BY <1>1, <2>2, <3>1
    <3> QED
      BY <1>1, <3>2 DEF Last
  <2>6. l + (n - 1) \in Nat /\ n - 1 \in Nat
    BY <2>2
  <2>7. Last(q).k = u.k /\ Last(q).sub = b
    <3>1. w.sub = r
      BY DEF r
    <3>2. w.k = u.k
      BY <1>3 DEF w
    <3> QED
      BY <2>2, <2>5, <2>6, <3>1, <3>2, ShiftSubs
  <2>8. Regroup(u, q) = WithSub(u, Front(q) \o b)
    BY <1>3, <2>7, RegroupCases
  <2>9. /\ a \in Seq(Term) /\ Len(a) = n - 1 + Len(r)
        /\ \A i \in 1 .. n - 1 + Len(r) : a[i] = Shift(v.sub[i], l + Binds(v)[i], dir)
    BY <2>2, ShiftedSubsShape
  <2>10. /\ b \in Seq(Term) /\ Len(b) = Len(r)
         /\ \A j \in 1 .. Len(r) : b[j] = Shift(r[j], l + (n - 1) + Binds(w)[j], dir)
    BY <2>2, <2>6, ShiftedSubsShape DEF r
  <2> HIDE DEF a, b
  <2> DEFINE c == Front(q) \o b
  <2>11. /\ c \in Seq(Term) /\ Len(c) = n - 1 + Len(r)
         /\ \A i \in 1 .. n - 1 : c[i] = q[i]
         /\ \A j \in 1 .. Len(r) : c[n - 1 + j] = b[j]
    <3>1. q # <<>>
      BY <1>1, <2>2, EmptySeq
    <3>2. /\ c \in Seq(Term) /\ Len(c) = Len(q) - 1 + Len(b)
          /\ \A i \in 1 .. Len(q) - 1 : c[i] = q[i]
          /\ \A j \in 1 .. Len(b) : c[Len(q) - 1 + j] = b[j]
      <4>1. q \in Seq(Term) /\ q # <<>> /\ b \in Seq(Term)
        BY <1>1, <2>10, <3>1
      <4> QED
        BY <4>1, SpliceShape
    <3>3. Len(q) = n /\ Len(b) = Len(r)
      BY <1>1, <2>10
    <3> HIDE DEF c
    <3> QED
      BY <3>2, <3>3
  <2> HIDE DEF c
  <2>12. ASSUME NEW i \in 1 .. n - 1 + Len(r) PROVE a[i] = c[i]
    <3>1. a[i] = Shift(v.sub[i], l + Binds(v)[i], dir)
      BY <2>9
    <3>2. CASE i \in 1 .. n - 1
      <4>1. i \in 1 .. n
        BY <2>2, <3>2
      <4>2. c[i] = Shift(s[i], l + Binds(u)[i], dir)
        BY <1>1, <2>11, <3>2, <4>1 DEF c
      <4>3. v.sub[i] = s[i] /\ Binds(v)[i] = Binds(u)[i]
        BY <2>3, <3>2
      <4> QED
        BY <3>1, <4>2, <4>3
    <3>3. CASE ~(i \in 1 .. n - 1)
      <4>1. PICK j \in 1 .. Len(r) : i = n - 1 + j
        <5>1. i - n + 1 \in 1 .. Len(r) /\ i = n - 1 + (i - n + 1)
          BY <2>2, <3>3
        <5> QED
          BY <5>1
      <4>2. c[i] = Shift(r[j], l + (n - 1) + Binds(w)[j], dir) /\ Binds(w)[j] = j - 1
        BY <2>3, <2>10, <2>11, <4>1 DEF c
      <4>3. v.sub[i] = r[j] /\ Binds(v)[i] = n - 1 + j - 1
        BY <2>3, <4>1
      <4>4. l + (n - 1 + j - 1) = l + (n - 1) + (j - 1)
        BY <2>2
      <4> QED
        BY <3>1, <4>2, <4>3, <4>4
    <3> QED
      BY <3>2, <3>3
  <2>13. a = c
    BY <2>9, <2>11, <2>12, SeqEqual DEF c
  <2> QED
    BY <2>4, <2>8, <2>13 DEF c, v, q
<1>4. CASE u.k = "apply" /\ s[1].k = "apply"
  <2> DEFINE w == s[1]
             r == w.sub
  <2>1. JoinsFirst(u, s, v, r, n)
    BY <1>4 DEF JoinsFirst
  <2> HIDE DEF v, n, r, w, q
  <2>2. /\ n \in Nat \ {0} /\ 1 \in DOMAIN s
        /\ w \in Term /\ ~IsLeaf(w) /\ w \in Nodes(Term)
        /\ r \in Seq(Term) /\ Len(r) \in Nat \ {0}
        /\ v \in Nodes(Term) /\ v.k = u.k /\ v.sub \in Seq(Term) /\ Len(v.sub) = Len(r) + n - 1
        /\ \A x : WithSub(v, x) = WithSub(u, x)
    BY <2>1, JoinedFirst DEF w
  <2>3. /\ \A i \in 1 .. n : Binds(u)[i] = 0
        /\ \A i \in 1 .. Len(r) + n - 1 : Binds(v)[i] = 0
        /\ \A j \in 1 .. Len(r) : v.sub[j] = r[j] /\ Binds(w)[j] = 0
        /\ \A i \in 2 .. n : v.sub[Len(r) + i - 1] = s[i]
    BY <2>1, JoinedFirst DEF w
  <2> DEFINE a == ShiftedSubs(v, v.sub, l, dir)
             b == ShiftedSubs(w, r, l, dir)
  <2>4. Shift(v, l, dir) = WithSub(u, a)
    BY <1>2, <2>2, ShiftSubs DEF v
  <2>5. q[1] = Shift(w, l, dir)
    <3>1. 1 \in 1 .. n /\ l + 0 = l
      BY <2>2
    <3> QED
      BY <1>1, <2>3, <3>1 DEF w
  <2>7. q[1].k = "apply" /\ q[1].sub = b
    <3>1. w.sub = r
      BY DEF r
    <3>2. w.k = "apply"
      BY <1>4 DEF w
    <3> QED
      BY <2>2, <2>5, <3>1, <3>2, ShiftSubs
  <2>8. Regroup(u, q) = WithSub(u, b \o Tail(q))
    BY <1>4, <2>7, RegroupCases
  <2>14. \A x \in {0} : l + x = l
    OBVIOUS
  <2>9. /\ a \in Seq(Term) /\ Len(a) = Len(r) + n - 1
        /\ \A i \in 1 .. Len(r) + n - 1 : a[i] = Shift(v.sub[i], l, dir)
    <3>1. /\ a \in Seq(Term) /\ Len(a) = Len(v.sub)
          /\ \A i \in 1 .. Len(v.sub) : a[i] = Shift(v.sub[i], l + Binds(v)[i], dir)
      BY <2>2, <1>6
    <3>2. \A i \in 1 .. Len(r) + n - 1 : l + Binds(v)[i] = l
      BY <2>3, <2>14
    <3> QED
      BY <2>2, <3>1, <3>2
  <2>10. /\ b \in Seq(Term) /\ Len(b) = Len(r)
         /\ \A j \in 1 .. Len(r) : b[j] = Shift(r[j], l, dir)
    <3>1. /\ b \in Seq(Term) /\ Len(b) = Len(r)
          /\ \A j \in 1 .. Len(r) : b[j] = Shift(r[j], l + Binds(w)[j], dir)
      BY <2>2, ShiftedSubsShape DEF r
    <3>2. \A j \in 1 .. Len(r) : l + Binds(w)[j] = l
      BY <2>3, <2>14
    <3> QED
      BY <3>1, <3>2
  <2>15. \A i \in 1 .. n : q[i] = Shift(s[i], l, dir)
    <3>1. \A i \in 1 .. n : l + Binds(u)[i] = l
      BY <2>3, <2>14
    <3> QED
      BY <1>1, <3>1
  <2> HIDE DEF a, b
  <2> DEFINE c == b \o Tail(q)
  <2>11. /\ c \in Seq(Term) /\ Len(c) = Len(r) + n - 1
         /\ \A j \in 1 .. Len(r) : c[j] = b[j]
         /\ \A i \in 2 .. n : c[Len(r) + i - 1] = q[i]
    <3>1. q # <<>>
      BY <1>1, <2>2, EmptySeq
    <3>2. /\ c \in Seq(Term) /\ Len(c) = Len(b) + Len(q) - 1
          /\ \A j \in 1 .. Len(b) : c[j] = b[j]
          /\ \A i \in 2 .. Len(q) : c[Len(b) + i - 1] = q[i]
      <4>1. q \in Seq(Term) /\ q # <<>> /\ b \in Seq(Term)
        BY <1>1, <2>10, <3>1
      <4> QED
        BY <4>1, SpliceShape
    <3>3. Len(q) = n /\ Len(b) = Len(r)
      BY <1>1, <2>10
    <3> HIDE DEF c
    <3> QED
      BY <3>2, <3>3
  <2> HIDE DEF c
  <2>12. ASSUME NEW i \in 1 .. Len(r) + n - 1 PROVE a[i] = c[i]
    <3>1. a[i] = Shift(v.sub[i], l, dir)
      BY <2>9
    <3>2. CASE i \in 1 .. Len(r)
      BY <2>3, <2>10, <2>11, <3>1, <3>2 DEF c
    <3>3. CASE ~(i \in 1 .. Len(r))
      <4>1. PICK j \in 2 .. n : i = Len(r) + j - 1
        <5>1. i - Len(r) + 1 \in 2 .. n /\ i = Len(r) + (i - Len(r) + 1) - 1
          BY <2>2, <3>3
        <5> QED
          BY <5>1
      <4>2. c[i] = q[j] /\ v.sub[i] = s[j]
        BY <2>3, <2>11, <4>1 DEF c
      <4>3. j \in 1 .. n
        OBVIOUS
      <4> QED
        BY <2>15, <3>1, <4>2, <4>3
    <3> QED
      BY <3>2, <3>3
  <2>13. a = c
    BY <2>9, <2>11, <2>12, SeqEqual DEF c
  <2> QED
    BY <2>4, <2>8, <2>13 DEF c, v, q
<1>5. CASE ~(u.k \in {"product", "lambda"} /\ Last(s).k = u.k) /\ ~(u.k = "apply" /\ s[1].k = "apply")
  <2>1. /\ v \in Nodes(Term) /\ v.sub = s /\ Binds(v) = Binds(u)
        /\ \A x : WithSub(v, x) = WithSub(u, x)
    BY <1>5, JoinedNone
  <2> HIDE DEF v
  <2>2. Shift(v, l, dir) = WithSub(v, ShiftedSubs(v, v.sub, l, dir))
    BY <1>2, <2>1, ShiftSubs DEF v
  <2>3. ShiftedSubs(v, v.sub, l, dir) = q
    BY <2>1 DEF ShiftedSubs
  <2>4. u.k \in Grouping => Last(q).k = Last(s).k /\ q[1].k = s[1].k
    <3> SUFFICES ASSUME u.k \in Grouping PROVE Last(q).k = Last(s).k /\ q[1].k = s[1].k
      OBVIOUS
    <3>1. n \in Nat \ {0}
      BY ChainNode
    <3>2. 1 \in 1 .. n /\ n \in 1 .. n
      BY <3>1
    <3>3. ASSUME NEW i \in 1 .. n PROVE q[i].k = s[i].k
      <4> HIDE DEF q
      <4>1. s[i] \in Term /\ l + Binds(u)[i] \in Nat
        BY <1>1
      <4>2. Shift(s[i], l + Binds(u)[i], dir).k = s[i].k
        BY <4>1, ShiftKind
      <4>3. q[i] = Shift(s[i], l + Binds(u)[i], dir)
        BY <1>1
      <4> QED
        BY <4>2, <4>3
    <3> HIDE DEF q
    <3> QED
      BY <1>1, <3>2, <3>3 DEF Last
  <2> HIDE DEF q, n
  <2>5. Regroup(u, q) = WithSub(u, q)
    BY <1>5, <2>4, RegroupCases DEF Grouping
  <2> QED
    BY <2>1, <2>2, <2>3, <2>5 DEF v, q
<1> QED
  BY <1>3, <1>4, <1>5

\* normalize and shift commute (normalize, constr_t::shift).
THEOREM NormalShift ==
  ASSUME NEW t \in Term, NEW limit \in Nat, NEW dir \in Int
  PROVE  Normalize(Shift(t, limit, dir)) = Shift(Normalize(t), limit, dir)
<1> DEFINE Good == {u \in Term : \A l \in Nat :
                      Normalize(Shift(u, l, dir)) = Shift(Normalize(u), l, dir)}
<1>1. ASSUME NEW u \in Leaves(0 .. Word - 1) PROVE u \in Good
  <2>1. u \in Term /\ IsLeaf(u)
    BY LeavesAreTerms DEF Leaves, IsLeaf, Term
  <2>2. ASSUME NEW l \in Nat PROVE Normalize(Shift(u, l, dir)) = Shift(Normalize(u), l, dir)
    <3>1. Shift(u, l, dir) \in Term /\ Shift(u, l, dir).k = u.k
      BY <2>1, ShiftInTerm, ShiftKind
    <3>2. IsLeaf(Shift(u, l, dir))
      BY <2>1, <3>1 DEF IsLeaf
    <3> QED
      BY <2>1, <3>1, <3>2, NormalLeaf
  <2> QED
    BY <2>1, <2>2
<1>2. ASSUME NEW u \in Nodes(Term) \cap Term, \A i \in DOMAIN u.sub : u.sub[i] \in Good
      PROVE  u \in Good
  <2>1. u \in Term /\ ~IsLeaf(u) /\ u.sub \in Seq(Term)
    BY NodeShape
  <2>2. ASSUME NEW l \in Nat PROVE Normalize(Shift(u, l, dir)) = Shift(Normalize(u), l, dir)
    <3> DEFINE s == Mapped(NormalForm, u.sub)
               q == ShiftedSubs(u, u.sub, l, dir)
               w == Shift(u, l, dir)
    <3>1. /\ s \in Seq(Term) /\ Len(s) = Len(u.sub)
          /\ \A i \in 1 .. Len(u.sub) : s[i] = Normalize(u.sub[i])
          /\ Normalize(u) = Regroup(u, s) /\ Normalize(u) \in Term
      BY <2>1, NormalInTerm, NormalNode
    <3>2. /\ w \in Term /\ ~IsLeaf(w) /\ w = WithSub(u, q) /\ w.sub = q /\ w.k = u.k
      BY <2>1, ShiftSubs, ShiftedNode
    <3>3. /\ q \in Seq(Term) /\ Len(q) = Len(u.sub)
          /\ \A i \in 1 .. Len(u.sub) : q[i] = Shift(u.sub[i], l + Binds(u)[i], dir)
                                        /\ l + Binds(u)[i] \in Nat
      BY <2>1, ShiftedSubsShape
    <3> HIDE DEF s, q, w
    <3>4. Normalize(w) = Regroup(w, Mapped(NormalForm, q))
      BY <3>2, NormalNode
    <3>5. Mapped(NormalForm, q) = ShiftedSubs(u, s, l, dir)
      <4>1. DOMAIN q = 1 .. Len(u.sub) /\ DOMAIN u.sub = 1 .. Len(u.sub)
        BY <2>1, <3>3
      <4>2. ASSUME NEW i \in 1 .. Len(u.sub)
            PROVE  NormalForm[q[i]] = Shift(s[i], l + Binds(u)[i], dir)
        <5>1. u.sub[i] \in Good /\ l + Binds(u)[i] \in Nat
          BY <1>2, <3>3, <4>1
        <5>2. Normalize(Shift(u.sub[i], l + Binds(u)[i], dir))
                = Shift(Normalize(u.sub[i]), l + Binds(u)[i], dir)
          BY <5>1
        <5>3. Normalize(q[i]) = Shift(s[i], l + Binds(u)[i], dir)
          BY <3>1, <3>3, <5>2
        <5> QED
          BY <5>3, NormalizeIsNormal
      <4> QED
        BY <3>1, <4>1, <4>2 DEF Mapped, ShiftedSubs
    <3>6. Shift(Normalize(u), l, dir) = Regroup(u, ShiftedSubs(u, s, l, dir))
      BY <2>1, <3>1, ShiftRegroup
    <3>7. \A x : Regroup(w, x) = Regroup(u, x)
      <4>1. \A x : WithSub(w, x) = WithSub(u, x)
        BY <3>2, WithAnySub
      <4> QED
        BY <3>2, <4>1, Zenon DEF Regroup
    <3> QED
      BY <3>4, <3>5, <3>6, <3>7 DEF w
  <2> QED
    BY <2>1, <2>2
<1> QED
  <2> HIDE DEF Good
  <2>1. Term \subseteq Good
    BY <1>1, <1>2, TermInduction DEF Term
  <2> QED
    BY <2>1 DEF Good

(***************************************************************************)
(* normalize and the free variables.                                       *)
(***************************************************************************)

\* The first n of the sets F
United(F, n) == UNION {F[i] : i \in 1 .. n}

\* The sets F of n - 1 + m subterms are the sets G of n subterms, except that the last of
\* those is the m sets H united
SplitsLast(F, G, H, n, m) ==
  /\ n \in Nat \ {0} /\ m \in Nat
  /\ \A i \in 1 .. n - 1 : F[i] = G[i]
  /\ \A j \in 1 .. m : F[n - 1 + j] = H[j]
  /\ G[n] = UNION {H[j] : j \in 1 .. m}

\* United they are the same.
LEMMA UnionLast ==
  ASSUME NEW n, NEW m, NEW F, NEW G, NEW H, SplitsLast(F, G, H, n, m)
  PROVE  United(F, n - 1 + m) = United(G, n)
<1>4. /\ n \in Nat \ {0} /\ m \in Nat
      /\ \A i \in 1 .. n - 1 : F[i] = G[i]
      /\ \A j \in 1 .. m : F[n - 1 + j] = H[j]
      /\ G[n] = UNION {H[j] : j \in 1 .. m}
  BY DEF SplitsLast
<1>1. ASSUME NEW i \in 1 .. n - 1 + m, NEW x \in F[i]
      PROVE  \E k \in 1 .. n : x \in G[k]
  <2>1. CASE i \in 1 .. n - 1
    <3>1. i \in 1 .. n /\ F[i] = G[i]
      BY <1>4, <2>1
    <3> QED
      BY <1>4, <1>1, <3>1
  <2>2. CASE ~(i \in 1 .. n - 1)
    <3>1. i - n + 1 \in 1 .. m /\ i = n - 1 + (i - n + 1)
      BY <1>4, <2>2
    <3>2. PICK j \in 1 .. m : i = n - 1 + j
      BY <1>4, <3>1
    <3>3. x \in H[j]
      BY <1>4, <1>1, <3>2
    <3>4. x \in G[n] /\ n \in 1 .. n
      BY <1>4, <3>3
    <3> QED
      BY <1>4, <3>4
  <2> QED
    BY <1>4, <2>1, <2>2
<1>2. ASSUME NEW k \in 1 .. n, NEW x \in G[k]
      PROVE  \E i \in 1 .. n - 1 + m : x \in F[i]
  <2>1. CASE k \in 1 .. n - 1
    <3>1. k \in 1 .. n - 1 + m /\ F[k] = G[k]
      BY <1>4, <2>1
    <3> QED
      BY <1>4, <1>2, <3>1
  <2>2. CASE ~(k \in 1 .. n - 1)
    <3>1. k = n
      BY <1>4, <2>2
    <3>2. PICK j \in 1 .. m : x \in H[j]
      BY <1>4, <1>2, <3>1
    <3>3. n - 1 + j \in 1 .. n - 1 + m /\ F[n - 1 + j] = H[j]
      BY <1>4, <3>2
    <3> QED
      BY <1>4, <3>2, <3>3
  <2> QED
    BY <1>4, <2>1, <2>2
<1>3. \A x : x \in UNION {F[i] : i \in 1 .. n - 1 + m} <=> x \in UNION {G[i] : i \in 1 .. n}
  BY <1>1, <1>2
<1> QED
  BY <1>3 DEF United

\* The same where the m sets are those of the first subterm
SplitsFirst(F, G, H, n, m) ==
  /\ n \in Nat \ {0} /\ m \in Nat
  /\ \A j \in 1 .. m : F[j] = H[j]
  /\ \A i \in 2 .. n : F[m + i - 1] = G[i]
  /\ G[1] = UNION {H[j] : j \in 1 .. m}

\* United they are the same.
LEMMA UnionFirst ==
  ASSUME NEW n, NEW m, NEW F, NEW G, NEW H, SplitsFirst(F, G, H, n, m)
  PROVE  United(F, m + n - 1) = United(G, n)
<1>4. /\ n \in Nat \ {0} /\ m \in Nat
      /\ \A j \in 1 .. m : F[j] = H[j]
      /\ \A i \in 2 .. n : F[m + i - 1] = G[i]
      /\ G[1] = UNION {H[j] : j \in 1 .. m}
  BY DEF SplitsFirst
<1>1. ASSUME NEW i \in 1 .. m + n - 1, NEW x \in F[i]
      PROVE  \E k \in 1 .. n : x \in G[k]
  <2>1. CASE i \in 1 .. m
    <3>1. x \in H[i]
      BY <1>4, <1>1, <2>1
    <3>2. x \in G[1] /\ 1 \in 1 .. n
      BY <1>4, <2>1, <3>1
    <3> QED
      BY <1>4, <3>2
  <2>2. CASE ~(i \in 1 .. m)
    <3>1. i - m + 1 \in 2 .. n /\ i = m + (i - m + 1) - 1
      BY <1>4, <2>2
    <3>2. PICK j \in 2 .. n : i = m + j - 1
      BY <1>4, <3>1
    <3>3. x \in G[j] /\ j \in 1 .. n
      BY <1>4, <1>1, <3>2
    <3> QED
      BY <1>4, <3>3
  <2> QED
    BY <1>4, <2>1, <2>2
<1>2. ASSUME NEW k \in 1 .. n, NEW x \in G[k]
      PROVE  \E i \in 1 .. m + n - 1 : x \in F[i]
  <2>1. CASE k \in 2 .. n
    <3>1. m + k - 1 \in 1 .. m + n - 1 /\ F[m + k - 1] = G[k]
      BY <1>4, <2>1
    <3> QED
      BY <1>4, <1>2, <3>1
  <2>2. CASE ~(k \in 2 .. n)
    <3>1. k = 1
      BY <1>4, <2>2
    <3>2. PICK j \in 1 .. m : x \in H[j]
      BY <1>4, <1>2, <3>1
    <3>3. j \in 1 .. m + n - 1 /\ F[j] = H[j]
      BY <1>4, <3>2
    <3> QED
      BY <1>4, <3>2, <3>3
  <2> QED
    BY <1>4, <2>1, <2>2
<1>3. \A x : x \in UNION {F[i] : i \in 1 .. m + n - 1} <=> x \in UNION {G[i] : i \in 1 .. n}
  BY <1>1, <1>2
<1> QED
  BY <1>3 DEF United

\* The free variables of the subterms s of u, each under its binders
FreeOf(u, s, b) == [i \in 1 .. Len(s) |-> FreeIn(s[i], b + Binds(u)[i])]

\* A chain put together has the free variables of what it is put together from
\* (normalize_rec).
LEMMA FreeRegroup ==
  ASSUME NEW u \in Nodes(Term), NEW s \in Seq(Term), Len(s) = Len(u.sub),
         Regroup(u, s) \in Term, NEW b \in Nat
  PROVE  FreeIn(Regroup(u, s), b) = UNION {FreeOf(u, s, b)[i] : i \in 1 .. Len(s)}
<1> DEFINE n == Len(s)
           v == Regroup(u, s)
           G == FreeOf(u, s, b)
<1>1. v \in Nodes(Term) => ~IsLeaf(v)
  BY NodeShape
<1>2. ASSUME NEW w \in Term, w \in Nodes(Term), w.sub \in Seq(Term), NEW x \in Nat
      PROVE  FreeIn(w, x) = UNION {FreeOf(w, w.sub, x)[i] : i \in 1 .. Len(w.sub)}
  <2>1. ~IsLeaf(w)
    BY <1>2, NodeShape
  <2>2. FreeIn(w, x) = UNION {FreeIn(w.sub[i], x + Binds(w)[i]) : i \in DOMAIN w.sub}
    BY <2>1, FreeNode
  <2>3. DOMAIN w.sub = 1 .. Len(w.sub)
    BY <1>2
  <2> QED
    BY <2>2, <2>3 DEF FreeOf
<1>3. CASE u.k \in {"product", "lambda"} /\ Last(s).k = u.k
  <2> DEFINE w == Last(s)
             r == w.sub
             m == Len(r)
             F == FreeOf(v, v.sub, b)
             H == FreeOf(w, r, b + (n - 1))
  <2>1. JoinsLast(u, s, v, r, n)
    BY <1>3 DEF JoinsLast
  <2>2. r = w.sub
    OBVIOUS
  <2> HIDE DEF v, n, r, w
  <2>3. /\ n \in Nat \ {0} /\ n \in DOMAIN s /\ s[n] = w
        /\ w \in Term /\ w \in Nodes(Term)
        /\ r \in Seq(Term) /\ m \in Nat \ {0}
        /\ v \in Nodes(Term) /\ v.sub \in Seq(Term) /\ Len(v.sub) = n - 1 + m
        /\ Binds(u)[n] = n - 1
    BY <2>1, JoinedLast DEF w
  <2>4. /\ \A i \in 1 .. n - 1 : v.sub[i] = s[i] /\ Binds(v)[i] = i - 1 /\ Binds(u)[i] = i - 1
        /\ \A j \in 1 .. m : v.sub[n - 1 + j] = r[j] /\ Binds(v)[n - 1 + j] = n - 1 + j - 1
                             /\ Binds(w)[j] = j - 1
    BY <2>1, JoinedLast DEF w
  <2>5. b + (n - 1) \in Nat
    BY <2>3
  <2>6. FreeIn(v, b) = United(F, n - 1 + m)
    BY <1>2, <2>3 DEF v, United
  <2>7. G[n] = UNION {H[j] : j \in 1 .. m}
    <3>1. n \in 1 .. Len(s)
      BY <2>3 DEF n
    <3>2. G[n] = FreeIn(w, b + (n - 1))
      BY <2>3, <3>1 DEF FreeOf
    <3>3. w.sub \in Seq(Term)
      BY <2>2, <2>3
    <3>4. FreeIn(w, b + (n - 1))
            = UNION {FreeOf(w, w.sub, b + (n - 1))[i] : i \in 1 .. Len(w.sub)}
      BY <1>2, <2>3, <2>5, <3>3
    <3> QED
      BY <2>2, <3>2, <3>4, Zenon
  <2>8. ASSUME NEW i \in 1 .. n - 1 PROVE F[i] = G[i]
    <3>1. i \in 1 .. Len(s) /\ i \in 1 .. Len(v.sub)
      BY <2>3 DEF n
    <3>2. F[i] = FreeIn(v.sub[i], b + Binds(v)[i]) /\ G[i] = FreeIn(s[i], b + Binds(u)[i])
      BY <3>1 DEF FreeOf
    <3> QED
      BY <2>4, <3>2
  <2>9. ASSUME NEW j \in 1 .. m PROVE F[n - 1 + j] = H[j]
    <3>1. n - 1 + j \in 1 .. Len(v.sub)
      BY <2>3
    <3>2. /\ F[n - 1 + j] = FreeIn(v.sub[n - 1 + j], b + Binds(v)[n - 1 + j])
          /\ H[j] = FreeIn(r[j], b + (n - 1) + Binds(w)[j])
      BY <3>1 DEF FreeOf
    <3>3. b + (n - 1 + j - 1) = b + (n - 1) + (j - 1)
      BY <2>3
    <3> QED
      BY <2>4, <3>2, <3>3
  <2> HIDE DEF F, G, H, m
  <2>10. United(F, n - 1 + m) = United(G, n)
    <3>1. n \in Nat \ {0} /\ m \in Nat
      BY <2>3
    <3>2. SplitsLast(F, G, H, n, m)
      BY <2>7, <2>8, <2>9, <3>1 DEF SplitsLast
    <3> QED
      BY <3>2, UnionLast
  <2> QED
    BY <2>6, <2>10 DEF v, n, G, United
<1>4. CASE u.k = "apply" /\ s[1].k = "apply"
  <2> DEFINE w == s[1]
             r == w.sub
             m == Len(r)
             F == FreeOf(v, v.sub, b)
             H == FreeOf(w, r, b)
  <2>1. JoinsFirst(u, s, v, r, n)
    BY <1>4 DEF JoinsFirst
  <2>2. r = w.sub
    OBVIOUS
  <2> HIDE DEF v, n, r, w
  <2>3. /\ n \in Nat \ {0} /\ 1 \in DOMAIN s
        /\ w \in Term /\ w \in Nodes(Term)
        /\ r \in Seq(Term) /\ m \in Nat \ {0}
        /\ v \in Nodes(Term) /\ v.sub \in Seq(Term) /\ Len(v.sub) = m + n - 1
    BY <2>1, JoinedFirst DEF w
  <2>4. /\ \A i \in 1 .. n : Binds(u)[i] = 0
        /\ \A i \in 1 .. m + n - 1 : Binds(v)[i] = 0
        /\ \A j \in 1 .. m : v.sub[j] = r[j] /\ Binds(w)[j] = 0
        /\ \A i \in 2 .. n : v.sub[m + i - 1] = s[i]
    BY <2>1, JoinedFirst DEF w
  <2>5. b + 0 = b
    OBVIOUS
  <2>6. FreeIn(v, b) = United(F, m + n - 1)
    BY <1>2, <2>3 DEF v, United
  <2>7. G[1] = UNION {H[j] : j \in 1 .. m}
    <3>1. 1 \in 1 .. Len(s) /\ 1 \in 1 .. n
      BY <2>3 DEF n
    <3>2. G[1] = FreeIn(w, b)
      BY <2>4, <2>5, <3>1 DEF FreeOf, w
    <3> QED
      BY <1>2, <2>2, <2>3, <3>2
  <2>8. ASSUME NEW j \in 1 .. m PROVE F[j] = H[j]
    <3>1. j \in 1 .. Len(v.sub) /\ j \in 1 .. m + n - 1
      BY <2>3
    <3>2. F[j] = FreeIn(v.sub[j], b + Binds(v)[j]) /\ H[j] = FreeIn(r[j], b + Binds(w)[j])
      BY <3>1 DEF FreeOf
    <3>3. Binds(v)[j] = 0 /\ Binds(w)[j] = 0 /\ v.sub[j] = r[j]
      BY <2>4, <3>1
    <3> QED
      BY <3>2, <3>3
  <2>9. ASSUME NEW i \in 2 .. n PROVE F[m + i - 1] = G[i]
    <3>1. m + i - 1 \in 1 .. Len(v.sub) /\ m + i - 1 \in 1 .. m + n - 1 /\ i \in 1 .. n
      BY <2>3
    <3>2. /\ F[m + i - 1] = FreeIn(v.sub[m + i - 1], b + Binds(v)[m + i - 1])
          /\ G[i] = FreeIn(s[i], b + Binds(u)[i])
      BY <3>1 DEF FreeOf, n
    <3>3. Binds(v)[m + i - 1] = 0 /\ Binds(u)[i] = 0 /\ v.sub[m + i - 1] = s[i]
      BY <2>4, <3>1
    <3> QED
      BY <3>2, <3>3
  <2> HIDE DEF F, G, H, m
  <2>10. United(F, m + n - 1) = United(G, n)
    <3>1. n \in Nat \ {0} /\ m \in Nat
      BY <2>3
    <3>2. SplitsFirst(F, G, H, n, m)
      BY <2>7, <2>8, <2>9, <3>1 DEF SplitsFirst
    <3> QED
      BY <3>2, UnionFirst
  <2> QED
    BY <2>6, <2>10 DEF v, n, G, United
<1>5. CASE ~(u.k \in {"product", "lambda"} /\ Last(s).k = u.k) /\ ~(u.k = "apply" /\ s[1].k = "apply")
  <2>1. v \in Nodes(Term) /\ v.sub = s /\ Binds(v) = Binds(u)
    BY <1>5, JoinedNone
  <2> HIDE DEF v
  <2>2. FreeIn(v, b) = UNION {FreeOf(v, s, b)[i] : i \in 1 .. n}
    BY <1>2, <2>1 DEF v
  <2>3. FreeOf(v, s, b) = G
    BY <2>1 DEF FreeOf
  <2> QED
    BY <2>2, <2>3 DEF v
<1> QED
  BY <1>3, <1>4, <1>5

\* normalize neither loses nor adds a free variable (normalize).
THEOREM NormalFree ==
  ASSUME NEW t \in Term, NEW bound \in Nat
  PROVE  FreeIn(Normalize(t), bound) = FreeIn(t, bound)
<1> DEFINE Good == {u \in Term : \A b \in Nat : FreeIn(Normalize(u), b) = FreeIn(u, b)}
<1>1. ASSUME NEW u \in Leaves(0 .. Word - 1) PROVE u \in Good
  <2>1. u \in Term /\ IsLeaf(u)
    BY LeavesAreTerms DEF Leaves, IsLeaf, Term
  <2> QED
    BY <2>1, NormalLeaf
<1>2. ASSUME NEW u \in Nodes(Term) \cap Term, \A i \in DOMAIN u.sub : u.sub[i] \in Good
      PROVE  u \in Good
  <2>1. u \in Term /\ ~IsLeaf(u) /\ u.sub \in Seq(Term) /\ Binds(u) \in [DOMAIN u.sub -> Nat]
    BY NodeShape, BindsShape
  <2>2. ASSUME NEW b \in Nat PROVE FreeIn(Normalize(u), b) = FreeIn(u, b)
    <3> DEFINE s == Mapped(NormalForm, u.sub)
    <3>1. /\ s \in Seq(Term) /\ Len(s) = Len(u.sub)
          /\ \A i \in 1 .. Len(u.sub) : s[i] = Normalize(u.sub[i])
          /\ Normalize(u) = Regroup(u, s) /\ Normalize(u) \in Term
      BY <2>1, NormalInTerm, NormalNode
    <3> HIDE DEF s
    <3>2. FreeIn(Normalize(u), b) = UNION {FreeOf(u, s, b)[i] : i \in 1 .. Len(s)}
      BY <2>1, <3>1, FreeRegroup
    <3>3. FreeIn(u, b) = UNION {FreeIn(u.sub[i], b + Binds(u)[i]) : i \in 1 .. Len(u.sub)}
      <4>1. FreeIn(u, b) = UNION {FreeIn(u.sub[i], b + Binds(u)[i]) : i \in DOMAIN u.sub}
        BY <2>1, FreeNode
      <4>2. DOMAIN u.sub = 1 .. Len(u.sub)
        BY <2>1
      <4> QED
        BY <4>1, <4>2, Zenon
    <3>4. ASSUME NEW i \in 1 .. Len(s)
          PROVE  FreeOf(u, s, b)[i] = FreeIn(u.sub[i], b + Binds(u)[i])
      <4>1. i \in DOMAIN u.sub /\ i \in 1 .. Len(u.sub)
        BY <2>1, <3>1
      <4>2. u.sub[i] \in Good /\ b + Binds(u)[i] \in Nat
        BY <1>2, <2>1, <4>1
      <4>3. FreeIn(Normalize(u.sub[i]), b + Binds(u)[i]) = FreeIn(u.sub[i], b + Binds(u)[i])
        BY <4>2
      <4> QED
        BY <3>1, <4>1, <4>3 DEF FreeOf
    <3>5. UNION {FreeOf(u, s, b)[i] : i \in 1 .. Len(s)}
            = UNION {FreeIn(u.sub[i], b + Binds(u)[i]) : i \in 1 .. Len(u.sub)}
      BY <3>1, <3>4
    <3> QED
      BY <3>2, <3>3, <3>5, Zenon
  <2> QED
    BY <2>1, <2>2
<1> QED
  <2> HIDE DEF Good
  <2>1. Term \subseteq Good
    BY <1>1, <1>2, TermInduction DEF Term
  <2> QED
    BY <2>1 DEF Good

\* A term that the client has built is a term, and its indices do not wrap around.
LEMMA BuiltTerm ==
  ASSUME TypeOK
  PROVE  term \in Term
<1>1. Len(Env) \in Nat /\ Len(Env) <= Word
  BY EnvAssumption, WordAssumption
<1> QED
  BY <1>1, SmallTerm, SmallIndices

\* normalize commutes with shift and keeps the free variables of every term that can be
\* built (normalize, constr_t::shift).
THEOREM CommuteCorrect == Spec => []NormalizeCommutes
<1>1. ASSUME TypeOK PROVE NormalizeCommutes
  <2>1. ASSUME NEW limit \in Limits, NEW dir \in Offsets
        PROVE  Normalize(Shift(term, limit, dir)) = Shift(Normalize(term), limit, dir)
    <3>1. limit \in Nat /\ dir \in Int
      BY DEF Limits, Offsets
    <3> QED
      BY <1>1, <3>1, BuiltTerm, NormalShift
  <2>2. Free(Normalize(term)) = Free(term)
    BY <1>1, BuiltTerm, NormalFree DEF Free
  <2> QED
    BY <2>1, <2>2 DEF NormalizeCommutes
<1> QED
  BY <1>1, TypeCorrect, PTL

(***************************************************************************)
(* The terms that normalize leaves alone.                                  *)
(***************************************************************************)

\* Whether no chain has a chain of its kind inside, what is below given by f
FlatAt(f, u) ==
  IsLeaf(u) \/ /\ u.k \in {"product", "lambda"} => LastSub(u).k # u.k
               /\ u.k = "apply" => u.sub[1].k # "apply"
               /\ \A i \in DOMAIN u.sub : f[u.sub[i]]

\* The recursive function in Flat
FlatTerms == CHOOSE flat : flat = [u \in Term |-> FlatAt(flat, u)]

\* Flat is the value of that function.
LEMMA FlatIsFlat ==
  ASSUME NEW t
  PROVE  Flat(t) = FlatTerms[t]
BY DEF Flat, FlatTerms, FlatAt

\* Every term is in normal form or not (Flat).
LEMMA FlatDef ==
  FlatTerms = [u \in Term |-> FlatAt(FlatTerms, u)]
<1> DEFINE L(n) == Levels(0 .. Word - 1)[n]
           Upto(f, n) == f = [u \in L(n) |-> FlatAt(f, u)]
           Good == {n \in Nat : n \in 0 .. MaxNesting => \E f : Upto(f, n)}
<1>1. ASSUME NEW n \in 0 .. MaxNesting, NEW f, NEW g, NEW u \in L(n),
             n > 0 => \A s \in L(n - 1) : f[s] = g[s]
      PROVE  FlatAt(f, u) = FlatAt(g, u)
  <2>1. CASE IsLeaf(u)
    BY <2>1 DEF FlatAt
  <2>2. CASE ~IsLeaf(u)
    <3>1. \A i \in DOMAIN u.sub : f[u.sub[i]] = g[u.sub[i]]
      BY <1>1, <2>2, LevelShape
    <3> QED
      BY <3>1, <2>2, Zenon DEF FlatAt
  <2> QED
    BY <2>1, <2>2
<1> HIDE DEF L
<1>2. 0 \in Good
  <2> DEFINE g == [u \in L(0) |-> FlatAt(<<>>, u)]
  <2>1. \A u \in L(0) : FlatAt(<<>>, u) = FlatAt(g, u)
    BY <1>1, NestingAssumption
  <2>2. Upto(g, 0)
    BY <2>1
  <2> QED
    BY <2>2
<1>3. ASSUME NEW n \in Good PROVE n + 1 \in Good
  <2> SUFFICES ASSUME n + 1 \in 0 .. MaxNesting PROVE \E f : Upto(f, n + 1)
    BY <1>3
  <2>1. n \in 0 .. MaxNesting /\ n + 1 > 0 /\ n + 1 - 1 = n
    BY <1>3, NestingAssumption
  <2>2. PICK f : Upto(f, n)
    BY <1>3, <2>1
  <2> DEFINE g == [u \in L(n + 1) |-> FlatAt(f, u)]
  <2>3. L(n) \subseteq L(n + 1)
    BY <2>1, LevelsRise DEF L
  <2>4. \A s \in L(n) : f[s] = g[s]
    BY <2>2, <2>3
  <2> HIDE DEF g
  <2>5. \A u \in L(n + 1) : FlatAt(f, u) = FlatAt(g, u)
    BY <1>1, <2>1, <2>4
  <2>6. Upto(g, n + 1)
    BY <2>5 DEF g
  <2> QED
    BY <2>6
<1>4. Good = Nat
  <2> HIDE DEF Good
  <2>1. Good \subseteq Nat
    BY DEF Good
  <2> QED
    BY <2>1, <1>2, <1>3, CountUp
<1>5. PICK f : Upto(f, MaxNesting)
  BY <1>4, NestingAssumption
<1>6. L(MaxNesting) = Term
  BY TermsOverLevels DEF L, Term
<1> QED
  BY <1>5, <1>6, Zenon DEF FlatTerms

\* Variables and globals are in normal form.
LEMMA FlatLeaf ==
  ASSUME NEW t \in Term, IsLeaf(t)
  PROVE  Flat(t)
<1>1. FlatTerms[t] = FlatAt(FlatTerms, t)
  BY FlatDef
<1>2. FlatAt(FlatTerms, t)
  BY DEF FlatAt
<1> QED
  BY <1>1, <1>2, FlatIsFlat

\* A construct that does not continue a chain, of subterms in normal form
FlatNodeOf(t) ==
  /\ t.k \in {"product", "lambda"} => Last(t.sub).k # t.k
  /\ t.k = "apply" => t.sub[1].k # "apply"
  /\ \A i \in DOMAIN t.sub : Flat(t.sub[i])

\* Any other term is in normal form when it is such a construct.
LEMMA FlatNode ==
  ASSUME NEW t \in Term, ~IsLeaf(t)
  PROVE  Flat(t) <=> FlatNodeOf(t)
<1>1. FlatTerms[t] = FlatAt(FlatTerms, t)
  BY FlatDef
<1>2. FlatAt(FlatTerms, t) <=> FlatNodeOf(t)
  BY FlatIsFlat, Zenon DEF FlatAt, FlatNodeOf, LastSub
<1> QED
  BY <1>1, <1>2, FlatIsFlat

\* What is regrouped from normal forms is one (normalize_rec).
LEMMA FlatRegroup ==
  ASSUME NEW u \in Nodes(Term), NEW s \in Seq(Term), Len(s) = Len(u.sub),
         Regroup(u, s) \in Term, \A i \in 1 .. Len(s) : Flat(s[i])
  PROVE  Flat(Regroup(u, s))
<1> DEFINE n == Len(s)
           v == Regroup(u, s)
<1>1. v \in Nodes(Term) /\ FlatNodeOf(v) => Flat(v)
  BY NodeShape, FlatNode
<1>3. CASE u.k \in {"product", "lambda"} /\ Last(s).k = u.k
  <2> DEFINE w == Last(s)
             r == w.sub
             m == Len(r)
  <2>1. JoinsLast(u, s, v, r, n) /\ w.k = u.k /\ u.k # "apply"
    BY <1>3 DEF JoinsLast
  <2>2. r = w.sub
    OBVIOUS
  <2>10. n = Len(s)
    OBVIOUS
  <2> HIDE DEF v, n, r, w
  <2>3. /\ n \in Nat \ {0} /\ n \in DOMAIN s /\ s[n] = w
        /\ w \in Term /\ ~IsLeaf(w)
        /\ r \in Seq(Term) /\ m \in Nat \ {0} /\ DOMAIN w.sub = 1 .. m
        /\ v \in Nodes(Term) /\ v.k = u.k /\ v.sub \in Seq(Term) /\ Len(v.sub) = n - 1 + m
    BY <2>1, JoinedLast DEF w
  <2>4. /\ \A i \in 1 .. n - 1 : v.sub[i] = s[i]
        /\ \A j \in 1 .. m : v.sub[n - 1 + j] = r[j]
    BY <2>1, JoinedLast DEF w
  <2>5. FlatNodeOf(w)
    <3>1. n \in 1 .. Len(s)
      BY <2>3, <2>10
    <3>2. Flat(w)
      BY <2>3, <3>1
    <3> QED
      BY <2>3, <3>2, FlatNode
  <2>6. Last(r).k # w.k /\ \A j \in 1 .. m : Flat(r[j])
    BY <1>3, <2>1, <2>2, <2>3, <2>5 DEF FlatNodeOf
  <2> HIDE DEF m
  <2>7. Last(v.sub) = Last(r)
    <3>1. m \in 1 .. m /\ m = Len(r)
      BY <2>3 DEF m
    <3>2. v.sub[n - 1 + m] = r[m]
      BY <2>4, <3>1
    <3> QED
      BY <2>3, <3>1, <3>2 DEF Last
  <2>8. ASSUME NEW i \in DOMAIN v.sub PROVE Flat(v.sub[i])
    <3>1. i \in 1 .. n - 1 + m
      BY <2>3
    <3>2. CASE i \in 1 .. n - 1
      <4>1. i \in 1 .. Len(s)
        BY <2>3, <2>10, <3>2
      <4> QED
        BY <2>4, <3>2, <4>1
    <3>3. CASE ~(i \in 1 .. n - 1)
      <4>1. i - n + 1 \in 1 .. m /\ i = n - 1 + (i - n + 1)
        <5>1. n \in Nat /\ m \in Nat
          BY <2>3
        <5> QED
          BY <3>1, <3>3, <5>1
      <4>2. PICK j \in 1 .. m : i = n - 1 + j
        BY <4>1
      <4> QED
        BY <2>4, <2>6, <4>2
    <3> QED
      BY <3>2, <3>3
  <2>9. FlatNodeOf(v)
    BY <2>1, <2>3, <2>6, <2>7, <2>8 DEF FlatNodeOf
  <2> QED
    BY <1>1, <2>3, <2>9 DEF v
<1>4. CASE u.k = "apply" /\ s[1].k = "apply"
  <2> DEFINE w == s[1]
             r == w.sub
             m == Len(r)
  <2>1. JoinsFirst(u, s, v, r, n) /\ w.k = "apply" /\ u.k = "apply"
    BY <1>4 DEF JoinsFirst
  <2>2. r = w.sub
    OBVIOUS
  <2>10. n = Len(s)
    OBVIOUS
  <2> HIDE DEF v, n, r, w
  <2>3. /\ n \in Nat \ {0} /\ 1 \in DOMAIN s
        /\ w \in Term /\ ~IsLeaf(w)
        /\ r \in Seq(Term) /\ m \in Nat \ {0} /\ DOMAIN w.sub = 1 .. m
        /\ v \in Nodes(Term) /\ v.k = u.k /\ v.sub \in Seq(Term) /\ Len(v.sub) = m + n - 1
    BY <2>1, JoinedFirst DEF w
  <2>4. /\ \A j \in 1 .. m : v.sub[j] = r[j]
        /\ \A i \in 2 .. n : v.sub[m + i - 1] = s[i]
    BY <2>1, JoinedFirst DEF w
  <2>5. FlatNodeOf(w)
    <3>1. 1 \in 1 .. Len(s)
      BY <2>3, <2>10
    <3>2. Flat(w)
      BY <3>1 DEF w
    <3> QED
      BY <2>3, <3>2, FlatNode
  <2>6. r[1].k # "apply" /\ \A j \in 1 .. m : Flat(r[j])
    BY <2>1, <2>2, <2>3, <2>5 DEF FlatNodeOf
  <2> HIDE DEF m
  <2>7. v.sub[1] = r[1]
    <3>1. 1 \in 1 .. m
      BY <2>3
    <3> QED
      BY <2>4, <3>1
  <2>8. ASSUME NEW i \in DOMAIN v.sub PROVE Flat(v.sub[i])
    <3>1. i \in 1 .. m + n - 1
      BY <2>3
    <3>2. CASE i \in 1 .. m
      BY <2>4, <2>6, <3>2
    <3>3. CASE ~(i \in 1 .. m)
      <4>1. i - m + 1 \in 2 .. n /\ i = m + (i - m + 1) - 1
        BY <2>3, <3>1, <3>3
      <4>2. PICK j \in 2 .. n : i = m + j - 1
        BY <4>1
      <4>3. j \in 1 .. Len(s)
        BY <2>10
      <4> QED
        BY <2>4, <4>2, <4>3
    <3> QED
      BY <3>2, <3>3
  <2>9. FlatNodeOf(v)
    BY <2>1, <2>3, <2>6, <2>7, <2>8 DEF FlatNodeOf
  <2> QED
    BY <1>1, <2>3, <2>9 DEF v
<1>5. CASE ~(u.k \in {"product", "lambda"} /\ Last(s).k = u.k) /\ ~(u.k = "apply" /\ s[1].k = "apply")
  <2>1. v \in Nodes(Term) /\ v.sub = s /\ v.k = u.k
    BY <1>5, JoinedNone
  <2>2. DOMAIN s = 1 .. Len(s)
    OBVIOUS
  <2> HIDE DEF v
  <2>3. FlatNodeOf(v)
    BY <1>5, <2>1, <2>2 DEF FlatNodeOf
  <2> QED
    BY <1>1, <2>1, <2>3 DEF v
<1> QED
  BY <1>3, <1>4, <1>5

\* normalize leaves no product, lambda or application directly inside another one of its
\* kind (normalize).
THEOREM NormalFlat ==
  ASSUME NEW t \in Term
  PROVE  Flat(Normalize(t))
<1> DEFINE Good == {u \in Term : Flat(Normalize(u))}
<1>1. ASSUME NEW u \in Leaves(0 .. Word - 1) PROVE u \in Good
  <2>1. u \in Term /\ IsLeaf(u)
    BY LeavesAreTerms DEF Leaves, IsLeaf, Term
  <2> QED
    BY <2>1, NormalLeaf, FlatLeaf
<1>2. ASSUME NEW u \in Nodes(Term) \cap Term, \A i \in DOMAIN u.sub : u.sub[i] \in Good
      PROVE  u \in Good
  <2>1. u \in Term /\ ~IsLeaf(u) /\ u.sub \in Seq(Term) /\ DOMAIN u.sub = 1 .. Len(u.sub)
    BY NodeShape
  <2> DEFINE s == Mapped(NormalForm, u.sub)
  <2>2. /\ s \in Seq(Term) /\ Len(s) = Len(u.sub)
        /\ \A i \in 1 .. Len(u.sub) : s[i] = Normalize(u.sub[i])
        /\ Normalize(u) = Regroup(u, s) /\ Normalize(u) \in Term
    BY <2>1, NormalInTerm, NormalNode
  <2> HIDE DEF s
  <2>3. \A i \in 1 .. Len(s) : Flat(s[i])
    BY <1>2, <2>1, <2>2
  <2>4. Flat(Regroup(u, s))
    BY <2>2, <2>3, FlatRegroup
  <2> QED
    BY <2>2, <2>4
<1> QED
  <2> HIDE DEF Good
  <2>1. Term \subseteq Good
    BY <1>1, <1>2, TermInduction DEF Term
  <2> QED
    BY <2>1 DEF Good

\* normalize returns a term in normal form as it is; so a second pass finds nothing to do
\* (normalize returns no term then).
THEOREM FlatStays ==
  ASSUME NEW t \in Term, Flat(t)
  PROVE  Normalize(t) = t
<1> DEFINE Good == {u \in Term : Flat(u) => Normalize(u) = u}
<1>1. ASSUME NEW u \in Leaves(0 .. Word - 1) PROVE u \in Good
  <2>1. u \in Term /\ IsLeaf(u)
    BY LeavesAreTerms DEF Leaves, IsLeaf, Term
  <2> QED
    BY <2>1, NormalLeaf
<1>2. ASSUME NEW u \in Nodes(Term) \cap Term, \A i \in DOMAIN u.sub : u.sub[i] \in Good
      PROVE  u \in Good
  <2>1. /\ u \in Term /\ ~IsLeaf(u) /\ u \in Nodes(Term)
        /\ u.sub \in Seq(Term) /\ DOMAIN u.sub = 1 .. Len(u.sub)
    BY NodeShape
  <2> SUFFICES ASSUME Flat(u) PROVE Normalize(u) = u
    BY <2>1
  <2>2. FlatNodeOf(u)
    BY <2>1, FlatNode
  <2> DEFINE s == Mapped(NormalForm, u.sub)
  <2>3. /\ s \in Seq(Term) /\ Len(s) = Len(u.sub)
        /\ \A i \in 1 .. Len(u.sub) : s[i] = Normalize(u.sub[i])
        /\ Normalize(u) = Regroup(u, s)
    BY <2>1, NormalInTerm, NormalNode
  <2> HIDE DEF s
  <2>4. \A i \in 1 .. Len(u.sub) : s[i] = u.sub[i]
    BY <1>2, <2>1, <2>2, <2>3 DEF FlatNodeOf
  <2>5. s = u.sub
    BY <2>1, <2>3, <2>4, SeqEqual
  <2>6. Regroup(u, u.sub) = WithSub(u, u.sub)
    BY <2>2, RegroupCases DEF FlatNodeOf
  <2>7. WithSub(u, u.sub) = u
    BY <2>1, RebuiltNode
  <2> QED
    BY <2>3, <2>5, <2>6, <2>7
<1> QED
  <2> HIDE DEF Good
  <2>1. Term \subseteq Good
    BY <1>1, <1>2, TermInduction DEF Term
  <2> QED
    BY <2>1 DEF Good

(***************************************************************************)
(* One argument at a time: grouping does not matter.                       *)
(***************************************************************************)

\* A chain of unary products or lambdas over s from each of its entries on
\* (the function from in Unary)
LinkedFrom(t, s) == CHOOSE from : from = [i \in 1 .. Len(s) |->
                      IF i = Len(s) THEN s[Len(s)] ELSE WithSub(t, <<s[i], from[i + 1]>>)]

\* A chain of unary applications over s up to each of its entries (upto)
LinkedUpto(t, s) == CHOOSE upto : upto = [i \in 1 .. Len(s) |->
                      IF i = 1 THEN s[1] ELSE WithSub(t, <<upto[i - 1], s[i]>>)]

\* A chain begins at its first entry, or ends at its last.
LEMMA UnaryIsLinked ==
  ASSUME NEW t, NEW s
  PROVE  /\ t.k \in {"product", "lambda"} => Unary(t, s) = LinkedFrom(t, s)[1]
         /\ t.k = "apply" => Unary(t, s) = LinkedUpto(t, s)[Len(s)]
         /\ ~(t.k \in Grouping) => Unary(t, s) = WithSub(t, s)
<1>1. t.k \in {"product", "lambda"} => t.k # "apply"
  OBVIOUS
<1>2. t.k \in Grouping <=> t.k \in {"product", "lambda"} \/ t.k = "apply"
  BY DEF Grouping
<1> QED
  BY <1>1, <1>2, Zenon DEF Unary, LinkedFrom, LinkedUpto

\* Counting down.
LEMMA CountDown ==
  ASSUME NEW n \in Nat \ {0}, NEW Good, n \in Good,
         \A i \in 1 .. n - 1 : i + 1 \in Good => i \in Good
  PROVE  1 .. n \subseteq Good
<1> DEFINE Down == {k \in Nat : k < n => n - k \in Good}
<1>1. 0 \in Down
  <2>1. n - 0 = n
    OBVIOUS
  <2> QED
    BY <2>1
<1>2. ASSUME NEW k \in Down PROVE k + 1 \in Down
  <2> SUFFICES ASSUME k + 1 < n PROVE n - (k + 1) \in Good
    BY <1>2
  <2>1. k \in Nat /\ k < n /\ n - k \in Good
    BY <1>2
  <2>2. n - (k + 1) \in 1 .. n - 1 /\ n - (k + 1) + 1 = n - k
    BY <2>1
  <2> QED
    BY <2>1, <2>2
<1>3. Down = Nat
  <2> HIDE DEF Down
  <2>1. Down \subseteq Nat
    BY DEF Down
  <2> QED
    BY <2>1, <1>1, <1>2, CountUp
<1>4. ASSUME NEW i \in 1 .. n PROVE i \in Good
  <2>1. n - i \in Nat /\ n - i < n /\ n - (n - i) = i
    OBVIOUS
  <2>2. n - i \in Down
    BY <1>3, <2>1
  <2> QED
    BY <2>1, <2>2
<1> QED
  BY <1>4

\* Counting up to n.
LEMMA CountUpTo ==
  ASSUME NEW n \in Nat \ {0}, NEW Good, 1 \in Good,
         \A i \in 2 .. n : i - 1 \in Good => i \in Good
  PROVE  1 .. n \subseteq Good
<1> DEFINE Up == {k \in Nat : k < n => k + 1 \in Good}
<1>1. 0 \in Up
  OBVIOUS
<1>2. ASSUME NEW k \in Up PROVE k + 1 \in Up
  <2> SUFFICES ASSUME k + 1 < n PROVE k + 1 + 1 \in Good
    BY <1>2
  <2>1. k \in Nat /\ k < n /\ k + 1 \in Good
    BY <1>2
  <2>2. k + 1 + 1 \in 2 .. n /\ k + 1 + 1 - 1 = k + 1
    BY <2>1
  <2> QED
    BY <2>1, <2>2
<1>3. Up = Nat
  <2> HIDE DEF Up
  <2>1. Up \subseteq Nat
    BY DEF Up
  <2> QED
    BY <2>1, <1>1, <1>2, CountUp
<1>4. ASSUME NEW i \in 1 .. n PROVE i \in Good
  <2>1. i - 1 \in Nat /\ i - 1 < n /\ i - 1 + 1 = i
    OBVIOUS
  <2>2. i - 1 \in Up
    BY <1>3, <2>1
  <2> QED
    BY <2>1, <2>2
<1> QED
  BY <1>4

\* There is such a chain from each entry on (Unary).
LEMMA LinkedFromDef ==
  ASSUME NEW t, NEW s, Len(s) \in Nat \ {0}
  PROVE  /\ LinkedFrom(t, s)[Len(s)] = s[Len(s)]
         /\ \A i \in 1 .. Len(s) - 1 :
              LinkedFrom(t, s)[i] = WithSub(t, <<s[i], LinkedFrom(t, s)[i + 1]>>)
<1> DEFINE n == Len(s)
           link(f, i) == IF i = n THEN s[n] ELSE WithSub(t, <<s[i], f[i + 1]>>)
           Good == {i \in 1 .. n : \E f : \A j \in i .. n : f[j] = link(f, j)}
<1>1. n \in Good
  <2> DEFINE f == [j \in {n} |-> s[n]]
  <2>1. \A j \in n .. n : f[j] = link(f, j)
    OBVIOUS
  <2>2. n \in 1 .. n
    OBVIOUS
  <2> QED
    BY <2>1, <2>2
<1>2. ASSUME NEW i \in 1 .. n - 1, i + 1 \in Good PROVE i \in Good
  <2>1. PICK f : \A j \in i + 1 .. n : f[j] = link(f, j)
    BY <1>2
  <2> DEFINE g == [j \in i .. n |-> IF j = i THEN WithSub(t, <<s[i], f[i + 1]>>) ELSE f[j]]
  <2>2. \A j \in i + 1 .. n : g[j] = f[j]
    OBVIOUS
  <2>3. g[i] = WithSub(t, <<s[i], f[i + 1]>>)
    OBVIOUS
  <2> HIDE DEF g
  <2>4. g[i] = link(g, i)
    <3>1. i + 1 \in i + 1 .. n /\ i # n
      OBVIOUS
    <3> QED
      BY <2>2, <2>3, <3>1
  <2>5. ASSUME NEW j \in i + 1 .. n PROVE g[j] = link(g, j)
    <3>1. f[j] = link(f, j) /\ g[j] = f[j]
      BY <2>1, <2>2
    <3>2. j # n => j + 1 \in i + 1 .. n
      OBVIOUS
    <3>3. j # n => g[j + 1] = f[j + 1]
      BY <2>2, <3>2
    <3> QED
      BY <3>1, <3>3
  <2>6. \A j \in i .. n : g[j] = link(g, j)
    <3>1. \A j \in i .. n : j = i \/ j \in i + 1 .. n
      OBVIOUS
    <3> QED
      BY <2>4, <2>5, <3>1
  <2>7. i \in 1 .. n
    OBVIOUS
  <2> HIDE DEF link
  <2> QED
    BY <2>6, <2>7
<1> HIDE DEF n, link
<1>10. n \in Nat \ {0}
  BY DEF n
<1>3. 1 \in Good
  <2> HIDE DEF Good
  <2>1. 1 .. n \subseteq Good
    BY <1>1, <1>2, <1>10, CountDown
  <2> QED
    BY <1>10, <2>1
<1>4. PICK f : \A j \in 1 .. n : f[j] = link(f, j)
  BY <1>3
<1> DEFINE g == [j \in 1 .. n |-> f[j]]
<1>5. ASSUME NEW j \in 1 .. n PROVE link(g, j) = f[j]
  <2>1. f[j] = link(f, j)
    BY <1>4
  <2>2. j # n => j + 1 \in 1 .. n
    BY <1>10
  <2>3. j # n => g[j + 1] = f[j + 1]
    BY <2>2
  <2> QED
    BY <2>1, <2>3 DEF link
<1>6. g = [j \in 1 .. n |-> link(g, j)]
  BY <1>5
<1> HIDE DEF g
<1>7. \E from : from = [j \in 1 .. n |-> link(from, j)]
  BY <1>6
<1>8. LinkedFrom(t, s) = [j \in 1 .. n |-> link(LinkedFrom(t, s), j)]
  BY <1>7, Zenon DEF LinkedFrom, link, n
<1> DEFINE c == LinkedFrom(t, s)
<1> HIDE DEF c
<1>9. \A j \in 1 .. n : c[j] = link(c, j)
  <2>1. c = [j \in 1 .. n |-> link(c, j)]
    BY <1>8 DEF c
  <2> QED
    BY <2>1
<1>11. n \in 1 .. n /\ \A i \in 1 .. n - 1 : i \in 1 .. n /\ i # n
  BY <1>10
<1> QED
  BY <1>9, <1>11 DEF c, link, n

\* There is such a chain up to each entry (Unary).
LEMMA LinkedUptoDef ==
  ASSUME NEW t, NEW s, Len(s) \in Nat \ {0}
  PROVE  /\ LinkedUpto(t, s)[1] = s[1]
         /\ \A i \in 2 .. Len(s) :
              LinkedUpto(t, s)[i] = WithSub(t, <<LinkedUpto(t, s)[i - 1], s[i]>>)
<1> DEFINE n == Len(s)
           link(f, i) == IF i = 1 THEN s[1] ELSE WithSub(t, <<f[i - 1], s[i]>>)
           Good == {i \in 1 .. n : \E f : \A j \in 1 .. i : f[j] = link(f, j)}
<1>1. 1 \in Good
  <2> DEFINE f == [j \in {1} |-> s[1]]
  <2>1. \A j \in 1 .. 1 : f[j] = link(f, j)
    OBVIOUS
  <2>2. 1 \in 1 .. n
    OBVIOUS
  <2> QED
    BY <2>1, <2>2
<1>2. ASSUME NEW i \in 2 .. n, i - 1 \in Good PROVE i \in Good
  <2>1. PICK f : \A j \in 1 .. i - 1 : f[j] = link(f, j)
    BY <1>2
  <2> DEFINE g == [j \in 1 .. i |-> IF j = i THEN WithSub(t, <<f[i - 1], s[i]>>) ELSE f[j]]
  <2>2. \A j \in 1 .. i - 1 : g[j] = f[j]
    OBVIOUS
  <2>3. g[i] = WithSub(t, <<f[i - 1], s[i]>>)
    OBVIOUS
  <2> HIDE DEF g
  <2>4. g[i] = link(g, i)
    <3>1. i - 1 \in 1 .. i - 1 /\ i # 1
      OBVIOUS
    <3> QED
      BY <2>2, <2>3, <3>1
  <2>5. ASSUME NEW j \in 1 .. i - 1 PROVE g[j] = link(g, j)
    <3>1. f[j] = link(f, j) /\ g[j] = f[j]
      BY <2>1, <2>2
    <3>2. j # 1 => j - 1 \in 1 .. i - 1
      OBVIOUS
    <3>3. j # 1 => g[j - 1] = f[j - 1]
      BY <2>2, <3>2
    <3> QED
      BY <3>1, <3>3
  <2>6. \A j \in 1 .. i : g[j] = link(g, j)
    <3>1. \A j \in 1 .. i : j = i \/ j \in 1 .. i - 1
      OBVIOUS
    <3> QED
      BY <2>4, <2>5, <3>1
  <2>7. i \in 1 .. n
    OBVIOUS
  <2> HIDE DEF link
  <2> QED
    BY <2>6, <2>7
<1> HIDE DEF n, link
<1>10. n \in Nat \ {0}
  BY DEF n
<1>3. n \in Good
  <2> HIDE DEF Good
  <2>1. 1 .. n \subseteq Good
    BY <1>1, <1>2, <1>10, CountUpTo
  <2> QED
    BY <1>10, <2>1
<1>4. PICK f : \A j \in 1 .. n : f[j] = link(f, j)
  BY <1>3
<1> DEFINE g == [j \in 1 .. n |-> f[j]]
<1>5. ASSUME NEW j \in 1 .. n PROVE link(g, j) = f[j]
  <2>1. f[j] = link(f, j)
    BY <1>4
  <2>2. j # 1 => j - 1 \in 1 .. n
    BY <1>10
  <2>3. j # 1 => g[j - 1] = f[j - 1]
    BY <2>2
  <2> QED
    BY <2>1, <2>3 DEF link
<1>6. g = [j \in 1 .. n |-> link(g, j)]
  BY <1>5
<1> HIDE DEF g
<1>7. \E upto : upto = [j \in 1 .. n |-> link(upto, j)]
  BY <1>6
<1>8. LinkedUpto(t, s) = [j \in 1 .. n |-> link(LinkedUpto(t, s), j)]
  BY <1>7, Zenon DEF LinkedUpto, link, n
<1> DEFINE c == LinkedUpto(t, s)
<1> HIDE DEF c
<1>9. \A j \in 1 .. n : c[j] = link(c, j)
  <2>1. c = [j \in 1 .. n |-> link(c, j)]
    BY <1>8 DEF c
  <2> QED
    BY <2>1
<1>11. 1 \in 1 .. n /\ \A i \in 2 .. n : i \in 1 .. n /\ i # 1
  BY <1>10
<1> QED
  BY <1>9, <1>11 DEF c, link, n

\* Terms of the same class differ in their subterms only
SameClass(t, u) == \A q : WithSub(t, q) = WithSub(u, q)

\* A chain is made of constructs of one class, whichever of them it is made from.
LEMMA LinkedSame ==
  ASSUME NEW t, NEW u, SameClass(t, u), NEW s, Len(s) \in Nat \ {0}
  PROVE  /\ LinkedFrom(t, s)[1] = LinkedFrom(u, s)[1]
         /\ LinkedUpto(t, s)[Len(s)] = LinkedUpto(u, s)[Len(s)]
<1> DEFINE n == Len(s)
           ft == LinkedFrom(t, s)
           fu == LinkedFrom(u, s)
           gt == LinkedUpto(t, s)
           gu == LinkedUpto(u, s)
           Down == {i \in 1 .. n : ft[i] = fu[i]}
           Up == {i \in 1 .. n : gt[i] = gu[i]}
<1>1. /\ ft[n] = s[n] /\ \A i \in 1 .. n - 1 : ft[i] = WithSub(t, <<s[i], ft[i + 1]>>)
      /\ fu[n] = s[n] /\ \A i \in 1 .. n - 1 : fu[i] = WithSub(u, <<s[i], fu[i + 1]>>)
  BY LinkedFromDef
<1>2. /\ gt[1] = s[1] /\ \A i \in 2 .. n : gt[i] = WithSub(t, <<gt[i - 1], s[i]>>)
      /\ gu[1] = s[1] /\ \A i \in 2 .. n : gu[i] = WithSub(u, <<gu[i - 1], s[i]>>)
  BY LinkedUptoDef
<1>3. n \in Nat \ {0}
  OBVIOUS
<1>4. \A q : WithSub(t, q) = WithSub(u, q)
  BY DEF SameClass
<1> HIDE DEF n, ft, fu, gt, gu
<1>5. n \in Down
  BY <1>1, <1>3
<1>6. ASSUME NEW i \in 1 .. n - 1, i + 1 \in Down PROVE i \in Down
  <2>1. i \in 1 .. n /\ ft[i + 1] = fu[i + 1]
    BY <1>3, <1>6
  <2>2. ft[i] = WithSub(t, <<s[i], ft[i + 1]>>) /\ fu[i] = WithSub(u, <<s[i], fu[i + 1]>>)
    BY <1>1
  <2> QED
    BY <1>4, <2>1, <2>2
<1>7. 1 \in Up
  BY <1>2, <1>3
<1>8. ASSUME NEW i \in 2 .. n, i - 1 \in Up PROVE i \in Up
  <2>1. i \in 1 .. n /\ gt[i - 1] = gu[i - 1]
    BY <1>3, <1>8
  <2>2. gt[i] = WithSub(t, <<gt[i - 1], s[i]>>) /\ gu[i] = WithSub(u, <<gu[i - 1], s[i]>>)
    BY <1>2
  <2> QED
    BY <1>4, <2>1, <2>2
<1>9. 1 .. n \subseteq Down
  <2> HIDE DEF Down
  <2> QED
    BY <1>3, <1>5, <1>6, CountDown
<1>10. 1 .. n \subseteq Up
  <2> HIDE DEF Up
  <2> QED
    BY <1>3, <1>7, <1>8, CountUpTo
<1>11. 1 \in 1 .. n /\ n \in 1 .. n
  BY <1>3
<1> QED
  BY <1>9, <1>10, <1>11 DEF n, ft, fu, gt, gu

\* A chain that ends in a chain d is one chain.
LEMMA LinkedFromSplice ==
  ASSUME NEW t, NEW V, NEW c \in Seq(V), c # <<>>, NEW d \in Seq(V), d # <<>>,
         c[Len(c)] = LinkedFrom(t, d)[1]
  PROVE  LinkedFrom(t, Front(c) \o d)[1] = LinkedFrom(t, c)[1]
<1> DEFINE n == Len(c)
           m == Len(d)
           a == Front(c) \o d
           fa == LinkedFrom(t, a)
           fc == LinkedFrom(t, c)
           fd == LinkedFrom(t, d)
           Tails == {j \in 1 .. m : fa[n - 1 + j] = fd[j]}
           Fronts == {i \in 1 .. n : fa[i] = fc[i]}
<1>1. n \in Nat \ {0} /\ m \in Nat \ {0}
  BY EmptySeq
<1>2. /\ Len(a) = n - 1 + m
      /\ \A i \in 1 .. n - 1 : a[i] = c[i]
      /\ \A j \in 1 .. m : a[n - 1 + j] = d[j]
  BY SpliceShape
<1>3. Len(a) \in Nat \ {0}
  <2> HIDE DEF a, n, m
  <2> QED
    BY <1>1, <1>2
<1>4. fc[n] = c[n] /\ \A i \in 1 .. n - 1 : fc[i] = WithSub(t, <<c[i], fc[i + 1]>>)
  BY <1>1, LinkedFromDef
<1>5. fd[m] = d[m] /\ \A i \in 1 .. m - 1 : fd[i] = WithSub(t, <<d[i], fd[i + 1]>>)
  BY <1>1, LinkedFromDef
<1>6. fa[Len(a)] = a[Len(a)] /\ \A i \in 1 .. Len(a) - 1 : fa[i] = WithSub(t, <<a[i], fa[i + 1]>>)
  <2> HIDE DEF a
  <2> QED
    BY <1>3, LinkedFromDef
<1>7. c[n] = fd[1]
  OBVIOUS
<1> HIDE DEF n, m, a, fa, fc, fd
<1>8. m \in Tails
  BY <1>1, <1>2, <1>5, <1>6
<1>9. ASSUME NEW i \in 1 .. m - 1, i + 1 \in Tails PROVE i \in Tails
  <2>1. i \in 1 .. m /\ fa[n - 1 + (i + 1)] = fd[i + 1]
    BY <1>1, <1>9
  <2>2. n - 1 + i \in 1 .. Len(a) - 1 /\ n - 1 + i + 1 = n - 1 + (i + 1)
    BY <1>1, <1>2
  <2>3. fa[n - 1 + i] = WithSub(t, <<a[n - 1 + i], fa[n - 1 + (i + 1)]>>)
    BY <1>6, <2>2
  <2>4. fd[i] = WithSub(t, <<d[i], fd[i + 1]>>) /\ a[n - 1 + i] = d[i]
    BY <1>2, <1>5, <2>1
  <2> QED
    BY <2>1, <2>3, <2>4
<1>10. 1 .. m \subseteq Tails
  <2> HIDE DEF Tails
  <2> QED
    BY <1>1, <1>8, <1>9, CountDown
<1>11. fa[n] = fd[1]
  <2>1. 1 \in 1 .. m /\ n - 1 + 1 = n
    BY <1>1
  <2>2. 1 \in Tails
    BY <1>10, <2>1
  <2> QED
    BY <2>1, <2>2
<1>12. n \in Fronts
  BY <1>1, <1>4, <1>7, <1>11
<1>13. ASSUME NEW i \in 1 .. n - 1, i + 1 \in Fronts PROVE i \in Fronts
  <2>1. i \in 1 .. n /\ fa[i + 1] = fc[i + 1]
    BY <1>1, <1>13
  <2>2. i \in 1 .. Len(a) - 1
    BY <1>1, <1>2
  <2>3. fa[i] = WithSub(t, <<a[i], fa[i + 1]>>)
    BY <1>6, <2>2
  <2>4. fc[i] = WithSub(t, <<c[i], fc[i + 1]>>) /\ a[i] = c[i]
    BY <1>2, <1>4
  <2> QED
    BY <2>1, <2>3, <2>4
<1>14. 1 .. n \subseteq Fronts
  <2> HIDE DEF Fronts
  <2> QED
    BY <1>1, <1>12, <1>13, CountDown
<1>15. 1 \in Fronts
  BY <1>1, <1>14
<1> QED
  BY <1>15 DEF n, m, a, fa, fc, fd

\* A chain that begins with a chain d is one chain.
LEMMA LinkedUptoSplice ==
  ASSUME NEW t, NEW V, NEW c \in Seq(V), c # <<>>, NEW d \in Seq(V), d # <<>>,
         c[1] = LinkedUpto(t, d)[Len(d)]
  PROVE  LinkedUpto(t, d \o Tail(c))[Len(d \o Tail(c))] = LinkedUpto(t, c)[Len(c)]
<1> DEFINE n == Len(c)
           m == Len(d)
           a == d \o Tail(c)
           fa == LinkedUpto(t, a)
           fc == LinkedUpto(t, c)
           fd == LinkedUpto(t, d)
           Fronts == {j \in 1 .. m : fa[j] = fd[j]}
           Tails == {i \in 1 .. n : fa[m + i - 1] = fc[i]}
<1>1. n \in Nat \ {0} /\ m \in Nat \ {0}
  BY EmptySeq
<1>2. /\ Len(a) = m + n - 1
      /\ \A j \in 1 .. m : a[j] = d[j]
      /\ \A i \in 2 .. n : a[m + i - 1] = c[i]
  BY SpliceShape
<1>3. Len(a) \in Nat \ {0}
  <2> HIDE DEF a, n, m
  <2> QED
    BY <1>1, <1>2
<1>4. fc[1] = c[1] /\ \A i \in 2 .. n : fc[i] = WithSub(t, <<fc[i - 1], c[i]>>)
  BY <1>1, LinkedUptoDef
<1>5. fd[1] = d[1] /\ \A i \in 2 .. m : fd[i] = WithSub(t, <<fd[i - 1], d[i]>>)
  BY <1>1, LinkedUptoDef
<1>6. fa[1] = a[1] /\ \A i \in 2 .. Len(a) : fa[i] = WithSub(t, <<fa[i - 1], a[i]>>)
  <2> HIDE DEF a
  <2> QED
    BY <1>3, LinkedUptoDef
<1>7. c[1] = fd[m]
  OBVIOUS
<1> HIDE DEF n, m, a, fa, fc, fd
<1>8. 1 \in Fronts
  <2>1. 1 \in 1 .. m
    BY <1>1
  <2> QED
    BY <1>2, <1>5, <1>6, <2>1
<1>9. ASSUME NEW i \in 2 .. m, i - 1 \in Fronts PROVE i \in Fronts
  <2>1. i \in 1 .. m /\ fa[i - 1] = fd[i - 1]
    BY <1>1, <1>9
  <2>2. i \in 2 .. Len(a)
    BY <1>1, <1>2
  <2>3. fa[i] = WithSub(t, <<fa[i - 1], a[i]>>)
    BY <1>6, <2>2
  <2>4. fd[i] = WithSub(t, <<fd[i - 1], d[i]>>) /\ a[i] = d[i]
    BY <1>2, <1>5, <2>1
  <2> QED
    BY <2>1, <2>3, <2>4
<1>10. 1 .. m \subseteq Fronts
  <2> HIDE DEF Fronts
  <2> QED
    BY <1>1, <1>8, <1>9, CountUpTo
<1>11. fa[m] = fd[m]
  <2>1. m \in Fronts
    BY <1>1, <1>10
  <2> QED
    BY <2>1
<1>12. 1 \in Tails
  <2>1. 1 \in 1 .. n /\ m + 1 - 1 = m
    BY <1>1
  <2> QED
    BY <1>4, <1>7, <1>11, <2>1
<1>13. ASSUME NEW i \in 2 .. n, i - 1 \in Tails PROVE i \in Tails
  <2>1. i \in 1 .. n /\ fa[m + (i - 1) - 1] = fc[i - 1]
    BY <1>1, <1>13
  <2>2. m + i - 1 \in 2 .. Len(a) /\ m + i - 1 - 1 = m + (i - 1) - 1
    BY <1>1, <1>2
  <2>3. fa[m + i - 1] = WithSub(t, <<fa[m + (i - 1) - 1], a[m + i - 1]>>)
    <3>1. PICK k \in 2 .. Len(a) : k = m + i - 1
      BY <2>2
    <3>2. fa[k] = WithSub(t, <<fa[k - 1], a[k]>>)
      BY <1>6
    <3>3. k - 1 = m + (i - 1) - 1
      BY <1>1, <3>1
    <3> QED
      BY <3>1, <3>2, <3>3, Zenon
  <2>4. fc[i] = WithSub(t, <<fc[i - 1], c[i]>>) /\ a[m + i - 1] = c[i]
    BY <1>2, <1>4
  <2> QED
    BY <2>1, <2>3, <2>4
<1>14. 1 .. n \subseteq Tails
  <2> HIDE DEF Tails
  <2> QED
    BY <1>1, <1>12, <1>13, CountUpTo
<1>15. n \in Tails
  BY <1>1, <1>14
<1>16. fa[Len(a)] = fc[n]
  BY <1>2, <1>15
<1> QED
  BY <1>16 DEF n, m, a, fa, fc, fd

\* One argument at a time for a construct, what is below given by f
CurryAt(f, u) ==
  IF IsLeaf(u) THEN u ELSE Unary(u, [i \in DOMAIN u.sub |-> f[u.sub[i]]])

\* The recursive function in Curry
CurryForm == CHOOSE curry : curry = [u \in Term |-> CurryAt(curry, u)]

\* Curry is the value of that function.
LEMMA CurryIsCurried ==
  ASSUME NEW t
  PROVE  Curry(t) = CurryForm[t]
BY DEF Curry, CurryForm, CurryAt

\* Every term can be written with one argument at a time (Curry).
LEMMA CurryDef ==
  CurryForm = [u \in Term |-> CurryAt(CurryForm, u)]
<1> DEFINE L(n) == Levels(0 .. Word - 1)[n]
           Upto(f, n) == f = [u \in L(n) |-> CurryAt(f, u)]
           Good == {n \in Nat : n \in 0 .. MaxNesting => \E f : Upto(f, n)}
<1>1. ASSUME NEW n \in 0 .. MaxNesting, NEW f, NEW g, NEW u \in L(n),
             n > 0 => \A s \in L(n - 1) : f[s] = g[s]
      PROVE  CurryAt(f, u) = CurryAt(g, u)
  <2>1. CASE IsLeaf(u)
    BY <2>1 DEF CurryAt
  <2>2. CASE ~IsLeaf(u)
    <3>1. \A i \in DOMAIN u.sub : f[u.sub[i]] = g[u.sub[i]]
      BY <1>1, <2>2, LevelShape
    <3>2. [i \in DOMAIN u.sub |-> f[u.sub[i]]] = [i \in DOMAIN u.sub |-> g[u.sub[i]]]
      BY <3>1
    <3> QED
      BY <3>2, <2>2, Zenon DEF CurryAt
  <2> QED
    BY <2>1, <2>2
<1> HIDE DEF L
<1>2. 0 \in Good
  <2> DEFINE g == [u \in L(0) |-> CurryAt(<<>>, u)]
  <2>1. \A u \in L(0) : CurryAt(<<>>, u) = CurryAt(g, u)
    BY <1>1, NestingAssumption
  <2>2. Upto(g, 0)
    BY <2>1
  <2> QED
    BY <2>2
<1>3. ASSUME NEW n \in Good PROVE n + 1 \in Good
  <2> SUFFICES ASSUME n + 1 \in 0 .. MaxNesting PROVE \E f : Upto(f, n + 1)
    BY <1>3
  <2>1. n \in 0 .. MaxNesting /\ n + 1 > 0 /\ n + 1 - 1 = n
    BY <1>3, NestingAssumption
  <2>2. PICK f : Upto(f, n)
    BY <1>3, <2>1
  <2> DEFINE g == [u \in L(n + 1) |-> CurryAt(f, u)]
  <2>3. L(n) \subseteq L(n + 1)
    BY <2>1, LevelsRise DEF L
  <2>4. \A s \in L(n) : f[s] = g[s]
    BY <2>2, <2>3
  <2> HIDE DEF g
  <2>5. \A u \in L(n + 1) : CurryAt(f, u) = CurryAt(g, u)
    BY <1>1, <2>1, <2>4
  <2>6. Upto(g, n + 1)
    BY <2>5 DEF g
  <2> QED
    BY <2>6
<1>4. Good = Nat
  <2> HIDE DEF Good
  <2>1. Good \subseteq Nat
    BY DEF Good
  <2> QED
    BY <2>1, <1>2, <1>3, CountUp
<1>5. PICK f : Upto(f, MaxNesting)
  BY <1>4, NestingAssumption
<1>6. L(MaxNesting) = Term
  BY TermsOverLevels DEF L, Term
<1> QED
  BY <1>5, <1>6, Zenon DEF CurryForm

\* What Curry makes of a construct.
LEMMA CurryNode ==
  ASSUME NEW t \in Term, ~IsLeaf(t)
  PROVE  Curry(t) = Unary(t, Mapped(CurryForm, t.sub))
<1>1. CurryForm[t] = CurryAt(CurryForm, t)
  BY CurryDef
<1>2. CurryForm[t] = Unary(t, [i \in DOMAIN t.sub |-> CurryForm[t.sub[i]]])
  BY <1>1, Zenon DEF CurryAt
<1> QED
  BY <1>2, CurryIsCurried DEF Mapped

\* Whether a chain is put together before or after its arguments are taken one at a time
\* makes no difference (normalize_rec).
LEMMA CurryRegroup ==
  ASSUME NEW u \in Nodes(Term), NEW s \in Seq(Term), Len(s) = Len(u.sub),
         Regroup(u, s) \in Term
  PROVE  Curry(Regroup(u, s)) = Unary(u, Mapped(CurryForm, s))
<1> DEFINE n == Len(s)
           v == Regroup(u, s)
           c == Mapped(CurryForm, s)
           V == {CurryForm[x] : x \in Term}
<1>1. v \in Nodes(Term) => ~IsLeaf(v)
  BY NodeShape
<1>2. ASSUME NEW q \in Seq(Term)
      PROVE  /\ Mapped(CurryForm, q) \in Seq(V) /\ Len(Mapped(CurryForm, q)) = Len(q)
             /\ \A i \in 1 .. Len(q) : Mapped(CurryForm, q)[i] = CurryForm[q[i]]
  <2>1. \A x \in Term : CurryForm[x] \in V
    OBVIOUS
  <2> HIDE DEF V
  <2>2. Mapped(CurryForm, q) \in Seq(V)
    BY <2>1, MappedType
  <2> QED
    BY <2>2, MappedEntries
<1>6. c \in Seq(V) /\ Len(c) = n /\ \A i \in 1 .. n : c[i] = CurryForm[s[i]]
  BY <1>2
<1> HIDE DEF V
<1>3. CASE u.k \in {"product", "lambda"} /\ Last(s).k = u.k
  <2> DEFINE w == Last(s)
             r == w.sub
             d == Mapped(CurryForm, r)
             a == Front(c) \o d
  <2>1. JoinsLast(u, s, v, r, n) /\ w.k = u.k
    BY <1>3 DEF JoinsLast
  <2>2. r = w.sub /\ n = Len(s)
    OBVIOUS
  <2> HIDE DEF v, n, r, w
  <2>3. /\ n \in Nat \ {0} /\ n \in DOMAIN s /\ s[n] = w /\ s # <<>>
        /\ w \in Term /\ ~IsLeaf(w) /\ w \in Nodes(Term)
        /\ r \in Seq(Term) /\ Len(r) \in Nat \ {0}
        /\ v \in Nodes(Term) /\ v.k = u.k /\ v.sub = Front(s) \o r
        /\ \A q : WithSub(v, q) = WithSub(u, q)
    BY <2>1, JoinedLast DEF w
  <2>4. Mapped(CurryForm, Front(s) \o r) = a
    BY <2>3, MappedSplice
  <2>5. Curry(v) = Unary(v, a)
    BY <1>1, <2>3, <2>4, CurryNode DEF v
  <2>6. d \in Seq(V) /\ Len(d) = Len(r)
    BY <1>2, <2>3
  <2>7. Curry(w) = Unary(w, d)
    BY <2>2, <2>3, CurryNode
  <2> HIDE DEF c, d
  <2>8. c # <<>> /\ d # <<>> /\ Len(c) \in Nat \ {0} /\ Len(d) \in Nat \ {0}
    BY <1>6, <2>3, <2>6, EmptySeq
  <2>9. SameClass(w, u) /\ SameClass(v, u)
    <3>1. w.k \in Grouping /\ u.k \in Grouping
      BY <1>3, <2>1 DEF Grouping
    <3>2. \A q : WithSub(w, q) = [k |-> w.k, sub |-> q] /\ WithSub(u, q) = [k |-> u.k, sub |-> q]
      BY <2>3, <3>1, ChainNode
    <3> QED
      BY <2>1, <2>3, <3>2 DEF SameClass
  <2>10. c[Len(c)] = LinkedFrom(u, d)[1]
    <3>1. c[n] = CurryForm[w]
      <4>1. n \in 1 .. n
        BY <2>3
      <4> QED
        BY <1>6, <2>3, <4>1
    <3>2. c[n] = Unary(w, d)
      BY <2>7, <3>1, CurryIsCurried
    <3>3. Unary(w, d) = LinkedFrom(w, d)[1]
      BY <1>3, <2>1, UnaryIsLinked
    <3>4. LinkedFrom(w, d)[1] = LinkedFrom(u, d)[1]
      BY <2>8, <2>9, LinkedSame
    <3> QED
      BY <1>6, <3>2, <3>3, <3>4
  <2>11. LinkedFrom(u, a)[1] = LinkedFrom(u, c)[1]
    BY <1>6, <2>6, <2>8, <2>10, LinkedFromSplice
  <2>12. Unary(v, a) = LinkedFrom(v, a)[1] /\ Unary(u, c) = LinkedFrom(u, c)[1]
    BY <1>3, <2>3, UnaryIsLinked
  <2>13. LinkedFrom(v, a)[1] = LinkedFrom(u, a)[1]
    <3>1. Len(a) = Len(c) - 1 + Len(d)
      BY <1>6, <2>6, <2>8, SpliceShape
    <3> HIDE DEF a
    <3>2. Len(a) \in Nat \ {0}
      BY <2>8, <3>1
    <3> QED
      BY <2>9, <3>2, LinkedSame
  <2> QED
    BY <2>5, <2>11, <2>12, <2>13 DEF v, c
<1>4. CASE u.k = "apply" /\ s[1].k = "apply"
  <2> DEFINE w == s[1]
             r == w.sub
             d == Mapped(CurryForm, r)
             a == d \o Tail(c)
  <2>1. JoinsFirst(u, s, v, r, n) /\ w.k = u.k
    BY <1>4 DEF JoinsFirst
  <2>2. r = w.sub /\ n = Len(s) /\ s[1] = w
    OBVIOUS
  <2> HIDE DEF v, n, r, w
  <2>3. /\ n \in Nat \ {0} /\ s # <<>>
        /\ w \in Term /\ ~IsLeaf(w) /\ w \in Nodes(Term)
        /\ r \in Seq(Term) /\ Len(r) \in Nat \ {0}
        /\ v \in Nodes(Term) /\ v.k = u.k /\ v.sub = r \o Tail(s)
        /\ \A q : WithSub(v, q) = WithSub(u, q)
    BY <2>1, JoinedFirst DEF w
  <2>4. Mapped(CurryForm, r \o Tail(s)) = a
    BY <2>3, MappedSplice
  <2>5. Curry(v) = Unary(v, a)
    BY <1>1, <2>3, <2>4, CurryNode DEF v
  <2>6. d \in Seq(V) /\ Len(d) = Len(r)
    BY <1>2, <2>3
  <2>7. Curry(w) = Unary(w, d)
    BY <2>2, <2>3, CurryNode
  <2> HIDE DEF c, d
  <2>8. c # <<>> /\ d # <<>> /\ Len(c) \in Nat \ {0} /\ Len(d) \in Nat \ {0}
    BY <1>6, <2>3, <2>6, EmptySeq
  <2>9. SameClass(w, u) /\ SameClass(v, u)
    <3>1. w.k \in Grouping /\ u.k \in Grouping
      BY <1>4, <2>1 DEF Grouping
    <3>2. \A q : WithSub(w, q) = [k |-> w.k, sub |-> q] /\ WithSub(u, q) = [k |-> u.k, sub |-> q]
      BY <2>3, <3>1, ChainNode
    <3> QED
      BY <2>1, <2>3, <3>2 DEF SameClass
  <2>10. c[1] = LinkedUpto(u, d)[Len(d)]
    <3>1. c[1] = CurryForm[w]
      <4>1. 1 \in 1 .. n
        BY <2>3
      <4> QED
        BY <1>6, <2>2, <4>1
    <3>2. c[1] = Unary(w, d)
      BY <2>7, <3>1, CurryIsCurried
    <3>3. Unary(w, d) = LinkedUpto(w, d)[Len(d)]
      BY <1>4, <2>1, UnaryIsLinked
    <3>4. LinkedUpto(w, d)[Len(d)] = LinkedUpto(u, d)[Len(d)]
      BY <2>8, <2>9, LinkedSame
    <3> QED
      BY <3>2, <3>3, <3>4
  <2>11. LinkedUpto(u, a)[Len(a)] = LinkedUpto(u, c)[Len(c)]
    BY <1>6, <2>6, <2>8, <2>10, LinkedUptoSplice
  <2>12. Unary(v, a) = LinkedUpto(v, a)[Len(a)] /\ Unary(u, c) = LinkedUpto(u, c)[Len(c)]
    BY <1>4, <2>3, UnaryIsLinked
  <2>13. LinkedUpto(v, a)[Len(a)] = LinkedUpto(u, a)[Len(a)]
    <3>1. Len(a) = Len(d) + Len(c) - 1
      BY <1>6, <2>6, <2>8, SpliceShape
    <3> HIDE DEF a
    <3>2. Len(a) \in Nat \ {0}
      BY <2>8, <3>1
    <3> QED
      BY <2>9, <3>2, LinkedSame
  <2> QED
    BY <2>5, <2>11, <2>12, <2>13 DEF v, c
<1>5. CASE ~(u.k \in {"product", "lambda"} /\ Last(s).k = u.k) /\ ~(u.k = "apply" /\ s[1].k = "apply")
  <2>1. /\ v \in Nodes(Term) /\ v.k = u.k /\ v.sub = s
        /\ \A q : WithSub(v, q) = WithSub(u, q)
    BY <1>5, JoinedNone
  <2> HIDE DEF v
  <2>2. Curry(v) = Unary(v, c)
    BY <1>1, <2>1, CurryNode DEF v
  <2> HIDE DEF c
  <2>3. Unary(v, c) = Unary(u, c)
    <3>1. CASE u.k \in Grouping
      <4>1. Len(c) \in Nat \ {0}
        BY <1>6, <3>1, ChainNode
      <4>2. SameClass(v, u)
        BY <2>1 DEF SameClass
      <4> QED
        BY <2>1, <3>1, <4>1, <4>2, LinkedSame, UnaryIsLinked DEF Grouping
    <3>2. CASE ~(u.k \in Grouping)
      BY <2>1, <3>2, UnaryIsLinked
    <3> QED
      BY <3>1, <3>2
  <2> QED
    BY <2>2, <2>3 DEF v, c
<1> QED
  BY <1>3, <1>4, <1>5

\* normalize changes the grouping of arguments only (normalize).
THEOREM NormalCurry ==
  ASSUME NEW t \in Term
  PROVE  Curry(Normalize(t)) = Curry(t)
<1> DEFINE Good == {u \in Term : Curry(Normalize(u)) = Curry(u)}
<1>1. ASSUME NEW u \in Leaves(0 .. Word - 1) PROVE u \in Good
  <2>1. u \in Term /\ IsLeaf(u)
    BY LeavesAreTerms DEF Leaves, IsLeaf, Term
  <2> QED
    BY <2>1, NormalLeaf
<1>2. ASSUME NEW u \in Nodes(Term) \cap Term, \A i \in DOMAIN u.sub : u.sub[i] \in Good
      PROVE  u \in Good
  <2>1. u \in Term /\ ~IsLeaf(u) /\ u.sub \in Seq(Term) /\ DOMAIN u.sub = 1 .. Len(u.sub)
    BY NodeShape
  <2> DEFINE s == Mapped(NormalForm, u.sub)
  <2>2. /\ s \in Seq(Term) /\ Len(s) = Len(u.sub)
        /\ \A i \in 1 .. Len(u.sub) : s[i] = Normalize(u.sub[i])
        /\ Normalize(u) = Regroup(u, s) /\ Normalize(u) \in Term
    BY <2>1, NormalInTerm, NormalNode
  <2> HIDE DEF s
  <2>3. Curry(Normalize(u)) = Unary(u, Mapped(CurryForm, s))
    BY <2>2, CurryRegroup
  <2>4. Curry(u) = Unary(u, Mapped(CurryForm, u.sub))
    BY <2>1, CurryNode
  <2>5. Mapped(CurryForm, s) = Mapped(CurryForm, u.sub)
    <3>1. \A i \in 1 .. Len(u.sub) : CurryForm[s[i]] = CurryForm[u.sub[i]]
      <4> TAKE i \in 1 .. Len(u.sub)
      <4>1. Curry(Normalize(u.sub[i])) = Curry(u.sub[i])
        BY <1>2, <2>1
      <4> QED
        BY <2>2, <4>1, CurryIsCurried
    <3>2. DOMAIN s = 1 .. Len(u.sub)
      BY <2>2
    <3> QED
      BY <2>1, <3>1, <3>2 DEF Mapped
  <2> QED
    BY <2>3, <2>4, <2>5
<1> QED
  <2> HIDE DEF Good
  <2>1. Term \subseteq Good
    BY <1>1, <1>2, TermInduction DEF Term
  <2> QED
    BY <2>1 DEF Good

\* For every term that can be built normalize changes the grouping of arguments only,
\* leaves no chain inside a chain and is done in one pass (normalize).
THEOREM FlattenCorrect == Spec => []NormalizeFlattens
<1>1. ASSUME TypeOK PROVE NormalizeFlattens
  <2>1. term \in Term /\ Normalize(term) \in Term
    BY <1>1, BuiltTerm, NormalInTerm
  <2>2. Curry(Normalize(term)) = Curry(term) /\ Flat(Normalize(term))
    BY <2>1, NormalCurry, NormalFlat
  <2>3. Normalize(Normalize(term)) = Normalize(term)
    BY <2>1, <2>2, FlatStays
  <2> QED
    BY <2>2, <2>3 DEF NormalizeFlattens
<1> QED
  BY <1>1, TypeCorrect, PTL
=============================================================================
