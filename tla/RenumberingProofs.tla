------------------------- MODULE RenumberingProofs --------------------------
(***************************************************************************)
(* What shift and local_subst do to every term that the client can build,  *)
(* for any terms to start from, any height and any environment.            *)
(***************************************************************************)
EXTENDS DeBruijnProofs

(***************************************************************************)
(* FlattenSeq, by which a fix lists the subterms of its functions.         *)
(***************************************************************************)

\* FlattenSeq is defined by recursion on the number of sequences; this is its function:
\* the first i sequences in one
Flattening(seqs) ==
  CHOOSE flatten : flatten =
    [i \in 1 .. Len(seqs) |-> IF i = 1 THEN seqs[i] ELSE flatten[i - 1] \o seqs[i]]

\* There is such a function, for every sequence of sequences (FlattenSeq).
LEMMA FlatteningDef ==
  ASSUME NEW seqs, Len(seqs) \in Nat
  PROVE  Flattening(seqs) =
           [i \in 1 .. Len(seqs) |->
              IF i = 1 THEN seqs[i] ELSE Flattening(seqs)[i - 1] \o seqs[i]]
<1> DEFINE Upto(f, n) == f = [i \in 1 .. n |-> IF i = 1 THEN seqs[i] ELSE f[i - 1] \o seqs[i]]
           Good == {n \in Nat : \E f : Upto(f, n)}
<1>1. 0 \in Good
  <2>1. Upto([i \in 1 .. 0 |-> seqs[i]], 0)
    OBVIOUS
  <2> QED
    BY <2>1
<1>2. ASSUME NEW n \in Good PROVE n + 1 \in Good
  <2>1. PICK f : Upto(f, n)
    BY <1>2
  <2>2. n \in Nat
    BY <1>2
  <2> DEFINE g == [i \in 1 .. n + 1 |->
                     IF i = n + 1 THEN IF i = 1 THEN seqs[i] ELSE f[i - 1] \o seqs[i] ELSE f[i]]
  <2>3. ASSUME NEW i \in 1 .. n + 1
        PROVE  g[i] = IF i = 1 THEN seqs[i] ELSE g[i - 1] \o seqs[i]
    <3>1. CASE i = 1
      <4>1. i # n + 1 => 1 \in 1 .. n
        BY <2>2, <3>1
      <4>2. i # n + 1 => f[1] = seqs[1]
        BY <2>1, <4>1
      <4> QED
        BY <3>1, <4>2
    <3>2. CASE i # 1
      <4>1. i - 1 \in 1 .. n /\ i - 1 # n + 1 /\ i - 1 \in 1 .. n + 1
        BY <2>2, <3>2
      <4>2. g[i - 1] = f[i - 1]
        BY <4>1
      <4>3. i # n + 1 => i \in 1 .. n
        BY <2>2
      <4>4. i # n + 1 => f[i] = f[i - 1] \o seqs[i]
        BY <2>1, <3>2, <4>3
      <4> QED
        BY <3>2, <4>2, <4>4
    <3> QED
      BY <3>1, <3>2
  <2>4. Upto(g, n + 1)
    BY <2>3
  <2> HIDE DEF g, Upto
  <2>5. \E h : Upto(h, n + 1)
    BY <2>4
  <2> QED
    BY <2>2, <2>5
<1>3. Good = Nat
  <2> HIDE DEF Good
  <2>1. Good \subseteq Nat
    BY DEF Good
  <2> QED
    BY <2>1, <1>1, <1>2, CountUp
<1>4. PICK f : Upto(f, Len(seqs))
  BY <1>3
<1> QED
  BY <1>4, Zenon DEF Flattening

\* Sequences of sequences with the same lengths are flattened to sequences of the same
\* length (the subterms of a fix and their depths).
LEMMA FlattenSeqShape ==
  ASSUME NEW S, NEW R, NEW s \in Seq(Seq(S)), NEW r \in Seq(Seq(R)), Len(s) = Len(r),
         \A i \in 1 .. Len(s) : Len(s[i]) = Len(r[i])
  PROVE  /\ FlattenSeq(s) \in Seq(S)
         /\ FlattenSeq(r) \in Seq(R)
         /\ Len(FlattenSeq(s)) = Len(FlattenSeq(r))
<1> DEFINE fs == Flattening(s)
           fr == Flattening(r)
           Good == {n \in Nat : n \in 1 .. Len(s) =>
                      fs[n] \in Seq(S) /\ fr[n] \in Seq(R) /\ Len(fs[n]) = Len(fr[n])}
<1>8. Len(s) \in Nat /\ Len(r) \in Nat /\ DOMAIN s = 1 .. Len(s) /\ DOMAIN r = 1 .. Len(s)
  OBVIOUS
<1>9. fs = [i \in 1 .. Len(s) |-> IF i = 1 THEN s[i] ELSE fs[i - 1] \o s[i]]
  BY <1>8, FlatteningDef
<1>10. fr = [i \in 1 .. Len(r) |-> IF i = 1 THEN r[i] ELSE fr[i - 1] \o r[i]]
  BY <1>8, FlatteningDef
<1> HIDE DEF fs, fr
<1>1. /\ 1 \in 1 .. Len(s) => fs[1] = s[1] /\ fr[1] = r[1]
      /\ \A i \in 1 .. Len(s) : i # 1 => fs[i] = fs[i - 1] \o s[i] /\ fr[i] = fr[i - 1] \o r[i]
  BY <1>9, <1>10
<1>2. \A i \in 1 .. Len(s) : s[i] \in Seq(S) /\ r[i] \in Seq(R) /\ Len(s[i]) = Len(r[i])
  <2>1. \A i \in DOMAIN s : s[i] \in Seq(S)
    BY ElementOfSeq
  <2>2. \A i \in DOMAIN r : r[i] \in Seq(R)
    BY ElementOfSeq
  <2> QED
    BY <1>8, <2>1, <2>2, Zenon
<1>3. 0 \in Good
  OBVIOUS
<1>4. ASSUME NEW n \in Good PROVE n + 1 \in Good
  <2> SUFFICES ASSUME n + 1 \in 1 .. Len(s)
               PROVE  fs[n + 1] \in Seq(S) /\ fr[n + 1] \in Seq(R) /\ Len(fs[n + 1]) = Len(fr[n + 1])
    BY <1>4
  <2>1. n \in Nat /\ n + 1 - 1 = n
    BY <1>4
  <2>2. CASE n = 0
    <3>1. 1 \in 1 .. Len(s)
      BY <2>2
    <3>2. fs[1] = s[1] /\ fr[1] = r[1]
      BY <1>1, <3>1
    <3> QED
      BY <1>2, <2>2, <3>1, <3>2
  <2>3. CASE n # 0
    <3>1. n \in 1 .. Len(s) /\ n + 1 # 1
      BY <2>1, <2>3
    <3>2. fs[n] \in Seq(S) /\ fr[n] \in Seq(R) /\ Len(fs[n]) = Len(fr[n])
      BY <1>4, <3>1
    <3>7. \A i \in 1 .. Len(s) : i # 1 /\ i - 1 = n =>
            fs[i] = fs[n] \o s[i] /\ fr[i] = fr[n] \o r[i]
      BY <1>1
    <3>10. PICK k \in 1 .. Len(s) : k = n + 1
      OBVIOUS
    <3>12. k # 1 /\ k - 1 = n
      BY <2>1, <3>1, <3>10
    <3>11. fs[k] = fs[n] \o s[k] /\ fr[k] = fr[n] \o r[k]
      BY <3>7, <3>12, Zenon
    <3>3. fs[n + 1] = fs[n] \o s[n + 1] /\ fr[n + 1] = fr[n] \o r[n + 1]
      BY <3>10, <3>11
    <3>4. s[n + 1] \in Seq(S) /\ r[n + 1] \in Seq(R) /\ Len(s[n + 1]) = Len(r[n + 1])
      BY <1>2
    <3>5. \A a \in Seq(S), b \in Seq(S) : a \o b \in Seq(S) /\ Len(a \o b) = Len(a) + Len(b)
      OBVIOUS
    <3>6. \A a \in Seq(R), b \in Seq(R) : a \o b \in Seq(R) /\ Len(a \o b) = Len(a) + Len(b)
      OBVIOUS
    <3>8. fs[n + 1] \in Seq(S) /\ Len(fs[n + 1]) = Len(fs[n]) + Len(s[n + 1])
      BY <3>2, <3>3, <3>4, <3>5
    <3>9. fr[n + 1] \in Seq(R) /\ Len(fr[n + 1]) = Len(fr[n]) + Len(r[n + 1])
      BY <3>2, <3>3, <3>4, <3>6
    <3> QED
      BY <3>2, <3>4, <3>8, <3>9
  <2> QED
    BY <2>2, <2>3
<1>5. Good = Nat
  <2> HIDE DEF Good
  <2>1. Good \subseteq Nat
    BY DEF Good
  <2> QED
    BY <2>1, <1>3, <1>4, CountUp
<1>6. CASE Len(s) = 0
  <2>1. s = <<>> /\ r = <<>>
    BY <1>6, EmptySeq
  <2>2. FlattenSeq(s) = s /\ FlattenSeq(r) = r
    BY <1>6 DEF FlattenSeq
  <2>3. s \in Seq(S) /\ r \in Seq(R) /\ Len(s) = Len(r)
    BY <2>1, EmptySeq, Zenon
  <2> QED
    BY <2>2, <2>3, Zenon
<1>7. CASE Len(s) # 0
  <2>1. FlattenSeq(s) = fs[Len(s)] /\ FlattenSeq(r) = fr[Len(s)]
    BY <1>7, Zenon DEF FlattenSeq, Flattening, fs, fr
  <2>2. Len(s) \in 1 .. Len(s) /\ Len(s) \in Nat
    BY <1>7
  <2> QED
    BY <1>5, <2>1, <2>2
<1> QED
  BY <1>6, <1>7

(***************************************************************************)
(* What the client builds.                                                 *)
(***************************************************************************)

\* The functions of namespace builder make terms of their classes.
LEMMA BuilderShapes ==
  ASSUME NEW S, NEW args \in Seq(S), NEW a \in S, NEW b \in S, NEW c \in S
  PROVE  /\ product(args, a) \in Nodes(S)
         /\ lambda(args, a) \in Nodes(S)
         /\ let(a, b, c) \in Nodes(S)
         /\ apply(a, args) \in Nodes(S)
         /\ cast(a, b) \in Nodes(S)
<1>1. Append(args, a) \in Seq(S) \ {<<>>}
  <2>1. Append(args, a) \in Seq(S) /\ Len(Append(args, a)) = Len(args) + 1 /\ Len(args) \in Nat
    OBVIOUS
  <2>2. Len(Append(args, a)) # 0
    BY <2>1
  <2> QED
    BY <2>1, <2>2, EmptySeq
<1>2. <<a>> \o args \in Seq(S) \ {<<>>}
  <2>1. <<a>> \o args \in Seq(S) /\ Len(<<a>> \o args) = 1 + Len(args) /\ Len(args) \in Nat
    OBVIOUS
  <2>2. Len(<<a>> \o args) # 0
    BY <2>1
  <2> QED
    BY <2>1, <2>2, EmptySeq
<1>3. <<a, b, c>> \in [1 .. 3 -> S] /\ <<a, b>> \in [1 .. 2 -> S]
  OBVIOUS
<1> QED
  BY <1>1, <1>2, <1>3 DEF Nodes, product, lambda, let, apply, cast

\* builder::match makes a match with as many branches as numbers of arguments.
LEMMA MatchShape ==
  ASSUME NEW S, NEW casetype \in S, NEW arg \in S, NEW branches \in Seq([nargs : Nat, expr : S])
  PROVE  match(casetype, arg, branches) \in Nodes(S)
<1> DEFINE e == [n \in DOMAIN branches |-> branches[n].expr]
           a == [n \in DOMAIN branches |-> branches[n].nargs]
<1>1. DOMAIN branches = 1 .. Len(branches) /\ Len(branches) \in Nat
        /\ \A n \in DOMAIN branches : branches[n] \in [nargs : Nat, expr : S]
  <2>1. DOMAIN branches = 1 .. Len(branches) /\ Len(branches) \in Nat
    OBVIOUS
  <2> QED
    BY <2>1, ElementOfSeq
<1>2. e \in [1 .. Len(branches) -> S] /\ a \in [1 .. Len(branches) -> Nat]
  BY <1>1
<1>3. match(casetype, arg, branches) = [k |-> "match", sub |-> <<casetype, arg>> \o e, nargs |-> a]
  BY DEF match
<1> HIDE DEF e, a
<1>4. e \in Seq(S) /\ Len(e) = Len(branches) /\ a \in Seq(Nat) /\ Len(a) = Len(branches)
  BY <1>1, <1>2, FixedSeq
<1>5. <<casetype, arg>> \in Seq(S) /\ Len(<<casetype, arg>>) = 2
  OBVIOUS
<1>6. <<casetype, arg>> \o e \in Seq(S) /\ Len(<<casetype, arg>> \o e) = Len(a) + 2
  BY <1>4, <1>5
<1> QED
  BY <1>3, <1>4, <1>6 DEF Nodes

\* builder::fix makes a group with a depth for every argument, result type and body.
LEMMA FixShape ==
  ASSUME NEW S, NEW index \in Nat,
         NEW functions \in Seq([args : Seq(S), restype : S, body : S])
  PROVE  fix(index, functions) \in Nodes(S)
<1> DEFINE N == Len(functions)
           pieces == [n \in DOMAIN functions |->
                        functions[n].args \o <<functions[n].restype, functions[n].body>>]
           a == [n \in DOMAIN functions |-> Len(functions[n].args)]
           depths == [f \in 1 .. Len(a) |->
                        Telescope(a[f], Len(a)) \o <<Len(a) + a[f], Len(a) + a[f]>>]
           t == [k |-> "fix", entry |-> index, sub |-> FlattenSeq(pieces), arity |-> a]
<1>1. DOMAIN functions = 1 .. N /\ N \in Nat
        /\ \A n \in DOMAIN functions : functions[n] \in [args : Seq(S), restype : S, body : S]
  <2>1. DOMAIN functions = 1 .. N /\ N \in Nat
    OBVIOUS
  <2> QED
    BY <2>1, ElementOfSeq
<1>2. a \in Seq(Nat) /\ Len(a) = N
  <2>1. a \in [1 .. N -> Nat]
    BY <1>1
  <2> HIDE DEF a
  <2> QED
    BY <1>1, <2>1, FixedSeq
<1>3. ASSUME NEW n \in 1 .. N
      PROVE  pieces[n] \in Seq(S) /\ Len(pieces[n]) = a[n] + 2 /\ a[n] \in Nat
  <2>1. functions[n].args \in Seq(S) /\ functions[n].restype \in S /\ functions[n].body \in S
    BY <1>1
  <2>2. \A x \in S, y \in S, s \in Seq(S) : s \o <<x, y>> \in Seq(S) /\ Len(s \o <<x, y>>) = Len(s) + 2
    OBVIOUS
  <2> QED
    BY <1>1, <2>1, <2>2
<1>4. pieces \in Seq(Seq(S)) /\ Len(pieces) = N
  <2>1. pieces \in [1 .. N -> Seq(S)]
    BY <1>1, <1>3
  <2> HIDE DEF pieces
  <2> QED
    BY <1>1, <2>1, FixedSeq
<1>5. ASSUME NEW n \in 1 .. N
      PROVE  depths[n] \in Seq(Nat) /\ Len(depths[n]) = a[n] + 2
  <2>1. a[n] \in Nat /\ Len(a) \in Nat /\ n \in 1 .. Len(a)
    BY <1>2, <1>3
  <2>2. \A x \in Nat, y \in Nat : Telescope(x, y) \in [1 .. x -> Nat]
    BY DEF Telescope
  <2>3. Telescope(a[n], Len(a)) \in Seq(Nat) /\ Len(Telescope(a[n], Len(a))) = a[n]
    BY <2>1, <2>2, FixedSeq
  <2>4. \A x \in Nat, s \in Seq(Nat) : s \o <<x, x>> \in Seq(Nat) /\ Len(s \o <<x, x>>) = Len(s) + 2
    OBVIOUS
  <2>5. depths[n] = Telescope(a[n], Len(a)) \o <<Len(a) + a[n], Len(a) + a[n]>>
    BY <2>1
  <2>6. Len(a) + a[n] \in Nat
    BY <2>1
  <2> HIDE DEF a, depths
  <2> QED
    BY <2>3, <2>4, <2>5, <2>6
<1>6. depths \in Seq(Seq(Nat)) /\ Len(depths) = N
  <2>1. depths \in [1 .. N -> Seq(Nat)]
    BY <1>2, <1>5
  <2> HIDE DEF depths
  <2> QED
    BY <1>1, <2>1, FixedSeq
<1>7. fix(index, functions) = t
  BY DEF fix
<1>8. FixDepths(t) = FlattenSeq(depths)
  BY DEF FixDepths
<1>9. t.sub = FlattenSeq(pieces) /\ t \in [k : {"fix"}, entry : Nat, sub : {FlattenSeq(pieces)}, arity : {a}]
  OBVIOUS
<1> HIDE DEF pieces, depths, a, t, N
<1>10. \A i \in 1 .. Len(pieces) : Len(pieces[i]) = Len(depths[i])
  BY <1>3, <1>4, <1>5
<1>11. FlattenSeq(pieces) \in Seq(S) /\ FlattenSeq(depths) \in Seq(Nat)
         /\ Len(FlattenSeq(pieces)) = Len(FlattenSeq(depths))
  <2>1. Len(pieces) = Len(depths)
    BY <1>4, <1>6
  <2> QED
    BY <1>4, <1>6, <1>10, <2>1, FlattenSeqShape
<1>12. FixDepths(t) \in [DOMAIN t.sub -> Nat]
  BY <1>8, <1>9, <1>11
<1>13. t \in [k : {"fix"}, entry : Nat, sub : Seq(S), arity : Seq(Nat)]
  BY <1>2, <1>9, <1>11
<1> QED
  BY <1>7, <1>12, <1>13 DEF Nodes

\* Every construct of the client preserves TypeOK: the client knows how to use each
\* function of namespace builder.
LEMMA BuildType ==
  ASSUME TypeOK, Next
  PROVE  TypeOK'
<1> DEFINE I == 0 .. Len(Env) - 1
           T(n) == Levels(I)[n]
           N == 2 * height
<1>1. height \in Nat /\ Len(Env) \in Nat /\ MaxHeight \in Nat
  BY HeightAssumption, EnvAssumption DEF TypeOK
<1>2. term \in T(N)
  BY TermsOverLevels DEF TypeOK
<1>3. SUFFICES ASSUME height < MaxHeight
               PROVE  term' \in T(N + 2) /\ height' = height + 1
  <2>1. height < MaxHeight /\ height' = height + 1
    BY DEF Next, BuildProduct, BuildLambda, BuildLet, BuildApply, BuildCast, BuildMatch, BuildFix, Build
  <2>2. 2 * height' = N + 2 /\ height' \in 0 .. MaxHeight
    BY <1>1, <2>1
  <2>3. \A n : NestedTerms(I, n) = T(n)
    BY TermsOverLevels
  <2> HIDE DEF T, I, N
  <2>4. term' \in T(N + 2) => term' \in NestedTerms(I, 2 * height')
    BY <2>2, <2>3
  <2> QED
    BY <1>3, <2>1, <2>2, <2>4 DEF TypeOK, I
<1>4. N \in 0 .. MaxNesting /\ N + 1 \in 1 .. MaxNesting /\ N + 2 \in 1 .. MaxNesting
        /\ N + 1 - 1 = N /\ N + 2 - 1 = N + 1
  BY <1>1, <1>3, HeightAssumption, NestingAssumption
<1>5. \A n \in 1 .. MaxNesting :
        T(n - 1) \subseteq T(n) /\ Nodes(T(n - 1)) \subseteq T(n) /\ Leaves(I) \subseteq T(n)
  BY LevelsRise, NestingAssumption
<1>6. Leaves(I) \subseteq T(N)
  BY <1>4, LevelsRise
<1> HIDE DEF T, N
<1>7. T(N) \subseteq T(N + 1) /\ Nodes(T(N)) \subseteq T(N + 1)
  <2>1. PICK n \in 1 .. MaxNesting : n = N + 1 /\ n - 1 = N
    BY <1>4
  <2> QED
    BY <1>5, <2>1
<1>8. T(N + 1) \subseteq T(N + 2) /\ Nodes(T(N + 1)) \subseteq T(N + 2)
  <2>1. PICK n \in 1 .. MaxNesting : n = N + 2 /\ n - 1 = N + 1
    BY <1>4
  <2> QED
    BY <1>5, <2>1
<1>9. Small \subseteq T(N) /\ \A s \in Small : Shift(s, 0, 2) \in T(N)
  <2>1. ASSUME NEW s \in Small PROVE s \in Leaves(I) /\ Shift(s, 0, 2) \in Leaves(I)
    <3>1. s \in Leaves(0 .. Len(Env) - 3)
      BY SmallAssumption
    <3>2. s \in Leaves(I)
      BY <1>1, <3>1 DEF Leaves
    <3>3. s \in Term /\ IsLeaf(s)
      <4>1. Len(Env) <= Word
        BY <1>1, EnvAssumption, WordAssumption
      <4> QED
        BY <1>1, <3>2, <4>1, SmallIndices, LeavesAreTerms DEF Leaves, IsLeaf
    <3>4. CASE s.k = "local"
      <4>1. s.index \in 0 .. Len(Env) - 3
        BY <3>1, <3>4 DEF Leaves
      <4>2. s.index \in Int /\ 2 \in Int /\ s.index + 2 \in 0 .. Word - 1 /\ s.index >= 0
              /\ s.index + 2 \in I
        BY <1>1, <4>1, EnvAssumption, WordAssumption
      <4>3. Shift(s, 0, 2) = local(s.index + 2)
        <5>1. Shift(s, 0, 2) = local(ShiftIndex(s.index, 2))
          BY <3>3, <3>4, <4>2, ShiftLeaf
        <5> QED
          BY <4>2, <5>1, ShiftIndexRange
      <4> QED
        BY <3>2, <4>2, <4>3 DEF Leaves, local
    <3>5. CASE s.k # "local"
      <4>1. Shift(s, 0, 2) = s
        BY <3>3, <3>5, ShiftLeaf
      <4> QED
        BY <3>2, <4>1
    <3> QED
      BY <3>4, <3>5
  <2> QED
    BY <1>6, <2>1
<1> HIDE DEF I
<1>10. \A x, y \in T(N) : <<x>> \in Seq(T(N)) /\ <<x, y>> \in Seq(T(N)) /\ <<>> \in Seq(T(N))
  OBVIOUS
<1>11. ASSUME NEW kind, NEW t, t \in T(N + 1) \/ t \in Nodes(T(N + 1)), Build(kind, t)
       PROVE  term' \in T(N + 2) /\ height' = height + 1
  BY <1>8, <1>11 DEF Build
<1>12. ASSUME NEW kind, NEW t \in Nodes(T(N)), Build(kind, t)
       PROVE  term' \in T(N + 2) /\ height' = height + 1
  BY <1>7, <1>11, <1>12
<1>13. CASE BuildProduct
  <2>1. PICK s \in Small :
          \E t \in {product(<<term>>, s), product(<<s>>, term), product(<<s, term>>, s)} :
            Build("product", t)
    BY <1>13 DEF BuildProduct
  <2>2. /\ product(<<term>>, s) \in Nodes(T(N))
        /\ product(<<s>>, term) \in Nodes(T(N))
        /\ product(<<s, term>>, s) \in Nodes(T(N))
    BY <1>2, <1>9, <1>10, BuilderShapes
  <2> QED
    BY <1>12, <2>1, <2>2
<1>14. CASE BuildLambda
  <2>1. PICK s \in Small :
          \E t \in {lambda(<<term>>, s), lambda(<<s>>, term), lambda(<<s, s>>, term)} :
            Build("lambda", t)
    BY <1>14 DEF BuildLambda
  <2>2. /\ lambda(<<term>>, s) \in Nodes(T(N))
        /\ lambda(<<s>>, term) \in Nodes(T(N))
        /\ lambda(<<s, s>>, term) \in Nodes(T(N))
    BY <1>2, <1>9, <1>10, BuilderShapes
  <2> QED
    BY <1>12, <2>1, <2>2
<1>15. CASE BuildLet
  <2>1. PICK s \in Small, type \in Small :
          \E t \in {let(term, type, s), let(s, type, term)} : Build("let", t)
    BY <1>15 DEF BuildLet
  <2>2. let(term, type, s) \in Nodes(T(N)) /\ let(s, type, term) \in Nodes(T(N))
    BY <1>2, <1>9, <1>10, BuilderShapes
  <2> QED
    BY <1>12, <2>1, <2>2
<1>16. CASE BuildApply
  <2>1. PICK s \in Small, r \in Small :
          \E t \in {apply(term, <<s>>), apply(s, <<term>>), apply(term, <<s, r>>)} :
            Build("apply", t)
    BY <1>16 DEF BuildApply
  <2>2. /\ apply(term, <<s>>) \in Nodes(T(N))
        /\ apply(s, <<term>>) \in Nodes(T(N))
        /\ apply(term, <<s, r>>) \in Nodes(T(N))
    BY <1>2, <1>9, <1>10, BuilderShapes
  <2> QED
    BY <1>12, <2>1, <2>2
<1>17. CASE BuildCast
  <2>1. PICK s \in Small : \E t \in {cast(term, s), cast(s, term)} : Build("cast", t)
    BY <1>17 DEF BuildCast
  <2>2. cast(term, s) \in Nodes(T(N)) /\ cast(s, term) \in Nodes(T(N))
    BY <1>2, <1>9, <1>10, BuilderShapes
  <2> QED
    BY <1>12, <2>1, <2>2
<1>18. CASE BuildMatch
  <2>1. PICK s \in Small, r \in Small :
          \E t \in {match(global("P"), s, <<[nargs |-> 0, expr |-> term]>>),
                    match(global("P"), s, <<[nargs |-> 0, expr |-> s],
                                            [nargs |-> 1, expr |-> lambda(<<r>>, term)]>>)} :
            Build("match", t)
    BY <1>18 DEF BuildMatch
  <2>2. lambda(<<r>>, term) \in T(N + 1)
    BY <1>2, <1>7, <1>9, <1>10, BuilderShapes
  <2>3. global("P") \in T(N + 1) /\ s \in T(N + 1) /\ term \in T(N + 1)
    <3>1. global("P") \in Leaves(I)
      <4>1. "P" \in Names
        BY NamesAssumption
      <4>2. global("P") \in [k : {"global"}, name : Names]
        BY <4>1 DEF global
      <4> QED
        BY <4>2 DEF Leaves
    <3>2. Leaves(I) \subseteq T(N + 1)
      BY <1>6, <1>7
    <3> QED
      BY <1>2, <1>7, <1>9, <3>1, <3>2
  <2> DEFINE B == [nargs : Nat, expr : T(N + 1)]
  <2>4. <<[nargs |-> 0, expr |-> term]>> \in Seq(B)
    BY <2>3
  <2>5. <<[nargs |-> 0, expr |-> s], [nargs |-> 1, expr |-> lambda(<<r>>, term)]>> \in Seq(B)
    <3>1. [nargs |-> 0, expr |-> s] \in B
      BY <2>3
    <3>2. [nargs |-> 1, expr |-> lambda(<<r>>, term)] \in B
      BY <2>2
    <3>3. \A x, y \in B : <<x, y>> \in Seq(B)
      OBVIOUS
    <3> HIDE DEF B
    <3> QED
      BY <3>1, <3>2, <3>3, Zenon
  <2>6. /\ match(global("P"), s, <<[nargs |-> 0, expr |-> term]>>) \in Nodes(T(N + 1))
        /\ match(global("P"), s, <<[nargs |-> 0, expr |-> s],
                                   [nargs |-> 1, expr |-> lambda(<<r>>, term)]>>) \in Nodes(T(N + 1))
    BY <2>3, <2>4, <2>5, MatchShape
  <2> QED
    BY <1>11, <2>1, <2>6
<1>19. CASE BuildFix
  <2>1. PICK s \in Small, r \in Small :
          \E fns \in {<<[args |-> <<s, r>>, restype |-> s, body |-> term]>>,
                      <<[args |-> <<s>>, restype |-> term, body |-> r],
                        [args |-> <<>>, restype |-> Shift(r, 0, 2), body |-> s]>>} :
            Build("fix", fix(0, fns))
    BY <1>19 DEF BuildFix
  <2> DEFINE F == [args : Seq(T(N)), restype : T(N), body : T(N)]
  <2>2. <<[args |-> <<s, r>>, restype |-> s, body |-> term]>> \in Seq(F)
    BY <1>2, <1>9, <1>10
  <2>3. <<[args |-> <<s>>, restype |-> term, body |-> r],
          [args |-> <<>>, restype |-> Shift(r, 0, 2), body |-> s]>> \in Seq(F)
    BY <1>2, <1>9, <1>10
  <2>4. PICK fns \in Seq(F) : Build("fix", fix(0, fns))
    BY <2>1, <2>2, <2>3
  <2>5. fix(0, fns) \in Nodes(T(N))
    BY <2>4, FixShape
  <2> QED
    BY <1>12, <2>4, <2>5
<1> QED
  BY <1>13, <1>14, <1>15, <1>16, <1>17, <1>18, <1>19 DEF Next

\* Whatever the client builds is a term of its class, nested at most twice as deep as it
\* has constructs, with no variable beyond Env (namespace builder).
THEOREM TypeCorrect == Spec => []TypeOK
<1>1. Init => TypeOK
  <2> SUFFICES ASSUME Init PROVE TypeOK
    OBVIOUS
  <2> DEFINE I == 0 .. Len(Env) - 1
  <2>1. Leaves(0 .. Len(Env) - 3) \subseteq Leaves(I)
    BY EnvAssumption DEF Leaves
  <2>2. Leaves(I) \subseteq Levels(I)[0]
    BY LevelsRise, NestingAssumption
  <2>3. NestedTerms(I, 2 * height) = Levels(I)[0] /\ height \in 0 .. MaxHeight
    BY TermsOverLevels, HeightAssumption DEF Init
  <2> QED
    BY <2>1, <2>2, <2>3, SmallAssumption DEF Init, TypeOK
<1>2. TypeOK /\ [Next]_vars => TypeOK'
  <2>1. TypeOK /\ Next => TypeOK'
    BY BuildType
  <2>2. TypeOK /\ UNCHANGED vars => TypeOK'
    BY DEF vars, TypeOK
  <2> QED
    BY <2>1, <2>2
<1> QED
  BY <1>1, <1>2, PTL DEF Spec

\* What the client has built is a term with variables of Env only (TypeOK).
LEMMA SmallTerm ==
  ASSUME TypeOK
  PROVE  term \in TermsOver(0 .. Len(Env) - 1)
<1>1. 2 * height \in 0 .. MaxNesting
  BY HeightAssumption, NestingAssumption DEF TypeOK
<1> QED
  BY <1>1, LevelsInTerms, TermsOverLevels DEF TypeOK

(***************************************************************************)
(* shift.                                                                  *)
(***************************************************************************)

\* An environment with new entries put in at limit, entry by entry.
LEMMA RoomRead ==
  ASSUME NEW limit \in 0 .. Len(Env), NEW S, NEW new \in Seq(S)
  PROVE  LET room == SubSeq(Env, 1, limit) \o new \o SubSeq(Env, limit + 1, Len(Env))
         IN  /\ \A j \in 1 .. limit : room[j] = Env[j]
             /\ \A j \in 1 .. Len(new) : room[limit + j] = new[j]
             /\ \A j \in limit + 1 .. Len(Env) : room[j + Len(new)] = Env[j]
<1> DEFINE a == SubSeq(Env, 1, limit)
           c == SubSeq(Env, limit + 1, Len(Env))
           U == Term \cup S
<1>1. Env \in Seq(U) /\ new \in Seq(U) /\ Len(Env) \in Nat /\ Len(new) \in Nat
  BY EnvAssumption
<1>2. a \in Seq(U) /\ Len(a) = limit /\ \A j \in 1 .. limit : a[j] = Env[j]
  BY <1>1
<1>3. c \in Seq(U) /\ Len(c) = Len(Env) - limit /\ \A j \in 1 .. Len(Env) - limit : c[j] = Env[limit + j]
  BY <1>1
<1> HIDE DEF a, c, U
<1>4. /\ a \o new \in Seq(U) /\ Len(a \o new) = limit + Len(new)
      /\ \A j \in 1 .. limit : (a \o new)[j] = a[j]
      /\ \A j \in 1 .. Len(new) : (a \o new)[limit + j] = new[j]
  BY <1>1, <1>2
<1> DEFINE an == a \o new
<1> HIDE DEF an
<1>5. /\ an \in Seq(U) /\ Len(an) = limit + Len(new)
      /\ \A j \in 1 .. limit : an[j] = Env[j]
      /\ \A j \in 1 .. Len(new) : an[limit + j] = new[j]
  BY <1>2, <1>4 DEF an
<1>6. \A j \in 1 .. limit : (an \o c)[j] = Env[j]
  BY <1>1, <1>3, <1>5
<1>7. ASSUME NEW j \in limit + 1 .. Len(Env) PROVE (an \o c)[j + Len(new)] = Env[j]
  <2>1. j + Len(new) \in Len(an) + 1 .. Len(an) + Len(c) /\ j + Len(new) - Len(an) = j - limit
          /\ j - limit \in 1 .. Len(Env) - limit /\ limit + (j - limit) = j
    BY <1>1, <1>3, <1>5
  <2>2. (an \o c)[j + Len(new)] = c[j + Len(new) - Len(an)]
    BY <1>3, <1>5, <2>1
  <2> QED
    BY <1>3, <2>1, <2>2
<1>8. ASSUME NEW j \in 1 .. Len(new) PROVE (an \o c)[limit + j] = new[j]
  <2>1. limit + j \in 1 .. Len(an)
    BY <1>1, <1>5
  <2>2. (an \o c)[limit + j] = an[limit + j]
    BY <1>3, <1>5, <2>1
  <2>3. an[limit + j] = new[j]
    BY <1>5
  <2> QED
    BY <2>2, <2>3, Zenon
<1> QED
  BY <1>6, <1>7, <1>8 DEF a, c, an

\* shift(limit, dir) makes room for dir variables at limit and shift(limit, -dir) takes it
\* away again, for every term that can be built (constr_t::shift).
THEOREM RoomCorrect == Spec => []ShiftMakesRoom
<1>1. ASSUME TypeOK PROVE ShiftMakesRoom
  <2> SUFFICES ASSUME NEW limit \in Limits, NEW dir \in Offsets
               PROVE  LET shifted == Shift(term, limit, dir)
                          room == SubSeq(Env, 1, limit) \o [i \in 1 .. dir |-> global("new")]
                                    \o SubSeq(Env, limit + 1, Len(Env))
                      IN  /\ Denotation(shifted, room) = Denotation(term, Env)
                          /\ Shift(shifted, limit, -dir) = term
    BY DEF ShiftMakesRoom
  <2> DEFINE m == Len(Env)
             new == [i \in 1 .. dir |-> global("new")]
             room == SubSeq(Env, 1, limit) \o new \o SubSeq(Env, limit + 1, Len(Env))
  <2>1. m \in Nat /\ dir \in Nat /\ m + dir <= Word /\ limit \in Nat /\ limit \in 0 .. Len(Env)
    BY EnvAssumption, WordAssumption DEF Limits, Offsets
  <2>2. new \in [1 .. dir -> {global("new")}]
    OBVIOUS
  <2> HIDE DEF new
  <2>3. new \in Seq({global("new")}) /\ Len(new) = dir
    BY <2>1, <2>2, FixedSeq
  <2>4. HasRoom(room, Env, limit, dir, m)
    BY <2>1, <2>3, RoomRead DEF HasRoom
  <2>5. term \in TermsOver(0 .. m - 1)
    BY <1>1, SmallTerm
  <2> HIDE DEF room, m
  <2>6. ASSUME NEW b \in Nat
        PROVE  Open(Shift(term, limit + b, dir), room, b) = Open(term, Env, b)
    BY <2>1, <2>4, <2>5, ShiftedMeans
  <2>7. 0 \in Nat /\ limit + 0 = limit
    BY <2>1
  <2>8. Shift(Shift(term, limit, dir), limit, -dir) = term
    BY <2>1, <2>5, ShiftUndone
  <2> QED
    BY <2>6, <2>7, <2>8 DEF Denotation, room, new
<1> QED
  BY <1>1, TypeCorrect, PTL

(***************************************************************************)
(* local_subst.                                                            *)
(***************************************************************************)

\* The substitutes are terms with two variables, nested at most two deep.
LEMMA SubstitutesShape ==
  ASSUME NEW subst \in Substitutes
  PROVE  2 <= MaxNesting /\ subst \in Seq(Levels(0 .. 1)[2])
<1> DEFINE L(n) == Levels(0 .. 1)[n]
           arg == apply(local(0), <<local(1)>>)
<1>1. 2 <= MaxNesting
  BY HeightAssumption, NestingAssumption
<1>2. local(0) \in Leaves(0 .. 1) /\ local(1) \in Leaves(0 .. 1)
        /\ global("O") \in Leaves(0 .. 1) /\ global("nat") \in Leaves(0 .. 1)
  BY NamesAssumption DEF Leaves, local, global
<1>3. 0 \in 0 .. MaxNesting /\ 1 \in 0 .. MaxNesting /\ 2 \in 0 .. MaxNesting
  BY <1>1, NestingAssumption
<1>4. Leaves(0 .. 1) \subseteq L(0) /\ Leaves(0 .. 1) \subseteq L(1) /\ Leaves(0 .. 1) \subseteq L(2)
  BY <1>3, LevelsRise
<1>5. Nodes(L(0)) \subseteq L(1) /\ Nodes(L(1)) \subseteq L(2)
  <2>1. Levels(0 .. 1)[1] = Leaves(0 .. 1) \cup Nodes(Levels(0 .. 1)[1 - 1])
    BY <1>3, LevelsRise
  <2>2. Levels(0 .. 1)[2] = Leaves(0 .. 1) \cup Nodes(Levels(0 .. 1)[2 - 1])
    BY <1>3, LevelsRise
  <2> QED
    BY <2>1, <2>2
<1> HIDE DEF L
<1>6. arg \in L(1)
  <2>1. local(0) \in L(0) /\ <<local(1)>> \in Seq(L(0))
    BY <1>2, <1>4
  <2>2. apply(local(0), <<local(1)>>) \in Nodes(L(0))
    BY <2>1, BuilderShapes
  <2> QED
    BY <1>5, <2>2
<1> HIDE DEF arg
<1>7. lambda(<<global("nat")>>, arg) \in L(2)
  <2>1. <<global("nat")>> \in Seq(L(1))
    BY <1>2, <1>4
  <2>2. lambda(<<global("nat")>>, arg) \in Nodes(L(1))
    BY <1>6, <2>1, BuilderShapes
  <2> QED
    BY <1>5, <2>2
<1> DEFINE large == lambda(<<global("nat")>>, arg)
<1> HIDE DEF large
<1>8. subst \in {<<>>, <<global("O")>>, <<local(1)>>, <<global("O"), large>>}
  BY DEF Substitutes, large, arg
<1>9. large \in L(2) /\ global("O") \in L(2) /\ local(1) \in L(2)
  BY <1>2, <1>4, <1>7 DEF large
<1>10. subst \in Seq(L(2))
  <2>1. \A x \in L(2), y \in L(2) : <<x>> \in Seq(L(2)) /\ <<x, y>> \in Seq(L(2))
    OBVIOUS
  <2>2. <<>> \in Seq(L(2))
    OBVIOUS
  <2> QED
    BY <1>8, <1>9, <2>1, <2>2
<1> QED
  BY <1>1, <1>10 DEF L

\* local_subst replaces every occurrence of the variables from index on, at every depth,
\* in every term that can be built in which visit_transform counts the locals right.
THEOREM SubstCorrect == Spec => []SubstReplacesCounted
<1>1. ASSUME TypeOK PROVE SubstReplacesCounted
  <2> SUFFICES ASSUME Counted(term), NEW index \in 0 .. 1, NEW subst \in Substitutes
               PROVE  Denotation(LocalSubst(term, index, subst), Env)
                        = Denotation(term, SubSeq(Env, 1, index)
                            \o [i \in DOMAIN subst |-> Denotation(subst[i], Env)]
                            \o SubSeq(Env, index + 1, Len(Env)))
    BY DEF SubstReplacesCounted, Replaces
  <2> DEFINE m == Len(Env)
             new == [i \in DOMAIN subst |-> Denotation(subst[i], Env)]
             S == {Denotation(subst[i], Env) : i \in DOMAIN subst}
             room == SubSeq(Env, 1, index) \o new \o SubSeq(Env, index + 1, Len(Env))
  <2>1. m \in Nat /\ m + 2 <= Word /\ index \in Nat /\ index \in 0 .. Len(Env)
    BY EnvAssumption, WordAssumption
  <2>2. 2 \in 0 .. MaxNesting /\ subst \in Seq(Levels(0 .. 2 - 1)[2])
    BY SubstitutesShape, NestingAssumption
  <2>3. new \in Seq(S) /\ Len(new) = Len(subst)
    <3>1. DOMAIN subst = 1 .. Len(subst) /\ Len(subst) \in Nat
      BY <2>2
    <3>2. new \in [1 .. Len(subst) -> S]
      BY <3>1
    <3> HIDE DEF new, S
    <3> QED
      BY <3>1, <3>2, FixedSeq
  <2>4. \A j \in 1 .. Len(subst) : new[j] = Open(subst[j], Env, 0)
    BY <2>2 DEF Denotation
  <2> HIDE DEF new, S
  <2>5. HasSubstituted(room, Env, index, subst, m, 2, 2)
    <3>1. /\ \A j \in 1 .. index : room[j] = Env[j]
          /\ \A j \in 1 .. Len(new) : room[index + j] = new[j]
          /\ \A j \in index + 1 .. Len(Env) : room[j + Len(new)] = Env[j]
      BY <2>1, <2>3, RoomRead
    <3> HIDE DEF room
    <3> QED
      BY <2>1, <2>2, <2>3, <2>4, <3>1 DEF HasSubstituted
  <2>6. term \in Levels(0 .. m - 1)[2 * height] /\ 2 * height \in Nat /\ 2 * height + 2 <= MaxNesting
    BY <1>1, HeightAssumption, NestingAssumption, TermsOverLevels DEF TypeOK
  <2> HIDE DEF room, m
  <2>7. Open(Visit(term, 0, index, subst), Env, 0) = Open(term, room, 0)
    BY <2>5, <2>6, VisitMeans
  <2> QED
    BY <2>7, SubstIsVisit DEF Denotation, room, new
<1> QED
  BY <1>1, TypeCorrect, PTL
=============================================================================
