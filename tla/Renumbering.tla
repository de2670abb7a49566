----------------------------- MODULE Renumbering -----------------------------
(***************************************************************************)
(* A client that builds terms with the functions of namespace builder, one *)
(* construct around another, what terms mean, and what shift and           *)
(* local_subst must do to every term that can be built.                    *)
(***************************************************************************)
EXTENDS DeBruijn

CONSTANTS
  Small,      \* the terms that are combined with the term built so far
  Kinds,      \* the constructs the client uses
  MaxHeight,  \* bound: constructs nested at most this deep
  Env         \* what the free indices stand for, more than any term has

ASSUME HeightAssumption == MaxHeight \in Nat /\ 2 * MaxHeight + 2 <= MaxNesting

\* No index wraps around: Env is long enough for every variable of a term, and
\* short enough for two more
ASSUME EnvAssumption ==
  /\ Env \in Seq(Term)
  /\ Len(Env) > 3
  /\ Len(Env) + 2 <= Word

ASSUME NamesAssumption == {"P", "O", "nat"} \subseteq Names

ASSUME SmallAssumption == Small \subseteq Leaves(0 .. Len(Env) - 3)

VARIABLES term, height

vars == <<term, height>>

Init == term \in Small /\ height = 0

Build(kind, t) ==
  /\ kind \in Kinds
  /\ height < MaxHeight
  /\ term' = t
  /\ height' = height + 1

BuildProduct ==
  \E s \in Small :
    \E t \in {product(<<term>>, s), product(<<s>>, term), product(<<s, term>>, s)} :
      Build("product", t)

BuildLambda ==
  \E s \in Small :
    \E t \in {lambda(<<term>>, s), lambda(<<s>>, term), lambda(<<s, s>>, term)} :
      Build("lambda", t)

BuildLet ==
  \E s, type \in Small :
    \E t \in {let(term, type, s), let(s, type, term)} : Build("let", t)

BuildApply ==
  \E s, r \in Small :
    \E t \in {apply(term, <<s>>), apply(s, <<term>>), apply(term, <<s, r>>)} :
      Build("apply", t)

BuildCast ==
  \E s \in Small : \E t \in {cast(term, s), cast(s, term)} : Build("cast", t)

\* A branch is "a lambda expression where the first arguments are filled in with
\* the extracted constructor arguments".
BuildMatch ==
  \E s, r \in Small :
    \E t \in {match(global("P"), s, <<[nargs |-> 0, expr |-> term]>>),
              match(global("P"), s, <<[nargs |-> 0, expr |-> s],
                                      [nargs |-> 1, expr |-> lambda(<<r>>, term)]>>)} :
      Build("match", t)

BuildFix ==
  \E s, r \in Small :
    \E fns \in {<<[args |-> <<s, r>>, restype |-> s, body |-> term]>>,
                <<[args |-> <<s>>, restype |-> term, body |-> r],
                  [args |-> <<>>, restype |-> Shift(r, 0, 2), body |-> s]>>} :
      Build("fix", fix(0, fns))

Next ==
  \/ BuildProduct \/ BuildLambda \/ BuildLet \/ BuildApply
  \/ BuildCast \/ BuildMatch \/ BuildFix

Spec == Init /\ [][Next]_vars

\* Each construct is in its class (no subterm missing, none too many), nests at
\* most two levels, and mentions no variable that Env does not have.
TypeOK ==
  /\ height \in 0 .. MaxHeight
  /\ term \in NestedTerms(0 .. Len(Env) - 1, 2 * height)

(***************************************************************************)
(* What a term denotes.  Bound indices stay, free ones are replaced by     *)
(* what the environment has for them: closed terms, which no operation has *)
(* to renumber.  Binds is the documented rule (debruijn.cc): product,      *)
(* lambda, let and fix bind, nothing else does.                            *)
(***************************************************************************)
Binds(t) ==
  LET n == Len(t.sub) IN
  CASE t.k \in {"product", "lambda"} -> [i \in 1 .. n |-> i - 1]
    [] t.k = "let" -> [i \in 1 .. n |-> IF i = 3 THEN 1 ELSE 0]
    [] t.k = "fix" -> FixDepths(t)
    [] OTHER -> [i \in 1 .. n |-> 0]

Open(t, env, bound) ==
  LET open[u \in Term] ==
        [b \in Nat |->
           IF u.k = "local"
           THEN IF u.index < b THEN u ELSE env[u.index - b + 1]
           ELSE IF IsLeaf(u) THEN u
           ELSE WithSub(u, [i \in DOMAIN u.sub |-> open[u.sub[i]][b + Binds(u)[i]]])]
  IN  open[t][bound]

Denotation(t, env) == Open(t, env, 0)

FreeIn(t, bound) ==
  LET free[u \in Term] ==
        [b \in Nat |->
           IF u.k = "local" THEN IF u.index >= b THEN {u.index - b} ELSE {}
           ELSE IF IsLeaf(u) THEN {}
           ELSE UNION {free[u.sub[i]][b + Binds(u)[i]] : i \in DOMAIN u.sub}]
  IN  free[t][bound]

Free(t) == FreeIn(t, 0)

(***************************************************************************)
(* Properties of every term that can be built.                             *)
(***************************************************************************)
Offsets == 1 .. 2
Limits == 0 .. 2

\* shift(limit, dir) makes room for dir new variables at limit: in any
\* environment that has them there the shifted term means what the term meant
\* before, and shift(limit, -dir) takes them out again.
ShiftMakesRoom ==
  \A limit \in Limits, dir \in Offsets :
    LET shifted == Shift(term, limit, dir)
        room == SubSeq(Env, 1, limit) \o [i \in 1 .. dir |-> global("new")]
                  \o SubSeq(Env, limit + 1, Len(Env))
    IN  /\ Denotation(shifted, room) = Denotation(term, Env)
        /\ Shift(shifted, limit, -dir) = term

\* What local_subst is used with: nothing, closed terms, terms with free indices
\* of their own below and outside a binder.
Substitutes ==
  {<<>>, <<global("O")>>, <<local(1)>>,
   <<global("O"), lambda(<<global("nat")>>, apply(local(0), <<local(1)>>))>>}

Replaces(t) ==
  \A index \in 0 .. 1, subst \in Substitutes :
    Denotation(LocalSubst(t, index, subst), Env)
      = Denotation(t, SubSeq(Env, 1, index)
                        \o [i \in DOMAIN subst |-> Denotation(subst[i], Env)]
                        \o SubSeq(Env, index + 1, Len(Env)))

\* "Substitute all occurrences of local variables starting at index": the result
\* means what the term means when these variables stand for what the substitutes
\* mean "at the level of the expression just given".
SubstReplaces == Replaces(term)

\* The terms in which visit_transform counts as many locals as there are and
\* keeps what it has rebuilt: in a match nothing that it takes for a local is in
\* scope of a variable, and the type of a let has none to substitute.
Counted(t) ==
  LET counted[u \in Term] ==
        IsLeaf(u) \/ /\ u.k = "match" =>
                          /\ Free(u.sub[1]) = {}
                          /\ \A i \in DOMAIN u.nargs : u.nargs[i] > 0 => Free(u.sub[i + 2]) = {}
                     /\ u.k = "let" => Free(u.sub[2]) = {}
                     /\ \A i \in DOMAIN u.sub : counted[u.sub[i]]
  IN  counted[t]

\* For those local_subst does replace every occurrence, at every depth.
SubstReplacesCounted == Counted(term) => Replaces(term)
=============================================================================
