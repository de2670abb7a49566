-------------------------------- MODULE FixOps -------------------------------
(***************************************************************************)
(* Fixpoint groups around the terms that the client of TermOps builds, and *)
(* what the walk over their bodies and their specialization must do.       *)
(***************************************************************************)
EXTENDS TermOps, FixTerms

(***************************************************************************)
(* The groups: f of two arguments and g of one.  In the body of f '0 and   *)
(* '1 are its arguments, last one first, '2 is g and '3 is f; t is a term  *)
(* about the arguments of f, under one more variable where it stands in a  *)
(* lambda, a let or a branch.                                              *)
(***************************************************************************)
F == 1
G == 2

BodiesOfF(t) ==
  {t,
   apply(local(3), <<local(1), t>>),
   apply(local(3), <<t, local(0)>>),
   apply(apply(local(3), <<local(1)>>), <<t>>),
   apply(local(3), <<local(1), apply(local(2), <<t>>)>>),
   cast(apply(local(2), <<local(1)>>), t),
   lambda(<<global("Set")>>, apply(local(4), <<local(2), t>>)),
   let(local(1), global("Set"), apply(local(4), <<local(0), t>>)),
   let(t, global("Set"), apply(local(3), <<local(0)>>)),
   match(global("P"), t, <<[nargs |-> 1, expr |-> apply(local(4), <<local(2), local(0)>>)],
                           [nargs |-> 0, expr |-> local(0)]>>)}

\* A call of what a match results in
MatchCalled(t) ==
  apply(match(global("P"), t, <<[nargs |-> 0, expr |-> local(2)]>>), <<local(1)>>)

\* In the body of g '0 is its argument, '1 is g and '2 is f.
BodiesOfG == {local(0), apply(local(2), <<local(0), global("O")>>)}

Group(bodyOfF, bodyOfG) ==
  fix(0, <<[args |-> <<global("Set"), global("Set")>>, restype |-> local(4), body |-> bodyOfF],
           [args |-> <<global("Set")>>, restype |-> global("Set"), body |-> bodyOfG]>>)

\* Specialization arguments, closed; every argument of every function may have
\* one of them or none.
Values == <<global("v1"), global("v2")>>
Infos == {<<<<a, b>>, <<c>>>> : a, b, c \in 0 .. Len(Values)}

(***************************************************************************)
(* Reference: what the body of a function means.  As in the group of       *)
(* fix_specialize_test.cc, the type of a match is under one variable and a *)
(* branch under those of its constructor.  Variables that are let stand    *)
(* for their values, and a term with a cast for the term.                  *)
(***************************************************************************)
BindsInBody(t) == IF t.k = "match" THEN <<1, 0>> \o t.nargs ELSE Binds(t)

RECURSIVE Instance(_, _, _)
Instance(t, env, bound) ==
  IF t.k = "local" THEN IF t.index < bound THEN t ELSE env[t.index - bound + 1]
  ELSE IF IsLeaf(t) THEN t
  ELSE WithSub(t, <<>> \o [i \in DOMAIN t.sub |->
                             Instance(t.sub[i], env, bound + BindsInBody(t)[i])])

RECURSIVE FillBody(_, _, _)
FillBody(t, value, bound) ==
  IF t.k = "local" THEN IF t.index = bound THEN value
                        ELSE IF t.index > bound THEN local(t.index - 1) ELSE t
  ELSE IF IsLeaf(t) THEN t
  ELSE WithSub(t, <<>> \o [i \in DOMAIN t.sub |->
                             FillBody(t.sub[i], value, bound + BindsInBody(t)[i])])

\* The value of a term: lets of closed values from the outside in, no casts
RECURSIVE Value(_)
Value(t) ==
  IF IsLeaf(t) THEN t
  ELSE IF t.k = "let" THEN Value(FillBody(t.sub[3], t.sub[1], 0))
  ELSE IF t.k = "cast" THEN Value(t.sub[1])
  ELSE WithSub(t, <<>> \o [i \in DOMAIN t.sub |-> Value(t.sub[i])])

FnNames == <<global("f"), global("g")>>
ArgNames == <<global("a1"), global("a2")>>
IndexOf(t, names) == IF \E i \in DOMAIN names : names[i] = t
                     THEN CHOOSE i \in DOMAIN names : names[i] = t ELSE 0

Meaning(t, args) == Value(Instance(t, Reverse(args) \o Reverse(FnNames) \o Env, 0))

(***************************************************************************)
(* Uses of the functions of the group.                                     *)
(***************************************************************************)
\* In a term with ArgNames and FnNames in it, applied to args
RECURSIVE UsesOf(_, _)
UsesOf(t, args) ==
  CASE IndexOf(t, FnNames) # 0 ->
         {[fn |-> IndexOf(t, FnNames),
           args |-> <<>> \o [i \in DOMAIN args |-> IndexOf(args[i], ArgNames)]]}
    [] t.k \in {"local", "global", "product", "fix"} /\ IndexOf(t, FnNames) = 0 -> {}
    [] t.k = "lambda" -> UsesOf(LastSub(t), <<>>)
    [] t.k = "apply" -> UsesOf(t.sub[1], Tail(t.sub) \o args)
                          \cup UNION {UsesOf(t.sub[i], <<>>) : i \in 2 .. Len(t.sub)}
    [] t.k = "match" -> UsesOf(t.sub[2], <<>>)
                          \cup UNION {UsesOf(t.sub[n + 2], args) : n \in DOMAIN t.nargs}

\* A specialization agrees with a use in function f if it is called with all of
\* its arguments, and those specialized are just the ones that get the caller's.
AgreesWith(info, f, use) ==
  /\ Len(use.args) >= Len(info[use.fn])
  /\ \A i \in DOMAIN info[use.fn] :
       info[use.fn][i] = IF use.args[i] = 0 THEN 0 ELSE info[f][use.args[i]]

Agrees(info, f, uses) == \A use \in uses : AgreesWith(info, f, use)

\* The terms in which the walk counts variables and follows symbols as they are:
\* lambdas of one argument; no application of an argument of the function to
\* something, which the walk takes for that argument itself.
RECURSIVE Followed(_)
Followed(t) ==
  IsLeaf(t) \/ /\ t.k = "lambda" => Len(t.sub) = 2
               /\ t.k = "apply" => t.sub[1].k \notin {"local", "apply", "let", "cast"}
               /\ t.k = "match" => \A n \in DOMAIN t.nargs :
                                      t.nargs[n] > 0 => t.sub[n + 2].k # "lambda"
               /\ \A i \in DOMAIN t.sub : Followed(t.sub[i])

GroupTerms == IF height < MaxHeight /\ Followed(term) /\ Counted(term) THEN {term} ELSE {}

\* Whatever specialization the walk's report of a body agrees with, all calls in
\* the body agree with, also those through a let, in branches, under binders and
\* with the arguments of several applications; and without a let or a cast, which
\* may hide an argument from the walk, it reports just the calls that there are.
WalkFindsCalls ==
  \A t \in GroupTerms : \A body \in BodiesOfF(t) \cup {MatchCalled(t)} :
    LET found == Range(UsesIn(Group(body, local(0)), F))
        uses == UsesOf(Meaning(body, ArgNames), <<>>)
    IN  /\ \A info \in Infos : Agrees(info, F, found) => Agrees(info, F, uses)
        /\ {body.k, t.k} \cap {"let", "cast"} = {} => found = uses

(***************************************************************************)
(* Specialization.                                                         *)
(***************************************************************************)
\* The arguments of function f: values for those that are specialized
SpecializedArgs(info, f) ==
  [i \in DOMAIN info[f] |-> IF info[f][i] = 0 THEN ArgNames[i] ELSE Values[info[f][i]]]

KeptArgs(info, f) == SelectSeq(SpecializedArgs(info, f), LAMBDA arg : arg \in Range(ArgNames))

\* The arguments of a call that a specialization leaves, if those that it removes
\* are what they are specialized to
Passed(spec, args) ==
  IF \A i \in DOMAIN spec : spec[i] = 0 \/ args[i] = Values[spec[i]]
  THEN SelectSeq([i \in DOMAIN args |-> IF i > Len(spec) \/ spec[i] = 0 THEN args[i]
                                        ELSE global("removed")],
                 LAMBDA arg : arg # global("removed"))
  ELSE <<global("wrong")>>

\* A normalized term with its calls specialized
RECURSIVE Respecialized(_, _)
Respecialized(t, info) ==
  IF IsLeaf(t) THEN t
  ELSE LET s == WithSub(t, <<>> \o [i \in DOMAIN t.sub |-> Respecialized(t.sub[i], info)])
           f == IF t.k = "apply" THEN IndexOf(t.sub[1], FnNames) ELSE 0
       IN  IF f = 0 THEN s
           ELSE LET args == Passed(info[f], Tail(s.sub))
                IN  IF args = <<>> THEN s.sub[1] ELSE apply(s.sub[1], args)

\* The body of a function and its result type after specialization mean what they
\* meant when the specialized arguments have their values, with just these
\* arguments removed from all calls.
MeansTheSame(group, info, f) ==
  LET new == SpecializedFunction(group, info, Values, f)
  IN  /\ Normalize(Meaning(new.body, KeptArgs(info, f)))
           = Respecialized(Normalize(Meaning(BodyOf(group, f), SpecializedArgs(info, f))), info)
      /\ Meaning(new.restype, KeptArgs(info, f))
           = Meaning(RestypeOf(group, f), SpecializedArgs(info, f))

\* The specializations that the closure may answer for a group: those that all of
\* the uses that the walk reports agree with (FixClosure).
ClosureAnswers(group) ==
  {info \in Infos : \A f \in {F, G} : Agrees(info, f, Range(UsesIn(group, f)))}

\* Every function that is called has one specialized argument.
OneRemoved(group, info) ==
  \A f \in {F, G} : \A use \in Range(UsesIn(group, f)) :
    Cardinality({i \in DOMAIN info[use.fn] : info[use.fn][i] # 0}) = 1

\* Specialization keeps the meaning of every body, whatever the closure answers, if
\* one argument is removed from each call.  With any other number a call goes to
\* another variable: the index of the function counts the arguments that are left
\* where it should count all of them but one.
SingleSpecializationPreserves ==
  \A t \in GroupTerms : \A body \in BodiesOfF(t), bodyOfG \in BodiesOfG :
    LET group == Group(body, bodyOfG)
    IN  \A info \in ClosureAnswers(group) :
          OneRemoved(group, info) => \A f \in {F, G} : MeansTheSame(group, info, f)
=============================================================================
