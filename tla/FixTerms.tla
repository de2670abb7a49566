------------------------------- MODULE FixTerms ------------------------------
(***************************************************************************)
(* fix_specialize.cc on terms: the walk over the body of a function that   *)
(* finds the uses of the functions of its group (visit_for_fix_closure_    *)
(* state), which is the input of FixClosure, and the rewriting of a group  *)
(* for a specialization that has been found (apply_fix_specialization).    *)
(*                                                                         *)
(* A stack of locals or of arguments is a sequence, the top first.  A      *)
(* group is a fix term; its functions are numbered from 1.                 *)
(***************************************************************************)
EXTENDS Terms

Unspecialized == 0      \* std::nullopt in spec_args

(***************************************************************************)
(* The walk.  A symbol says what is known of a local variable: a function  *)
(* of the group, an argument of the function whose body is visited, by its *)
(* position, or nothing.                                                   *)
(***************************************************************************)
FnSym(fn) == [k |-> "fn", fn |-> fn]
ArgSym(position) == [k |-> "arg", position |-> position]
NoSym == [k |-> "none"]

Position(sym) == IF sym.k = "arg" THEN sym.position ELSE Unspecialized

Seen(sym, uses) == [sym |-> sym, uses |-> uses]
NoSyms(n) == [i \in 1 .. n |-> NoSym]

RECURSIVE Walk(_, _, _)

\* Uses in the arguments of an application, the last argument first
ArgUses(seen) == FlattenSeq(Reverse([i \in DOMAIN seen |-> seen[i].uses]))

WalkLocal(index, locals, applied) ==
  IF index >= Len(locals) THEN Seen(NoSym, <<>>)
  ELSE LET sym == locals[index + 1]
       IN  Seen(sym, IF sym.k # "fn" THEN <<>>
                     ELSE <<[fn |-> sym.fn,
                             args |-> [i \in DOMAIN applied |-> Position(applied[i])]]>>)

\* Fault: the value of a let is not looked at for its symbol
WalkLetBlind(t, locals, applied) ==
  LET value == Walk(t.sub[1], locals, <<>>)
      body == Walk(t.sub[3], <<NoSym>> \o locals, applied)
  IN  Seen(body.sym, value.uses \o body.uses)

WalkLet(t, locals, applied) ==
  LET value == Walk(t.sub[1], locals, <<>>)
      body == Walk(t.sub[3], <<value.sym>> \o locals, applied)
  IN  Seen(body.sym, value.uses \o body.uses)

\* The symbol of an application is that of its function.
WalkApply(t, locals, applied) ==
  LET args == <<>> \o [i \in 1 .. Len(t.sub) - 1 |-> Walk(t.sub[i + 1], locals, <<>>)]
      fn == Walk(t.sub[1], locals, [i \in DOMAIN args |-> args[i].sym] \o applied)
  IN  Seen(fn.sym, ArgUses(args) \o fn.uses)

WalkMatch(t, locals, applied) ==
  LET branches == <<>> \o [n \in DOMAIN t.nargs |->
                     Walk(t.sub[n + 2], NoSyms(t.nargs[n]) \o locals, applied).uses]
  IN  Seen(NoSym, Walk(t.sub[2], locals, <<>>).uses \o FlattenSeq(branches))

\* visit_for_fix_closure_state: what is known of t, and the uses in it in the
\* order they are reported.  A lambda counts as one binder; types and products
\* are not visited, and a fixpoint has no external references (Terms).
Walk(t, locals, applied) ==
  CASE t.k = "local" -> WalkLocal(t.index, locals, applied)
    [] t.k \in {"global", "product", "fix"} -> Seen(NoSym, <<>>)
    [] t.k = "lambda" -> Seen(NoSym, Walk(LastSub(t), <<NoSym>> \o locals, <<>>).uses)
    [] t.k = "let" -> WalkLet(t, locals, applied)
    [] t.k = "apply" -> WalkApply(t, locals, applied)
    [] t.k = "cast" -> Walk(t.sub[1], locals, <<>>)
    [] t.k = "match" -> WalkMatch(t, locals, applied)

\* The locals compute_fix_specialization_closure starts with
BodyLocals(group, f) ==
  LET n == Len(group.arity)
      nargs == group.arity[f]
  IN  Reverse([i \in 1 .. nargs |-> ArgSym(i)]) \o Reverse([i \in 1 .. n |-> FnSym(i)])

UsesIn(group, f) == Walk(BodyOf(group, f), BodyLocals(group, f), <<>>).uses

(***************************************************************************)
(* specialize_visitor, a transform_visitor over a stack of replacements.   *)
(***************************************************************************)
ReplaceShift(offset) == [k |-> "shift", offset |-> offset]
ReplaceSubst(subst) == [k |-> "subst", subst |-> subst]

\* Fault: a replacement is put under binders as it is
ReplacedUnshifted(index, locals, depth, extra) ==
  IF index >= Len(locals) THEN local(index - extra)
  ELSE LET repl == locals[index + 1]
       IN  IF repl.k = "shift" THEN local(index + repl.offset - extra) ELSE repl.subst

\* specialize_visitor::handle_local
Replaced(index, locals, depth, extra) ==
  IF index >= Len(locals) THEN local(index - extra)
  ELSE LET repl == locals[index + 1]
       IN  IF repl.k = "shift" THEN local(index + repl.offset - extra)
           ELSE Shift(repl.subst, 0, depth)

\* Whether visit_transform returns a term: handle_local always does, handle_apply
\* for a function that is a lambda.
RECURSIVE Touched(_)
Touched(t) ==
  \/ t.k = "local"
  \/ ~IsLeaf(t) /\ \/ t.k = "apply" /\ t.sub[1].k = "lambda"
                   \/ \E i \in RebuildFor(t) : Touched(t.sub[i])

RECURSIVE SpecializeTerm(_, _, _, _)
SpecializeTerm(t, locals, depth, extra) ==
  IF t.k = "local" THEN Replaced(t.index, locals, depth, extra)
  ELSE IF ~Touched(t) THEN t
  ELSE LET n == VisitDepths(t)
           res == WithSub(t, <<>> \o [i \in DOMAIN t.sub |->
                    SpecializeTerm(t.sub[i], [j \in 1 .. n[i] |-> ReplaceShift(extra)] \o locals,
                                   depth + n[i], extra)])
       IN  IF t.k = "apply" /\ res.sub[1].k = "lambda" THEN Simpl(res) ELSE res

(***************************************************************************)
(* apply_fix_specialization.  info has spec_args for every function: the   *)
(* number of the specialization argument for each argument, or             *)
(* Unspecialized; values are the specialization arguments.                 *)
(***************************************************************************)
Kept(spec) == {i \in DOMAIN spec : spec[i] = Unspecialized}

\* What replaces a function: a lambda over all of its arguments that calls the
\* specialized function with those that are left.
Replacement(group, info, f) ==
  LET n == group.arity[f]
      keptArgs == SelectSeq([i \in 1 .. n |-> i], LAMBDA i : i \in Kept(info[f]))
      fn == local(Len(keptArgs) + Len(group.arity) - (f - 1))
      call == IF keptArgs = <<>> THEN fn
              ELSE apply(fn, [i \in DOMAIN keptArgs |-> local(n - keptArgs[i])])
  IN  FoldRight(LAMBDA type, rest : lambda(<<type>>, rest), FormalArgs(group, f), call)

FixLocals(group, info) ==
  Reverse([f \in DOMAIN group.arity |-> ReplaceSubst(Replacement(group, info, f))])

\* The replacements after the first i arguments of function f
SpecLocals(group, info, values, f, i) ==
  Reverse([j \in 1 .. i |->
             IF info[f][j] = Unspecialized THEN ReplaceShift(j - 1 - Cardinality(Kept(info[f]) \cap (1 .. j - 1)))
             ELSE ReplaceSubst(values[info[f][j]])]) \o FixLocals(group, info)

\* A term in the context of the first i arguments of function f
Specialized(group, info, values, f, i, t) ==
  LET depth == Cardinality(Kept(info[f]) \cap (1 .. i))
  IN  SpecializeTerm(t, SpecLocals(group, info, values, f, i), depth, i - depth)

\* The arguments that are left get the result type of the function (as it is seen
\* from the arguments before), not their own.
SpecializedFunction(group, info, values, f) ==
  LET n == group.arity[f]
      keptArgs == SelectSeq([i \in 1 .. n |-> i], LAMBDA i : i \in Kept(info[f]))
  IN  [args |-> [i \in DOMAIN keptArgs |->
                   Specialized(group, info, values, f, keptArgs[i] - 1, RestypeOf(group, f))],
       restype |-> Specialized(group, info, values, f, n, RestypeOf(group, f)),
       body |-> Specialized(group, info, values, f, n, BodyOf(group, f))]

ApplyFixSpecialization(group, info, values) ==
  fix(0, [f \in DOMAIN group.arity |-> SpecializedFunction(group, info, values, f)])
=============================================================================
