-------------------------------- MODULE Typing -------------------------------
(***************************************************************************)
(* constr_t::check: the type of a term in a type_context_t (constr.cc).    *)
(*                                                                         *)
(* A context is the sequence of the types of the locals, innermost first,  *)
(* and a function from the globals it knows to their types.  check throws  *)
(* for a local that is not in the context (lazy_stack::at), for a global   *)
(* that is not, and for an application to more arguments than a function   *)
(* has; Throws is that outcome and goes through all calls.                 *)
(***************************************************************************)
EXTENDS Terms

Throws == [k |-> "throws"]

Builtins == {"Set", "Prop", "SProp", "Type"}

PushLocal(ctx, type) == [ctx EXCEPT !.locals = <<type>> \o @]
PushLocals(ctx, types) == [ctx EXCEPT !.locals = Reverse(types) \o @]

RECURSIVE Check(_, _), AllFormals(_), EndOf(_)

CheckLocal(index, ctx) == IF index < Len(ctx.locals) THEN ctx.locals[index + 1] ELSE Throws

CheckGlobal(name, ctx) ==
  IF name \in Builtins THEN global("Type")
  ELSE IF name \in DOMAIN ctx.globals THEN ctx.globals[name] ELSE Throws

\* The one type that all parts of a product have, or Type
CheckProduct(t, ctx) ==
  LET types == <<>> \o [i \in DOMAIN t.sub |->
                 Check(t.sub[i], PushLocals(ctx, SubSeq(t.sub, 1, i - 1)))]
  IN  IF Throws \in Range(types) THEN Throws
      ELSE IF Cardinality(Range(types)) = 1 THEN types[1] ELSE global("Type")

\* The context with the arguments is one of the body of the loop, and the body of
\* the lambda is checked in the one outside.
CheckLambda(t, ctx) ==
  LET restype == Check(LastSub(t), ctx)
  IN  IF restype = Throws THEN Throws ELSE product(Front(t.sub), restype)

CheckLet(t, ctx) ==
  LET value == Check(t.sub[1], ctx)
  IN  IF value = Throws THEN Throws ELSE Check(t.sub[3], PushLocal(ctx, value))

\* All arguments of a chain of products, and what it ends in
AllFormals(t) == IF t.k = "product" THEN Front(t.sub) \o AllFormals(LastSub(t)) ELSE <<>>
EndOf(t) == IF t.k = "product" THEN EndOf(LastSub(t)) ELSE t

\* Fault: the arguments are substituted first one first
ResultOfForward(fntype, args) ==
  LET formals == AllFormals(fntype)
      residual == SubSeq(formals, Len(args) + 1, Len(formals))
      restype == IF residual = <<>> THEN EndOf(fntype) ELSE product(residual, EndOf(fntype))
  IN  LocalSubst(restype, 0, args)

\* The type of a function applied to args, not more than it has; they are not checked.
ResultOf(fntype, args) ==
  LET formals == AllFormals(fntype)
      residual == SubSeq(formals, Len(args) + 1, Len(formals))
      restype == IF residual = <<>> THEN EndOf(fntype) ELSE product(residual, EndOf(fntype))
  IN  LocalSubst(restype, 0, Reverse(args))

CheckApply(t, ctx) ==
  LET fntype == Check(t.sub[1], ctx)
      args == Tail(t.sub)
  IN  IF fntype = Throws \/ Len(AllFormals(fntype)) < Len(args) THEN Throws
      ELSE ResultOf(fntype, args)

CheckMatch(t, ctx) ==
  LET argtype == Check(t.sub[2], ctx)
  IN  IF argtype = Throws THEN Throws ELSE LocalSubst(t.sub[1], 0, <<argtype>>)

CheckFix(t) == product(FormalArgs(t, t.entry + 1), RestypeOf(t, t.entry + 1))

Check(t, ctx) ==
  CASE t.k = "local" -> CheckLocal(t.index, ctx)
    [] t.k = "global" -> CheckGlobal(t.name, ctx)
    [] t.k = "product" -> CheckProduct(t, ctx)
    [] t.k = "lambda" -> CheckLambda(t, ctx)
    [] t.k = "let" -> CheckLet(t, ctx)
    [] t.k = "apply" -> CheckApply(t, ctx)
    [] t.k = "cast" -> Check(t.sub[1], ctx)
    [] t.k = "match" -> CheckMatch(t, ctx)
    [] t.k = "fix" -> CheckFix(t)
=============================================================================
