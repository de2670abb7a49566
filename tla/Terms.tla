-------------------------------- MODULE Terms --------------------------------
(***************************************************************************)
(* The operations on terms that are built from shift and local_subst:      *)
(* simpl, signatures of fixpoint functions and collect_external_references *)
(* (constr.cc).                                                            *)
(***************************************************************************)
EXTENDS DeBruijn

(***************************************************************************)
(* constr_t::simpl: applying a lambda substitutes as many arguments as     *)
(* both sides have, last one first, and goes on with what results.         *)
(***************************************************************************)
RECURSIVE Simpl(_)
Simpl(t) ==
  IF ~(t.k = "apply" /\ t.sub[1].k = "lambda") THEN t
  ELSE LET fn == t.sub[1]
           args == Tail(t.sub)
           formals == Front(fn.sub)
           nsubst == IF Len(args) <= Len(formals) THEN Len(args) ELSE Len(formals)
           residual == SubSeq(formals, nsubst + 1, Len(formals))
           resfn == IF residual = <<>> THEN LastSub(fn) ELSE lambda(residual, LastSub(fn))
           res == LocalSubst(resfn, 0, Reverse(SubSeq(args, 1, nsubst)))
       IN  Simpl(IF nsubst = Len(args) THEN res
                 ELSE apply(res, SubSeq(args, nsubst + 1, Len(args))))

(***************************************************************************)
(* collect_external_references.  The recursive helper takes refs by value: *)
(* what it adds, it and its recursive calls add to copies, and the refs of *)
(* the caller, which is what is returned, stays as it is.  For a lambda    *)
(* the helper asks the null pointer product for arguments: the result is   *)
(* that of terms without lambda.                                           *)
(***************************************************************************)
CollectExternalReferences(t) ==
  LET refs == {}
  IN  refs

(***************************************************************************)
(* fix_group_t::get_function_signature of the index'th function (from 1).  *)
(***************************************************************************)
FunctionOffset(t, index) == SumFunction(SubSeq(t.arity, 1, index - 1)) + 2 * (index - 1)

FormalArgs(t, index) ==
  SubSeq(t.sub, FunctionOffset(t, index) + 1, FunctionOffset(t, index) + t.arity[index])

RestypeOf(t, index) == t.sub[FunctionOffset(t, index) + t.arity[index] + 1]
BodyOf(t, index) == t.sub[FunctionOffset(t, index) + t.arity[index] + 2]

FunctionSignature(t, index) ==
  LET n == Len(t.arity)
      args == FormalArgs(t, index)
  IN  product([i \in DOMAIN args |-> Shift(args[i], 0, -n)],
              Shift(RestypeOf(t, index), 0, -n))
=============================================================================
