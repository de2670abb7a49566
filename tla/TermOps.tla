------------------------------- MODULE TermOps -------------------------------
(***************************************************************************)
(* What simpl and the operations on fixpoint groups must do to every term  *)
(* that the client of Renumbering builds.                                  *)
(***************************************************************************)
EXTENDS Terms, Normalizing

(***************************************************************************)
(* What terms mean, continued.                                             *)
(***************************************************************************)
\* The innermost bound index of body replaced by a closed term
RECURSIVE Fill(_, _, _)
Fill(body, arg, bound) ==
  IF body.k = "local" THEN IF body.index = bound THEN arg
                           ELSE IF body.index > bound THEN local(body.index - 1) ELSE body
  ELSE IF IsLeaf(body) THEN body
  ELSE WithSub(body, [i \in DOMAIN body.sub |-> Fill(body.sub[i], arg, bound + Binds(body)[i])])

\* Head reduction of a closed curried term
RECURSIVE HeadReduce(_)
HeadReduce(t) ==
  IF t.k # "apply" THEN t
  ELSE LET fn == HeadReduce(t.sub[1]) IN
       IF fn.k = "lambda" THEN HeadReduce(Fill(fn.sub[2], t.sub[2], 0))
       ELSE WithSub(t, <<fn, t.sub[2]>>)

(***************************************************************************)
(* Properties of every term that can be built.                             *)
(***************************************************************************)
\* simpl reduces the head of a term to the end, for any split of arguments over
\* nested lambdas and applications, and does not change what the term means.
SimplReduces ==
  \A body \in {term, apply(term, <<local(2)>>)} :
    LET redex == apply(lambda(<<global("A"), local(0)>>, body),
                       <<local(0), global("O"), local(1)>>)
        res == Simpl(redex)
    IN  Counted(term) =>
          /\ HeadReduce(Curry(Denotation(res, Env)))
               = HeadReduce(Curry(Denotation(redex, Env)))
          /\ ~(res.k = "apply" /\ res.sub[1].k = "lambda")

\* collect_external_references "collects the de Bruijn indices of all locals in
\* this object that are not resolvable within the construct itself".
CollectsFree == CollectExternalReferences(term) = Free(term)

\* The signature of a function of a group "can be interpreted in the context of
\* the fix expression": there it means what the product of the function's
\* arguments and result type means inside the group, where the functions are in
\* scope as well.  (The type of a function never refers to the group.)
SignatureOfFix ==
  term.k = "fix" =>
    \A index \in DOMAIN term.arity :
      LET type == product(FormalArgs(term, index), RestypeOf(term, index))
          functions == [i \in 1 .. Len(term.arity) |-> global("fn")]
      IN  Free(type) \cap (0 .. Len(functions) - 1) = {} =>
            Denotation(FunctionSignature(term, index), Env)
              = Denotation(type, functions \o Env)
=============================================================================
