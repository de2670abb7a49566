------------------------------- MODULE TypeOps -------------------------------
(***************************************************************************)
(* What constr_t::check must answer for the terms a client builds.         *)
(***************************************************************************)
EXTENDS TermOps, Typing

(***************************************************************************)
(* Globals: one polymorphic function in both ways to write its type,       *)
(*   pair : forall (A B : Set) (a : A) (b : B), prod A B                   *)
(* and a type for everything else.  All locals have closed types, all      *)
(* different.                                                              *)
(***************************************************************************)
Prod(a, b) == apply(global("prod"), <<a, b>>)

PairType == product(<<global("Set"), global("Set"), local(1), local(1)>>, Prod(local(3), local(2)))
PairCurried ==
  product(<<global("Set")>>,
    product(<<global("Set"), local(1)>>, product(<<local(1)>>, Prod(local(3), local(2)))))

Context(pairtype) ==
  [locals |-> <<global("t0"), global("t1"), global("t2"), global("t3")>>,
   globals |-> [name \in {"P", "pair", "O"} |->
                  CASE name = "pair" -> pairtype
                    [] name = "O" -> global("nat")
                    [] name = "P" -> global("Set")]]

\* The ways to apply fn to args, in one application or in nested ones
RECURSIVE Applications(_, _)
Applications(fn, args) ==
  IF args = <<>> THEN {fn}
  ELSE UNION {Applications(apply(fn, SubSeq(args, 1, n)), SubSeq(args, n + 1, Len(args)))
                : n \in 1 .. Len(args)}

\* What is left of the type of pair after any number of arguments: the types that
\* are arguments take their places wherever they are mentioned, under the binders
\* that are left.
PairApplied(args) ==
  LET n == Len(args) IN
  CASE n = 1 -> product(<<global("Set"), Shift(args[1], 0, 1), local(1)>>,
                        Prod(Shift(args[1], 0, 3), local(2)))
    [] n = 2 -> product(<<args[1], Shift(args[2], 0, 1)>>,
                        Prod(Shift(args[1], 0, 2), Shift(args[2], 0, 2)))
    [] n = 3 -> product(<<args[2]>>, Prod(Shift(args[1], 0, 1), Shift(args[2], 0, 1)))
    [] n = 4 -> Prod(args[1], args[2])

\* check finds this type however arguments and product are grouped, for all types
\* that local_subst can substitute in (Counted).
ChecksApplications ==
  Counted(term) /\ height < MaxHeight =>
  \A args \in {<<term>>, <<term, local(0)>>, <<local(1), term>>, <<local(2), term, local(3)>>,
               <<term, global("Set"), local(3), term>>} :
    \A pairtype \in {PairType, PairCurried} : \A t \in Applications(global("pair"), args) :
      Check(t, Context(pairtype)) = PairApplied(args)

\* "When resolving products, lambdas etc that define new local variables, the type
\* context used in resolution of sub terms will be extended accordingly": the type
\* of a function is the product of its arguments and the type that its body has
\* with these arguments.
ChecksLambdas ==
  \A arg \in {global("nat"), global("Set")} :
    LET inner == PushLocal(Context(PairType), arg)
    IN  Check(term, inner) # Throws =>
          Check(lambda(<<arg>>, term), Context(PairType)) = product(<<arg>>, Check(term, inner))
=============================================================================
