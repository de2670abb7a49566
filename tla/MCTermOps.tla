------------------------------ MODULE MCTermOps ------------------------------
(* Bounded instances of TermOps.                                            *)
EXTENDS CodecOps, FixOps, TypeOps, GallinaOps

AllKinds == {"product", "lambda", "let", "apply", "cast", "match", "fix"}

AnyName == STRING

\* One global and the two innermost variables
SmallTerms == {global("Set"), local(0), local(1)}

\* The second variable alone: in a function of two arguments the first argument
SecondLocal == {global("Set"), local(1)}

\* Distinct globals for all free indices
Env8 == <<global("e0"), global("e1"), global("e2"), global("e3"),
          global("e4"), global("e5"), global("e6"), global("e7")>>

Env6 == SubSeq(Env8, 1, 6)
=============================================================================
