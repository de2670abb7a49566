----------------------------- MODULE Normalizing -----------------------------
(***************************************************************************)
(* normalize (normalize.cc): one product, lambda or apply for each chain   *)
(* of them, and what it must do to every term that the client of           *)
(* Renumbering builds.                                                     *)
(***************************************************************************)
EXTENDS Renumbering

\* Fault: the arguments stay as they are collected, last one first
ChainPartsReversed(t) ==
  LET parts[u \in Term] ==
        CASE u.k \in {"product", "lambda"} /\ LastSub(u).k = u.k ->
               Front(u.sub) \o parts[LastSub(u)]
          [] u.k = "apply" ->
               (IF u.sub[1].k = "apply" THEN parts[u.sub[1]] ELSE <<u.sub[1]>>)
                 \o Reverse(Tail(u.sub))
          [] OTHER -> u.sub
  IN  parts[t]

\* The subterms of a chain: of products or lambdas all formal arguments, then what
\* ends it; of applications the innermost function, then all arguments.
ChainParts(t) ==
  LET parts[u \in Term] ==
        CASE u.k \in {"product", "lambda"} /\ LastSub(u).k = u.k ->
               Front(u.sub) \o parts[LastSub(u)]
          [] u.k = "apply" /\ u.sub[1].k = "apply" -> parts[u.sub[1]] \o Tail(u.sub)
          [] OTHER -> u.sub
  IN  parts[t]

\* normalize_rec; it returns nothing where this is the term itself
Normalize(t) ==
  LET normalize[u \in Term] ==
        IF IsLeaf(u) THEN u
        ELSE WithSub(u, [i \in DOMAIN ChainParts(u) |-> normalize[ChainParts(u)[i]]])
  IN  normalize[t]

(***************************************************************************)
(* What grouping does not matter for, and what a normal form is.           *)
(***************************************************************************)

\* A chain of unary products, lambdas or applications over the subterms s
Unary(t, s) ==
  LET n == Len(s)
      from[i \in 1 .. n] == IF i = n THEN s[n] ELSE WithSub(t, <<s[i], from[i + 1]>>)
      upto[i \in 1 .. n] == IF i = 1 THEN s[1] ELSE WithSub(t, <<upto[i - 1], s[i]>>)
  IN  CASE t.k \in {"product", "lambda"} -> from[1]
        [] t.k = "apply" -> upto[n]
        [] OTHER -> WithSub(t, s)

\* One argument at a time: every product, lambda and application unary.
Curry(t) ==
  LET curry[u \in Term] ==
        IF IsLeaf(u) THEN u ELSE Unary(u, [i \in DOMAIN u.sub |-> curry[u.sub[i]]])
  IN  curry[t]

Flat(t) ==
  LET flat[u \in Term] ==
        IsLeaf(u) \/ /\ u.k \in {"product", "lambda"} => LastSub(u).k # u.k
                     /\ u.k = "apply" => u.sub[1].k # "apply"
                     /\ \A i \in DOMAIN u.sub : flat[u.sub[i]]
  IN  flat[t]

(***************************************************************************)
(* Properties of every term that can be built.                             *)
(***************************************************************************)

\* normalize changes the grouping of arguments only, leaves no product, lambda
\* or application directly inside another one of its kind, and is done in one
\* pass.
NormalizeFlattens ==
  LET n == Normalize(term) IN
    Curry(n) = Curry(term) /\ Flat(n) /\ Normalize(n) = n

\* normalize commutes with the operations on indices: neither loses or rebinds a
\* variable when arguments are regrouped before or after.
NormalizeCommutes ==
  /\ \A limit \in Limits, dir \in Offsets :
       Normalize(Shift(term, limit, dir)) = Shift(Normalize(term), limit, dir)
  /\ Free(Normalize(term)) = Free(term)
=============================================================================
