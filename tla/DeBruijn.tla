------------------------------- MODULE DeBruijn -------------------------------
(***************************************************************************)
(* coqcic::constr_t: terms of the calculus of inductive constructions with *)
(* de Bruijn indices, and the two operations everything else is made of:   *)
(* shift, which renumbers the free variables of a term (constr.cc), and    *)
(* local_subst, which replaces them (simpl.cc with visitor.cc).            *)
(*                                                                         *)
(* A term is a record: its kind k and, unless it is a leaf, its immediate  *)
(* subterms in the order the code visits them.  Names of variables, cast   *)
(* kinds and constructor names do not influence any operation and are left *)
(* out; pointers that share subterms are left out as terms are immutable.  *)
(*                                                                         *)
(* What the code does by recursion over a term is a recursive function on  *)
(* the set Term.                                                           *)
(***************************************************************************)
EXTENDS Integers, Sequences, FiniteSets, SequencesExt

CONSTANTS
  Word,       \* the number of values of std::size_t
  Names,      \* what globals and builtins are called
  MaxNesting  \* bound: terms are nested at most this deep

ASSUME WordAssumption == Word \in Nat \ {0}

ASSUME NestingAssumption == MaxNesting \in Nat

(***************************************************************************)
(* Construction (namespace builder).                                       *)
(***************************************************************************)
local(index) == [k |-> "local", index |-> index]
global(name) == [k |-> "global", name |-> name]    \* global and builtin
product(args, restype) == [k |-> "product", sub |-> Append(args, restype)]
lambda(args, body) == [k |-> "lambda", sub |-> Append(args, body)]
let(value, type, body) == [k |-> "let", sub |-> <<value, type, body>>]
apply(fn, args) == [k |-> "apply", sub |-> <<fn>> \o args]
cast(term, typeterm) == [k |-> "cast", sub |-> <<term, typeterm>>]

\* branches is a sequence of [nargs, expr]
match(casetype, arg, branches) ==
  [k |-> "match",
   sub |-> <<casetype, arg>> \o [n \in DOMAIN branches |-> branches[n].expr],
   nargs |-> [n \in DOMAIN branches |-> branches[n].nargs]]

\* functions is a sequence of [args, restype, body]
fix(index, functions) ==
  [k |-> "fix", entry |-> index,
   sub |-> FlattenSeq([n \in DOMAIN functions |->
             functions[n].args \o <<functions[n].restype, functions[n].body>>]),
   arity |-> [n \in DOMAIN functions |-> Len(functions[n].args)]]

IsLeaf(t) == t.k \in {"local", "global"}
WithSub(t, sub) == [t EXCEPT !.sub = sub]
LastSub(t) == Last(t.sub)

\* In a list of formal arguments each is in scope of the ones before it.
Telescope(n, depth) == [i \in 1 .. n |-> depth + i - 1]

\* A fixpoint group: all functions are in scope, then each one's arguments, and
\* both the result type and the body are under all of them.
FixDepths(t) ==
  LET n == Len(t.arity) IN
  FlattenSeq([f \in 1 .. n |->
    Telescope(t.arity[f], n) \o <<n + t.arity[f], n + t.arity[f]>>])

(***************************************************************************)
(* The terms: leaves and, one level of nesting above the other, what is    *)
(* made of them.  Whatever the indices are, they are values of size_t.     *)
(***************************************************************************)
Leaves(indices) ==
  [k : {"local"}, index : indices] \cup [k : {"global"}, name : Names]

\* Terms with subterms in T, each with as many as its class has
Nodes(T) ==
  [k : {"product", "lambda", "apply"}, sub : Seq(T) \ {<<>>}]
    \cup [k : {"let"}, sub : [1 .. 3 -> T]]
    \cup [k : {"cast"}, sub : [1 .. 2 -> T]]
    \cup {t \in [k : {"match"}, sub : Seq(T), nargs : Seq(Nat)] :
             Len(t.sub) = Len(t.nargs) + 2}
    \cup {t \in [k : {"fix"}, entry : Nat, sub : Seq(T), arity : Seq(Nat)] :
             FixDepths(t) \in [DOMAIN t.sub -> Nat]}

NestedTerms(indices, depth) ==
  LET terms[nesting \in 0 .. MaxNesting] ==
        IF nesting = 0 THEN Leaves(indices)
        ELSE Leaves(indices) \cup Nodes(terms[nesting - 1])
  IN  terms[depth]

TermsOver(indices) == NestedTerms(indices, MaxNesting)

Term == TermsOver(0 .. Word - 1)

(***************************************************************************)
(* constr_t::shift.  ShiftDepths is how much limit has grown when the      *)
(* shift method of t's class visits each subterm.                          *)
(***************************************************************************)

\* Fault: the body of a let is shifted like its value
ShiftDepthsLetOpen(t) ==
  CASE t.k \in {"product", "lambda"} -> Telescope(Len(t.sub), 0)
    [] t.k = "fix" -> FixDepths(t)
    [] OTHER -> [i \in DOMAIN t.sub |-> 0]

\* Fault: product and lambda count as one binder however many arguments they have
ShiftDepthsOneBinder(t) ==
  CASE t.k \in {"product", "lambda"} -> [i \in DOMAIN t.sub |-> IF i = 1 THEN 0 ELSE 1]
    [] t.k = "let" -> <<0, 0, 1>>
    [] t.k = "fix" -> FixDepths(t)
    [] OTHER -> [i \in DOMAIN t.sub |-> 0]

ShiftDepths(t) ==
  CASE t.k \in {"product", "lambda"} -> Telescope(Len(t.sub), 0)
    [] t.k = "let" -> <<0, 0, 1>>
    [] t.k = "fix" -> FixDepths(t)
    [] t.k \in {"apply", "cast", "match"} -> [i \in DOMAIN t.sub |-> 0]

\* index_ + dir, both converted to std::size_t
ShiftIndex(index, dir) == (index + dir) % Word

\* shift of every class; limit grows from one term to its subterms, dir does not
Shift(t, limit, dir) ==
  LET shift[u \in Term] ==
        [l \in Nat |->
           IF u.k = "local"
           THEN IF u.index >= l THEN local(ShiftIndex(u.index, dir)) ELSE u
           ELSE IF IsLeaf(u) THEN u
           ELSE WithSub(u, [i \in DOMAIN u.sub |-> shift[u.sub[i]][l + ShiftDepths(u)[i]]])]
  IN  shift[t][limit]

(***************************************************************************)
(* local_subst, a transform_visitor.  VisitDepths is the number of locals  *)
(* that visit_transform has pushed when it visits each subterm.            *)
(***************************************************************************)
VisitDepths(t) ==
  CASE t.k \in {"product", "lambda"} -> Telescope(Len(t.sub), 0)
    [] t.k = "let" -> <<0, 0, 1>>
    [] t.k = "match" -> <<1, 0>> \o t.nargs
    [] t.k = "fix" -> FixDepths(t)
    [] t.k \in {"apply", "cast"} -> [i \in DOMAIN t.sub |-> 0]

\* The subterms that make visit_transform rebuild the term when they change.
RebuildFor(t) == IF t.k = "let" THEN {1, 3} ELSE DOMAIN t.sub

\* Fault: a substitute is put under binders as it is
HandleLocalUnshifted(i, depth, index, subst) ==
  IF i >= index + Len(subst) + depth THEN local(i - Len(subst))
  ELSE subst[i - index - depth + 1]

\* Fault: the variables beyond the substituted ones keep their numbers
HandleLocalKeeps(i, depth, index, subst) ==
  IF i >= index + Len(subst) + depth THEN local(i)
  ELSE Shift(subst[i - index - depth + 1], 0, depth)

\* local_subst_visitor::handle_local
HandleLocal(i, depth, index, subst) ==
  IF i >= index + Len(subst) + depth THEN local(i - Len(subst))
  ELSE Shift(subst[i - index - depth + 1], 0, depth)

\* Whether visit_transform returns a term at all (std::optional)
Changes(t, threshold) ==
  LET changes[u \in Term] ==
        [th \in Nat |->
           IF u.k = "local" THEN u.index >= th
           ELSE /\ ~IsLeaf(u)
                /\ \E i \in RebuildFor(u) : changes[u.sub[i]][th + VisitDepths(u)[i]]]
  IN  changes[t][threshold]

\* visit_transform with the visitor of local_subst; depth is the number of locals
\* pushed so far
LocalSubst(t, index, subst) ==
  LET visit[u \in Term] ==
        [depth \in Nat |->
           IF ~Changes(u, index + depth) THEN u
           ELSE IF u.k = "local" THEN HandleLocal(u.index, depth, index, subst)
           ELSE WithSub(u, [i \in DOMAIN u.sub |-> visit[u.sub[i]][depth + VisitDepths(u)[i]]])]
  IN  visit[t][0]
=============================================================================
