----------------------------- MODULE GallinaNames ----------------------------
(***************************************************************************)
(* constr_ast_node::resolve of minigallina.cc: from a tree with names to a *)
(* term with de Bruijn indices.                                            *)
(*                                                                         *)
(* A scope is the two stacks that resolve keeps in parallel, the map of    *)
(* the names of the locals and the sequence of their types (innermost      *)
(* first), and the client's two functions: globals, from the names of      *)
(* globals to types, and inductives, from types to constructors.           *)
(***************************************************************************)
EXTENDS Typing, NameMap, GallinaGrammar

Unresolved == [k |-> "error"]
Failed(t) == t.k \in {"error", "throws"}

\* The type of a term in a scope (make_type_context)
TypeIn(t, scope) == Check(t, [locals |-> scope.types, globals |-> scope.globals])

Bind(scope, id, type) ==
  [scope EXCEPT !.map = PushName(@, id), !.types = <<type>> \o @]

BindAll(scope, ids, types) ==
  FoldLeft(LAMBDA s, i : Bind(s, ids[i], types[i]), scope, [i \in DOMAIN ids |-> i])

RECURSIVE Resolve(_, _), ResolveUnder(_, _, _, _), ResolveEach(_, _)

ResolveId(id, scope) ==
  CASE id \in {"Set", "Prop", "Type"} -> global(id)
    [] id \notin {"Set", "Prop", "Type"} /\ Knowing(scope.map, id) # {} ->
         local(GetIndex(scope.map, id))
    [] id \notin {"Set", "Prop", "Type"} /\ Knowing(scope.map, id) = {} ->
         IF id \in DOMAIN scope.globals THEN global(id) ELSE Unresolved

\* Terms one after the other, up to the first that fails
ResolveEach(asts, scope) ==
  IF asts = <<>> THEN <<>>
  ELSE LET t == Resolve(Head(asts), scope)
       IN  IF Failed(t) THEN <<t>> ELSE <<t>> \o ResolveEach(Tail(asts), scope)

FirstFailure(terms, Made(_)) == IF terms # <<>> /\ Failed(Last(terms)) THEN Last(terms) ELSE Made(terms)

\* The types of formal arguments, then what they are bound in.  For each of them
\* its type is pushed on the types outside of the whole list.
ResolveUnder(args, body, scope, outer) ==
  IF args = <<>> THEN <<Resolve(body, scope)>>
  ELSE LET type == Resolve(Head(args).type, scope)
           inner == [scope EXCEPT !.map = PushName(@, Head(args).id), !.types = <<type>> \o outer]
       IN  IF Failed(type) THEN <<type>>
           ELSE <<type>> \o ResolveUnder(Tail(args), body, inner, outer)

ResolveLet(ast, scope) ==
  LET parts == ResolveEach(<<ast.value, ast.type>>, scope)
      type == TypeIn(parts[1], scope)
      body == Resolve(ast.body, Bind(scope, ast.varname, type))
  IN  IF Failed(Last(parts)) THEN Last(parts)
      ELSE IF type = Throws THEN Throws
      ELSE IF Failed(body) THEN body ELSE let(parts[1], parts[2], body)

\* A signature is resolved outside of the group and used inside.
FixSignature(sig, n) == Shift(sig, 0, n)

ResolveFix(ast, scope) ==
  LET n == Len(ast.fns)
      sigs == ResolveEach([f \in 1 .. n |-> ast.fns[f].signature], scope)
      group == BindAll(scope, [f \in 1 .. n |-> ast.fns[f].id], sigs)
      shifted == <<>> \o [f \in DOMAIN sigs |-> FixSignature(sigs[f], n)]
      Inner(f) == BindAll(group, [i \in DOMAIN ast.fns[f].signature.args |->
                                    ast.fns[f].signature.args[i].id], Front(shifted[f].sub))
      bodies == <<>> \o [f \in 1 .. n |-> Resolve(ast.fns[f].body, Inner(f))]
      failing == SelectSeq(bodies, Failed)
      called == {f \in 1 .. n : ast.fns[f].id = ast.call}
  IN  IF Failed(Last(sigs)) THEN Last(sigs)
      ELSE IF failing # <<>> THEN Head(failing)
      ELSE IF called = {} THEN Unresolved
      ELSE fix((CHOOSE f \in called : \A g \in called : g <= f) - 1,
               [f \in 1 .. n |-> [args |-> Front(shifted[f].sub), restype |-> LastSub(shifted[f]),
                                  body |-> bodies[f]]])

\* A branch of a constructor of the inductive, or a failure
ResolveBranch(branch, constructors, scope) ==
  LET known == SelectSeq(constructors, LAMBDA c : c.id = branch.constructor)
      types == IF known[1].type.k = "product" THEN Front(known[1].type.sub) ELSE <<>>
      body == Resolve(branch.expr, BindAll(scope, branch.args, types))
      n == Len(branch.args)
  IN  IF known = <<>> THEN Unresolved
      ELSE IF Failed(body) THEN body
      ELSE [k |-> "branch", nargs |-> n,
            expr |-> IF n = 0 THEN body ELSE lambda(SubSeq(types, 1, n), body)]

ResolveMatch(ast, scope) ==
  LET arg == Resolve(ast.arg, scope)
      type == TypeIn(arg, scope)
      restype == Resolve(ast.restype, Bind(scope, ast.as, type))
      branches == <<>> \o [i \in DOMAIN ast.branches |->
                    ResolveBranch(ast.branches[i], scope.inductives[type], scope)]
      failing == SelectSeq(branches, Failed)
  IN  IF Failed(arg) THEN arg
      ELSE IF type = Throws THEN Throws
      ELSE IF type \notin DOMAIN scope.inductives THEN Unresolved
      ELSE IF Failed(restype) THEN restype
      ELSE IF failing # <<>> THEN Head(failing)
      ELSE match(lambda(<<type>>, restype), arg, branches)

Resolve(ast, scope) ==
  CASE ast.k = "id" -> ResolveId(ast.id, scope)
    [] ast.k = "apply" ->
         FirstFailure(ResolveEach(<<ast.fn>> \o ast.args, scope), LAMBDA r : apply(r[1], Tail(r)))
    [] ast.k = "let" -> ResolveLet(ast, scope)
    [] ast.k = "product" ->
         FirstFailure(ResolveUnder(ast.args, ast.restype, scope, scope.types),
                      LAMBDA r : product(Front(r), Last(r)))
    [] ast.k = "lambda" ->
         FirstFailure(ResolveUnder(ast.args, ast.body, scope, scope.types),
                      LAMBDA r : lambda(Front(r), Last(r)))
    [] ast.k = "fix" -> ResolveFix(ast, scope)
    [] ast.k = "match" -> ResolveMatch(ast, scope)
=============================================================================
