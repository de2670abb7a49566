------------------------------ MODULE GallinaOps -----------------------------
(***************************************************************************)
(* The terms a client builds, written in Gallina with names for variables  *)
(* and read again: characters to tokens, tokens to a tree, and the tree to *)
(* the term.                                                               *)
(***************************************************************************)
EXTENDS TermOps, GallinaNames

(***************************************************************************)
(* Names.  The context has eight names, and a binder that has n names in   *)
(* scope binds the name number n + 1; with a period the same few names are *)
(* used over and over and hide each other.                                 *)
(***************************************************************************)
Letters == <<"a", "b", "c", "d", "e", "f", "g", "h", "i", "j", "k", "l", "m", "n", "o", "p">>
Periods == {2, 3, Len(Letters)}

NameAt(n, period) == Letters[(n % period) + 1]
NewNames(names, n, period) == [i \in 1 .. n |-> NameAt(Len(names) + i - 1, period)]
InScope(ids, names) == Reverse(ids) \o names
NamesOfContext(period) == InScope(NewNames(<<>>, Len(Env), period), <<>>)

\* The index of the variable that name stands for
Innermost(names, name) ==
  (CHOOSE i \in DOMAIN names : names[i] = name /\ \A j \in 1 .. i - 1 : names[j] # name) - 1

(***************************************************************************)
(* The tree for a term in scope of names.  The constructor of a branch is  *)
(* C or C1 by the number of its arguments, and the types of matches are    *)
(* all M.P.                                                                *)
(***************************************************************************)
Constructor(nargs) == IF nargs = 0 THEN "C" ELSE "C1"

RECURSIVE Tree(_, _, _)

FormalTrees(args, ids, names, period) ==
  [i \in DOMAIN args |-> [id |-> ids[i],
                          type |-> Tree(args[i], InScope(SubSeq(ids, 1, i - 1), names), period)]]

\* The type of a function as it is outside of the group
OuterType(t, f) ==
  Shift(product(FormalArgs(t, f), RestypeOf(t, f)), 0, -Len(t.arity))

FixTree(t, names, period) ==
  LET n == Len(t.arity)
      fns == NewNames(names, n, period)
      ids(f) == NewNames(InScope(fns, names), t.arity[f], period)
      Outer(f) == OuterType(t, f).sub
  IN  AstFix([f \in 1 .. n |->
                [id |-> fns[f],
                 signature |-> AstProduct(FormalTrees(Front(Outer(f)), ids(f), names, period),
                                          Tree(Last(Outer(f)), InScope(ids(f), names), period)),
                 body |-> Tree(BodyOf(t, f), InScope(ids(f), InScope(fns, names)), period)]],
             fns[t.entry + 1])

Tree(t, names, period) ==
  LET n == Len(t.sub)
      ids == NewNames(names, n - 1, period)
      new == NewNames(names, 1, period)
      Sub(i) == Tree(t.sub[i], names, period)
  IN  CASE t.k = "local" -> AstId(names[t.index + 1])
        [] t.k = "global" -> AstId(t.name)
        [] t.k = "product" -> AstProduct(FormalTrees(Front(t.sub), ids, names, period),
                                         Tree(Last(t.sub), InScope(ids, names), period))
        [] t.k = "lambda" -> AstLambda(FormalTrees(Front(t.sub), ids, names, period),
                                       Tree(Last(t.sub), InScope(ids, names), period))
        [] t.k = "let" -> AstLet(new[1], Sub(1), Sub(2), Tree(t.sub[3], InScope(new, names), period))
        [] t.k = "apply" -> AstApply(Sub(1), [i \in 1 .. n - 1 |-> Sub(i + 1)])
        [] t.k = "match" ->
             AstMatch(AstId("M.P"), Sub(2), new[1],
               [i \in DOMAIN t.nargs |->
                  [constructor |-> Constructor(t.nargs[i]), args |-> SubSeq(new, 1, t.nargs[i]),
                   expr |-> IF t.nargs[i] = 0 THEN Sub(i + 2)
                            ELSE Tree(LastSub(t.sub[i + 2]), InScope(new, names), period)]])
        [] t.k = "fix" -> FixTree(t, names, period)

(***************************************************************************)
(* The term that the tree stands for: a name is its innermost binder.      *)
(* types are the types of the locals as far as they are globals; a match   *)
(* has the type of what is matched as the argument of its type, and a      *)
(* branch the argument types of its constructor.                           *)
(***************************************************************************)
Unknown == global("unknown")

\* The types that check finds for locals whose types are closed.  In a list of
\* more than one argument the stack of types has but the last one.
KnownType(t) == IF t.k = "global" THEN t ELSE Unknown
ListTypes(args) ==
  IF Len(args) = 1 THEN <<KnownType(args[1])>> ELSE [i \in DOMAIN args |-> Unknown]

LeafType(t, types) ==
  CASE t.k = "local" -> types[t.index + 1]
    [] t.k = "global" -> global("Type")
    [] OTHER -> Unknown

RECURSIVE Meant(_, _, _, _)

MeantList(t, names, types, period) ==
  LET ids == NewNames(names, Len(t.sub) - 1, period)
      known == IF Len(ids) < 2 THEN Reverse(ListTypes(Front(t.sub))) \o types
               ELSE [i \in 1 .. Len(types) + Len(ids) |-> Unknown]
  IN  WithSub(t, <<>> \o [i \in DOMAIN t.sub |->
        Meant(t.sub[i], InScope(SubSeq(ids, 1, i - 1), names),
              SubSeq(known, Len(ids) - i + 2, Len(known)), period)])

MeantFix(t, names, types, period) ==
  LET n == Len(t.arity)
      fns == NewNames(names, n, period)
      ids(f) == NewNames(InScope(fns, names), t.arity[f], period)
      \* names of arguments are chosen in scope of the functions
      Signature(f) ==
        LET outer == OuterType(t, f).sub
        IN  Shift(product(<<>> \o [i \in DOMAIN Front(outer) |->
                            Meant(outer[i], InScope(SubSeq(ids(f), 1, i - 1), names),
                                  [j \in 1 .. Len(names) + i - 1 |-> Unknown], period)],
                          Meant(Last(outer), InScope(ids(f), names),
                                [j \in 1 .. Len(names) + Len(ids(f)) |-> Unknown], period)), 0, n)
      types2(f) == [j \in 1 .. t.arity[f] + n |-> Unknown] \o types
  IN  fix(t.entry, <<>> \o [f \in 1 .. n |->
        [args |-> Front(Signature(f).sub), restype |-> LastSub(Signature(f)),
         body |-> Meant(BodyOf(t, f), InScope(ids(f), InScope(fns, names)), types2(f), period)]])

Meant(t, names, types, period) ==
  LET new == NewNames(names, 1, period)
      Sub(i) == Meant(t.sub[i], names, types, period)
      Under(type, body) == Meant(body, InScope(new, names), <<type>> \o types, period)
  IN  CASE t.k = "local" -> local(Innermost(names, names[t.index + 1]))
        [] t.k = "global" -> t
        [] t.k = "cast" -> Unknown
        [] t.k \in {"product", "lambda"} -> MeantList(t, names, types, period)
        [] t.k = "let" -> let(Sub(1), Sub(2), Under(LeafType(t.sub[1], types), t.sub[3]))
        [] t.k = "apply" -> WithSub(t, <<>> \o [i \in DOMAIN t.sub |-> Sub(i)])
        [] t.k = "match" ->
             match(lambda(<<LeafType(t.sub[2], types)>>, global("M.P")), Sub(2),
                   <<>> \o [i \in DOMAIN t.nargs |->
                     [nargs |-> t.nargs[i],
                      expr |-> IF t.nargs[i] = 0 THEN Sub(i + 2)
                               ELSE lambda(<<global("nat")>>, Under(global("nat"), LastSub(t.sub[i + 2])))]])
        [] t.k = "fix" -> MeantFix(t, names, types, period)

RECURSIVE Mentions(_, _)
Mentions(t, g) == t = g \/ (~IsLeaf(t) /\ \E i \in DOMAIN t.sub : Mentions(t.sub[i], g))
\* A let whose value is checked to find the type of its variable; check may throw.
RECURSIVE LetsCompound(_)
LetsCompound(t) ==
  ~IsLeaf(t) /\ \/ t.k = "let" /\ ~IsLeaf(t.sub[1])
                \/ \E i \in DOMAIN t.sub : LetsCompound(t.sub[i])

\* Terms that can be written: no casts, and the types of functions do not refer
\* to the group.
RECURSIVE Writable(_)
Writable(t) ==
  IsLeaf(t) \/ /\ t.k # "cast"
               /\ t.k = "fix" => \A f \in DOMAIN t.arity :
                    Free(product(FormalArgs(t, f), RestypeOf(t, f))) \cap (0 .. Len(t.arity) - 1) = {}
               /\ \A i \in DOMAIN t.sub : Writable(t.sub[i])

(***************************************************************************)
(* The tokens of a tree, with no more parentheses than needed.             *)
(***************************************************************************)
RECURSIVE Written(_), WrittenFormals(_)

Enclosed(tokens) == <<"(">> \o tokens \o <<")">>

\* The first arguments that have the same type
SameType(args) == {n \in DOMAIN args : \A i \in 1 .. n : args[i].type = args[1].type}

WrittenFormals(args) ==
  IF args = <<>> THEN <<>>
  ELSE LET n == Cardinality(SameType(args))
       IN  Enclosed([i \in 1 .. n |-> args[i].id] \o <<":">> \o Written(args[1].type))
             \o WrittenFormals(SubSeq(args, n + 1, Len(args)))

\* A function, and an argument: the last one need not end before what follows
WrittenFn(fn) == IF fn.k \in {"id", "match"} THEN Written(fn) ELSE Enclosed(Written(fn))
WrittenArg(arg, last) ==
  IF arg.k \in {"id", "match"} \/ (last /\ arg.k \in {"product", "let"}) THEN Written(arg)
  ELSE Enclosed(Written(arg))

WrittenFunction(fn) ==
  <<fn.id>> \o WrittenFormals(fn.signature.args) \o <<":">> \o Written(fn.signature.restype)
    \o <<":=">> \o Written(fn.body)

Written(ast) ==
  CASE ast.k = "id" -> <<ast.id>>
    [] ast.k = "apply" ->
         WrittenFn(ast.fn)
           \o FlattenSeq([i \in DOMAIN ast.args |-> WrittenArg(ast.args[i], i = Len(ast.args))])
    [] ast.k = "let" ->
         <<"let", ast.varname, ":">> \o Written(ast.type) \o <<":=">> \o Written(ast.value)
           \o <<"in">> \o Written(ast.body)
    [] ast.k = "product" ->
         <<"forall">> \o WrittenFormals(ast.args) \o <<",">> \o Written(ast.restype)
    [] ast.k = "lambda" ->
         <<"fun">> \o WrittenFormals(ast.args) \o <<"=>">> \o Written(ast.body)
    [] ast.k = "match" ->
         <<"match">> \o Written(ast.arg) \o <<"as", ast.as, "return">> \o Written(ast.restype)
           \o <<"with">>
           \o FlattenSeq([i \in DOMAIN ast.branches |->
                <<"|", ast.branches[i].constructor>> \o ast.branches[i].args
                  \o <<"=>">> \o Written(ast.branches[i].expr)])
           \o <<"end">>
    [] ast.k = "fix" ->
         <<"fix">>
           \o FlattenSeq([f \in DOMAIN ast.fns |->
                (IF f = 1 THEN <<>> ELSE <<"with">>) \o WrittenFunction(ast.fns[f])])
           \o <<"for", ast.call>>

TreeOf(t, period) == Tree(t, NamesOfContext(period), period)

(***************************************************************************)
(* The characters of tokens.                                               *)
(***************************************************************************)
Characters(token) ==
  CASE token = ":=" -> <<":", "=">>
    [] token = "=>" -> <<"=", ">">>
    [] token = "M.P" -> <<"M", ".", "P">>
    [] token = "C1" -> <<"C", Digit>>
    [] OTHER -> <<token>>

\* Spaces where they cannot be left out: between words, and after a dot; or twice
\* everywhere.
IsWord(token) == token \in Keywords \/ Identifier(token)
Apart(a, b) == a = "." \/ (IsWord(a) /\ IsWord(b))

Tight(tokens) ==
  FlattenSeq([i \in DOMAIN tokens |->
    Characters(tokens[i]) \o (IF i < Len(tokens) /\ Apart(tokens[i], tokens[i + 1])
                              THEN <<Space>> ELSE <<>>)])
Loose(tokens) == FlattenSeq([i \in DOMAIN tokens |-> <<Space, Space>> \o Characters(tokens[i])])

(***************************************************************************)
(* Properties.                                                             *)
(***************************************************************************)
\* However tokens are spaced, the token parser finds their ends: dots in a name,
\* at the end of a sentence with another sentence after it, and at the end of the
\* text, and symbols that start like others.
TokensAreRead ==
  Writable(term) =>
    LET tokens == Written(TreeOf(term, 2))
        sentences == tokens \o <<".">> \o tokens \o <<".">>
    IN  \A text \in {Tight(sentences), Loose(sentences)} : Tokens(text) = sentences

\* What may follow a term
Ends == {")", ",", ":=", "=>", "with", "in", "as", "end", "|", "for", "."}

\* A term is read up to where it ends, with the structure it was written with and
\* whatever follows it; and if it stops short inside of parentheses this is noticed.
ParsesBack ==
  Writable(term) =>
    LET ast == TreeOf(term, Len(Letters))
        tokens == Written(ast)
    IN  /\ \A token \in IF height < MaxHeight THEN Ends ELSE {"with"} :
             ParseConstr(tokens \o <<token, "x">>, 0) = Parsed(ast, Len(tokens))
        /\ height < MaxHeight =>
             \A n \in 0 .. Len(tokens) : ~ParseConstr(SubSeq(Enclosed(tokens), 1, n), 0).ok

ContextTypes == <<global("t0"), global("t1"), global("t2"), global("t3"),
                  global("t4"), global("t5"), global("t6"), global("t7")>>

ScopeOf(names) ==
  [map |-> FoldLeft(PushName, EmptyMap, Reverse(names)), types |-> ContextTypes,
   globals |-> [id \in {"M.P", "nat", "O"} |-> global("Set")],
   inductives |-> [type \in Range(ContextTypes) \cup {global("nat"), global("Set"), global("Type")} |->
                     <<[id |-> "C", type |-> type],
                       [id |-> "C1", type |-> product(<<global("nat")>>, type)]>>]]

\* A tree is resolved to the term that it stands for: every name to its innermost
\* binder, however often it is bound, and what is matched to the type it has.
ResolvesScopes ==
  Writable(term) =>
    \A period \in Periods :
      LET names == NamesOfContext(period)
          meant == Meant(term, names, ContextTypes, period)
          resolved == Resolve(TreeOf(term, period), ScopeOf(names))
      IN  Mentions(meant, Unknown) \/ resolved = meant
             \/ (resolved = Throws /\ LetsCompound(term))
=============================================================================
