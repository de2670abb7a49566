------------------------------ MODULE TermCodec ------------------------------
(***************************************************************************)
(* Terms as s-expressions: the writer (to_sexpr.cc), the reader            *)
(* (constr_from_sexpr, from_sexpr.cc), and the export of kernel terms by   *)
(* the Coq plugin that the reader is made for.                             *)
(*                                                                         *)
(* Terms leave names and cast kinds out: the arguments of products are     *)
(* written anonymous, every other variable is x, every cast a default one. *)
(***************************************************************************)
EXTENDS Terms, Sexpr

T(value) == Terminal(value, 0)
C(kind, args) == Compound(kind, args, 0)
Sorts == {"Prop", "Set", "SProp", "Type"}

(***************************************************************************)
(* constr_to_sexpr and the plugin's build_term_sexpr.  They write the same *)
(* except for the type of a function in a fixpoint: the plugin has it from *)
(* the kernel, where it is a type next to the fixpoint, the library puts   *)
(* together what fix_function_t has.                                       *)
(***************************************************************************)
\* name_to_sexpr
Named == C("Name", <<T("x")>>)
Anonymous == C("Anonymous", <<>>)

Uint(n) == T(ToString(n))

RECURSIVE Write(_, _)

\* One Prod or Lambda for each argument, the last one innermost
Nested(kind, name, t, by) ==
  FoldRight(LAMBDA arg, rest : C(kind, <<name, Write(arg, by), rest>>),
            Front(t.sub), Write(LastSub(t), by))

LibraryType(t, f) == product(FormalArgs(t, f), RestypeOf(t, f))

\* Outside of the group the functions are not in scope, the arguments are.
KernelType(t, f) ==
  LET n == Len(t.arity)
      args == FormalArgs(t, f)
  IN  product([i \in DOMAIN args |-> Shift(args[i], i - 1, -n)],
              Shift(RestypeOf(t, f), Len(args), -n))

\* fix_function_to_sexpr
WriteFunction(t, f, by) ==
  C("Function", <<Named,
                  Write(IF by = "plugin" THEN KernelType(t, f) ELSE LibraryType(t, f), by),
                  Write(lambda(FormalArgs(t, f), BodyOf(t, f)), by)>>)

WriteBranch(t, n, by) == C("Branch", <<T("c"), Uint(t.nargs[n]), Write(t.sub[n + 2], by)>>)

Write(t, by) ==
  CASE t.k = "local" -> C("Local", <<T("x"), Uint(t.index)>>)
    [] t.k = "global" -> C(IF t.name \in Sorts THEN "Sort" ELSE "Global", <<T(t.name)>>)
    [] t.k = "product" -> Nested("Prod", Anonymous, t, by)
    [] t.k = "lambda" -> Nested("Lambda", Named, t, by)
    [] t.k = "let" -> C("LetIn", <<Named>> \o [i \in 1 .. 3 |-> Write(t.sub[i], by)])
    [] t.k = "apply" -> C("App", [i \in DOMAIN t.sub |-> Write(t.sub[i], by)])
    [] t.k = "cast" ->
         C("Cast", <<Write(t.sub[1], by), T("DEFAULTcast"), Write(t.sub[2], by)>>)
    [] t.k = "match" ->
         C("Case", <<T("1"), Write(t.sub[1], by), C("Match", <<Write(t.sub[2], by)>>),
                     C("Branches", [n \in DOMAIN t.nargs |-> WriteBranch(t, n, by)])>>)
    [] t.k = "fix" ->
         C("Fix", <<Uint(t.entry)>> \o [f \in DOMAIN t.arity |-> WriteFunction(t, f, by)])

ToSexpr(t) == Write(t, "library")
Exported(t) == Write(t, "plugin")

(***************************************************************************)
(* constr_from_sexpr.  A result is a value, a term if it is to be one, or  *)
(* an error with the location of the expression that its context points    *)
(* to; the first error that is looked at is passed on.                     *)
(***************************************************************************)
Error(e) == [k |-> "error", location |-> e.location]
IsError(r) == r.k = "error"

\* The context points to an expression that does not exist any more: what is read
\* as its location is undefined, any number or a crash.
Freed == -1
Dangling(r) == IF IsError(r) THEN [r EXCEPT !.location = Freed] ELSE r
FirstError(results) == results[CHOOSE i \in DOMAIN results :
                                 /\ IsError(results[i])
                                 /\ \A j \in 1 .. i - 1 : ~IsError(results[j])]

\* Fault: the last of several results is not looked at
CheckedButLast(results, value) ==
  IF \E i \in DOMAIN results \ {Len(results)} : IsError(results[i])
  THEN FirstError(results) ELSE value

\* if (!result) return result.error(), for each result
Checked(results, value) ==
  IF \E i \in DOMAIN results : IsError(results[i]) THEN FirstError(results) ELSE value

IsKind(e, kind, size) == ~IsTerminal(e) /\ e.kind = kind /\ Len(e.args) = size

\* argname_from_sexpr
ArgnameFrom(e) ==
  IF (IsKind(e, "Name", 1) /\ IsTerminal(e.args[1])) \/ IsKind(e, "Anonymous", 0)
  THEN [k |-> "argname"] ELSE Error(e)

\* string_from_sexpr
StringFrom(e) == IF IsTerminal(e) THEN [k |-> "string", value |-> e.value] ELSE Error(e)

\* uint_from_sexpr; of numbers only (std::stoi throws otherwise)
UintFrom(e) ==
  IF IsTerminal(e)
  THEN [k |-> "uint", value |-> CHOOSE n \in 0 .. Word - 1 : ToString(n) = e.value]
  ELSE Error(e)

\* The results for all of args.  (A tuple, which TLC evaluates once.)
Each(From(_), args) == <<>> \o [i \in DOMAIN args |-> From(args[i])]

RECURSIVE FromSexpr(_)

\* match_from_sexpr
MatchFrom(e) == IF IsKind(e, "Match", 1) THEN FromSexpr(e.args[1]) ELSE Error(e)

\* branch_from_sexpr; the name of the constructor is taken to be a literal
BranchFrom(e) ==
  IF ~IsKind(e, "Branch", 3) THEN Error(e)
  ELSE LET nargs == UintFrom(e.args[2])
           expr == FromSexpr(e.args[3])
       IN  Checked(<<nargs, expr>>, [k |-> "branch", nargs |-> nargs.value, expr |-> expr])

\* branches_from_sexpr.  The branches are read from a copy of the arguments, which
\* is gone when an error about one of them is returned.
BranchesFrom(e) ==
  IF IsTerminal(e) \/ e.kind # "Branches" THEN Error(e)
  ELSE LET branches == Each(LAMBDA branch : Dangling(BranchFrom(branch)), e.args)
       IN  Checked(branches, [k |-> "branches", value |-> branches])

\* What is left of a product or lambda without its first n arguments
Without(t, n) ==
  IF n = Len(t.sub) - 1 THEN LastSub(t) ELSE WithSub(t, SubSeq(t.sub, n + 1, Len(t.sub)))

\* Fault: the first argument is all that is taken over
SplitFunctionOnce(args, sigtype, fndef) ==
  [k |-> "function", args |-> args \o SubSeq(fndef.sub, 1, 1),
   restype |-> Without(sigtype, 1), body |-> Without(fndef, 1)]

\* The loop of fixfunction_from_sexpr: as long as the type is a product and the
\* definition is a lambda, what they have in common are arguments.
RECURSIVE SplitFunction(_, _, _)
SplitFunction(args, sigtype, fndef) ==
  IF sigtype.k # "product" \/ fndef.k # "lambda"
  THEN [k |-> "function", args |-> args, restype |-> sigtype, body |-> fndef]
  ELSE LET count == IF Len(sigtype.sub) <= Len(fndef.sub) THEN Len(sigtype.sub) - 1
                                                          ELSE Len(fndef.sub) - 1
       IN  SplitFunction(args \o SubSeq(fndef.sub, 1, count),
                         Without(sigtype, count), Without(fndef, count))

\* Fault: the result type stays in the context of the whole fixpoint
FixFunctionFromUnshifted(e, nfunctions) ==
  IF ~IsKind(e, "Function", 3) THEN Error(e)
  ELSE LET name == ArgnameFrom(e.args[1])
           sigtype == FromSexpr(e.args[2])
           fndef == FromSexpr(e.args[3])
       IN  Checked(<<name, sigtype, fndef>>, SplitFunction(<<>>, sigtype, fndef))

\* fixfunction_from_sexpr
FixFunctionFrom(e, nfunctions) ==
  IF ~IsKind(e, "Function", 3) THEN Error(e)
  ELSE LET name == ArgnameFrom(e.args[1])
           sigtype == FromSexpr(e.args[2])
           fndef == FromSexpr(e.args[3])
           fn == SplitFunction(<<>>, sigtype, fndef)
       IN  Checked(<<name, sigtype, fndef>>, [fn EXCEPT !.restype = Shift(@, 0, nfunctions)])

\* Prod and Lambda
BinderFrom(e) ==
  IF Len(e.args) # 3 THEN Error(e)
  ELSE LET arg == FromSexpr(e.args[2])
           rest == FromSexpr(e.args[3])
       IN  Checked(<<ArgnameFrom(e.args[1]), arg, rest>>,
                   IF e.kind = "Prod" THEN product(<<arg>>, rest) ELSE lambda(<<arg>>, rest))

\* Sort and Global
NameFrom(e) ==
  IF Len(e.args) # 1 \/ ~IsTerminal(e.args[1]) THEN Error(e)
  ELSE IF e.kind = "Sort" /\ e.args[1].value \notin Sorts THEN Error(e.args[1])
  ELSE global(e.args[1].value)

LocalFrom(e) ==
  IF Len(e.args) # 2 THEN Error(e)
  ELSE LET index == UintFrom(e.args[2])
       IN  Checked(<<StringFrom(e.args[1]), index>>, local(index.value))

LetFrom(e) ==
  IF Len(e.args) # 4 THEN Error(e)
  ELSE LET sub == Each(FromSexpr, Tail(e.args))
       IN  Checked(<<ArgnameFrom(e.args[1])>> \o sub, let(sub[1], sub[2], sub[3]))

ApplyFrom(e) ==
  IF Len(e.args) < 2 THEN Error(e)
  ELSE LET sub == Each(FromSexpr, e.args) IN Checked(sub, apply(sub[1], Tail(sub)))

CastFrom(e) ==
  IF Len(e.args) # 3 THEN Error(e)
  ELSE LET kind == StringFrom(e.args[2])
           term == FromSexpr(e.args[1])
           typeterm == FromSexpr(e.args[3])
       IN  Checked(<<term, kind, typeterm>>,
                   IF kind.value \in {"VMcast", "DEFAULTcast", "REVERTcast", "NATIVEcast"}
                   THEN cast(term, typeterm) ELSE Error(e))

CaseFrom(e) ==
  IF Len(e.args) # 4 THEN Error(e)
  ELSE LET casetype == FromSexpr(e.args[2])
           arg == MatchFrom(e.args[3])
           branches == BranchesFrom(e.args[4])
       IN  Checked(<<UintFrom(e.args[1]), casetype, arg, branches>>,
                   match(casetype, arg, branches.value))

FixFrom(e) ==
  IF Len(e.args) < 2 THEN Error(e)
  ELSE LET index == UintFrom(e.args[1])
           n == Len(e.args) - 1
           fns == Each(LAMBDA fn : FixFunctionFrom(fn, n), Tail(e.args))
       IN  Checked(<<index>> \o fns, fix(index.value, fns))

FromSexpr(e) ==
  IF IsTerminal(e) THEN Error(e)
  ELSE CASE e.kind \in {"Sort", "Global"} -> NameFrom(e)
         [] e.kind = "Local" -> LocalFrom(e)
         [] e.kind \in {"Prod", "Lambda"} -> BinderFrom(e)
         [] e.kind = "LetIn" -> LetFrom(e)
         [] e.kind = "App" -> ApplyFrom(e)
         [] e.kind = "Cast" -> CastFrom(e)
         [] e.kind = "Case" -> CaseFrom(e)
         [] e.kind = "Fix" -> FixFrom(e)
         [] OTHER -> Error(e)

\* constr_from_sexpr_str
FromText(s) ==
  LET e == ParseSexpr(s)
  IN  IF e.ok THEN FromSexpr(e.value) ELSE [k |-> "error", location |-> e.location]
=============================================================================
