---------------------------- MODULE GallinaGrammar ---------------------------
(***************************************************************************)
(* The recursive descent parser for terms of minigallina.cc: from tokens   *)
(* to a tree of constr_ast_node objects, in which variables have names.    *)
(* Results are those of parse_result.h (Sexpr).                            *)
(***************************************************************************)
EXTENDS Sexpr, GallinaTokens

(***************************************************************************)
(* The tree.  A formal argument is [id, type], a branch is [constructor,   *)
(* args, expr], a function of a fixpoint [id, signature, body].            *)
(***************************************************************************)
AstId(id) == [k |-> "id", id |-> id]
AstApply(fn, args) == [k |-> "apply", fn |-> fn, args |-> args]
AstLet(varname, value, type, body) ==
  [k |-> "let", varname |-> varname, value |-> value, type |-> type, body |-> body]
AstProduct(args, restype) == [k |-> "product", args |-> args, restype |-> restype]
AstLambda(args, body) == [k |-> "lambda", args |-> args, body |-> body]
AstFix(fns, call) == [k |-> "fix", fns |-> fns, call |-> call]
AstMatch(restype, arg, as, branches) ==
  [k |-> "match", restype |-> restype, arg |-> arg, as |-> as, branches |-> branches]

(***************************************************************************)
(* The parser.  A rule is a sequence of parts, each a token or the name of *)
(* one of the functions below; the first one that fails fails the rule.    *)
(***************************************************************************)
RECURSIVE ParseParts(_, _, _), ParseIds(_, _, _), ParseFormargs(_, _, _),
          ParseFunctions(_, _, _), ParseBranches(_, _, _), ParseInner(_, _),
          ParseArguments(_, _, _), ParseArgumentsAll(_, _, _), ParseConstr(_, _)

\* The value of a rule made into a node
Becomes(read, Node(_)) == IF read.ok THEN Parsed(Node(read.value), read.next) ELSE read

ParseId(s, at) == IF Identifier(Current(s, at)) THEN Parsed(Current(s, at), at + 1)
                  ELSE ParseError(at)

Expect(s, at, token) == IF Current(s, at) = token THEN Parsed(token, at + 1) ELSE ParseError(at)

ParsePart(s, at, part) ==
  CASE part = "identifier" -> ParseId(s, at)
    [] part = "identifiers" -> ParseIds(s, at, <<>>)
    [] part = "formal arguments" -> ParseFormargs(s, at, <<>>)
    [] part = "functions" -> ParseFunctions(s, at, <<>>)
    [] part = "branches" -> ParseBranches(s, at, <<>>)
    [] part = "term" -> ParseConstr(s, at)
    [] OTHER -> Expect(s, at, part)

ParseParts(s, at, parts) ==
  IF parts = <<>> THEN Parsed(<<>>, at)
  ELSE LET first == ParsePart(s, at, Head(parts))
           rest == ParseParts(s, first.next, Tail(parts))
       IN  IF ~first.ok THEN first
           ELSE IF ~rest.ok THEN rest
           ELSE Parsed(<<first.value>> \o rest.value, rest.next)

ParseIds(s, at, ids) ==
  IF Identifier(Current(s, at)) THEN ParseIds(s, at + 1, Append(ids, Current(s, at)))
  ELSE Parsed(ids, at)

\* "(x y : T)" is an argument of type T for each of its names.
ParseFormargs(s, at, args) ==
  IF Current(s, at) # "(" THEN Parsed(args, at)
  ELSE LET read == ParseParts(s, at, <<"(", "identifiers", ":", "term", ")">>)
       IN  IF ~read.ok THEN read
           ELSE ParseFormargs(s, read.next,
                  args \o [i \in DOMAIN read.value[2] |->
                             [id |-> read.value[2][i], type |-> read.value[4]]])

\* The functions of a fixpoint up to "for"
ParseFunctions(s, at, fns) ==
  LET read == ParseParts(s, at, <<"identifier", "formal arguments", ":", "term", ":=", "term">>)
      all == Append(fns, [id |-> read.value[1], signature |-> AstProduct(read.value[2], read.value[4]),
                          body |-> read.value[6]])
  IN  IF ~read.ok THEN read
      ELSE CASE Current(s, read.next) = "with" -> ParseFunctions(s, read.next + 1, all)
             [] Current(s, read.next) = "for" -> Parsed(all, read.next + 1)
             [] OTHER -> ParseError(read.next)

ParseBranches(s, at, branches) ==
  CASE Current(s, at) = "end" -> Parsed(branches, at + 1)
    [] Current(s, at) = "|" ->
         LET read == ParseParts(s, at + 1, <<"identifier", "identifiers", "=>", "term">>)
         IN  IF ~read.ok THEN read
             ELSE ParseBranches(s, read.next,
                    Append(branches, [constructor |-> read.value[1], args |-> read.value[2],
                                      expr |-> read.value[4]]))
    [] OTHER -> ParseError(at)

ParseInner(s, at) ==
  LET Rule(parts) == ParseParts(s, at + 1, parts)
      token == Current(s, at)
  IN  CASE Identifier(token) -> Parsed(AstId(token), at + 1)
        [] token = "let" ->
             Becomes(Rule(<<"identifier", ":", "term", ":=", "term", "in", "term">>),
                     LAMBDA v : AstLet(v[1], v[5], v[3], v[7]))
        [] token = "match" ->
             Becomes(Rule(<<"term", "as", "identifier", "return", "term", "with", "branches">>),
                     LAMBDA v : AstMatch(v[5], v[1], v[3], v[7]))
        [] token = "forall" -> Becomes(Rule(<<"formal arguments", ",", "term">>),
                                       LAMBDA v : AstProduct(v[1], v[3]))
        [] token = "fun" -> Becomes(Rule(<<"formal arguments", "=>", "term">>),
                                    LAMBDA v : AstLambda(v[1], v[3]))
        [] token = "fix" -> Becomes(Rule(<<"functions", "identifier">>),
                                    LAMBDA v : AstFix(v[1], v[2]))
        [] token = "(" -> Becomes(Rule(<<"term", ")">>), LAMBDA v : v[1])
        [] OTHER -> ParseError(at)

\* What goes on with the arguments of an application; all other tokens end it.
StartsArgument(token) == Identifier(token) \/ token \in {"match", "forall", "let", "("}

\* Fault: an argument takes arguments itself
ParseArgumentsAll(s, at, args) ==
  IF ~StartsArgument(Current(s, at)) THEN Parsed(args, at)
  ELSE LET arg == ParseConstr(s, at)
       IN  IF arg.ok THEN ParseArgumentsAll(s, arg.next, Append(args, arg.value)) ELSE arg

ParseArguments(s, at, args) ==
  IF ~StartsArgument(Current(s, at)) THEN Parsed(args, at)
  ELSE LET arg == ParseInner(s, at)
       IN  IF arg.ok THEN ParseArguments(s, arg.next, Append(args, arg.value)) ELSE arg

\* parse_constr_ast
ParseConstr(s, at) ==
  LET fn == ParseInner(s, at)
      args == ParseArguments(s, fn.next, <<>>)
  IN  IF ~fn.ok THEN fn
      ELSE Becomes(args, LAMBDA v : IF v = <<>> THEN fn.value ELSE AstApply(fn.value, v))
=============================================================================
