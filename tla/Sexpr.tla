-------------------------------- MODULE Sexpr --------------------------------
(***************************************************************************)
(* coqcic::sexpr: s-expressions, their text (sexpr.cc) and the parser that *)
(* reads it (parse_sexpr.cc).                                              *)
(*                                                                         *)
(* A text is a sequence of strings: "(", ")", a blank, or a run of normal  *)
(* characters that stays together.  The index of the parser counts these   *)
(* instead of characters.                                                  *)
(***************************************************************************)
EXTENDS Integers, Sequences, SequencesExt

Terminal(value, location) == [k |-> "terminal", value |-> value, location |-> location]
Compound(kind, args, location) ==
  [k |-> "compound", kind |-> kind, args |-> args, location |-> location]

IsTerminal(e) == e.k = "terminal"

Blank == " "
EndOfText == "eof"
NormalChar(c) == c \notin {Blank, "(", ")", "\"", EndOfText}

\* Fault: no blank between the arguments of a compound
RECURSIVE FormatRunsTogether(_)
FormatRunsTogether(e) ==
  IF IsTerminal(e) THEN <<e.value>>
  ELSE <<"(", e.kind>>
         \o FlattenSeq([i \in DOMAIN e.args |-> FormatRunsTogether(e.args[i])]) \o <<")">>

\* sexpr_terminal::format and sexpr_compound::format
RECURSIVE Format(_)
Format(e) ==
  IF IsTerminal(e) THEN <<e.value>>
  ELSE <<"(", e.kind>>
         \o FlattenSeq([i \in DOMAIN e.args |-> <<Blank>> \o Format(e.args[i])]) \o <<")">>

(***************************************************************************)
(* The parser over text s.  at is its index_, counted from 0; what it      *)
(* answers is a value and the index after it, or the location of an error. *)
(***************************************************************************)
Current(s, at) == IF at < Len(s) THEN s[at + 1] ELSE EndOfText

RECURSIVE SkipWhitespace(_, _), SkipNormal(_, _)
SkipWhitespace(s, at) == IF Current(s, at) = Blank THEN SkipWhitespace(s, at + 1) ELSE at
SkipNormal(s, at) == IF NormalChar(Current(s, at)) THEN SkipNormal(s, at + 1) ELSE at

\* The normal characters from at on, as one string
NormalRun(s, at) == FoldLeft(LAMBDA a, b : a \o b, "", SubSeq(s, at + 1, SkipNormal(s, at)))

Parsed(value, next) == [ok |-> TRUE, value |-> value, next |-> next]
ParseError(location) == [ok |-> FALSE, location |-> location]

ParseTerminal(s, at) ==
  IF NormalRun(s, at) = "" THEN ParseError(at)
  ELSE Parsed(Terminal(NormalRun(s, at), at), SkipWhitespace(s, SkipNormal(s, at)))

RECURSIVE ParseExpr(_, _), ParseArgs(_, _, _), ParseArgsLoose(_, _, _)

\* Fault: the end of the text ends a compound
ParseArgsLoose(s, at, args) ==
  IF Current(s, at) \in {")", EndOfText} THEN Parsed(args, SkipWhitespace(s, at + 1))
  ELSE LET sub == ParseExpr(s, at)
       IN  IF sub.ok THEN ParseArgsLoose(s, sub.next, Append(args, sub.value)) ELSE sub

\* The rest of parse_compound after its kind
ParseArgs(s, at, args) ==
  CASE Current(s, at) = EndOfText -> ParseError(at)
    [] Current(s, at) = ")" -> Parsed(args, SkipWhitespace(s, at + 1))
    [] OTHER -> LET sub == ParseExpr(s, at)
                IN  IF sub.ok THEN ParseArgs(s, sub.next, Append(args, sub.value)) ELSE sub

ParseCompound(s, at) ==
  LET kindAt == SkipWhitespace(s, at + 1)
      args == ParseArgs(s, SkipWhitespace(s, SkipNormal(s, kindAt)), <<>>)
  IN  IF NormalRun(s, kindAt) = "" THEN ParseError(kindAt)
      ELSE IF ~args.ok THEN args
      ELSE Parsed(Compound(NormalRun(s, kindAt), args.value, at), args.next)

ParseExpr(s, at) ==
  IF Current(s, at) = "(" THEN ParseCompound(s, at) ELSE ParseTerminal(s, at)

\* parse_sexpr; what follows the first expression is not looked at.
ParseSexpr(s) == ParseExpr(s, SkipWhitespace(s, 0))
=============================================================================
