---------------------------- MODULE GallinaTokens ----------------------------
(***************************************************************************)
(* token_parser of minigallina.cc: from characters to tokens, with up to   *)
(* two characters of lookahead.                                            *)
(*                                                                         *)
(* A text is a sequence of strings: a run of characters that may start an  *)
(* identifier, "1" for digits, or one other character.  A token is its     *)
(* string; what is no token of the language is Invalid.  Locations of      *)
(* tokens are left out.                                                    *)
(***************************************************************************)
EXTENDS Integers, Sequences, SequencesExt

Space == " "
Digit == "1"
Other == {".", ",", ":", "=", "(", ")", "-", ">", "|", "#"}
NoChar == "none"

IsIdentifierStart(c) == c \notin Other \cup {Space, Digit, NoChar}
IsIdentifierCont(c) == IsIdentifierStart(c) \/ c = Digit

Keywords == {"Definition", "Fixpoint", "Inductive", "Module", "End", "end", "match", "with",
             "forall", "let", "in", "as", "return", "fun", "fix", "for"}
Symbols == {".", ",", ":", "=", ":=", "(", ")", "->", "=>", "|"}
Invalid == "#"

Identifier(token) == token \notin Keywords \cup Symbols \cup {Invalid, "eof"}

(***************************************************************************)
(* The input: the characters not read yet, next_char_ and next_next_char_. *)
(***************************************************************************)
GetChar(rest) == IF rest = <<>> THEN NoChar ELSE Head(rest)
Unread(rest) == IF rest = <<>> THEN <<>> ELSE Tail(rest)

\* Fault: the character that was looked at is not used
NextCharSkips(in) ==
  [rest |-> Unread(in.rest), next |-> GetChar(in.rest), nextnext |-> NoChar]

NextChar(in) ==
  IF in.nextnext # NoChar
  THEN [rest |-> in.rest, next |-> in.nextnext, nextnext |-> NoChar]
  ELSE [rest |-> Unread(in.rest), next |-> GetChar(in.rest), nextnext |-> NoChar]

NextNextChar(in) == [in EXCEPT !.rest = Unread(@), !.nextnext = GetChar(in.rest)]

OpenText(text) == NextChar([rest |-> text, next |-> NoChar, nextnext |-> NoChar])

(***************************************************************************)
(* continue_parsing: a token and the input after it.                       *)
(***************************************************************************)
Token(token, in) == [token |-> token, in |-> in]

RECURSIVE SkipSpace(_), ScanIdentifier(_, _), ScanSymbol(_, _)

SkipSpace(in) == IF in.next = Space THEN SkipSpace(NextChar(in)) ELSE in

\* A dot belongs to an identifier if another one follows it.
ScanIdentifier(in, id) ==
  LET read == NextChar(in)
      dot == NextNextChar(read)
      longer == id \o in.next
  IN  IF read.next = "."
      THEN IF IsIdentifierStart(dot.nextnext) THEN ScanIdentifier(dot, longer)
           ELSE Token(longer, dot)
      ELSE IF IsIdentifierCont(read.next) THEN ScanIdentifier(read, longer)
      ELSE Token(longer, read)

ScanSymbol(in, sym) ==
  LET read == NextChar(in)
      longer == sym \o in.next
  IN  IF read.next # NoChar /\ longer \o read.next \in Symbols THEN ScanSymbol(read, longer)
      ELSE Token(IF longer \in Symbols THEN longer ELSE Invalid, read)

ContinueParsing(in) ==
  LET at == SkipSpace(in)
  IN  IF at.next = NoChar THEN Token("eof", at)
      ELSE IF IsIdentifierStart(at.next) THEN ScanIdentifier(at, "")
      ELSE ScanSymbol(at, "")

\* All tokens, as get returns them one after the other
RECURSIVE TokensFrom(_)
TokensFrom(in) ==
  LET read == ContinueParsing(in)
  IN  IF read.token = "eof" THEN <<>> ELSE <<read.token>> \o TokensFrom(read.in)

Tokens(text) == TokensFrom(OpenText(text))
=============================================================================
