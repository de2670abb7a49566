------------------------------ MODULE CodecOps -------------------------------
(***************************************************************************)
(* What writing as text and reading must do to every term that the client  *)
(* of TermOps builds, and to modules whose fields are about that term.     *)
(***************************************************************************)
EXTENDS TermOps, SfbCodec

(***************************************************************************)
(* Properties of every term that can be built.                             *)
(***************************************************************************)

\* All sub-expressions of e, e included
RECURSIVE Parts(_)
Parts(e) ==
  IF IsTerminal(e) THEN {e} ELSE {e} \cup UNION {Parts(e.args[i]) : i \in DOMAIN e.args}

\* The text of an expression at its location in a text
StartsAt(text, location, s) == SubSeq(s, location + 1, location + Len(text)) = text

\* The text of an expression is read as that expression, and each part of it has
\* the location where its text begins, which is what errors refer to.
TextIsRead ==
  \A text \in {Format(ToSexpr(term))} : \A read \in {ParseSexpr(<<Blank>> \o text \o <<Blank>>)} :
    /\ read.ok
    /\ Format(read.value) = text
    /\ height < MaxHeight =>
         \A part \in Parts(read.value) :
           StartsAt(Format(part), part.location, <<Blank>> \o text)

\* A text that ends early is never taken for an expression, wherever it ends,
\* and the error is located at its end.
TruncationIsNoticed ==
  height < MaxHeight =>
    LET text == Format(ToSexpr(term))
    IN  \A n \in 0 .. Len(text) - 1 :
          LET read == FromText(SubSeq(text, 1, n)) IN IsError(read) /\ read.location = n

\* The functions of a fixpoint, in all of t
RECURSIVE Functions(_)
Functions(t) ==
  IF IsLeaf(t) THEN {}
  ELSE UNION {Functions(t.sub[i]) : i \in DOMAIN t.sub}
         \cup (IF t.k = "fix" THEN {<<t, f>> : f \in DOMAIN t.arity} ELSE {})

\* The types of the group do not mention its functions, and its arguments are all
\* there are: not a further one in the type that the body has as well.
InKernel(t) ==
  \A <<g, f>> \in Functions(t) :
    LET n == Len(g.arity)
        args == FormalArgs(g, f)
        functions(bound) == {bound + i : i \in 0 .. n - 1}
    IN  /\ \A i \in DOMAIN args : Free(args[i]) \cap functions(i - 1) = {}
        /\ Free(RestypeOf(g, f)) \cap functions(Len(args)) = {}
        /\ ~(RestypeOf(g, f).k = "product" /\ BodyOf(g, f).k = "lambda")

\* No result type of a function depends on the function's arguments
ResultsIndependent(t) ==
  \A <<g, f>> \in Functions(t) :
    Free(RestypeOf(g, f)) \cap (0 .. g.arity[f] - 1) = {}

Readable(t) == InKernel(t) /\ ResultsIndependent(t)

\* What the plugin writes for a term is read as this term, if no result type of a
\* function depends on its arguments: in one that does, the reader shifts the
\* indices of the arguments as well.
ReadsIndependent ==
  Readable(term) => Curry(FromText(Format(Exported(term)))) = Curry(term)

\* What the library writes it reads back, if result types in fixpoints have no
\* free variables at all (validate_constr_roundtrip in to_sexpr_test.cc).
RoundTrip ==
  (InKernel(term) /\ \A <<g, f>> \in Functions(term) : Free(RestypeOf(g, f)) = {})
    => Curry(FromSexpr(ToSexpr(term))) = Curry(term)

\* All expressions that differ from e in one compound which lacks its last
\* argument, each with the location of that compound and whether it is (part of)
\* a branch of a match
RECURSIVE Damaged(_)
Damaged(e) ==
  IF IsTerminal(e) THEN {}
  ELSE (IF e.args = <<>> \/ e.kind \in {"App", "Branches", "Fix"} THEN {}
        ELSE {[expr |-> [e EXCEPT !.args = Front(@)], location |-> e.location,
               inBranch |-> FALSE]})
       \cup UNION {{[expr |-> [e EXCEPT !.args[i] = d.expr], location |-> d.location,
                     inBranch |-> d.inBranch \/ e.kind = "Branches"] :
                       d \in Damaged(e.args[i])} : i \in DOMAIN e.args}

\* However deep in a term an argument is missing, the reader answers with an
\* error, not with a part of the term; and the error points to where the argument
\* is missing, if that is not in a branch of a match (see BranchesFrom).
DamageIsLocated ==
  height < MaxHeight =>
    \A d \in Damaged(ParseSexpr(Format(ToSexpr(term))).value) :
      LET read == FromSexpr(d.expr)
      IN  IsError(read) /\ (~d.inBranch => read.location = d.location)

(***************************************************************************)
(* Properties of modules.                                                  *)
(***************************************************************************)
Set == global("Set")

\* A module with two parameters and a type, and every kind of field
Module(t) ==
  LET parameters == <<[id |-> "X", type |-> modexpr("S", <<>>)],
                      [id |-> "Y", type |-> modexpr("T", <<"X", "X">>)]>>
      cons(id) == [k |-> "constructor", id |-> id, type |-> t]
  IN  module_def("M",
        structure(parameters, modexpr("U", <<"X", "Y">>),
          <<axiom("a", t),
            inductive(<<[k |-> "one", id |-> "i", type |-> Set,
                         constructors |-> <<cons("c"), cons("d")>>],
                        [k |-> "one", id |-> "j", type |-> t, constructors |-> <<>>]>>),
            module_type_def("N", structure(parameters, NoType, <<axiom("b", t)>>)),
            module_def("A", algebraic(parameters, modexpr("F", <<"Y", "X">>))),
            module_def("B", structure(<<>>, NoType, <<>>))>>))

\* A module is read as it is in the kernel: fields, constructors and parameters
\* in order, the parameters of each functor with their own types.
ReadsModules ==
  Readable(term) /\ Curry(term) = term =>
    SfbFrom(WriteField(Module(term))) = Module(term)

\* A definition whose value is a function of the group of fixpoint t
FixDefinition(t, index) ==
  definition("f", Set, [t EXCEPT !.entry = index], NullGroup)

ReadFields(fields) ==
  SfbFromText(Format(WriteField(module_def("M", structure(<<>>, NoType, fields))))).body.fields

\* The plugin writes a mutual fixpoint as one definition for each function, with
\* all of the group.  Definitions of one group share it when they are read, if no
\* other fixpoint is defined between them in this module, and no others do.
\* (Fixpoint terms are compared by the pointers to their groups.)
GroupsAreShared ==
  (Readable(term) /\ term.k = "fix" /\ ~\E i \in DOMAIN term.sub : HasFix(term.sub[i])) =>
    LET other == fix(0, <<[args |-> <<>>, restype |-> Set, body |-> global("O")]>>)
        inner == module_def("B", structure(<<>>, NoType, <<FixDefinition(other, 0)>>))
    IN  \A read \in {ReadFields(<<FixDefinition(term, 0), axiom("a", term), inner,
                                  FixDefinition(term, 1), FixDefinition(other, 0),
                                  FixDefinition(term, 0)>>)} :
          /\ read[1].group = read[4].group
          /\ Cardinality({read[1].group, read[5].group, read[6].group,
                          read[3].body.fields[1].group}) = 4
=============================================================================
