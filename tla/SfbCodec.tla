------------------------------ MODULE SfbCodec -------------------------------
(***************************************************************************)
(* Structure field bodies (sfb.h) as s-expressions: what the Coq plugin    *)
(* writes for the fields of a module and what sfb_from_sexpr makes of it,  *)
(* with the fixpoint group that consecutive definitions share.             *)
(***************************************************************************)
EXTENDS TermCodec

NullGroup == -1            \* no shared_ptr to a group
NoType == [k |-> "notype"]

(***************************************************************************)
(* Construction (namespace builder).  The group of a definition that is a  *)
(* fixpoint stands for the pointer to its fix_group_t: the location of the *)
(* Fix expression that the group was read from.                            *)
(***************************************************************************)
definition(id, type, value, group) ==
  [k |-> "definition", id |-> id, type |-> type, value |-> value, group |-> group]
axiom(id, type) == [k |-> "axiom", id |-> id, type |-> type]
\* ones is a sequence of [id, type, constructors], constructors one of [id, type]
inductive(ones) == [k |-> "inductive", ones |-> ones]
module_def(id, body) == [k |-> "module", id |-> id, body |-> body]
module_type_def(id, body) == [k |-> "moduletype", id |-> id, body |-> body]

modexpr(name, args) == [k |-> "modexpr", name |-> name, args |-> args]
\* parameters is a sequence of [id, type], types are modexprs
algebraic(parameters, expr) == [k |-> "algebraic", parameters |-> parameters, expr |-> expr]
structure(parameters, type, fields) ==
  [k |-> "struct", parameters |-> parameters, type |-> type, fields |-> fields]

(***************************************************************************)
(* The plugin: build_structure_field_body_sexpr and what it calls.         *)
(***************************************************************************)
\* build_modalgexpr_sexpr
WriteModexpr(e) == FoldLeft(LAMBDA fn, arg : C("Apply", <<fn, T(arg)>>), T(e.name), e.args)

\* MoreFunctor, once for each parameter
WriteFunctor(parameters, body) ==
  FoldRight(LAMBDA p, rest : C("Functor", <<T(p.id), WriteModexpr(p.type), rest>>),
            parameters, body)

\* build_inductive_sexpr
WriteOneInductive(one) ==
  C("OneInductive", <<T(one.id), Exported(one.type)>>
     \o [i \in DOMAIN one.constructors |->
           C("Constructor", <<T(one.constructors[i].id), Exported(one.constructors[i].type)>>)])

RECURSIVE WriteField(_)

\* build_modsig_sexpr
WriteModsig(body) ==
  WriteFunctor(body.parameters,
               C("Body", [i \in DOMAIN body.fields |-> WriteField(body.fields[i])]))

\* build_module_body_sexpr
WriteModuleBody(body) ==
  CASE body.k = "algebraic" ->
         C("Algebraic", <<WriteFunctor(body.parameters, WriteModexpr(body.expr))>>)
    [] body.k = "struct" ->
         C("Struct", <<IF body.type = NoType THEN C("Untyped", <<>>)
                       ELSE C("Typed", <<WriteFunctor(body.parameters, WriteModexpr(body.type))>>),
                       WriteModsig(body)>>)

WriteField(f) ==
  CASE f.k = "definition" -> C("Definition", <<T(f.id), Exported(f.type), Exported(f.value)>>)
    [] f.k = "axiom" -> C("Axiom", <<T(f.id), Exported(f.type)>>)
    [] f.k = "inductive" ->
         C("Inductive", [i \in DOMAIN f.ones |-> WriteOneInductive(f.ones[i])])
    [] f.k = "module" -> C("Module", <<T(f.id), WriteModuleBody(f.body)>>)
    [] f.k = "moduletype" -> C("ModuleType", <<T(f.id), WriteModsig(f.body)>>)

(***************************************************************************)
(* The reader.                                                             *)
(***************************************************************************)
\* constructor_from_sexpr
ConstructorFrom(e) ==
  IF ~IsKind(e, "Constructor", 2) THEN Error(e)
  ELSE LET id == StringFrom(e.args[1])
           type == FromSexpr(e.args[2])
       IN  Checked(<<id, type>>, [k |-> "constructor", id |-> id.value, type |-> type])

\* one_inductive_from_sexpr
OneInductiveFrom(e) ==
  IF IsTerminal(e) \/ e.kind # "OneInductive" \/ Len(e.args) < 2 THEN Error(e)
  ELSE LET id == StringFrom(e.args[1])
           type == FromSexpr(e.args[2])
           constructors == Each(ConstructorFrom, SubSeq(e.args, 3, Len(e.args)))
       IN  Checked(<<id, type>> \o constructors,
                   [k |-> "one", id |-> id.value, type |-> type, constructors |-> constructors])

\* modexpr_from_sexpr
RECURSIVE ModexprFrom(_)
ModexprFrom(e) ==
  IF IsTerminal(e) THEN modexpr(e.value, <<>>)
  ELSE IF ~IsKind(e, "Apply", 2) THEN Error(e)
  ELSE LET inner == ModexprFrom(e.args[1])
           arg == StringFrom(e.args[2])
       IN  Checked(<<inner, arg>>, modexpr(inner.name, Append(inner.args, arg.value)))

\* What a functor adds to its body: a parameter, after those of the body
AddParameter(inner, id, type) ==
  [inner EXCEPT !.parameters = Append(@, [id |-> id.value, type |-> type])]

\* functored_modexpr_from_sexpr; the parameters are last one first
RECURSIVE FunctoredFrom(_)
FunctoredFrom(e) ==
  IF ~IsTerminal(e) /\ e.kind = "Functor"
  THEN IF Len(e.args) # 3 THEN Error(e)
       ELSE LET id == StringFrom(e.args[1])
                type == ModexprFrom(e.args[2])
                inner == FunctoredFrom(e.args[3])
            IN  Checked(<<id, type, inner>>, AddParameter(inner, id, type))
  ELSE LET expr == ModexprFrom(e)
       IN  Checked(<<expr>>, [k |-> "functored", parameters |-> <<>>, expr |-> expr])

NoGroup == [at |-> NullGroup, functions |-> <<>>]

\* The group of a fixpoint that was read from e
GroupOf(t, e) == [at |-> e.location, functions |-> [sub |-> t.sub, arity |-> t.arity]]

RECURSIVE HasFix(_)
HasFix(t) == ~IsLeaf(t) /\ (t.k = "fix" \/ \E i \in DOMAIN t.sub : HasFix(t.sub[i]))

\* Fault: a group always counts as the one before
SameGroupAlways(a, b) == TRUE

\* fix_group_t::operator==.  Fixpoints inside of the functions are compared by
\* pointer, so those of two groups that were read differ.
SameGroup(a, b) ==
  /\ a.functions = b.functions
  /\ \A i \in DOMAIN a.functions.sub : ~HasFix(a.functions.sub[i])

\* A field, or an error, and last_fix afterwards
Answer(field, last) == [field |-> field, last |-> last]

DefinitionFrom(e, last) ==
  IF Len(e.args) # 3 THEN Answer(Error(e), last)
  ELSE LET id == StringFrom(e.args[1])
           type == FromSexpr(e.args[2])
           value == FromSexpr(e.args[3])
           own == GroupOf(value, e.args[3])
           group == IF last # NoGroup /\ SameGroup(own, last) THEN last ELSE own
       IN  IF ~IsError(value) /\ value.k = "fix"
           THEN Answer(Checked(<<id, type>>, definition(id.value, type, value, group.at)),
                       IF IsError(id) \/ IsError(type) THEN last ELSE group)
           ELSE Answer(Checked(<<id, type, value>>, definition(id.value, type, value, NullGroup)), last)

RECURSIVE FieldFrom(_, _), ModsigFrom(_), FieldsFrom(_, _)

\* The fields of a Body, each with the last_fix that the ones before it leave
FieldsFrom(args, last) ==
  IF args = <<>> THEN <<>>
  ELSE LET answer == FieldFrom(Head(args), last)
       IN  <<answer.field>> \o FieldsFrom(Tail(args), answer.last)

\* modsig_from_sexpr, a Functor of three arguments; the parameters are last one first
ModsigFrom(e) ==
  IF IsTerminal(e) THEN Error(e)
  ELSE CASE e.kind = "Body" ->
              LET fields == FieldsFrom(e.args, NoGroup)
              IN  Checked(fields, [k |-> "modsig", parameters |-> <<>>, fields |-> fields])
         [] e.kind = "Functor" ->
              LET id == StringFrom(e.args[1])
                  type == FunctoredFrom(e.args[2])
                  inner == ModsigFrom(e.args[3])
              IN  Checked(<<id, type, inner>>, AddParameter(inner, id, type.expr))
         [] OTHER -> Error(e)

\* optional_mod_type_from_sexpr; the parameters of the type are dropped
OptionalTypeFrom(e) ==
  IF ~IsTerminal(e) /\ e.kind = "Untyped" THEN [k |-> "untyped", expr |-> NoType]
  ELSE IF IsKind(e, "Typed", 1) THEN FunctoredFrom(e.args[1]) ELSE Error(e)

\* Fault: the parameters stay last one first
StructBackwards(modsig, type) == structure(modsig.parameters, type, modsig.fields)

\* A module_body_struct_repr with its parameters
Struct(modsig, type) == structure(Reverse(modsig.parameters), type, modsig.fields)

\* module_body_from_sexpr
ModuleBodyFrom(e) ==
  CASE IsKind(e, "Algebraic", 1) ->
         LET expr == FunctoredFrom(e.args[1])
         IN  Checked(<<expr>>, algebraic(Reverse(expr.parameters), expr.expr))
    [] IsKind(e, "Struct", 2) ->
         LET type == OptionalTypeFrom(e.args[1])
             modsig == ModsigFrom(e.args[2])
         IN  Checked(<<type, modsig>>, Struct(modsig, type.expr))
    [] OTHER -> Error(e)

AxiomFrom(e) ==
  IF Len(e.args) # 2 THEN Error(e)
  ELSE LET id == StringFrom(e.args[1])
           type == FromSexpr(e.args[2])
       IN  Checked(<<id, type>>, axiom(id.value, type))

InductiveFrom(e) ==
  IF e.args = <<>> THEN Error(e)
  ELSE LET ones == Each(OneInductiveFrom, e.args)
       IN  Checked(ones, inductive(ones))

ModuleFrom(e) ==
  IF Len(e.args) # 2 THEN Error(e)
  ELSE LET id == StringFrom(e.args[1])
           body == ModuleBodyFrom(e.args[2])
       IN  Checked(<<id, body>>, module_def(id.value, body))

ModuleTypeFrom(e) ==
  IF Len(e.args) # 2 THEN Error(e)
  ELSE LET id == StringFrom(e.args[1])
           modsig == ModsigFrom(e.args[2])
       IN  Checked(<<id, modsig>>, module_type_def(id.value, Struct(modsig, NoType)))

\* sfb_from_sexpr
FieldFrom(e, last) ==
  IF IsTerminal(e) THEN Answer(Error(e), last)
  ELSE CASE e.kind = "Definition" -> DefinitionFrom(e, last)
         [] e.kind = "Axiom" -> Answer(AxiomFrom(e), last)
         [] e.kind = "Inductive" -> Answer(InductiveFrom(e), last)
         [] e.kind = "Module" -> Answer(ModuleFrom(e), last)
         [] e.kind = "ModuleType" -> Answer(ModuleTypeFrom(e), last)
         [] OTHER -> Answer(Error(e), last)

SfbFrom(e) == FieldFrom(e, NoGroup).field

\* sfb_from_sexpr_str
SfbFromText(s) ==
  LET e == ParseSexpr(s)
  IN  IF e.ok THEN SfbFrom(e.value) ELSE [k |-> "error", location |-> e.location]
=============================================================================
