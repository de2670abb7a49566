----------------------------- MODULE SymbolTable -----------------------------
(***************************************************************************)
(* parse_sfb (coqcic/minigallina.cc): definitions, inductives, fixpoints   *)
(* and modules are read one after the other, in calls that share a         *)
(* parse_symtab_t. Each finds the globals it mentions in the table, or in  *)
(* the caller's resolvers, and adds what it declares under its module's    *)
(* name.                                                                   *)
(*                                                                         *)
(* An identifier is the sequence of its segments, as a token may contain   *)
(* dots; the empty one (Sort) stands for a type headed by no global. A     *)
(* type is abstracted to the global at its head, what inductive_resolve    *)
(* looks for below applications. A declaration carries the identifiers     *)
(* that no binder of a term takes, and the matches in it.                  *)
(***************************************************************************)
EXTENDS Integers, Sequences, FiniteSets, SequencesExt

CONSTANTS
  Segments,                            \* the parts of identifiers
  Definitions, Inductives, Fixpoints,  \* the declarations that may be read,
  Modules,                             \* and the identifiers of modules
  ExternalTypes,       \* globals_resolve: identifier -> head of its type
  ExternalInductives,  \* inductive_resolve: identifier -> its constructors
  MaxFields, MaxDepth  \* bounds: declarations accepted, nesting of modules

Sort == <<>>

ASSUME ExternalAssumption == DOMAIN ExternalInductives \subseteq DOMAIN ExternalTypes
Identifiers == Seq(Segments) \ {Sort}

\* A group, and the constructors of an inductive, are sequences.
ASSUME ModulesAssumption == Modules \subseteq Identifiers
ASSUME DefinitionsAssumption == \A d \in Definitions : d.id \in Identifiers
ASSUME InductivesAssumption == \A group \in Inductives :
  /\ group \in Seq(Range(group))
  /\ \A i \in DOMAIN group :
       /\ group[i].id \in Identifiers
       /\ group[i].constructors \in Seq(Range(group[i].constructors))
       /\ \A c \in DOMAIN group[i].constructors : group[i].constructors[c].id \in Identifiers
ASSUME FixpointsAssumption == \A group \in Fixpoints :
  /\ group \in Seq(Range(group))
  /\ \A i \in DOMAIN group : group[i].id \in Identifiers
ASSUME BoundsAssumption == MaxFields \in Nat /\ MaxDepth \in Nat

VARIABLES
  types, inductives,  \* symtab.id_to_type and symtab.id_to_inductive
  modules,            \* mod_context of each parse_sfb_module in progress
  result,             \* of the last call, or "parsing"
  log,                \* every declaration that was accepted, in order,
  pending, lost       \* those in open modules, and in modules that failed

symtab == <<types, inductives>>
vars == <<types, inductives, modules, result, log, pending, lost>>

(***************************************************************************)
(* Names.                                                                  *)
(***************************************************************************)
MakeModId(context, id) == context \o id

\* Fault: only the innermost module qualifies what it contains
SubModContextInnermost(context, id) == id

SubModContext(context, id) == MakeModId(context, id)

Context == IF modules = <<>> THEN <<>> ELSE Last(modules)

(***************************************************************************)
(* The table. An entry remembers the declaration it comes from (field).    *)
(***************************************************************************)
\* Fault: insertion that leaves an existing type alone
AssignKeeps(map, entries) ==
  [n \in DOMAIN map \cup DOMAIN entries |->
     IF n \in DOMAIN map THEN map[n] ELSE entries[n]]

\* map[n] = entry
Assign(map, entries) ==
  [n \in DOMAIN map \cup DOMAIN entries |->
     IF n \in DOMAIN entries THEN entries[n] ELSE map[n]]

\* map.emplace(n, entry)
Emplace(map, entries) ==
  [n \in DOMAIN map \cup DOMAIN entries |->
     IF n \in DOMAIN map THEN map[n] ELSE entries[n]]

\* A field declares sequences of identifiers, for an inductive one for each type in
\* its group. Position p is number p[2] in sequence number p[1].
Positions(decls) == UNION {{<<i, j>> : j \in DOMAIN decls[i]} : i \in DOMAIN decls}
At(decls, p) == decls[p[1]][p[2]]
Before(p, q) == p[1] < q[1] \/ (p[1] = q[1] /\ p[2] < q[2])

Field == Len(log) + 1
DeclaredNames(decls) == {At(decls, p).name : p \in Positions(decls)}
PositionsOf(decls, n) == {p \in Positions(decls) : At(decls, p).name = n}
LastOf(decls, n) == CHOOSE p \in PositionsOf(decls, n) :
  \A q \in PositionsOf(decls, n) : q = p \/ Before(q, p)

Names(inds) == {inds[i].name : i \in DOMAIN inds}
FirstOf(inds, n) == CHOOSE i \in DOMAIN inds :
  inds[i].name = n /\ \A j \in 1 .. i - 1 : inds[j].name # n

TypeEntries(decls) == [n \in DeclaredNames(decls) |->
  [field |-> Field, type |-> At(decls, LastOf(decls, n)).type]]
InductiveEntries(inds) == [n \in Names(inds) |->
  [field |-> Field, constructors |-> inds[FirstOf(inds, n)].constructors]]

(***************************************************************************)
(* combined_globals_resolve and combined_inductive_resolve.                *)
(***************************************************************************)
Global(n) == n \in DOMAIN types \cup DOMAIN ExternalTypes
TypeOf(n) == IF n \in DOMAIN types THEN types[n].type ELSE ExternalTypes[n]
FieldOf(n) == IF n \in DOMAIN types THEN types[n].field ELSE 0
TypeResolves(t) == t = Sort \/ Global(t)

Inductive(t) == t \in DOMAIN inductives \cup DOMAIN ExternalInductives

\* Fault: the name is looked up without the prefix of its module
FindInductiveStripped(t) ==
  IF t # Sort /\ <<Last(t)>> \in DOMAIN inductives THEN inductives[<<Last(t)>>]
  ELSE IF t \in DOMAIN inductives THEN inductives[t]
  ELSE [field |-> 0, constructors |-> ExternalInductives[t]]

FindInductive(t) ==
  IF t \in DOMAIN inductives THEN inductives[t]
  ELSE [field |-> 0, constructors |-> ExternalInductives[t]]

\* A match on something of type t with these branches
MatchResolves(t, branches) ==
  Inductive(t) /\ branches \subseteq FindInductive(t).constructors

\* What a match relied on: owner declared what is matched, found its cases
Match(owner, t) == [owner |-> owner, type |-> t, found |-> FindInductive(t).field]

(***************************************************************************)
(* How a call ends. Within a module, its loop goes on with the next field, *)
(* and an error ends the calls of all the open modules.                    *)
(***************************************************************************)
\* A declaration is entered in the table, its node goes to the caller.
Accept(decls, inds, matches) ==
  /\ types' = Assign(types, TypeEntries(decls))
  /\ inductives' = Emplace(inductives, InductiveEntries(inds))
  /\ log' = Append(log, [context |-> Context, declares |-> decls,
                         inductives |-> inds, matches |-> matches])
  /\ result' = IF modules = <<>> THEN "field" ELSE "parsing"
  /\ pending' = IF modules = <<>> THEN pending ELSE pending \cup {Field}
  /\ UNCHANGED <<modules, lost>>

Fail ==
  /\ modules' = <<>>
  /\ lost' = lost \cup pending
  /\ pending' = {}
  /\ result' = "error"
  /\ UNCHANGED <<symtab, log>>

(***************************************************************************)
(* parse_sfb_definition. d.matches are the matches on a global in the      *)
(* expression, d.uses the other identifiers in it.                         *)
(***************************************************************************)
DefinitionResolves(d) ==
  /\ TypeResolves(d.type)
  /\ \A n \in d.uses : Global(n)
  /\ \A m \in d.matches : Global(m.value) /\ MatchResolves(TypeOf(m.value), m.branches)

DefinitionDeclares(d) == <<<<[name |-> MakeModId(Context, d.id), type |-> d.type]>>>>

\* Fault: the type is entered before the expression is read
DefinitionTypeFirst(d) ==
  \/ /\ DefinitionResolves(d)
     /\ Accept(DefinitionDeclares(d), <<>>,
               {Match(FieldOf(m.value), TypeOf(m.value)) : m \in d.matches})
  \/ /\ ~DefinitionResolves(d) /\ TypeResolves(d.type)
     /\ types' = Assign(types, TypeEntries(DefinitionDeclares(d)))
     /\ log' = Append(log, [context |-> Context, declares |-> DefinitionDeclares(d),
                            inductives |-> <<>>, matches |-> {}])
     /\ modules' = <<>> /\ result' = "error" /\ inductives' = inductives
     /\ lost' = lost \cup pending \cup {Field} /\ pending' = {}

Definition(d) ==
  \/ /\ DefinitionResolves(d)
     /\ Accept(DefinitionDeclares(d), <<>>,
               {Match(FieldOf(m.value), TypeOf(m.value)) : m \in d.matches})
  \/ ~DefinitionResolves(d) /\ Fail

(***************************************************************************)
(* parse_sfb_inductive. The group's own names, as they are written, are    *)
(* globals for the types of its constructors and for nothing else.         *)
(***************************************************************************)
OwnNames(group) == {group[i].id : i \in DOMAIN group}

InductiveResolves(group) ==
  \A i \in DOMAIN group :
    /\ \A t \in group[i].args \cup {group[i].type} : TypeResolves(t)
    /\ \A c \in DOMAIN group[i].constructors :
         LET t == group[i].constructors[c].type
         IN  t \in OwnNames(group) \/ TypeResolves(t)

\* Fault: only the types are entered under the module's name
InductiveTypesBareConstructors(group) == [i \in DOMAIN group |->
  <<[name |-> MakeModId(Context, group[i].id), type |-> group[i].type]>> \o
  [c \in DOMAIN group[i].constructors |->
     [name |-> group[i].constructors[c].id, type |-> group[i].constructors[c].type]]]

\* The identifiers as they are entered: each type, then its constructors
InductiveTypes(group) == [i \in DOMAIN group |->
  <<[name |-> MakeModId(Context, group[i].id), type |-> group[i].type]>> \o
  [c \in DOMAIN group[i].constructors |->
     [name |-> MakeModId(Context, group[i].constructors[c].id),
      type |-> group[i].constructors[c].type]]]

Constructors(oind) == {oind.constructors[c].id : c \in DOMAIN oind.constructors}

\* Fault: inductives are entered under the name that is written
InductiveCasesAsWritten(group) == [i \in DOMAIN group |->
  [name |-> group[i].id, constructors |-> Constructors(group[i])]]

InductiveCases(group) == [i \in DOMAIN group |->
  [name |-> MakeModId(Context, group[i].id), constructors |-> Constructors(group[i])]]

InductiveGroup(group) ==
  \/ /\ InductiveResolves(group)
     /\ Accept(InductiveTypes(group), InductiveCases(group), {})
  \/ ~InductiveResolves(group) /\ Fail

(***************************************************************************)
(* parse_sfb_fixpoint. In the bodies, not in the signatures, the           *)
(* functions are locals. fn.matches are the matches in the body on the     *)
(* function's argument, whose type is fn.arg.                              *)
(***************************************************************************)
FixpointResolves(group) ==
  \A i \in DOMAIN group :
    /\ TypeResolves(group[i].arg) /\ TypeResolves(group[i].type)
    /\ \A n \in group[i].uses : n \in OwnNames(group) \/ Global(n)
    /\ \A branches \in group[i].matches : MatchResolves(group[i].arg, branches)

FixpointTypes(group) == <<[i \in DOMAIN group |->
  [name |-> MakeModId(Context, group[i].id), type |-> group[i].type]]>>

Fixpoint(group) ==
  \/ /\ FixpointResolves(group)
     /\ Accept(FixpointTypes(group), <<>>,
          {Match(FieldOf(group[i].arg), group[i].arg) :
             i \in {j \in DOMAIN group : group[j].matches # {}}})
  \/ ~FixpointResolves(group) /\ Fail

(***************************************************************************)
(* parse_sfb_module. The identifier after End is not compared with the     *)
(* module's.                                                               *)
(***************************************************************************)
BeginModule(id) ==
  /\ Len(modules) < MaxDepth
  /\ modules' = Append(modules, SubModContext(Context, id))
  /\ result' = "parsing"
  /\ UNCHANGED <<symtab, log, pending, lost>>

EndModule ==
  /\ modules # <<>>
  /\ modules' = Front(modules)
  /\ result' = IF modules' = <<>> THEN "field" ELSE "parsing"
  /\ pending' = IF modules' = <<>> THEN {} ELSE pending
  /\ UNCHANGED <<symtab, log, lost>>

\* Anything a rule of the grammar does not expect, the end of the input too
SyntaxError == Fail

Init ==
  /\ types = <<>> /\ inductives = <<>>
  /\ modules = <<>> /\ result = "none"
  /\ log = <<>> /\ pending = {} /\ lost = {}

\* parse_sfb, of which the callers read one field after the other
Next ==
  \/ /\ Len(log) < MaxFields
     /\ \/ \E d \in Definitions : Definition(d)
        \/ \E group \in Inductives : InductiveGroup(group)
        \/ \E group \in Fixpoints : Fixpoint(group)
  \/ \E id \in Modules : BeginModule(id)
  \/ EndModule
  \/ SyntaxError

Spec == Init /\ [][Next]_vars

(***************************************************************************)
(* The history.                                                            *)
(***************************************************************************)
\* Where name n was declared before field k: pairs of field and position
Declared(n, k) == UNION {{<<f, p>> : p \in PositionsOf(log[f].declares, n)} : f \in 1 .. k - 1}

Unique(S) == \E x \in S : \A y \in S : y = x

\* n has had one meaning only when field k is read, as Coq itself demands
DeclaredOnce(n, k) == n \notin DOMAIN ExternalTypes /\ Unique(Declared(n, k))

TypeOK ==
  /\ \A n \in DOMAIN types : types[n].field \in DOMAIN log
  /\ \A n \in DOMAIN inductives : inductives[n].field \in DOMAIN log
  /\ result \in {"none", "field", "error", "parsing"}
  /\ result = "parsing" <=> modules # <<>>
  /\ \A i \in 2 .. Len(modules) : IsStrictPrefix(modules[i - 1], modules[i])
  /\ pending \subseteq DOMAIN log /\ lost \subseteq DOMAIN log \ pending
  /\ modules = <<>> => pending = {}

(***************************************************************************)
(* Safety.                                                                 *)
(***************************************************************************)
\* A name means its latest declaration, within one group the last, and every
\* declaration is in the table: those of nested and of failed modules too.
LatestWins ==
  /\ \A n \in DOMAIN types : Declared(n, Field) # {}
  /\ \A f \in DOMAIN log : DeclaredNames(log[f].declares) \subseteq DOMAIN types
  /\ \A n \in DOMAIN types : \E p \in Declared(n, Field) :
       /\ \A q \in Declared(n, Field) :
            q[1] < p[1] \/ (q[1] = p[1] /\ (q[2] = p[2] \/ Before(q[2], p[2])))
       /\ types[n].field = p[1] /\ types[n].type = At(log[p[1]].declares, p[2]).type

\* The two maps of the table, one of which overwrites and the other does not,
\* speak of the same inductive wherever its name was declared once; and no
\* inductive is known whose name has no type.
MapsAgree == \A n \in DOMAIN inductives :
  /\ n \in DOMAIN types
  /\ Unique(Declared(n, Field)) => types[n].field = inductives[n].field

\* A match on a constructor's value, or on an argument of an inductive type,
\* takes its cases from the very group of the declaration that is matched,
\* provided that the name of the type is its own and was declared once.
MatchesOwnGroup == \A f \in DOMAIN log : \A m \in log[f].matches :
  /\ m.owner > 0
  /\ m.type \in Names(log[m.owner].inductives)
  /\ DeclaredOnce(m.type, f)
  => m.found = m.owner

\* What a failed call leaves in the table are fields of modules it had read,
\* never the declaration that failed nor one outside of a module.
LeftoversAreOfModules == \A n \in DOMAIN types :
  types[n].field \in lost => log[types[n].field].context # <<>>

\* While modules are open, only names below the innermost change in either
\* map, however deep the nesting and whatever outer names it hides.
StaysInModule == [][
  \A n \in DOMAIN types' \cup DOMAIN inductives' :
    \/ n \in DOMAIN types /\ types'[n] = types[n]
       /\ (n \in DOMAIN inductives' => n \in DOMAIN inductives)
    \/ \A i \in DOMAIN modules : IsStrictPrefix(modules[i], n)]_vars

\* constr.cc:279 says of constr_global that "The reference is always made be
\* the (fully qualified) name": a type in the table mentions names of the table
\* or of the caller. parse_sfb_inductive leaves the group's own names in the
\* types of its constructors as they are written, without the module.
ReferencesAreQualified == \A n \in DOMAIN types :
  types[n].type = Sort \/ Global(types[n].type)
==============================================================================
