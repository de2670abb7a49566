------------------------- MODULE SymbolTableProofs --------------------------
(***************************************************************************)
(* What a failed call of parse_sfb leaves in the symbol table, and that    *)
(* the table is the history of what was declared: which declaration a name *)
(* and a match refer to, and what modules can change, for every set of     *)
(* declarations, every nesting and every length of input.                  *)
(***************************************************************************)
EXTENDS SymbolTable, WellFoundedInduction, TLAPS

\* The modules in progress have names, and the history is a sequence.
Shapes ==
  /\ modules \in Seq(Seq(Segments))
  /\ \A i \in DOMAIN modules : modules[i] # <<>>
  /\ \E S : log \in Seq(S)

\* Entries and fields of open and of failed modules refer to the history.
Recorded ==
  /\ \A n \in DOMAIN types : types[n].field \in DOMAIN log
  /\ pending \subseteq DOMAIN log /\ lost \subseteq DOMAIN log

\* Fields that are open or lost were read inside of a module.
OpenOrLost == \A f \in pending \cup lost : log[f].context # <<>>

IInv == Shapes /\ Recorded /\ OpenOrLost

\* The context of a field read in a module is not empty.
LEMMA ContextInModule ==
  ASSUME Shapes, modules # <<>>
  PROVE  Context # <<>>
BY DEF Shapes, Context, Last

\* Appending to the history keeps what it says of earlier fields.
LEMMA AppendKeeps ==
  ASSUME NEW s, \E S : s \in Seq(S), NEW x
  PROVE  /\ \E S : Append(s, x) \in Seq(S)
         /\ Len(s) + 1 \in DOMAIN Append(s, x)
         /\ DOMAIN s \subseteq DOMAIN Append(s, x)
         /\ \A i \in DOMAIN s : Append(s, x)[i] = s[i]
         /\ Append(s, x)[Len(s) + 1] = x
<1>1. PICK S : s \in Seq(S)
  OBVIOUS
<1>2. s \in Seq(S \cup {x}) /\ x \in S \cup {x}
  BY <1>1
<1>3. Append(s, x) \in Seq(S \cup {x})
  BY <1>2
<1> QED
  BY <1>2, <1>3

\* A declaration that is accepted keeps the invariant.
LEMMA AcceptKeeps ==
  ASSUME IInv, NEW decls, NEW inds, NEW matches, Accept(decls, inds, matches)
  PROVE  IInv'
<1> DEFINE field == [context |-> Context, declares |-> decls,
                     inductives |-> inds, matches |-> matches]
<1>1. log' = Append(log, field) /\ modules' = modules /\ lost' = lost
      /\ types' = Assign(types, TypeEntries(decls))
  BY DEF Accept
<1>2. /\ \E S : log' \in Seq(S)
      /\ Field \in DOMAIN log' /\ DOMAIN log \subseteq DOMAIN log'
      /\ \A f \in DOMAIN log : log'[f] = log[f]
      /\ log'[Field] = field
  <2> HIDE DEF field
  <2>1. \E S : log \in Seq(S)
    BY DEF IInv, Shapes
  <2>2. /\ \E S : Append(log, field) \in Seq(S)
        /\ Len(log) + 1 \in DOMAIN Append(log, field)
        /\ DOMAIN log \subseteq DOMAIN Append(log, field)
        /\ \A f \in DOMAIN log : Append(log, field)[f] = log[f]
        /\ Append(log, field)[Len(log) + 1] = field
    BY <2>1, AppendKeeps
  <2> QED
    BY <1>1, <2>2 DEF Field
<1>3. Shapes'
  BY <1>1, <1>2 DEF IInv, Shapes
<1>4. \A n \in DOMAIN types' : types'[n].field \in DOMAIN log'
  <2> SUFFICES ASSUME NEW n \in DOMAIN types'
               PROVE  types'[n].field \in DOMAIN log'
    OBVIOUS
  <2>1. CASE n \in DOMAIN TypeEntries(decls)
    <3>1. types'[n] = TypeEntries(decls)[n]
      BY <1>1, <2>1 DEF Assign
    <3>2. types'[n].field = Field
      BY <3>1, <2>1 DEF TypeEntries
    <3> QED
      BY <3>2, <1>2
  <2>2. CASE n \notin DOMAIN TypeEntries(decls)
    <3>1. n \in DOMAIN types /\ types'[n] = types[n]
      BY <1>1, <2>2 DEF Assign
    <3> QED
      BY <3>1, <1>2 DEF IInv, Recorded
  <2> QED
    BY <2>1, <2>2
<1>5. pending' \subseteq DOMAIN log' /\ lost' \subseteq DOMAIN log'
  BY <1>1, <1>2 DEF Accept, IInv, Recorded
<1>6. \A f \in pending' \cup lost' : log'[f].context # <<>>
  <2> SUFFICES ASSUME NEW f \in pending' \cup lost'
               PROVE  log'[f].context # <<>>
    OBVIOUS
  <2>1. CASE f \in pending \cup lost
    BY <1>2, <2>1 DEF IInv, Recorded, OpenOrLost
  <2>2. CASE f \notin pending \cup lost
    <3>1. f = Field /\ modules # <<>>
      BY <1>1, <2>2 DEF Accept
    <3>2. Context # <<>>
      BY <3>1, ContextInModule DEF IInv
    <3> QED
      BY <3>1, <3>2, <1>2
  <2> QED
    BY <2>1, <2>2
<1> QED
  BY <1>3, <1>4, <1>5, <1>6 DEF IInv, Recorded, OpenOrLost

\* An error keeps it: it enters nothing and loses what is open.
LEMMA FailKeeps ==
  ASSUME IInv, Fail
  PROVE  IInv'
<1>1. modules' = <<>> /\ log' = log /\ types' = types
      /\ pending' = {} /\ lost' = lost \cup pending
  BY DEF Fail, symtab
<1>2. Shapes'
  BY <1>1 DEF IInv, Shapes
<1> QED
  BY <1>1, <1>2 DEF IInv, Recorded, OpenOrLost

\* Opening a module keeps it: the name below the outer one is not empty.
LEMMA BeginModuleKeeps ==
  ASSUME IInv, NEW id \in Modules, BeginModule(id)
  PROVE  IInv'
<1>1. modules' = Append(modules, SubModContext(Context, id))
      /\ log' = log /\ types' = types /\ pending' = pending /\ lost' = lost
  BY DEF BeginModule, symtab
<1>2. Context \in Seq(Segments)
  <2>1. CASE modules = <<>>
    BY <2>1 DEF Context
  <2>2. CASE modules # <<>>
    BY <2>2 DEF IInv, Shapes, Context, Last
  <2> QED
    BY <2>1, <2>2
<1>3. id \in Seq(Segments) /\ id # <<>>
  BY ModulesAssumption DEF Identifiers, Sort
<1>4. SubModContext(Context, id) \in Seq(Segments) /\ SubModContext(Context, id) # <<>>
  BY <1>2, <1>3 DEF SubModContext, MakeModId
<1>5. Shapes'
  BY <1>1, <1>4 DEF IInv, Shapes
<1> QED
  BY <1>1, <1>5 DEF IInv, Recorded, OpenOrLost

\* Closing a module keeps it.
LEMMA EndModuleKeeps ==
  ASSUME IInv, EndModule
  PROVE  IInv'
<1>1. modules # <<>> /\ modules' = Front(modules)
      /\ log' = log /\ types' = types /\ lost' = lost /\ pending' \subseteq pending
  BY DEF EndModule, symtab
<1>2. Shapes'
  BY <1>1 DEF IInv, Shapes, Front
<1> QED
  BY <1>1, <1>2 DEF IInv, Recorded, OpenOrLost

\* Every reachable state satisfies the invariant.
THEOREM Invariance == Spec => []IInv
<1>1. Init => IInv
  <2> SUFFICES ASSUME Init PROVE IInv
    OBVIOUS
  <2>1. log \in Seq({})
    BY DEF Init
  <2> QED
    BY <2>1 DEF Init, IInv, Shapes, Recorded, OpenOrLost
<1>2. IInv /\ [Next]_vars => IInv'
  <2> SUFFICES ASSUME IInv, [Next]_vars
               PROVE  IInv'
    OBVIOUS
  <2>1. ASSUME NEW d \in Definitions, Definition(d) PROVE IInv'
    BY <2>1, AcceptKeeps, FailKeeps DEF Definition
  <2>2. ASSUME NEW group \in Inductives, InductiveGroup(group) PROVE IInv'
    BY <2>2, AcceptKeeps, FailKeeps DEF InductiveGroup
  <2>3. ASSUME NEW group \in Fixpoints, Fixpoint(group) PROVE IInv'
    BY <2>3, AcceptKeeps, FailKeeps DEF Fixpoint
  <2>4. ASSUME NEW id \in Modules, BeginModule(id) PROVE IInv'
    BY <2>4, BeginModuleKeeps
  <2>5. CASE EndModule
    BY <2>5, EndModuleKeeps
  <2>6. CASE SyntaxError
    BY <2>6, FailKeeps DEF SyntaxError
  <2>7. CASE UNCHANGED vars
    BY <2>7 DEF vars, symtab, IInv, Shapes, Recorded, OpenOrLost
  <2> QED
    BY <2>1, <2>2, <2>3, <2>4, <2>5, <2>6, <2>7 DEF Next
<1> QED
  BY <1>1, <1>2, PTL DEF Spec

\* A failed call leaves only fields of modules it had read completely, never
\* the declaration that failed nor one outside of a module.
THEOREM Leftovers == Spec => []LeftoversAreOfModules
<1>1. IInv => LeftoversAreOfModules
  BY DEF IInv, OpenOrLost, LeftoversAreOfModules
<1> QED
  BY <1>1, Invariance, PTL

(***************************************************************************)
(* Type correctness.                                                       *)
(***************************************************************************)
\* A declaration that is accepted is a new one: neither open nor lost before.
LEMMA AcceptIsTyped ==
  ASSUME IInv, TypeOK, NEW decls, NEW inds, NEW matches, Accept(decls, inds, matches)
  PROVE  TypeOK'
<1>1. IInv'
  BY AcceptKeeps
<1>2. modules' = modules /\ lost' = lost
      /\ result' = (IF modules = <<>> THEN "field" ELSE "parsing")
      /\ pending' = (IF modules = <<>> THEN pending ELSE pending \cup {Field})
      /\ inductives' = Emplace(inductives, InductiveEntries(inds))
  BY DEF Accept
<1>3. Field \in DOMAIN log' /\ Field \notin DOMAIN log /\ DOMAIN log \subseteq DOMAIN log'
  <2> DEFINE field == [context |-> Context, declares |-> decls,
                       inductives |-> inds, matches |-> matches]
  <2>1. log' = Append(log, field)
    BY DEF Accept
  <2> HIDE DEF field
  <2>2. PICK S : log \in Seq(S)
    BY DEF IInv, Shapes
  <2>3. Len(log) + 1 \notin DOMAIN log
    BY <2>2
  <2> QED
    BY <2>1, <2>2, <2>3, AppendKeeps DEF Field
<1>4. \A n \in DOMAIN inductives' : inductives'[n].field \in DOMAIN log'
  <2> SUFFICES ASSUME NEW n \in DOMAIN inductives'
               PROVE  inductives'[n].field \in DOMAIN log'
    OBVIOUS
  <2>1. CASE n \in DOMAIN inductives
    <3>1. inductives'[n] = inductives[n]
      BY <1>2, <2>1 DEF Emplace
    <3> QED
      BY <3>1, <2>1, <1>3 DEF TypeOK
  <2>2. CASE n \notin DOMAIN inductives
    <3>1. n \in DOMAIN InductiveEntries(inds) /\ inductives'[n] = InductiveEntries(inds)[n]
      BY <1>2, <2>2 DEF Emplace
    <3>2. inductives'[n].field = Field
      BY <3>1 DEF InductiveEntries
    <3> QED
      BY <3>2, <1>3
  <2> QED
    BY <2>1, <2>2
<1>5. pending' \subseteq DOMAIN log' /\ lost' \subseteq DOMAIN log' \ pending'
  BY <1>2, <1>3 DEF TypeOK
<1> QED
  BY <1>1, <1>2, <1>4, <1>5 DEF TypeOK, IInv, Recorded

\* An error closes all modules, and what was open is lost.
LEMMA FailIsTyped ==
  ASSUME IInv, TypeOK, Fail
  PROVE  TypeOK'
<1>1. modules' = <<>> /\ log' = log /\ types' = types /\ inductives' = inductives
      /\ pending' = {} /\ lost' = lost \cup pending /\ result' = "error"
  BY DEF Fail, symtab
<1> QED
  BY <1>1 DEF TypeOK

\* A module that is opened has a longer name than the one around it.
LEMMA BeginModuleIsTyped ==
  ASSUME IInv, TypeOK, NEW id \in Modules, BeginModule(id)
  PROVE  TypeOK'
<1> DEFINE inner == SubModContext(Context, id)
<1>1. modules' = Append(modules, inner) /\ result' = "parsing"
      /\ log' = log /\ types' = types /\ inductives' = inductives
      /\ pending' = pending /\ lost' = lost
  BY DEF BeginModule, symtab
<1>2. id \in Seq(Segments) /\ id # <<>> /\ modules \in Seq(Seq(Segments))
  BY ModulesAssumption DEF Identifiers, Sort, IInv, Shapes
<1>3. modules # <<>> => IsStrictPrefix(modules[Len(modules)], inner)
  <2> SUFFICES ASSUME modules # <<>>
               PROVE  IsStrictPrefix(modules[Len(modules)], inner)
    OBVIOUS
  <2> DEFINE outer == modules[Len(modules)]
  <2>1. outer \in Seq(Segments) /\ inner = outer \o id
    BY <1>2 DEF SubModContext, MakeModId, Context, Last
  <2>2. Len(outer) < Len(inner)
    BY <2>1, <1>2
  <2>3. SubSeq(outer, 1, Len(outer)) = SubSeq(inner, 1, Len(outer))
    BY <2>1, <1>2
  <2> QED
    BY <2>1, <2>2, <2>3 DEF IsStrictPrefix, IsPrefix
<1>4. \A i \in 2 .. Len(modules') : IsStrictPrefix(modules'[i - 1], modules'[i])
  <2> HIDE DEF inner
  <2> SUFFICES ASSUME NEW i \in 2 .. Len(modules')
               PROVE  IsStrictPrefix(modules'[i - 1], modules'[i])
    OBVIOUS
  <2>1. CASE i \in 2 .. Len(modules)
    <3>1. modules'[i - 1] = modules[i - 1] /\ modules'[i] = modules[i]
      BY <1>1, <1>2, <2>1
    <3> QED
      BY <3>1, <2>1 DEF TypeOK
  <2>2. CASE i \notin 2 .. Len(modules)
    <3>1. i = Len(modules) + 1 /\ modules # <<>>
      BY <1>1, <1>2, <2>2
    <3>2. modules'[i - 1] = modules[Len(modules)] /\ modules'[i] = inner
      BY <1>1, <1>2, <3>1
    <3> QED
      BY <3>1, <3>2, <1>3
  <2> QED
    BY <2>1, <2>2
<1>5. modules' # <<>>
  BY <1>1, <1>2
<1> QED
  BY <1>1, <1>4, <1>5 DEF TypeOK

\* When a module is closed those around it stay as they are.
LEMMA EndModuleIsTyped ==
  ASSUME IInv, TypeOK, EndModule
  PROVE  TypeOK'
<1>1. modules # <<>> /\ modules' = Front(modules)
      /\ result' = (IF modules' = <<>> THEN "field" ELSE "parsing")
      /\ pending' = (IF modules' = <<>> THEN {} ELSE pending)
      /\ log' = log /\ types' = types /\ inductives' = inductives /\ lost' = lost
  BY DEF EndModule, symtab
<1>2. \A i \in 2 .. Len(modules') : IsStrictPrefix(modules'[i - 1], modules'[i])
  <2>1. modules \in Seq(Seq(Segments))
    BY DEF IInv, Shapes
  <2>2. modules' = SubSeq(modules, 1, Len(modules) - 1)
    BY <1>1 DEF Front
  <2>3. Len(modules) - 1 \in 0 .. Len(modules)
    BY <1>1, <2>1
  <2>4. Len(modules') = Len(modules) - 1
    <3> DEFINE n == Len(modules) - 1
    <3>1. n \in 0 .. Len(modules) /\ modules' = SubSeq(modules, 1, n)
      BY <2>2, <2>3
    <3> HIDE DEF n
    <3>2. Len(SubSeq(modules, 1, n)) = n
      BY <2>1, <3>1
    <3> QED
      BY <3>1, <3>2 DEF n
  <2> SUFFICES ASSUME NEW i \in 2 .. Len(modules')
               PROVE  IsStrictPrefix(modules'[i - 1], modules'[i])
    OBVIOUS
  <2>5. i \in 2 .. Len(modules)
    BY <2>1, <2>4
  <2>6. modules'[i - 1] = modules[i - 1] /\ modules'[i] = modules[i]
    BY <2>1, <2>2, <2>3, <2>4
  <2> QED
    BY <2>5, <2>6 DEF TypeOK
<1> QED
  BY <1>1, <1>2 DEF TypeOK

\* Entries and fields refer to the history, modules are nested, and a field is open
\* only in an open module and lost only if it is not open any more.
THEOREM TypeCorrect == Spec => []TypeOK
<1>1. Init => TypeOK
  BY DEF Init, TypeOK
<1>2. IInv /\ TypeOK /\ [Next]_vars => TypeOK'
  <2> SUFFICES ASSUME IInv, TypeOK, [Next]_vars
               PROVE  TypeOK'
    OBVIOUS
  <2>1. ASSUME NEW d \in Definitions, Definition(d) PROVE TypeOK'
    BY <2>1, AcceptIsTyped, FailIsTyped DEF Definition
  <2>2. ASSUME NEW group \in Inductives, InductiveGroup(group) PROVE TypeOK'
    BY <2>2, AcceptIsTyped, FailIsTyped DEF InductiveGroup
  <2>3. ASSUME NEW group \in Fixpoints, Fixpoint(group) PROVE TypeOK'
    BY <2>3, AcceptIsTyped, FailIsTyped DEF Fixpoint
  <2>4. ASSUME NEW id \in Modules, BeginModule(id) PROVE TypeOK'
    BY <2>4, BeginModuleIsTyped
  <2>5. CASE EndModule
    BY <2>5, EndModuleIsTyped
  <2>6. CASE SyntaxError
    BY <2>6, FailIsTyped DEF SyntaxError
  <2>7. CASE UNCHANGED vars
    BY <2>7 DEF vars, symtab, TypeOK
  <2> QED
    BY <2>1, <2>2, <2>3, <2>4, <2>5, <2>6, <2>7 DEF Next
<1> QED
  BY <1>1, <1>2, Invariance, PTL DEF Spec


(***************************************************************************)
(* Last positions.                                                         *)
(***************************************************************************)
Bounded(S) == \E m \in Nat : S \subseteq 1 .. m

\* A bounded set of positive numbers has a greatest one, at the least distance
\* from the bound.
LEMMA Greatest ==
  ASSUME NEW S, Bounded(S), S # {}
  PROVE  \E x \in S : x \in Nat /\ \A y \in S : y \in Nat /\ y <= x
<1>1. PICK m \in Nat : S \subseteq 1 .. m
  BY DEF Bounded
<1> DEFINE T == {m - x : x \in S}
<1>2. T \subseteq Nat /\ T # {}
  <2>1. \A x \in S : m - x \in Nat
    BY <1>1
  <2> QED
    BY <2>1
<1>3. PICK d \in T : \A e \in T : ~ (<<e, d>> \in OpToRel(<, Nat))
  <2> HIDE DEF T
  <2> QED
    BY <1>2, NatLessThanWellFounded, WFMin
<1>4. \A e \in T : ~ (e < d)
  BY <1>2, <1>3 DEF OpToRel
<1>5. PICK x \in S : d = m - x
  OBVIOUS
<1>6. \A y \in S : y <= x
  <2> TAKE y \in S
  <2>1. m - y \in T
    OBVIOUS
  <2>2. ~ (m - y < m - x)
    BY <2>1, <1>4, <1>5
  <2> QED
    BY <2>2, <1>1
<1> QED
  BY <1>1, <1>6

\* The last position of a name that is declared
LEMMA LastExists ==
  ASSUME NEW decls, NEW n \in DeclaredNames(decls),
         Bounded(DOMAIN decls), \A i \in DOMAIN decls : Bounded(DOMAIN decls[i])
  PROVE  /\ LastOf(decls, n) \in PositionsOf(decls, n)
         /\ \A q \in PositionsOf(decls, n) :
              q = LastOf(decls, n) \/ Before(q, LastOf(decls, n))
<1> DEFINE P == PositionsOf(decls, n)
           Rows == {p[1] : p \in P}
<1>1. P # {}
  BY DEF DeclaredNames, PositionsOf
<1>2. \A p \in P : /\ p[1] \in DOMAIN decls /\ p[2] \in DOMAIN decls[p[1]]
                   /\ p = <<p[1], p[2]>>
  BY DEF PositionsOf, Positions
<1>3. Bounded(Rows) /\ Rows # {}
  BY <1>1, <1>2 DEF Bounded
<1>4. PICK i \in Rows : i \in Nat /\ \A k \in Rows : k \in Nat /\ k <= i
  <2> HIDE DEF Rows
  <2> QED
    BY <1>3, Greatest
<1> DEFINE Cells == {p[2] : p \in {q \in P : q[1] = i}}
<1>5. Bounded(Cells) /\ Cells # {}
  <2>1. i \in DOMAIN decls
    BY <1>2
  <2>2. Cells \subseteq DOMAIN decls[i]
    BY <1>2
  <2>3. Cells # {}
    BY <1>4
  <2> QED
    BY <2>1, <2>2, <2>3 DEF Bounded
<1>6. PICK j \in Cells : j \in Nat /\ \A k \in Cells : k \in Nat /\ k <= j
  <2> HIDE DEF Cells
  <2> QED
    BY <1>5, Greatest
<1>7. <<i, j>> \in P
  BY <1>2
<1>8. \A q \in P : q = <<i, j>> \/ Before(q, <<i, j>>)
  <2> TAKE q \in P
  <2>1. q = <<q[1], q[2]>> /\ q[1] \in Rows
    BY <1>2
  <2>2. CASE q[1] # i
    BY <2>1, <2>2, <1>4 DEF Before
  <2>3. CASE q[1] = i
    <3>1. q[2] \in Cells
      BY <2>3
    <3> QED
      BY <2>1, <2>3, <3>1, <1>6 DEF Before
  <2> QED
    BY <2>2, <2>3
<1> HIDE DEF P
<1>9. LastOf(decls, n) \in P /\ \A q \in P : q = LastOf(decls, n) \/ Before(q, LastOf(decls, n))
  BY <1>7, <1>8 DEF LastOf, P
<1> QED
  BY <1>9 DEF P

(***************************************************************************)
(* What the declarations of a field are.                                   *)
(***************************************************************************)
\* Names below the context, each inductive among them, in finite sequences; and
\* matches that found their cases in the table of the moment.
Declares(decls, inds, matches) ==
  /\ \A n \in DeclaredNames(decls) : \E id \in Identifiers : n = MakeModId(Context, id)
  /\ Names(inds) \subseteq DeclaredNames(decls)
  /\ Bounded(DOMAIN decls) /\ \A i \in DOMAIN decls : Bounded(DOMAIN decls[i])
  /\ \A m \in matches : /\ m.owner \in {types[n].field : n \in DOMAIN types} \cup {0}
                        /\ m.found = FindInductive(m.type).field

\* The domain of a sequence is bounded.
LEMMA SequenceBounded ==
  ASSUME NEW S, NEW s \in Seq(S)
  PROVE  Bounded(DOMAIN s)
<1>1. Len(s) \in Nat /\ DOMAIN s \subseteq 1 .. Len(s)
  OBVIOUS
<1> QED
  BY <1>1 DEF Bounded

\* Match looks up who owns what is matched and where its cases are.
LEMMA MatchLooksUp ==
  ASSUME NEW n, NEW t
  PROVE  /\ Match(FieldOf(n), t).owner \in {types[k].field : k \in DOMAIN types} \cup {0}
         /\ Match(FieldOf(n), t).found = FindInductive(Match(FieldOf(n), t).type).field
BY DEF Match, FieldOf

LEMMA DefinitionDeclaresOne ==
  ASSUME NEW d \in Definitions
  PROVE  Declares(DefinitionDeclares(d), <<>>,
                  {Match(FieldOf(m.value), TypeOf(m.value)) : m \in d.matches})
<1> DEFINE decls == DefinitionDeclares(d)
<1>1. decls = <<<<[name |-> MakeModId(Context, d.id), type |-> d.type]>>>>
  BY DEF DefinitionDeclares
<1>2. DOMAIN decls = 1 .. 1 /\ DOMAIN decls[1] = 1 .. 1
      /\ decls[1][1].name = MakeModId(Context, d.id)
  BY <1>1
<1> HIDE DEF decls
<1>3. \A n \in DeclaredNames(decls) : n = MakeModId(Context, d.id)
  BY <1>2 DEF DeclaredNames, Positions, At
<1>4. Bounded(DOMAIN decls) /\ \A i \in DOMAIN decls : Bounded(DOMAIN decls[i])
  BY <1>2 DEF Bounded
<1>5. Names(<<>>) = {}
  BY DEF Names
<1>6. d.id \in Identifiers
  BY DefinitionsAssumption
<1>7. \A m \in {Match(FieldOf(x.value), TypeOf(x.value)) : x \in d.matches} :
        /\ m.owner \in {types[n].field : n \in DOMAIN types} \cup {0}
        /\ m.found = FindInductive(m.type).field
  BY MatchLooksUp
<1> QED
  BY <1>3, <1>4, <1>5, <1>6, <1>7 DEF Declares, decls

LEMMA InductiveDeclaresGroup ==
  ASSUME NEW group \in Inductives
  PROVE  Declares(InductiveTypes(group), InductiveCases(group), {})
<1> DEFINE decls == InductiveTypes(group)
           row(i) == [c \in DOMAIN group[i].constructors |->
                        [name |-> MakeModId(Context, group[i].constructors[c].id),
                         type |-> group[i].constructors[c].type]]
           head(i) == [name |-> MakeModId(Context, group[i].id), type |-> group[i].type]
<1>1. group \in Seq(Range(group))
  BY InductivesAssumption
<1>2. DOMAIN decls = DOMAIN group /\ \A i \in DOMAIN group : decls[i] = <<head(i)>> \o row(i)
  BY DEF InductiveTypes
<1>3. \A i \in DOMAIN group :
        /\ DOMAIN decls[i] = 1 .. Len(group[i].constructors) + 1
        /\ decls[i][1] = head(i)
        /\ \A j \in 2 .. Len(group[i].constructors) + 1 : decls[i][j] = row(i)[j - 1]
  <2> TAKE i \in DOMAIN group
  <2> DEFINE S == {head(i)} \cup {row(i)[c] : c \in DOMAIN group[i].constructors}
             n == Len(group[i].constructors)
  <2>1. n \in Nat /\ DOMAIN group[i].constructors = 1 .. n
    BY InductivesAssumption
  <2>2. DOMAIN row(i) = 1 .. n
    BY <2>1
  <2>3. \A c \in 1 .. n : row(i)[c] \in S
    BY <2>1
  <2>4. head(i) \in S
    OBVIOUS
  <2>5. row(i) = [c \in 1 .. n |-> row(i)[c]]
    BY <2>2
  <2> HIDE DEF row, head, n, S
  <2>6. row(i) \in Seq(S) /\ Len(row(i)) = n
    BY <2>1, <2>2, <2>3, <2>5
  <2>7. /\ DOMAIN (<<head(i)>> \o row(i)) = 1 .. n + 1
        /\ (<<head(i)>> \o row(i))[1] = head(i)
        /\ \A j \in 2 .. n + 1 : (<<head(i)>> \o row(i))[j] = row(i)[j - 1]
    BY <2>1, <2>4, <2>6
  <2> QED
    BY <2>7, <1>2 DEF n
<1>4. \A i \in DOMAIN group :
        /\ group[i].id \in Identifiers
        /\ Len(group[i].constructors) \in Nat
        /\ DOMAIN group[i].constructors = 1 .. Len(group[i].constructors)
        /\ \A c \in DOMAIN group[i].constructors : group[i].constructors[c].id \in Identifiers
  BY InductivesAssumption
<1>5. \A i \in DOMAIN group :
        /\ decls[i][1].name = MakeModId(Context, group[i].id)
        /\ \A j \in 2 .. Len(group[i].constructors) + 1 :
             decls[i][j].name = MakeModId(Context, group[i].constructors[j - 1].id)
  <2> TAKE i \in DOMAIN group
  <2>1. head(i).name = MakeModId(Context, group[i].id)
        /\ \A c \in DOMAIN group[i].constructors :
             row(i)[c].name = MakeModId(Context, group[i].constructors[c].id)
    OBVIOUS
  <2> HIDE DEF decls, row, head
  <2>2. \A j \in 2 .. Len(group[i].constructors) + 1 : j - 1 \in DOMAIN group[i].constructors
    BY <1>4
  <2> QED
    BY <2>1, <2>2, <1>3
<1>6. \A i \in DOMAIN group : DOMAIN decls[i] = 1 .. Len(group[i].constructors) + 1
  BY <1>3
<1> HIDE DEF decls, row, head
<1>7. \A n \in DeclaredNames(decls) : \E id \in Identifiers : n = MakeModId(Context, id)
  <2> SUFFICES ASSUME NEW i \in DOMAIN decls, NEW j \in DOMAIN decls[i]
               PROVE  \E id \in Identifiers : decls[i][j].name = MakeModId(Context, id)
    BY DEF DeclaredNames, Positions, At
  <2>1. i \in DOMAIN group /\ j \in 1 .. Len(group[i].constructors) + 1
    BY <1>2, <1>6
  <2>2. CASE j = 1
    BY <2>1, <2>2, <1>4, <1>5
  <2>3. CASE j # 1
    <3>1. j \in 2 .. Len(group[i].constructors) + 1 /\ j - 1 \in DOMAIN group[i].constructors
      BY <2>1, <2>3, <1>4
    <3> QED
      BY <2>1, <3>1, <1>4, <1>5
  <2> QED
    BY <2>2, <2>3
<1>8. Names(InductiveCases(group)) \subseteq DeclaredNames(decls)
  <2> SUFFICES ASSUME NEW i \in DOMAIN group
               PROVE  MakeModId(Context, group[i].id) \in DeclaredNames(decls)
    BY DEF Names, InductiveCases
  <2>1. i \in DOMAIN decls /\ 1 \in DOMAIN decls[i]
    BY <1>2, <1>4, <1>6
  <2>2. <<i, 1>> \in Positions(decls)
    BY <2>1 DEF Positions
  <2>3. At(decls, <<i, 1>>).name = MakeModId(Context, group[i].id)
    BY <1>5 DEF At
  <2> QED
    BY <2>2, <2>3 DEF DeclaredNames
<1>9. Bounded(DOMAIN decls)
  BY <1>1, <1>2, SequenceBounded
<1>10. \A i \in DOMAIN decls : Bounded(DOMAIN decls[i])
  <2> TAKE i \in DOMAIN decls
  <2>1. Len(group[i].constructors) + 1 \in Nat
    BY <1>2, <1>4
  <2> QED
    BY <2>1, <1>2, <1>6 DEF Bounded
<1> QED
  BY <1>7, <1>8, <1>9, <1>10 DEF Declares, decls

LEMMA FixpointDeclaresGroup ==
  ASSUME NEW group \in Fixpoints
  PROVE  Declares(FixpointTypes(group), <<>>,
                  {Match(FieldOf(group[i].arg), group[i].arg) :
                     i \in {j \in DOMAIN group : group[j].matches # {}}})
<1> DEFINE decls == FixpointTypes(group)
           row == [i \in DOMAIN group |-> [name |-> MakeModId(Context, group[i].id),
                                           type |-> group[i].type]]
<1>1. decls = <<row>>
  BY DEF FixpointTypes
<1>2. DOMAIN row = DOMAIN group /\ \A i \in DOMAIN group :
        row[i].name = MakeModId(Context, group[i].id)
  OBVIOUS
<1> HIDE DEF decls, row
<1>3. DOMAIN decls = 1 .. 1 /\ decls[1] = row
  BY <1>1
<1>4. \A n \in DeclaredNames(decls) : \E id \in Identifiers : n = MakeModId(Context, id)
  BY <1>2, <1>3, FixpointsAssumption DEF DeclaredNames, Positions, At
<1>5. Bounded(DOMAIN decls) /\ \A i \in DOMAIN decls : Bounded(DOMAIN decls[i])
  <2>1. Bounded(DOMAIN group)
    BY FixpointsAssumption, SequenceBounded
  <2>2. Bounded(1 .. 1)
    BY DEF Bounded
  <2> QED
    BY <2>1, <2>2, <1>2, <1>3
<1>6. Names(<<>>) = {}
  BY DEF Names
<1> QED
  BY <1>4, <1>5, <1>6, MatchLooksUp DEF Declares, decls

(***************************************************************************)
(* The table and the history.                                              *)
(***************************************************************************)
\* A type in the table comes from the latest field that declares its name, and
\* in it from the last position.
TypeIsLatest(n) ==
  LET k == types[n].field IN
  /\ k \in DOMAIN log /\ n \in DeclaredNames(log[k].declares)
  /\ \A f \in DOMAIN log : n \in DeclaredNames(log[f].declares) => f <= k
  /\ types[n].type = At(log[k].declares, LastOf(log[k].declares, n)).type

InductiveIsRecorded(n) ==
  inductives[n].field \in DOMAIN log /\ n \in Names(log[inductives[n].field].inductives)

\* All that a field declares is in the table.
FieldIsEntered(f) ==
  /\ DeclaredNames(log[f].declares) \subseteq DOMAIN types
  /\ Names(log[f].inductives) \subseteq DeclaredNames(log[f].declares)
  /\ Names(log[f].inductives) \subseteq DOMAIN inductives
  /\ Bounded(DOMAIN log[f].declares)
  /\ \A i \in DOMAIN log[f].declares : Bounded(DOMAIN log[f].declares[i])

\* A match on something that an earlier field declares, of an inductive type of
\* that field, has found an inductive of this name in an earlier field.
MatchIsEarlier(f, m) ==
  /\ m.owner \in 0 .. f - 1
  /\ m.owner > 0 /\ m.type \in Names(log[m.owner].inductives)
       => m.found \in 1 .. f - 1 /\ m.type \in Names(log[m.found].inductives)

History ==
  /\ \A n \in DOMAIN types : TypeIsLatest(n)
  /\ \A n \in DOMAIN inductives : InductiveIsRecorded(n)
  /\ \A f \in DOMAIN log : FieldIsEntered(f)
  /\ \A f \in DOMAIN log : \A m \in log[f].matches : MatchIsEarlier(f, m)

LEMMA FieldIsNext ==
  ASSUME IInv
  PROVE  Len(log) \in Nat /\ DOMAIN log = 1 .. Len(log) /\ Field = Len(log) + 1
<1>1. PICK S : log \in Seq(S)
  BY DEF IInv, Shapes
<1> QED
  BY <1>1 DEF Field

LEMMA AcceptAppends ==
  ASSUME IInv, NEW decls, NEW inds, NEW matches, Accept(decls, inds, matches)
  PROVE  /\ Len(log) \in Nat /\ Field = Len(log) + 1
         /\ DOMAIN log = 1 .. Len(log) /\ DOMAIN log' = 1 .. Field
         /\ \A f \in DOMAIN log : log'[f] = log[f]
         /\ log'[Field].declares = decls /\ log'[Field].inductives = inds
         /\ log'[Field].matches = matches
<1> DEFINE field == [context |-> Context, declares |-> decls,
                     inductives |-> inds, matches |-> matches]
<1>1. log' = Append(log, field)
  BY DEF Accept
<1>2. field.declares = decls /\ field.inductives = inds /\ field.matches = matches
  OBVIOUS
<1> HIDE DEF field
<1>3. PICK S : log \in Seq(S)
  BY DEF IInv, Shapes
<1>4. log \in Seq(S \cup {field}) /\ field \in S \cup {field}
  BY <1>3
<1>5. /\ DOMAIN log' = 1 .. Len(log) + 1 /\ log'[Len(log) + 1] = field
      /\ \A f \in 1 .. Len(log) : log'[f] = log[f]
  BY <1>1, <1>4
<1> QED
  BY <1>2, <1>5, FieldIsNext DEF Field

\* The entries of the types are those of the new field or as they were.
LEMMA AcceptKeepsTypes ==
  ASSUME IInv, History, NEW decls, NEW inds, NEW matches,
         Accept(decls, inds, matches), Declares(decls, inds, matches)
  PROVE  \A n \in DOMAIN types' : TypeIsLatest(n)'
<1>0. /\ Len(log) \in Nat /\ Field = Len(log) + 1
      /\ DOMAIN log = 1 .. Len(log) /\ DOMAIN log' = 1 .. Field
      /\ \A f \in DOMAIN log : log'[f] = log[f]
      /\ log'[Field].declares = decls
  BY AcceptAppends
<1>1. types' = Assign(types, TypeEntries(decls)) /\ DOMAIN TypeEntries(decls) = DeclaredNames(decls)
  BY DEF Accept, TypeEntries
<1> SUFFICES ASSUME NEW n \in DOMAIN types'
             PROVE  TypeIsLatest(n)'
  OBVIOUS
<1>2. CASE n \in DeclaredNames(decls)
  <2>1. types'[n] = TypeEntries(decls)[n]
    BY <1>1, <1>2 DEF Assign
  <2>2. types'[n].field = Field /\ types'[n].type = At(decls, LastOf(decls, n)).type
    BY <2>1, <1>2 DEF TypeEntries
  <2>3. Field \in DOMAIN log' /\ \A f \in DOMAIN log' : f <= Field
    BY <1>0
  <2> QED
    BY <2>2, <2>3, <1>0, <1>2 DEF TypeIsLatest
<1>3. CASE n \notin DeclaredNames(decls)
  <2>1. n \in DOMAIN types /\ types'[n] = types[n]
    BY <1>1, <1>3 DEF Assign
  <2>2. TypeIsLatest(n)
    BY <2>1 DEF History
  <2> DEFINE k == types[n].field
  <2>3. /\ k \in DOMAIN log /\ n \in DeclaredNames(log[k].declares)
        /\ \A f \in DOMAIN log : n \in DeclaredNames(log[f].declares) => f <= k
        /\ types[n].type = At(log[k].declares, LastOf(log[k].declares, n)).type
    BY <2>2 DEF TypeIsLatest
  <2>4. k = types'[n].field /\ log'[k] = log[k] /\ k \in DOMAIN log'
    BY <2>1, <2>3, <1>0
  <2> HIDE DEF k
  <2>5. \A f \in DOMAIN log' : n \in DeclaredNames(log'[f].declares) => f <= k
    <3> TAKE f \in DOMAIN log'
    <3>1. CASE f = Field
      BY <3>1, <1>0, <1>3
    <3>2. CASE f # Field
      <4>1. f \in DOMAIN log /\ log'[f] = log[f]
        BY <3>2, <1>0
      <4> QED
        BY <4>1, <2>3
    <3> QED
      BY <3>1, <3>2
  <2>6. types'[n].type = At(log'[k].declares, LastOf(log'[k].declares, n)).type
        /\ n \in DeclaredNames(log'[k].declares)
    BY <2>1, <2>3, <2>4
  <2> QED
    BY <2>4, <2>5, <2>6 DEF TypeIsLatest
<1> QED
  BY <1>2, <1>3

LEMMA AcceptKeepsInductives ==
  ASSUME IInv, History, NEW decls, NEW inds, NEW matches, Accept(decls, inds, matches)
  PROVE  \A n \in DOMAIN inductives' : InductiveIsRecorded(n)'
<1>0. /\ Field \in DOMAIN log' /\ DOMAIN log \subseteq DOMAIN log'
      /\ \A f \in DOMAIN log : log'[f] = log[f]
      /\ log'[Field].inductives = inds
  BY AcceptAppends
<1>1. inductives' = Emplace(inductives, InductiveEntries(inds))
      /\ DOMAIN InductiveEntries(inds) = Names(inds)
  BY DEF Accept, InductiveEntries
<1> SUFFICES ASSUME NEW n \in DOMAIN inductives'
             PROVE  InductiveIsRecorded(n)'
  OBVIOUS
<1>2. CASE n \in DOMAIN inductives
  <2>1. inductives'[n] = inductives[n]
    BY <1>1, <1>2 DEF Emplace
  <2> QED
    BY <2>1, <1>0, <1>2 DEF History, InductiveIsRecorded
<1>3. CASE n \notin DOMAIN inductives
  <2>1. n \in Names(inds) /\ inductives'[n] = InductiveEntries(inds)[n]
    BY <1>1, <1>3 DEF Emplace
  <2>2. inductives'[n].field = Field
    BY <2>1 DEF InductiveEntries
  <2> QED
    BY <2>1, <2>2, <1>0 DEF InductiveIsRecorded
<1> QED
  BY <1>2, <1>3

LEMMA AcceptEntersField ==
  ASSUME IInv, History, NEW decls, NEW inds, NEW matches,
         Accept(decls, inds, matches), Declares(decls, inds, matches)
  PROVE  \A f \in DOMAIN log' : FieldIsEntered(f)'
<1>0. /\ Len(log) \in Nat /\ Field = Len(log) + 1
      /\ DOMAIN log = 1 .. Len(log) /\ DOMAIN log' = 1 .. Field
      /\ \A f \in DOMAIN log : log'[f] = log[f]
      /\ log'[Field].declares = decls /\ log'[Field].inductives = inds
  BY AcceptAppends
<1>1. DOMAIN types' = DOMAIN types \cup DeclaredNames(decls)
      /\ DOMAIN inductives' = DOMAIN inductives \cup Names(inds)
  BY DEF Accept, Assign, Emplace, TypeEntries, InductiveEntries
<1> SUFFICES ASSUME NEW f \in DOMAIN log'
             PROVE  FieldIsEntered(f)'
  OBVIOUS
<1>2. CASE f = Field
  BY <1>0, <1>1, <1>2 DEF Declares, FieldIsEntered
<1>3. CASE f # Field
  <2>1. f \in DOMAIN log /\ log'[f] = log[f]
    BY <1>0, <1>3
  <2> QED
    BY <2>1, <1>1 DEF History, FieldIsEntered
<1> QED
  BY <1>2, <1>3

LEMMA AcceptKeepsMatches ==
  ASSUME IInv, History, NEW decls, NEW inds, NEW matches,
         Accept(decls, inds, matches), Declares(decls, inds, matches)
  PROVE  \A f \in DOMAIN log' : \A m \in log'[f].matches : MatchIsEarlier(f, m)'
<1>0. /\ Len(log) \in Nat /\ Field = Len(log) + 1
      /\ DOMAIN log = 1 .. Len(log) /\ DOMAIN log' = 1 .. Field
      /\ \A f \in DOMAIN log : log'[f] = log[f]
      /\ log'[Field].matches = matches
  BY AcceptAppends
<1> SUFFICES ASSUME NEW f \in DOMAIN log', NEW m \in log'[f].matches
             PROVE  MatchIsEarlier(f, m)'
  OBVIOUS
<1>2. CASE f = Field
  <2>1. m.owner \in DOMAIN log \cup {0} /\ m.found = FindInductive(m.type).field
    BY <1>0, <1>2 DEF Declares, History, TypeIsLatest
  <2>2. ASSUME m.owner > 0, m.type \in Names(log'[m.owner].inductives)
        PROVE  m.found \in 1 .. f - 1 /\ m.type \in Names(log'[m.found].inductives)
    <3>1. m.owner \in DOMAIN log /\ m.type \in Names(log[m.owner].inductives)
      BY <2>1, <2>2, <1>0
    <3>2. m.type \in DOMAIN inductives
      BY <3>1 DEF History, FieldIsEntered
    <3>3. m.found \in DOMAIN log /\ m.type \in Names(log[m.found].inductives)
      BY <2>1, <3>2 DEF FindInductive, History, InductiveIsRecorded
    <3> QED
      BY <3>3, <1>0, <1>2
  <2>3. m.owner \in 0 .. f - 1
    BY <2>1, <1>0, <1>2
  <2> QED
    BY <2>2, <2>3 DEF MatchIsEarlier
<1>3. CASE f # Field
  <2>1. f \in DOMAIN log /\ log'[f] = log[f]
    BY <1>0, <1>3
  <2>2. MatchIsEarlier(f, m)
    BY <2>1 DEF History
  <2>3. \A k \in 1 .. f - 1 : log'[k] = log[k]
    BY <2>1, <1>0
  <2>4. ASSUME m.owner > 0, m.type \in Names(log'[m.owner].inductives)
        PROVE  m.found \in 1 .. f - 1 /\ m.type \in Names(log'[m.found].inductives)
    <3>1. m.owner \in 1 .. f - 1
      BY <2>2, <2>4, <2>1, <1>0 DEF MatchIsEarlier
    <3> QED
      BY <3>1, <2>2, <2>3, <2>4 DEF MatchIsEarlier
  <2> QED
    BY <2>2, <2>4 DEF MatchIsEarlier
<1> QED
  BY <1>2, <1>3

LEMMA AcceptKeepsHistory ==
  ASSUME IInv, History, NEW decls, NEW inds, NEW matches,
         Accept(decls, inds, matches), Declares(decls, inds, matches)
  PROVE  History'
BY AcceptKeepsTypes, AcceptKeepsInductives, AcceptEntersField, AcceptKeepsMatches DEF History

\* Steps that leave table and history alone keep it.
LEMMA UntouchedHistory ==
  ASSUME History, UNCHANGED <<symtab, log>>
  PROVE  History'
BY DEF History, TypeIsLatest, InductiveIsRecorded, FieldIsEntered, MatchIsEarlier, symtab

\* The table is the history in every reachable state.
THEOREM TableIsHistory == Spec => []History
<1>1. Init => History
  BY DEF Init, History
<1>2. IInv /\ History /\ [Next]_vars => History'
  <2> SUFFICES ASSUME IInv, History, [Next]_vars
               PROVE  History'
    OBVIOUS
  <2>1. ASSUME Fail PROVE History'
    BY <2>1, UntouchedHistory DEF Fail
  <2>2. ASSUME NEW d \in Definitions, Definition(d) PROVE History'
    BY <2>1, <2>2, AcceptKeepsHistory, DefinitionDeclaresOne DEF Definition
  <2>3. ASSUME NEW group \in Inductives, InductiveGroup(group) PROVE History'
    BY <2>1, <2>3, AcceptKeepsHistory, InductiveDeclaresGroup DEF InductiveGroup
  <2>4. ASSUME NEW group \in Fixpoints, Fixpoint(group) PROVE History'
    BY <2>1, <2>4, AcceptKeepsHistory, FixpointDeclaresGroup DEF Fixpoint
  <2>5. ASSUME NEW id \in Modules, BeginModule(id) PROVE History'
    BY <2>5, UntouchedHistory DEF BeginModule
  <2>6. CASE EndModule
    BY <2>6, UntouchedHistory DEF EndModule
  <2>7. CASE UNCHANGED vars
    BY <2>7, UntouchedHistory DEF vars, symtab
  <2> QED
    BY <2>1, <2>2, <2>3, <2>4, <2>5, <2>6, <2>7 DEF Next, SyntaxError
<1> QED
  BY <1>1, <1>2, Invariance, PTL DEF Spec

(***************************************************************************)
(* What the history says.                                                  *)
(***************************************************************************)
\* Declared has the positions of a name in each of the earlier fields.
LEMMA DeclaredThere ==
  ASSUME NEW n, NEW k
  PROVE  /\ \A f \in 1 .. k - 1 : n \in DeclaredNames(log[f].declares)
                                    => \E p : <<f, p>> \in Declared(n, k)
         /\ \A d \in Declared(n, k) :
              /\ d = <<d[1], d[2]>> /\ d[1] \in 1 .. k - 1
              /\ d[2] \in PositionsOf(log[d[1]].declares, n)
              /\ n \in DeclaredNames(log[d[1]].declares)
<1>1. ASSUME NEW f \in 1 .. k - 1, n \in DeclaredNames(log[f].declares)
      PROVE  \E p : <<f, p>> \in Declared(n, k)
  <2>1. PICK p : p \in PositionsOf(log[f].declares, n)
    BY <1>1 DEF DeclaredNames, PositionsOf
  <2> QED
    BY <2>1 DEF Declared
<1>2. ASSUME NEW d \in Declared(n, k)
      PROVE  /\ d = <<d[1], d[2]>> /\ d[1] \in 1 .. k - 1
             /\ d[2] \in PositionsOf(log[d[1]].declares, n)
             /\ n \in DeclaredNames(log[d[1]].declares)
  <2>1. PICK f \in 1 .. k - 1 : \E p \in PositionsOf(log[f].declares, n) : d = <<f, p>>
    BY DEF Declared
  <2> QED
    BY <2>1 DEF DeclaredNames, PositionsOf
<1> QED
  BY <1>1, <1>2

\* Fields that declare a name that is declared once are the same.
LEMMA UniqueField ==
  ASSUME NEW n, NEW k, Unique(Declared(n, k)),
         NEW f \in 1 .. k - 1, n \in DeclaredNames(log[f].declares),
         NEW g \in 1 .. k - 1, n \in DeclaredNames(log[g].declares)
  PROVE  f = g
<1>1. PICK p : <<f, p>> \in Declared(n, k)
  BY DeclaredThere
<1>2. PICK q : <<g, q>> \in Declared(n, k)
  BY DeclaredThere
<1>3. <<f, p>> = <<g, q>>
  BY <1>1, <1>2 DEF Unique
<1> QED
  BY <1>3

\* Both maps of the table speak of the same inductive if its name was declared
\* once, and know no inductive that has no type.
THEOREM MapsAgreeAlways == Spec => []MapsAgree
<1>1. IInv /\ History => MapsAgree
  <2> SUFFICES ASSUME IInv, History, NEW n \in DOMAIN inductives
               PROVE  /\ n \in DOMAIN types
                      /\ Unique(Declared(n, Field)) => types[n].field = inductives[n].field
    BY DEF MapsAgree
  <2> DEFINE k == inductives[n].field
  <2>1. k \in DOMAIN log /\ n \in DeclaredNames(log[k].declares) /\ n \in DOMAIN types
    BY DEF History, InductiveIsRecorded, FieldIsEntered
  <2>2. types[n].field \in DOMAIN log /\ n \in DeclaredNames(log[types[n].field].declares)
    BY <2>1 DEF History, TypeIsLatest
  <2>3. DOMAIN log = 1 .. Field - 1
    BY FieldIsNext
  <2>4. Unique(Declared(n, Field)) => types[n].field = k
    BY <2>1, <2>2, <2>3, UniqueField
  <2> QED
    BY <2>1, <2>4
<1> QED
  BY <1>1, Invariance, TableIsHistory, PTL

\* A match takes its cases from the group of what is matched, provided that the name
\* of its type is one of this group and was declared once.
THEOREM MatchesOwnGroupAlways == Spec => []MatchesOwnGroup
<1>1. IInv /\ History => MatchesOwnGroup
  <2> SUFFICES ASSUME IInv, History, NEW f \in DOMAIN log, NEW m \in log[f].matches,
                      m.owner > 0, m.type \in Names(log[m.owner].inductives),
                      DeclaredOnce(m.type, f)
               PROVE  m.found = m.owner
    BY DEF MatchesOwnGroup
  <2>1. /\ m.owner \in 1 .. f - 1 /\ m.found \in 1 .. f - 1
        /\ m.type \in Names(log[m.found].inductives)
    <3>1. MatchIsEarlier(f, m) /\ f \in Nat
      BY FieldIsNext DEF History
    <3> QED
      BY <3>1 DEF MatchIsEarlier
  <2>2. 1 .. f - 1 \subseteq DOMAIN log
    BY FieldIsNext
  <2>3. m.type \in DeclaredNames(log[m.owner].declares)
        /\ m.type \in DeclaredNames(log[m.found].declares)
    BY <2>1, <2>2 DEF History, FieldIsEntered
  <2> QED
    BY <2>1, <2>3, UniqueField DEF DeclaredOnce
<1> QED
  BY <1>1, Invariance, TableIsHistory, PTL

\* A name means its latest declaration, and every declaration is in the table.
THEOREM LatestWinsAlways == Spec => []LatestWins
<1>1. IInv /\ History => LatestWins
  <2> SUFFICES ASSUME IInv, History
               PROVE  LatestWins
    OBVIOUS
  <2>0. DOMAIN log = 1 .. Field - 1 /\ Field \in Nat
    BY FieldIsNext
  <2>1. ASSUME NEW n \in DOMAIN types
        PROVE  \E p \in Declared(n, Field) :
                 /\ \A q \in Declared(n, Field) :
                      q[1] < p[1] \/ (q[1] = p[1] /\ (q[2] = p[2] \/ Before(q[2], p[2])))
                 /\ types[n].field = p[1] /\ types[n].type = At(log[p[1]].declares, p[2]).type
    <3> DEFINE k == types[n].field
               last == LastOf(log[k].declares, n)
    <3>1. /\ k \in DOMAIN log /\ n \in DeclaredNames(log[k].declares)
          /\ \A f \in DOMAIN log : n \in DeclaredNames(log[f].declares) => f <= k
          /\ types[n].type = At(log[k].declares, last).type
      BY <2>1 DEF History, TypeIsLatest
    <3>2. /\ last \in PositionsOf(log[k].declares, n)
          /\ \A q \in PositionsOf(log[k].declares, n) : q = last \/ Before(q, last)
      BY <3>1, LastExists DEF History, FieldIsEntered
    <3> HIDE DEF last
    <3>3. <<k, last>> \in Declared(n, Field)
      BY <3>1, <3>2, <2>0 DEF Declared
    <3>4. \A q \in Declared(n, Field) :
            q[1] < k \/ (q[1] = k /\ (q[2] = last \/ Before(q[2], last)))
      <4> TAKE q \in Declared(n, Field)
      <4>1. /\ q[1] \in 1 .. Field - 1 /\ n \in DeclaredNames(log[q[1]].declares)
            /\ q[2] \in PositionsOf(log[q[1]].declares, n)
        BY DeclaredThere
      <4>2. q[1] <= k
        BY <4>1, <3>1, <2>0
      <4>3. q[1] = k => q[2] = last \/ Before(q[2], last)
        BY <4>1, <3>2
      <4> QED
        BY <4>1, <4>2, <4>3, <3>1, <2>0
    <3> QED
      BY <3>1, <3>3, <3>4
  <2>2. \A n \in DOMAIN types : Declared(n, Field) # {}
    BY <2>1
  <2>3. \A f \in DOMAIN log : DeclaredNames(log[f].declares) \subseteq DOMAIN types
    BY DEF History, FieldIsEntered
  <2> QED
    BY <2>1, <2>2, <2>3 DEF LatestWins
<1> QED
  BY <1>1, Invariance, TableIsHistory, PTL

(***************************************************************************)
(* Modules.                                                                *)
(***************************************************************************)
\* Strict prefixes of identifiers, element by element
LEMMA StrictPrefix ==
  ASSUME NEW s \in Seq(Segments), NEW t \in Seq(Segments)
  PROVE  IsStrictPrefix(s, t) <=> Len(s) < Len(t) /\ \A i \in 1 .. Len(s) : t[i] = s[i]
<1>1. ASSUME IsStrictPrefix(s, t)
      PROVE  Len(s) < Len(t) /\ \A i \in 1 .. Len(s) : t[i] = s[i]
  <2>1. Len(s) <= Len(t) /\ SubSeq(s, 1, Len(s)) = SubSeq(t, 1, Len(s)) /\ s # t
    BY <1>1 DEF IsStrictPrefix, IsPrefix
  <2>2. \A i \in 1 .. Len(s) : SubSeq(s, 1, Len(s))[i] = s[i] /\ SubSeq(t, 1, Len(s))[i] = t[i]
    BY <2>1
  <2>3. \A i \in 1 .. Len(s) : t[i] = s[i]
    BY <2>1, <2>2
  <2>4. Len(s) # Len(t)
    BY <2>1, <2>3
  <2> QED
    BY <2>1, <2>3, <2>4
<1>2. ASSUME Len(s) < Len(t), \A i \in 1 .. Len(s) : t[i] = s[i]
      PROVE  IsStrictPrefix(s, t)
  <2>1. SubSeq(s, 1, Len(s)) = SubSeq(t, 1, Len(s))
    BY <1>2
  <2> QED
    BY <1>2, <2>1 DEF IsStrictPrefix, IsPrefix
<1> QED
  BY <1>1, <1>2

\* A name below the context is below all that is a prefix of the context.
LEMMA BelowPrefix ==
  ASSUME NEW s \in Seq(Segments), NEW t \in Seq(Segments), NEW id \in Identifiers,
         s = t \/ IsStrictPrefix(s, t)
  PROVE  IsStrictPrefix(s, MakeModId(t, id))
<1>1. id \in Seq(Segments) /\ Len(id) > 0
  BY DEF Identifiers, Sort
<1>2. t \o id \in Seq(Segments) /\ Len(t \o id) > Len(t)
      /\ \A i \in 1 .. Len(t) : (t \o id)[i] = t[i]
  BY <1>1
<1>3. Len(s) <= Len(t) /\ \A i \in 1 .. Len(s) : t[i] = s[i]
  BY StrictPrefix
<1>4. Len(s) < Len(t \o id) /\ \A i \in 1 .. Len(s) : (t \o id)[i] = s[i]
  BY <1>2, <1>3
<1> QED
  BY <1>2, <1>4, StrictPrefix DEF MakeModId

\* Every open module is below all of those around it.
Nested == \A i, j \in DOMAIN modules : i < j => IsStrictPrefix(modules[i], modules[j])

LEMMA NestedStep ==
  ASSUME IInv, Nested, [Next]_vars
  PROVE  Nested'
<1>0. modules \in Seq(Seq(Segments))
  BY DEF IInv, Shapes
<1>1. CASE modules' = modules \/ modules' = <<>>
  BY <1>1 DEF Nested
<1>2. ASSUME NEW id \in Modules, BeginModule(id) PROVE Nested'
  <2> DEFINE inner == MakeModId(Context, id)
  <2>1. modules' = Append(modules, inner) /\ id \in Identifiers
    BY <1>2, ModulesAssumption DEF BeginModule, SubModContext
  <2>2. \A i \in DOMAIN modules : IsStrictPrefix(modules[i], inner)
    <3> TAKE i \in DOMAIN modules
    <3>1. modules # <<>> /\ Len(modules) \in DOMAIN modules /\ i <= Len(modules)
      BY <1>0
    <3>2. Context = modules[Len(modules)] /\ Context \in Seq(Segments)
          /\ modules[i] \in Seq(Segments)
      BY <1>0, <3>1 DEF Context, Last
    <3>3. modules[i] = Context \/ IsStrictPrefix(modules[i], Context)
      <4>1. CASE i = Len(modules)
        BY <4>1, <3>2
      <4>2. CASE i # Len(modules)
        BY <4>2, <3>1, <3>2, <1>0 DEF Nested
      <4> QED
        BY <4>1, <4>2
    <3> QED
      BY <3>2, <3>3, <2>1, BelowPrefix
  <2> HIDE DEF inner
  <2>3. DOMAIN modules' = 1 .. Len(modules) + 1 /\ DOMAIN modules = 1 .. Len(modules)
        /\ modules'[Len(modules) + 1] = inner
        /\ \A i \in DOMAIN modules : modules'[i] = modules[i]
    BY <2>1, <1>0
  <2> SUFFICES ASSUME NEW i \in DOMAIN modules', NEW j \in DOMAIN modules', i < j
               PROVE  IsStrictPrefix(modules'[i], modules'[j])
    BY DEF Nested
  <2>4. i \in DOMAIN modules
    BY <2>3, <1>0
  <2>5. CASE j \in DOMAIN modules
    BY <2>3, <2>4, <2>5 DEF Nested
  <2>6. CASE j \notin DOMAIN modules
    BY <2>2, <2>3, <2>4, <2>6, <1>0
  <2> QED
    BY <2>5, <2>6
<1>3. CASE EndModule
  <2>1. modules' = SubSeq(modules, 1, Len(modules) - 1) /\ modules # <<>>
    BY <1>3 DEF EndModule, Front
  <2>2. DOMAIN modules' \subseteq DOMAIN modules /\ \A i \in DOMAIN modules' : modules'[i] = modules[i]
    <3> DEFINE n == Len(modules) - 1
    <3>1. n \in 0 .. Len(modules) /\ modules' = SubSeq(modules, 1, n)
      BY <2>1, <1>0
    <3> HIDE DEF n
    <3>2. Len(SubSeq(modules, 1, n)) = n /\ DOMAIN SubSeq(modules, 1, n) = 1 .. n
          /\ \A i \in 1 .. n : SubSeq(modules, 1, n)[i] = modules[i]
      BY <3>1, <1>0
    <3> QED
      BY <3>1, <3>2, <1>0
  <2> QED
    BY <2>2 DEF Nested
<1> QED
  BY <1>1, <1>2, <1>3
     DEF Next, Definition, InductiveGroup, Fixpoint, Accept, Fail, SyntaxError, vars

\* While modules are open only names below all of them change, in either map.
LEMMA AcceptStaysInModule ==
  ASSUME IInv, History, Nested, NEW decls, NEW inds, NEW matches,
         Accept(decls, inds, matches), Declares(decls, inds, matches),
         NEW n \in DOMAIN types' \cup DOMAIN inductives'
  PROVE  \/ n \in DOMAIN types /\ types'[n] = types[n]
            /\ (n \in DOMAIN inductives' => n \in DOMAIN inductives)
         \/ \A i \in DOMAIN modules : IsStrictPrefix(modules[i], n)
<1>1. types' = Assign(types, TypeEntries(decls)) /\ DOMAIN TypeEntries(decls) = DeclaredNames(decls)
      /\ DOMAIN inductives' = DOMAIN inductives \cup Names(inds)
  BY DEF Accept, Emplace, TypeEntries, InductiveEntries
<1>2. CASE n \in DeclaredNames(decls)
  <2>1. PICK id \in Identifiers : n = MakeModId(Context, id)
    BY <1>2 DEF Declares
  <2> SUFFICES ASSUME NEW i \in DOMAIN modules
               PROVE  IsStrictPrefix(modules[i], n)
    OBVIOUS
  <2>2. modules \in Seq(Seq(Segments))
    BY DEF IInv, Shapes
  <2>3. modules # <<>> /\ Len(modules) \in DOMAIN modules /\ i <= Len(modules)
    BY <2>2
  <2>4. Context = modules[Len(modules)] /\ Context \in Seq(Segments) /\ modules[i] \in Seq(Segments)
    BY <2>2, <2>3 DEF Context, Last
  <2>5. modules[i] = Context \/ IsStrictPrefix(modules[i], Context)
    <3>1. CASE i = Len(modules)
      BY <3>1, <2>4
    <3>2. CASE i # Len(modules)
      BY <3>2, <2>2, <2>3, <2>4 DEF Nested
    <3> QED
      BY <3>1, <3>2
  <2> QED
    BY <2>1, <2>4, <2>5, BelowPrefix
<1>3. CASE n \notin DeclaredNames(decls)
  <2>1. n \notin Names(inds)
    BY <1>3 DEF Declares
  <2>2. n \in DOMAIN types
    <3>1. DOMAIN inductives \subseteq DOMAIN types
      BY DEF History, InductiveIsRecorded, FieldIsEntered
    <3> QED
      BY <3>1, <2>1, <1>1, <1>3 DEF Assign
  <2>3. types'[n] = types[n]
    BY <2>2, <1>1, <1>3 DEF Assign
  <2> QED
    BY <2>1, <2>2, <2>3, <1>1
<1> QED
  BY <1>2, <1>3

\* Steps that leave the table alone change no name.
LEMMA UntouchedStays ==
  ASSUME History, UNCHANGED symtab, NEW n \in DOMAIN types' \cup DOMAIN inductives'
  PROVE  n \in DOMAIN types /\ types'[n] = types[n]
         /\ (n \in DOMAIN inductives' => n \in DOMAIN inductives)
<1>1. DOMAIN inductives \subseteq DOMAIN types
  BY DEF History, InductiveIsRecorded, FieldIsEntered
<1> QED
  BY <1>1 DEF symtab

\* While modules are open, a step changes only names below all of them, in either map,
\* however deep the nesting.
THEOREM StaysInModuleAlways == Spec => StaysInModule
<1>1. Init => Nested
  BY DEF Init, Nested
<1>2. IInv /\ Nested /\ [Next]_vars => Nested'
  BY NestedStep
<1> DEFINE Stays == \A n \in DOMAIN types' \cup DOMAIN inductives' :
    \/ n \in DOMAIN types /\ types'[n] = types[n]
       /\ (n \in DOMAIN inductives' => n \in DOMAIN inductives)
    \/ \A i \in DOMAIN modules : IsStrictPrefix(modules[i], n)
<1>3. IInv /\ History /\ Nested /\ [Next]_vars => [Stays]_vars
  <2> SUFFICES ASSUME IInv, History, Nested, Next
               PROVE  Stays
    OBVIOUS
  <2>1. ASSUME UNCHANGED symtab PROVE Stays
    BY <2>1, UntouchedStays
  <2>2. ASSUME NEW d \in Definitions, Definition(d) PROVE Stays
    BY <2>1, <2>2, AcceptStaysInModule, DefinitionDeclaresOne DEF Definition, Fail
  <2>3. ASSUME NEW group \in Inductives, InductiveGroup(group) PROVE Stays
    BY <2>1, <2>3, AcceptStaysInModule, InductiveDeclaresGroup DEF InductiveGroup, Fail
  <2>4. ASSUME NEW group \in Fixpoints, Fixpoint(group) PROVE Stays
    BY <2>1, <2>4, AcceptStaysInModule, FixpointDeclaresGroup DEF Fixpoint, Fail
  <2>5. ASSUME NEW id \in Modules, BeginModule(id) PROVE Stays
    BY <2>1, <2>5 DEF BeginModule
  <2>6. CASE EndModule
    BY <2>1, <2>6 DEF EndModule
  <2>7. CASE SyntaxError
    BY <2>1, <2>7 DEF SyntaxError, Fail
  <2> QED
    BY <2>2, <2>3, <2>4, <2>5, <2>6, <2>7 DEF Next
<1> QED
  BY <1>1, <1>2, <1>3, Invariance, TableIsHistory, PTL DEF Spec, StaysInModule
=============================================================================
