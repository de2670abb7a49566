# libcoqcic: models, checks and proofs

libcoqcic represents terms of the calculus of inductive constructions in C++,
reads them from s-expressions and from a subset of Gallina, and transforms them.
It is a sequential library: no threads, no persistence, no messages. What is hard
about it is sharing (persistent stacks that are copied lazily and written in
place), index arithmetic under binders, and a work list algorithm whose answer
decides which arguments of a recursive function are removed.

## 1. Inventory

| Part | State | Operations | Interacts with | What makes it correct |
|---|---|---|---|---|
| `lazy_stack.h` | chain of reference counted blocks | push, pop, set, at, get, size, empty, copies | contexts of the type checker, of the resolver and of both halves of fix_specialize | handles behave as values; blocks stay powers of two; a block written in place has one owner |
| `lazy_stackmap.h` | chain of hash maps, a level counter | push, get_index, flatten | the resolver keeps it in step with a lazy_stack | the innermost binding of a name wins |
| `constr.{h,cc}` | immutable shared terms | builder, shift, simpl, check, ==, get_function_signature, collect_external_references | everything | de Bruijn indices denote the same variable before and after |
| `visitor`, `simpl` | depth counter of a visitor | visit_transform, local_subst | apply::simpl, match::check, fix_specialize | every occurrence is substituted, none is captured |
| `normalize` | none | normalize | minigallina (types of inductives) | only the grouping of arguments changes |
| `fix_specialize` | call states, work list, flag; then a stack of replacements | compute closure, apply specialization | visitor, lazy_stack, collect_external_references | the answer is consistent for every call; removed arguments are the specialized ones |
| `parse_sexpr`, `sexpr` | position in a character stream | parse_sexpr | from_sexpr | one value per input, positions of errors |
| `from_sexpr`, `to_sexpr` | group of the last fixpoint read | constr and sfb in both directions | constr, sfb | reading what was written gives the term back |
| `sfb` | immutable | containers, format, == | from_sexpr, minigallina | none beyond its types |
| `minigallina` | two characters of lookahead and a token; stacks of names and types; a symbol table shared by calls | token_parser, AST and its resolve, parse_sfb | lazy_stack, lazy_stackmap, check, normalize | names resolve to the binder in scope; the table holds what was defined last, and of failed calls only fields of modules |
| `coq/*.mlg` | none | export of kernel structures | writes what from_sexpr reads | what it exports the reader reads as it is in the kernel |

Behaviours that are hard to test, at their lines, are the `hazards` of
`PROJECT.json`.

## 2. Modules

| Module | Models | Kind |
|---|---|---|
| `PersistentStack` | what lazy_stack promises: a sequence of its own for every handle; a call is settled when it starts and takes effect when it returns | abstract specification |
| `LazyStack` | `lazy_stack.h`: heap of nodes, reference counts, one step per loop iteration | state machine, refines `PersistentStack` |
| `LazyStackProofs` | types, ownership, private writes and sizes of blocks of LazyStack | TLAPS |
| `LazyStackValueProofs` | what is read along chains, the refinement of PersistentStack, and that the loops stop | TLAPS |
| `FixClosure` | `add_call_state`, `compute_fix_specialization_closure` | state machine |
| `FixClosureProofs` | all its safety properties, and that the loop ends | TLAPS |
| `DeBruijn` | the classes of terms, builder, shift, local_subst | recursive functions on terms |
| `Renumbering` | a client of namespace builder; what terms denote; shift and local_subst against that | state machine over `DeBruijn` |
| `DeBruijnProofs` | what shift and local_subst return for any term | TLAPS |
| `RenumberingProofs` | the client's types, and its properties of shift and local_subst | TLAPS |
| `Normalizing` | normalize, and what it must do to the client's terms | recursive functions, properties, over `Renumbering` |
| `NormalizingProofs` | all of those properties | TLAPS |
| `Terms` | simpl, signatures, collect_external_references | recursive operators over `DeBruijn` |
| `TermOps` | what simpl and those must do to the client's terms | properties, over `Normalizing` |
| `FixTerms` | the walk over a body for the closure, `apply_fix_specialization` | recursive operators |
| `FixOps` | groups around the client's terms; what their bodies mean | properties, over `TermOps` |
| `Typing` | `constr_t::check`, with what it throws | recursive operators |
| `TypeOps` | applications of a polymorphic function to the client's terms | properties, over `TermOps` |
| `Sexpr` | the values of `sexpr.h`, their text, `parse_sexpr` | recursive operators |
| `TermCodec` | `constr_to_sexpr`, the plugin's export, `constr_from_sexpr` | recursive operators |
| `SfbCodec` | `sfb_from_sexpr` with `last_fix`, the plugin's export of modules | recursive operators |
| `CodecOps` | the client's terms and modules about them, written and read | properties, over `TermOps` |
| `NameMap` | `lazy_stackmap.h` | operators |
| `NameMapProofs` | what it finds, and what it shares | TLAPS |
| `GallinaTokens` | `token_parser` | operators |
| `GallinaGrammar` | `parse_constr_ast` and all below it | recursive operators |
| `GallinaNames` | `resolve` of every kind of tree node | recursive operators |
| `GallinaOps` | the client's terms written with names, and read | properties, over `TermOps` |
| `SymbolTable` | `parse_sfb` and the symbol table its calls share | state machine |
| `SymbolTableProofs` | type correctness, what failures leave in the table, that the table is the history of declarations | TLAPS |
| `MCLazyStack`, `MCFixClosure`, `MCTermOps`, `MCSymbolTable` | values of the constants for TLC; `MCTermOps` joins the four modules of properties | |

Definitions whose comment begins with "Fault:" are seeded bugs. No specification
uses them; each is put in the place of the definition after it to see that the
property it is meant for notices (`mutants` in `PROJECT.json`).

### LazyStack

`heap` maps the nodes that are allocated to their `items` and `next`, `repr` maps
every lazy_stack object of the client to its `repr_`, `frame` is the call in
progress with its locals. A node dies when nothing reaches it (`Collect`), as
the last shared_ptr to it goes away. `push`, `pop` and `set` take one step
for each iteration of their loops, so intermediate states (a node linked into a
chain before it is complete, a path half copied) are states of the model. The
result of push and pop is assigned to any handle, also to the one it was
called on. The search of pop for the next bit set takes a step for each bit
(`PopShift`). `unique()` is `UseCount(n) = 1`: during `set` no shared_ptr but those
of objects and nodes exists. `pop` on an empty stack is undefined in the code
and not called. The library is single threaded, so calls do not interleave.

`Elements` is the one walk that `size`, `at` and `get` do. The refinement maps
each object to its elements and the call in progress to what it promises:
`Outcome` is what the call will make of its object, as it can be read off its locals at any
point of its loops, and `OutOfRange` says that set is going to throw. That no step
of a loop changes the promise or what any handle reads is `BehavesAsValues`. In
`PersistentStack` the promise is the value itself, made from the arguments at the call.

Bound: `MaxLen`, the number of elements, in the guard of `PushCall`. With five
elements there are chains of blocks 1, 4 and 1, 2, a push that merges twice and a pop that
splits a block of four in two, where it passes over a bit (`PopShift`); two handles give
every pattern of sharing, as sharing is between pairs. Nodes never run out: five are
enough (the safety run has six), with fewer a run would deadlock. The liveness run has one
value: no loop depends on values, and symmetry is not sound for it.

### FixClosure

For this algorithm a body is the sequence of the uses of the group's functions
in the order the visitor meets them; each argument is the position of the
caller's own argument that is passed on, or `None`. The walk over the term that
finds them (`FixTerms`) does not depend on the state of the algorithm, only the
translation from the caller's positions to specialization arguments (`Passed`) does.
`AddCallState`, the two lists, the flag and the result are those of the code; the
visit of a body takes one step per use. The seed has one entry per argument, as the
comment in `fix_specialize.h` demands. `Init` chooses the group, the root and the
seed.

Bound: the groups. `MCFixClosure` enumerates all of those in which the first
function makes up to two uses, the others up to one, with swapped, dropped,
missing and spare arguments, so that lists of two functions, agreeing and
disagreeing calls, partial calls and functions out of reach all happen.

### DeBruijn, Renumbering, Normalizing, Terms and TermOps

A term is a record with its subterms in the order the code visits them; each
operation differs from the others in how many binders it counts for each of them
(`ShiftDepths`, `VisitDepths`). `Nodes(T)` are the terms of all classes with subterms
in `T`, and `Term` what `MaxNesting` such levels over the leaves give. The operations
recurse over terms in the code; here they are recursive functions with the domain
`Term`. `std::size_t` is modelled modulo `Word`, which
matters where indices are shifted down.

`Renumbering` builds terms one constructor at a time; `Normalizing` and `TermOps` add
operations and properties, but no steps. `Binds` is the rule of `debruijn.cc`; `Denotation` replaces the free
variables by what an environment of distinct globals has for them, so two terms
denote the same exactly if each variable occurrence refers to the same binder or
the same entry of the environment. These definitions are the reference and use
none of the operators they judge, except the depths of fix.

`Normalize` is `normalize_rec`: `ChainParts` are the loops along a chain of products,
lambdas or applications, then each part is normalized by itself. The reference for it is
`Curry`, the term with one argument at a time, which must be the same before and after;
`Flat` says that nothing is left to regroup.

Bounds: `MaxHeight` and `MaxNesting`, for which `HeightAssumption` asks for two levels per
construct (a branch with a lambda inside is two) and two more for the substitutes. The runs
have 16, more than any operation on these terms comes to. `EnvAssumption`: the
environment has more entries than a term has variables, and two more still fit
in a word, so that no index of a term wraps around when room is made for one or two
variables. `Word` is 16, with `Env` of eight entries, and 8 with six in the run about
signatures: enough for the indices of these terms, while one that is taken below zero
becomes an index that no term has.

Two nested constructs are what is needed for an operation
under a binder under a binder, with terms `Set`, `'0`, `'1` in the other positions.
Properties that look at many groups, calls or texts for each term do so for the
terms of one construct, which they put into constructs of their own (the guard
`height < MaxHeight` in the property).

The modules below are about the same terms: the client of `Renumbering` builds a term, and
their properties say what the part of the library must do with it. Each reference
definition is written for the meaning of terms, with the operators it
judges left out.

### FixTerms and FixOps

`Walk` is `visit_for_fix_closure_state`: it goes through a term with the stack of what
is known of the locals (`FnSym`, `ArgSym`, `NoSym`), and returns the uses and the
symbol of the term. `ApplyFixSpecialization` is `specialize_visitor` with the stack of
replacements. `FixOps` puts the client's term into the body of a function f next to a
function g: as an argument, under a lambda, a let and a branch, in nested
applications, in a call of the result of a match. `Infos` are all specializations
of the three arguments to two values. `UsesOf` finds calls by the names of functions in
the term with values put in for what is let; `Meaning` is that term.

The walk and the work list are composed by `ClosureAnswers`: what `FixClosure` returns
for the walk's uses is one of them (`ResultConsistent`, proved as `Soundness`).

Preconditions, at lines where the code does something else: `Followed`, as the walk
pushes one local for a lambda of many arguments (fix_specialize.cc:145) and gives an
application the symbol of its function, so that `f (A x)` counts as passing A;
`OneRemoved`, as the index of a function after specialization
(fix_specialize.cc:352) is right only for functions of which one argument is removed;
`Counted`, as above. Bodies and result types are compared. Argument types are not:
apply_fix_specialization makes all of them from `fn.restype` (fix_specialize.cc:385).

### Typing and TypeOps

A context is the sequence of the types of the locals and a function of globals;
`Throws` stands for the exceptions of `lazy_stack::at`, of the globals and of an
application to too many arguments. `check` is not a type checker: it finds the type of a
term assumed to be well typed. `TypeOps` applies a function whose type depends on two
types to up to four arguments, with its type as one product or as nested ones and the
arguments in one application or in nested ones: the same types must come out.

What the model takes over as it is: the body of a lambda is checked outside of the
lambda (run `check_of_lambda`); the type of a local is not shifted to where it is used;
the type of a let is that of its body, with the variable of the let still in it; the
type of a match is its casetype with the type of the argument substituted.

### Sexpr, TermCodec, SfbCodec and CodecOps

A text is a sequence of strings, each a run of normal characters or one of the
characters with a meaning; locations count these. A result is a value or an error
with a location. `Write` is both writers, as they differ only in the type of a function
in a fixpoint: the library writes what `fix_function_t` has, the plugin
(`Exported`) the kernel's type, outside of the group. What the plugin reads from
the kernel is the term itself. `last_fix` is a group with its location in the
structure, standing for the pointer; comparison of groups is that of
`constr_fix::operator==`, so that equal groups with a fixpoint inside differ.

`Damaged` are all expressions that lack one argument somewhere, and
`TruncationIsNoticed` takes every prefix of every text.

An error has a pointer to the expression it is about. The branches of a match are read from
a copy that is gone when the error is returned (from_sexpr.cc:100), after which what is read
through the pointer is undefined: the location of such an error is `Freed`.
`DamageIsLocated` therefore says of damage in a branch only that it is noticed. That a
caller can ask for the location of any error, as to_sexpr_test.cc:23 does, is not true there.

Preconditions: `InKernel`, types of functions that do not mention the functions;
`ResultsIndependent`, as the reader shifts the arguments in a dependent result type with
everything else (from_sexpr.cc:173; by coq-sexpressions.md:170-171
the type lacks the functions only). Inputs are those of a writer or damaged as said. Not among
them: numbers that are none, for which `std::stoi` throws and of which it takes a
prefix (from_sexpr.cc:35); and an error in the name of a constructor of
a branch, which `branch_from_sexpr` does not look at. The plugin writes Theorem, CoInductive,
Record and functor signatures given inline, which the reader answers with errors.

### NameMap, GallinaTokens, GallinaGrammar, GallinaNames and GallinaOps

A character is a space, a digit, a letter or one that stands for itself. `Tokens` is
the parser with both characters of lookahead, `ParseConstr` the recursive descent, in
which a rule is a sequence of tokens and names of functions; `Resolve` has a
scope with the names (`NameMap`) and types (as a sequence: `LazyStack` shows that a stack
is one) that the code keeps side by side, and calls `Check`.

`GallinaOps` gives every binder of the client's term a name: of sixteen, of
three or of two, so that a name is bound again over and over. `Tree` is the term with
names, `Written` its tokens with no more parentheses than needed, `Tight` and
`Loose` its characters, `Meant` the term with each name resolved to its innermost
binder.

As they are in the model: `lazy_stackmap::push` always absorbs the block before it, as
a new block has one name and every block has at least one, so there is only one
block ever and nothing is shared (`EveryPushCopiesAll`); product and lambda resolve each argument with the types
outside of the list and only the type before it (minigallina.cc:300, 333), so a lookup
of types is off by some in lists of several arguments; types of let values and of
matched terms come from `check`, whose exceptions are not parse errors.
`ResolvesScopes` leaves out terms where the type of a matched term is not closed
(`Unknown`) and admits the exception for lets of compound values.

### SymbolTable

`types` and `inductives` are the two maps of `parse_symtab_t`, `modules` the
`mod_context` of the calls of `parse_sfb_module` in progress. `Definition`,
`InductiveGroup` and `Fixpoint` are the three leaf handlers, each with its success and
its failure; nothing changes between the first token of such a declaration and its
last statements, so it is one step. A module is two steps with its fields between
them, as its fields enter the table before it is complete; `Fail` is the error
returned through all open modules. Which names see what is the code's: the table
before the caller's resolvers, own names of an inductive only in the types of its
constructors, functions of a fixpoint only in bodies, qualified names on entry and
names as they are written on lookup. `log`, `pending` and `lost` are history: what
was declared, and which of it is in a module still open or never completed. The overload
of `parse_sfb` with a table of its own is a behaviour that ends after its first call.

The properties that compare with a single declaration of a name (`MapsAgree`,
`MatchesOwnGroup`) need that premise: `id_to_type` is overwritten, `id_to_inductive`
is not, and after a redeclaration a match uses the old constructors. Coq rejects
such input, this parser does not; the model has it, no property judges it.

Bounds: `MaxFields`, declarations accepted, and `MaxDepth`, open modules.
Three declarations are a type, its redeclaration and a user of it, in either
order; two modules are one inside of the other, here of the same name. Failing
declarations are not bounded. `MCSymbolTable` chooses declarations around one inductive `t`:
redeclared with other constructors, as a definition, as a constructor of itself,
in a mutual group, and mentioned as `t` and `M.t`.

## 3. Runs

| Run | Question | Outcome |
|---|---|---|
| `lazy_stack_safety` | type, private writes, binary counter, pop's bits, refinement | holds |
| `lazy_stack_liveness` | does every call return | holds |
| `fix_closure` | soundness, completeness, termination of the closure | holds |
| `term_operations` | shift, subst, simpl, normalize against denotations; calls found and groups specialized with the meaning kept; types of applications | holds |
| `term_text` | s-expressions of library and plugin, modules, Gallina: read as they were written; damage is noticed, and outside of branches located | holds |
| `symbol_table` | table against history, agreement of its maps, matches, failures, modules | holds |
| `subst_type_of_let` | "Substitute all occurrences": a let whose type alone mentions the variable | violated: visitor.cc:161 |
| `subst_under_match` | the same, below a match with a lambda as branch | violated: visitor.cc:217 |
| `check_of_lambda` | "the type context used in resolution of sub terms will be extended accordingly" (constr.cc:155) | violated: constr.cc:527 |
| `collect_references` | "Collects the de Bruijn indices of all locals ..." | violated: constr.cc:51 |
| `signature_of_dependent_fix` | "... can be interpreted in the context of the fix expression" | violated: constr.cc:134 |
| `references_in_modules` | "The reference is always made be the (fully qualified) name" (constr.cc:279) | violated: minigallina.cc:1460 |

`SubstReplacesCounted` and `SimplReduces` in `term_operations` leave out the two
kinds of terms of the violations (`Counted` says which), for which the substitution is
wrong. On the branches of a match the repository holds two conventions: the
comment in `constr.h`, `constr_match::shift` and the parser take a branch for a lambda over
the constructor's arguments, the visitors and `fix_specialize_test.cc` for a term below
`nargs` implicit binders. The model takes the documented one as reference.

CHECK_DEADLOCK is off where the system does stop: the closure is done once it has
returned, the client of the builder at the bound.

Fairness: `LazyStack!FairSpec` is weak fairness of the steps of a call and
`FixClosure!FairSpec` of the algorithm's next step; both say that a function
that has been called keeps executing. Nothing is assumed of the client.

## 4. Proofs

Theorems hold for every value of the constants under the ASSUMEs of the module.
Where one needs induction, it takes a counterexample that is minimal in a
well-founded order (`WFMin` with `NatLessThanWellFounded`) to a contradiction.

`LazyStackProofs`, for every finite set of nodes and handles, any values and any
length:

* `TypeCorrect`: `TypeOK`. It needs that Collect keeps what live pointers reach
  (`Reach` is the least set closed under `next`).
* `PathOwned`: `OwnsPath`, and from it `PrivateWrites`: `WritesArePrivate`. The property is not
  inductive by itself: that a node with one pointer to it is reachable from one
  handle only requires that the node before it is. `OwnsPath` says that of
  the node set has arrived at; a use count of one extends it to the next
  node, and a copy re-establishes it for a shared one.

* `ShapeHolds`: `ShapeInv`. `BinaryCounter` is not inductive. While push merges, its block is no larger than the
  next one to come (`PushShape`): it is as large and merges it, or smaller and is linked
  before it. While pop splits, no bit of the rest lies under `pow`, the last block
  is at most `pow` long, and if it is that long the bit at `pow` is gone from the rest, so that
  the next block is longer; both the rest and the last block are smaller than the block
  that follows what is split (`PopShape`). `BlocksAreBinaryCounter` follows, and
  `PopNeverPassesBit`: `PopFindsBit`.
* Powers of two are given by their divisors (`PowerOfTwo`), as the provers know no
  exponents. The lemmas about them: doubles and halves are powers, and between one and its
  double there is none (`PowerGap`). From the last, `WalksAreShort`: each block
  is at least twice as large as the one before.

`LazyStackValueProofs`, on the same constants:

* `ChainsAreReadable`: `ValueInv`. That a walk along `next` ends is an invariant of the
  heap (`Readable`): there is a function that gives each node a finite sequence, its
  items and then what it gives the next node. It says that there are no cycles
  without counting nodes, and the function determines `Elements`. Each operation on the heap
  keeps one, as the next pointer that pop or set changes is not on the way from
  the node it is changed to (`PopChain`, `SetPath` with `OwnsPath`).
* `Refinement`: `Spec => BehavesAsValues`. Calls map to the abstract calls, the steps of
  loops to stuttering, the last step of each to `Return` or `Throw`.
* `CallsHonoured`: the abstract call is that of the same name with the same arguments,
  which the refinement alone does not say.
* `LoopsStop`: each step of a call lowers `StepsLeft`, which is a natural
  number: the elements push has before it, twice those set has before it and one if it has
  to copy a node, twice those of the rest for pop, less `pow`, which by `PopFindsBit` stays
  within the rest.

`FixClosureProofs`, for every group, arity and seed:

* `TypeCorrect`, `VisitsKnownFunctions`, `PhasesHold`: structure of the loop.
* `VisitedUsesAgree`: the invariant that connects the loop to its result: unless
  the flag is raised, what has been visited agrees and what has not been visited
  is listed. At the end the lists are empty, whence `Soundness`.
* `Completeness`: while a consistent specialization of the reachable functions
  exists, everything computed is part of it. `NoneOnlyIfNone` and
  `NothingIsRevised` follow from these.
* `LoopEnds`: every step lowers `WorkLeft`: the functions not reached yet, then those
  listed, then the place in the loop and in the body. That a body is visited again does not
  matter: a function is listed only when it is reached for the first time.

`NameMapProofs`, for any sequence of names pushed onto the empty map and any scope on the way:

* `InnermostIsFound`: get_index fails exactly for names not in scope, and otherwise
  returns how many names have been bound since the innermost binding. The blocks to merge
  play no part: merging blocks that follow one another, the first to know
  a name deciding, changes nothing (`MergingKeeps`).
* `EveryPushCopiesAll`: because of the `>=` in the loop of push, every map is one block.

`SymbolTableProofs`, for every set of declarations, nesting and number of calls:

* `Leftovers`: `LeftoversAreOfModules`, from the invariant `IInv` that entries refer to
  declarations accepted and that what is open or lost was read in a module,
  which needs that the context of an open module is never empty.
* `TypeCorrect`: `TypeOK`, by the same invariant: a declaration that is accepted is new
  to the history, so it was neither open nor lost, and a module that is opened has a
  name longer than the one around it.

For the other properties of the table the invariant is `History`
(`TableIsHistory`): a type in the table comes from the latest field that declares its
name, and in it from the last position; an inductive from some field that declares
it; everything that a field declares is there; and a match has found its cases in an
earlier field than its own. From it follow

* `LatestWinsAlways`: `LatestWins`. That a last position exists is the one induction in it,
  by well-foundedness of the naturals (`Greatest`).
* `MapsAgreeAlways`, `MatchesOwnGroupAlways`: two fields that declare a name that is declared
  once are the same field (`UniqueField`).
* `StaysInModuleAlways`: `StaysInModule`, with the invariant that every open module
  is below all of those around it (`Nested`).

`DeBruijnProofs`, for terms nested to any depth over indices of a word of any width:

* That the recursive functions exist has to be proved before anything can be said of their
  values. A function that satisfies its equation on the terms of one level of nesting
  is extended to the next (`ShiftedDef`, `VisitedDef`, and so on); that the
  equation looks at smaller terms only is the one thing that differs from one
  function to the next. After that there are, for each operation, its value for leaves
  and for other terms (`ShiftLeaf`, `ShiftNode`), and induction over terms
  (`TermInduction`, `LevelInduction`), which are all that the rest uses.
* `ShiftedMeans`: under `b` binders a term shifted from `limit + b` on means in an environment
  with room what it meant without. The statement is about all `b` at once, as induction needs it, and
  asks that indices and offset stay in a word. It rests on `ShiftCountsBinders`: the
  shift method of every class raises its limit by what the class binds.
* `ShiftUndone`: shift(limit, -dir) after shift(limit, dir) is the term again.
* `VisitMeans`: the same for local_subst. The visitor counts what it pushes, which is not
  what is bound for a match, and does not look at the type of a let; `Counted` is what
  makes that no difference (`CountedSub`: a subterm is counted right and looked at, or it is closed).
  A substitute under `depth` binders is shifted by them, whence `ShiftedUnder`, for terms that are
  already under binders of their own; and a term that the visitor leaves alone has
  no variable to replace (`UnchangedMeans`).

`RenumberingProofs`, for any small terms, constructs, height and environment:

* `TypeCorrect`: `TypeOK`. Each function of builder makes a term of its class, with as many
  subterms as depths; for fix, whose subterms are a flattened list of lists, that is
  a lemma about `FlattenSeq` (`FlattenSeqShape`).
* `RoomCorrect`: `ShiftMakesRoom`; `SubstCorrect`: `SubstReplacesCounted`.

`NormalizingProofs`, for the same:

* `NormalNode` turns normalize inside out. The code collects a chain and normalizes the parts;
  the same comes out when all subterms are normalized first and then one of them, the last or
  first, is taken apart if it is a term of the same class (`Regroup`). The recursion is then
  one from a term to its own subterms, and each of the properties is an
  induction over terms with one lemma about `Regroup`.
* `CommuteCorrect`: `NormalizeCommutes`, from `NormalShift` and `NormalFree`. A subterm of an inner product or
  lambda of `j` arguments before it is under `n - 1` binders and then `j` more; in the
  chain it is argument `n + j`, under the same number (`JoinedLast`).
  An application binds nothing (`JoinedFirst`). `NormalShift` holds for
  indices that wrap around, too.
* `FlattenCorrect`: `NormalizeFlattens`, from `NormalCurry`, `NormalFlat` and `FlatStays`. Two of them are about
  chains that are put together from the front and from the back; there the induction is
  over the places in the chain (`LinkedFromSplice`, `LinkedUptoSplice`). A term that is `Flat` is its own
  normal form, hence one pass is enough.

The assumptions are the ASSUMEs of `LazyStack`, `FixClosure`, `SymbolTable`, `DeBruijn` and
`Renumbering`: finite sets of
nodes, handles and functions, null and None different from everything else, groups whose
uses refer to arguments that exist, identifiers that are not empty, groups of
declarations that are sequences, a word of at least one value, bounds on nesting and
indices as given above, and names among which are those that the client uses.

Model-checked only, and why:

* liveness, `EveryCallReturns` and `Terminates`. `LoopsStop` and `LoopEnds` prove that
  no call takes steps for ever; what the prover has no means for is the other half, fairness
  and that a step is possible (for lazy_stack it is only while there is memory);
* `SimplReduces`: `Simpl` calls itself on the term that it has reduced, which is not a part of the
  one it was called on and need not be smaller; on terms without a normal form the code does
  not return, and a function on all terms would say nothing of those on which it does;
* the properties of `FixOps`, `TypeOps`, `CodecOps` and `GallinaOps`, whose operators
  recurse over texts and trees or carry stacks along, as RECURSIVE operators, which are
  out of reach of the provers.

## 5. Not modelled, and the plan

What is left to do is to write the recursive modules that remain as functions on
`Term`, in the way of `DeBruijn`, so that their properties can be proved: first the walk and
`ApplyFixSpecialization` of `FixTerms`, where `VisitMeans` is what an argument that is put in
place of a variable needs, then `Check` of `Typing`.

Left out for good:

* formatting of terms and fields, `operator==` of fields, source locations in Gallina:
  output without an influence on anything else;
* `lazy_stackmap::flatten`, which is a template that cannot be instantiated (it assigns
  a shared_ptr to a plain pointer), and `empty`, which nothing calls;
* `sfb_fixpoint` in the codec: the reader never makes one; it is in `SymbolTable`;
* the kernel side of the OCaml plugin, its commands, and constructs that the reader
  rejects: modelling them would be modelling Coq;
* the sample program (calls of the library in a row) and the build.
