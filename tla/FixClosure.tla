------------------------------ MODULE FixClosure ------------------------------
(***************************************************************************)
(* compute_fix_specialization_closure (coqcic/fix_specialize.cc): starting *)
(* from one function of a fixpoint group and the arguments of it that are  *)
(* to be specialized, find out for every function of the group which of    *)
(* its arguments always carry a specialized value, or that there is no     *)
(* consistent answer.                                                      *)
(*                                                                         *)
(* The body of a function is, for this algorithm, the sequence of the uses *)
(* of the group's functions in it in the order the visitor meets them: the *)
(* function used and, for each argument it is applied to, the position of  *)
(* the caller's own argument that is passed on unchanged, or None.         *)
(***************************************************************************)
EXTENDS Integers, Sequences, FiniteSets, SequencesExt

CONSTANTS
  Fn,       \* the functions of the group
  Arity,    \* number of formal arguments of each
  SpecArg,  \* the specialization arguments
  None,     \* "not specialized", and "not computed yet"
  Groups    \* the groups to choose from, each a body for every function

Info(f) == [1 .. Arity[f] -> SpecArg \cup {None}]
Infos == UNION {Info(f) : f \in Fn}
Specialization == {info \in [Fn -> Infos] : \A f \in Fn : info[f] \in Info(f)}
Use == [fn : Fn, args : Seq(Nat \cup {None})]

ASSUME FnAssumption == IsFiniteSet(Fn)
ASSUME ArityAssumption == Arity \in [Fn -> Nat]
ASSUME NoneAssumption ==
  None \notin SpecArg \cup Nat \cup Specialization /\ \A f \in Fn : None \notin Info(f)
ASSUME GroupsAssumption ==
  \A g \in Groups :
    /\ g \in [Fn -> Seq(Use)]
    /\ \A f \in Fn : \A use \in Range(g[f]) : \A k \in 1 .. Len(use.args) :
         use.args[k] \in 1 .. Arity[f] \cup {None}

VARIABLES
  group,             \* the input: the bodies of the functions,
  root, seed,        \* the function to start from and its specialization
  call_state,        \* Fn -> specialization, or None while not computed
  newly_added, needs_processing,
  inconsistent,
  pc,                \* what the loop does next
  index,             \* the function whose body is visited,
  rest,              \* and the uses in it that are still to be visited
  result             \* the specialization of every function, or None

input == <<group, root, seed>>
vars == <<group, root, seed, call_state, newly_added, needs_processing,
          inconsistent, pc, index, rest, result>>

(***************************************************************************)
(* What a use of a function says about its specialization.                 *)
(***************************************************************************)
Saturated(use) == Len(use.args) >= Arity[use.fn]

\* The callee's specialization, given that of the caller
Passed(info, use) ==
  [n \in 1 .. Arity[use.fn] |->
     IF use.args[n] = None THEN None ELSE info[use.args[n]]]

(***************************************************************************)
(* The algorithm.                                                          *)
(***************************************************************************)
Init ==
  /\ group \in Groups
  /\ root \in Fn
  /\ seed \in Info(root)
  /\ call_state = [f \in Fn |-> None]
  /\ newly_added = <<>>
  /\ needs_processing = <<>>
  /\ inconsistent = FALSE
  /\ pc = "seed"
  /\ index = root
  /\ rest = <<>>
  /\ result = None

\* Fault: the function is listed, its specialization is not recorded
AddCallStateUnset(f, info) ==
  IF call_state[f] = None
  THEN newly_added' = Append(newly_added, f) /\ UNCHANGED <<call_state, inconsistent>>
  ELSE /\ inconsistent' = (inconsistent \/ call_state[f] # info)
       /\ UNCHANGED <<call_state, newly_added>>

\* Fault: what is already known is not compared
AddCallStateUnchecked(f, info) ==
  /\ UNCHANGED inconsistent
  /\ IF call_state[f] = None
     THEN /\ call_state' = [call_state EXCEPT ![f] = info]
          /\ newly_added' = Append(newly_added, f)
     ELSE UNCHANGED <<call_state, newly_added>>

\* Fault: the last call decides
AddCallStateLast(f, info) ==
  /\ call_state' = [call_state EXCEPT ![f] = info]
  /\ newly_added' = IF call_state[f] = None THEN Append(newly_added, f) ELSE newly_added
  /\ inconsistent' = (inconsistent \/ call_state[f] \notin {None, info})

\* Fault: a second call is inconsistent whatever it passes
AddCallStateOnce(f, info) ==
  IF call_state[f] = None
  THEN /\ call_state' = [call_state EXCEPT ![f] = info]
       /\ newly_added' = Append(newly_added, f)
       /\ UNCHANGED inconsistent
  ELSE inconsistent' = TRUE /\ UNCHANGED <<call_state, newly_added>>

\* fix_closure_state::add_call_state
AddCallState(f, info) ==
  IF call_state[f] = None
  THEN /\ call_state' = [call_state EXCEPT ![f] = info]
       /\ newly_added' = Append(newly_added, f)
       /\ UNCHANGED inconsistent
  ELSE /\ inconsistent' = (inconsistent \/ call_state[f] # info)
       /\ UNCHANGED <<call_state, newly_added>>

\* Fault: the seed is recorded and not listed
SeedUnlisted ==
  /\ pc = "seed"
  /\ call_state' = [call_state EXCEPT ![root] = seed]
  /\ pc' = "move"
  /\ UNCHANGED <<input, newly_added, inconsistent, needs_processing, index, rest, result>>

Seed ==
  /\ pc = "seed"
  /\ AddCallState(root, seed)
  /\ pc' = "move"
  /\ UNCHANGED <<input, needs_processing, index, rest, result>>

\* Fault: src.clear() is missing
MoveKeeps ==
  /\ pc = "move"
  /\ needs_processing' = needs_processing \o newly_added
  /\ pc' = "loop"
  /\ UNCHANGED <<input, call_state, newly_added, inconsistent, index, rest, result>>

\* vec_move_app(needs_processing, newly_added)
Move ==
  /\ pc = "move"
  /\ needs_processing' = needs_processing \o newly_added
  /\ newly_added' = <<>>
  /\ pc' = "loop"
  /\ UNCHANGED <<input, call_state, inconsistent, index, rest, result>>

\* Fault: pop_back() is missing
PickKeeps ==
  /\ pc = "loop"
  /\ needs_processing # <<>>
  /\ index' = Last(needs_processing)
  /\ rest' = group[index']
  /\ pc' = "visit"
  /\ UNCHANGED <<input, call_state, newly_added, needs_processing, inconsistent, result>>

\* The loop takes the function added last and starts to visit its body.
Pick ==
  /\ pc = "loop"
  /\ needs_processing # <<>>
  /\ index' = Last(needs_processing)
  /\ rest' = group[index']
  /\ needs_processing' = Front(needs_processing)
  /\ pc' = "visit"
  /\ UNCHANGED <<input, call_state, newly_added, inconsistent, result>>

\* visit_for_fix_closure_state meets a call that supplies all arguments
VisitCall ==
  /\ pc = "visit"
  /\ rest # <<>>
  /\ Saturated(Head(rest))
  /\ AddCallState(Head(rest).fn, Passed(call_state[index], Head(rest)))
  /\ rest' = Tail(rest)
  /\ UNCHANGED <<input, needs_processing, pc, index, result>>

\* and a use of a function that is not called, or not with all arguments.
VisitUnsaturated ==
  /\ pc = "visit"
  /\ rest # <<>>
  /\ ~Saturated(Head(rest))
  /\ inconsistent' = TRUE
  /\ rest' = Tail(rest)
  /\ UNCHANGED <<input, call_state, newly_added, needs_processing, pc, index, result>>

EndVisit ==
  /\ pc = "visit"
  /\ rest = <<>>
  /\ pc' = "move"
  /\ UNCHANGED <<input, call_state, newly_added, needs_processing, inconsistent,
                 index, rest, result>>

\* Fault: functions that were not reached are returned
ReturnPartial ==
  /\ pc = "loop"
  /\ needs_processing = <<>>
  /\ pc' = "done"
  /\ result' = IF inconsistent THEN None ELSE call_state
  /\ UNCHANGED <<input, call_state, newly_added, needs_processing, inconsistent,
                 index, rest>>

\* Fault: the flag is not looked at
ReturnInconsistent ==
  /\ pc = "loop"
  /\ needs_processing = <<>>
  /\ pc' = "done"
  /\ result' = IF \E f \in Fn : call_state[f] = None THEN None ELSE call_state
  /\ UNCHANGED <<input, call_state, newly_added, needs_processing, inconsistent,
                 index, rest>>

Return ==
  /\ pc = "loop"
  /\ needs_processing = <<>>
  /\ pc' = "done"
  /\ result' = IF inconsistent \/ \E f \in Fn : call_state[f] = None
               THEN None ELSE call_state
  /\ UNCHANGED <<input, call_state, newly_added, needs_processing, inconsistent,
                 index, rest>>

Next == Seed \/ Move \/ Pick \/ VisitCall \/ VisitUnsaturated \/ EndVisit \/ Return

Spec == Init /\ [][Next]_vars

\* The function runs to its end.
FairSpec == Spec /\ WF_vars(Next)

(***************************************************************************)
(* What the result should be.                                              *)
(***************************************************************************)

\* info gives a specialization to every function of the set S, every use of a
\* function in a body of S is a call that supplies all arguments, and the
\* arguments it passes are specialized exactly as info says of the callee.
Agrees(info, f, use) ==
  Saturated(use) /\ Passed(info[f], use) = info[use.fn]

Uses(f) == Range(group[f])

ConsistentOn(S, info) ==
  \A f \in S : \A use \in Uses(f) : Agrees(info, f, use)

\* The functions that root reaches through uses in bodies
Closed(S) == \A f \in S : \A use \in Uses(f) : use.fn \in S
Reachable == {f \in Fn : \A S \in SUBSET Fn : root \in S /\ Closed(S) => f \in S}

(***************************************************************************)
(* Properties.                                                             *)
(***************************************************************************)
Known == {f \in Fn : call_state[f] # None}

TypeOK ==
  /\ group \in Groups
  /\ root \in Fn
  /\ seed \in Info(root)
  /\ call_state \in [Fn -> Infos \cup {None}]
  /\ \A f \in Fn : call_state[f] \in Info(f) \cup {None}
  /\ newly_added \in Seq(Fn)
  /\ needs_processing \in Seq(Fn)
  /\ inconsistent \in BOOLEAN
  /\ pc \in {"seed", "move", "loop", "visit", "done"}
  /\ index \in Fn
  /\ rest \in Seq(Use)
  /\ Range(rest) \subseteq Uses(index)
  /\ result \in {None} \cup Specialization

\* A function is listed for processing only once its specialization is known,
\* so the body of a function is never visited with call_state[index] unset.
ListedAreKnown ==
  /\ Range(needs_processing) \cup Range(newly_added) \subseteq Known
  /\ pc = "visit" => index \in Known

\* What each phase of the loop leaves behind: the lists are empty where the code
\* counts on it, the seed is in place, and the result is read off at the end.
Phases ==
  /\ pc = "seed" => Known = {}
  /\ pc # "seed" => call_state[root] = seed
  /\ pc \in {"loop", "done"} => Range(newly_added) = {}
  /\ pc = "done" => Range(needs_processing) = {}
  /\ result = IF pc # "done" \/ inconsistent \/ Known # Fn THEN None ELSE call_state

\* The invariant behind the result: unless an inconsistency has been noted,
\* every use that has been visited agrees with what is known, and the uses not
\* yet visited are those of the listed functions and the rest of the body that
\* is being visited.
Visited(f, use) ==
  /\ f \notin Range(needs_processing) \cup Range(newly_added)
  /\ ~(pc = "visit" /\ f = index /\ use \in Range(rest))

VisitedAgree ==
  ~inconsistent =>
    \A f \in Known : \A use \in Uses(f) :
      Visited(f, use) => use.fn \in Known /\ Agrees(call_state, f, use)

\* Soundness: a specialization that is returned keeps the seed, and it is
\* consistent: every call anywhere in the group passes exactly the arguments
\* that the callee is specialized on.  apply_fix_specialization removes the
\* arguments of every call on the strength of this.
ResultConsistent ==
  result # None => result[root] = seed /\ ConsistentOn(Fn, result)

\* Completeness: the seed's consequences are forced.  As long as a consistent
\* specialization of the reachable functions exists, nothing is ever marked
\* inconsistent and all that has been computed is part of it.
OnlyForced ==
  \A info \in Specialization :
    info[root] = seed /\ ConsistentOn(Reachable, info) =>
      ~inconsistent /\ Known \subseteq Reachable /\ \A f \in Known : call_state[f] = info[f]

\* So the answer is None in two cases only: there is no consistent
\* specialization, or root does not reach the whole group.
NoneIsDeserved ==
  pc = "done" /\ result = None =>
    \/ Reachable # Fn
    \/ ~ \E info \in Specialization : info[root] = seed /\ ConsistentOn(Fn, info)

\* The specialization of a function never changes once it is computed, and an
\* inconsistency is never forgotten.
Settled ==
  [][/\ \A f \in Known : call_state'[f] = call_state[f]
     /\ inconsistent => inconsistent']_vars

\* The work list runs empty however the functions call each other.
Terminates == <>(pc = "done")
=============================================================================
