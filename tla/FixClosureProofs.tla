--------------------------- MODULE FixClosureProofs ---------------------------
(***************************************************************************)
(* Proofs about FixClosure, for any group of functions, any arities, any   *)
(* specialization arguments and any bodies.                                *)
(***************************************************************************)
EXTENDS FixClosure, SequenceTheorems, FiniteSetTheorems, WellFoundedInduction, TLAPS

(***************************************************************************)
(* Sequences as work lists.                                                *)
(***************************************************************************)

\* A list of one element holds that element (newly_added.push_back).
LEMMA SingleElement ==
  ASSUME NEW T, NEW x \in T
  PROVE  <<x>> \in Seq(T) /\ Range(<<x>>) = {x}
<1>1. <<x>> \in Seq(T) /\ Len(<<x>>) = 1 /\ <<x>>[1] = x
  OBVIOUS
<1>2. Range(<<x>>) = {<<x>>[i] : i \in 1 .. Len(<<x>>)}
  BY <1>1, RangeEquality
<1>3. 1 .. Len(<<x>>) = {1}
  BY <1>1
<1>4. {<<x>>[i] : i \in {1}} = {x}
  BY <1>1
<1> QED BY <1>1, <1>2, <1>3, <1>4

\* Appending to a work list adds the one element (newly_added.push_back).
LEMMA AppendElements ==
  ASSUME NEW T, NEW s \in Seq(T), NEW x \in T
  PROVE  Append(s, x) \in Seq(T) /\ Range(Append(s, x)) = Range(s) \cup {x}
<1>1. <<x>> \in Seq(T) /\ Range(<<x>>) = {x}
  BY SingleElement
<1>2. Append(s, x) = s \o <<x>> /\ Append(s, x) \in Seq(T)
  BY AppendIsConcat, AppendProperties
<1>3. Range(s \o <<x>>) = Range(s) \cup Range(<<x>>)
  BY <1>1, RangeConcatenation, Zenon
<1> QED BY <1>1, <1>2, <1>3, Zenon

\* Moving one work list to the end of another keeps all elements
\* (vec_move_app).
LEMMA ConcatElements ==
  ASSUME NEW T, NEW s \in Seq(T), NEW t \in Seq(T)
  PROVE  s \o t \in Seq(T) /\ Range(s \o t) = Range(s) \cup Range(t)
BY ConcatProperties, RangeConcatenation

\* Taking the last element leaves the others (needs_processing.pop_back).
LEMMA LastElements ==
  ASSUME NEW T, NEW s \in Seq(T), s # <<>>
  PROVE  /\ Front(s) \in Seq(T)
         /\ Last(s) \in T
         /\ Range(s) = Range(Front(s)) \cup {Last(s)}
<1>1. Len(s) \in Nat /\ Len(s) # 0
  BY EmptySeq, LenProperties
<1>2. Last(s) \in T
  BY <1>1, ElementOfSeq DEF Last
<1>3. Front(s) \in Seq(T)
  BY <1>1, SubSeqProperties, ElementOfSeq DEF Front
<1>4. s = Front(s) \o <<Last(s)>>
  BY <1>1, SubSeqRecursiveSecond, SubSeqFull DEF Front, Last
<1>5. Range(Front(s) \o <<Last(s)>>) = Range(Front(s)) \cup {Last(s)}
  <2> DEFINE front == Front(s)
             last == <<Last(s)>>
  <2>1. front \in Seq(T) /\ last \in Seq(T) /\ Range(last) = {Last(s)}
    BY <1>2, <1>3, SingleElement
  <2> HIDE DEF front, last
  <2>2. Range(front \o last) = Range(front) \cup Range(last)
    BY <2>1, RangeConcatenation
  <2> QED BY <2>1, <2>2 DEF front, last
<1> QED BY <1>2, <1>3, <1>4, <1>5

\* Going on to the next use leaves the rest of the body (the visitor's order).
LEMMA HeadElements ==
  ASSUME NEW T, NEW s \in Seq(T), s # <<>>
  PROVE  /\ Tail(s) \in Seq(T)
         /\ Head(s) \in T
         /\ Range(s) = {Head(s)} \cup Range(Tail(s))
<1>1. Head(s) \in T /\ Tail(s) \in Seq(T)
  BY HeadTailProperties
<1>2. s = <<Head(s)>> \o Tail(s)
  OBVIOUS
<1>3. <<Head(s)>> \in Seq(T) /\ Range(<<Head(s)>>) = {Head(s)}
  BY <1>1, SingleElement
<1>4. Range(<<Head(s)>> \o Tail(s)) = Range(<<Head(s)>>) \cup Range(Tail(s))
  <2> DEFINE hd == <<Head(s)>>
             tl == Tail(s)
  <2>1. hd \in Seq(T) /\ tl \in Seq(T)
    BY <1>1, <1>3
  <2> HIDE DEF hd, tl
  <2>2. Range(hd \o tl) = Range(hd) \cup Range(tl)
    BY <2>1, RangeConcatenation
  <2> QED BY <2>2 DEF hd, tl
<1> QED BY <1>1, <1>2, <1>3, <1>4, Zenon

(***************************************************************************)
(* Type correctness.                                                       *)
(***************************************************************************)

\* The uses in a body pass arguments of the function that contains them
\* (the locals the visitor starts with).
LEMMA UseOK ==
  ASSUME group \in Groups, NEW f \in Fn, NEW use \in Uses(f)
  PROVE  /\ use \in Use
         /\ \A k \in 1 .. Len(use.args) : use.args[k] \in 1 .. Arity[f] \cup {None}
<1>1. group[f] \in Seq(Use)
  BY GroupsAssumption
<1>2. use \in Use
  BY <1>1 DEF Uses, Range
<1> QED BY <1>2, GroupsAssumption DEF Uses

\* A saturated call specializes its callee on arguments of its own (the info
\* that the visitor builds).
LEMMA PassedOK ==
  ASSUME group \in Groups, NEW f \in Fn, NEW use \in Uses(f), Saturated(use),
         NEW info \in Info(f)
  PROVE  use.fn \in Fn /\ Passed(info, use) \in Info(use.fn)
<1>1. use.fn \in Fn /\ use.args \in Seq(Nat \cup {None})
  BY UseOK DEF Use
<1>2. Arity[use.fn] \in Nat /\ Arity[f] \in Nat
  BY <1>1, ArityAssumption
<1>3. ASSUME NEW n \in 1 .. Arity[use.fn]
      PROVE  (IF use.args[n] = None THEN None ELSE info[use.args[n]]) \in SpecArg \cup {None}
  <2>1. n \in 1 .. Len(use.args)
    BY <1>1, <1>2 DEF Saturated
  <2>2. use.args[n] \in 1 .. Arity[f] \cup {None}
    BY <2>1, UseOK
  <2> QED BY <2>2 DEF Info
<1> QED BY <1>1, <1>3 DEF Passed, Info

\* Recording a specialization keeps the types (add_call_state).
LEMMA AddCallStateOK ==
  ASSUME TypeOK, NEW f \in Fn, NEW info \in Info(f), AddCallState(f, info)
  PROVE  /\ call_state' \in [Fn -> Infos \cup {None}]
         /\ \A x \in Fn : call_state'[x] \in Info(x) \cup {None}
         /\ newly_added' \in Seq(Fn)
         /\ inconsistent' \in BOOLEAN
<1>1. CASE call_state[f] = None
  <2>1. /\ call_state' = [call_state EXCEPT ![f] = info]
        /\ newly_added' = Append(newly_added, f)
        /\ inconsistent' = inconsistent
    BY <1>1 DEF AddCallState
  <2>2. info \in Infos
    BY DEF Infos
  <2>3. newly_added' \in Seq(Fn)
    BY <2>1, AppendElements DEF TypeOK
  <2> QED BY <2>1, <2>2, <2>3 DEF TypeOK
<1>2. CASE call_state[f] # None
  BY <1>2 DEF AddCallState, TypeOK
<1> QED BY <1>1, <1>2

\* A step keeps the types, given that only known functions are listed.
LEMMA TypeStep == TypeOK /\ ListedAreKnown /\ [Next]_vars => TypeOK'
<1> SUFFICES ASSUME TypeOK, ListedAreKnown, [Next]_vars PROVE TypeOK'
  OBVIOUS
<1>1. CASE Seed
  BY <1>1, AddCallStateOK DEF Seed, TypeOK, input, Uses
<1>2. CASE Move
  <2>1. needs_processing' \in Seq(Fn) /\ newly_added' \in Seq(Fn)
    BY <1>2 DEF Move, TypeOK
  <2> QED BY <1>2, <2>1 DEF Move, TypeOK, input, Uses
<1>3. CASE Pick
  <2>1. index' \in Fn /\ needs_processing' \in Seq(Fn)
    BY <1>3, LastElements DEF Pick, TypeOK
  <2>2. rest' = group[index'] /\ rest' \in Seq(Use) /\ Range(rest') = Uses(index)'
    BY <1>3, <2>1, GroupsAssumption DEF Pick, TypeOK, input, Uses
  <2> QED BY <1>3, <2>1, <2>2 DEF Pick, TypeOK, input
<1>4. CASE VisitCall
  <2>1. Tail(rest) \in Seq(Use) /\ Range(Tail(rest)) \subseteq Uses(index) /\ Head(rest) \in Uses(index)
    BY <1>4, HeadElements DEF VisitCall, TypeOK
  <2>2. call_state[index] \in Info(index)
    BY <1>4 DEF VisitCall, TypeOK, ListedAreKnown, Known
  <2>3. Head(rest).fn \in Fn /\ Passed(call_state[index], Head(rest)) \in Info(Head(rest).fn)
    BY <1>4, <2>1, <2>2, PassedOK DEF VisitCall, TypeOK
  <2>4. AddCallState(Head(rest).fn, Passed(call_state[index], Head(rest)))
    BY <1>4 DEF VisitCall
  <2> QED BY <1>4, <2>1, <2>3, <2>4, AddCallStateOK DEF VisitCall, TypeOK, input, Uses
<1>5. CASE VisitUnsaturated
  <2>1. Tail(rest) \in Seq(Use) /\ Range(Tail(rest)) \subseteq Uses(index)
    BY <1>5, HeadElements DEF VisitUnsaturated, TypeOK
  <2> QED BY <1>5, <2>1 DEF VisitUnsaturated, TypeOK, input, Uses
<1>6. CASE EndVisit
  BY <1>6 DEF EndVisit, TypeOK, input, Uses
<1>7. CASE Return
  <2>1. CASE result' = None
    BY <1>7, <2>1 DEF Return, TypeOK, input, Uses
  <2>2. CASE result' # None
    <3>1. result' = call_state /\ \A f \in Fn : call_state[f] # None
      BY <1>7, <2>2 DEF Return
    <3>2. \A f \in Fn : call_state[f] \in Info(f)
      BY <3>1 DEF TypeOK
    <3>3. call_state \in [Fn -> Infos]
      BY <3>2 DEF TypeOK, Infos
    <3>4. result' \in Specialization
      BY <3>1, <3>2, <3>3 DEF Specialization
    <3> QED BY <1>7, <3>4 DEF Return, TypeOK, input, Uses
  <2> QED BY <2>1, <2>2
<1>8. CASE UNCHANGED vars
  BY <1>8 DEF vars, TypeOK, input, Uses
<1> QED BY <1>1, <1>2, <1>3, <1>4, <1>5, <1>6, <1>7, <1>8 DEF Next

\* What add_call_state does to the lists and to what is known.
LEMMA AddCallStateLists ==
  ASSUME TypeOK, NEW f \in Fn, NEW info \in Info(f), AddCallState(f, info)
  PROVE  /\ Known' = Known \cup {f}
         /\ \A x \in Known : call_state'[x] = call_state[x]
         /\ Range(newly_added) \subseteq Range(newly_added')
         /\ Range(newly_added') \subseteq Range(newly_added) \cup {f}
         /\ f \in Known \/ f \in Range(newly_added')
         /\ inconsistent => inconsistent'
         /\ ~inconsistent' => call_state'[f] = info
<1>1. info # None
  BY NoneAssumption
<1>2. CASE call_state[f] = None
  <2>1. /\ call_state' = [call_state EXCEPT ![f] = info]
        /\ newly_added' = Append(newly_added, f)
        /\ inconsistent' = inconsistent
    BY <1>2 DEF AddCallState
  <2>2. Range(newly_added') = Range(newly_added) \cup {f}
    BY <2>1, AppendElements DEF TypeOK
  <2> QED BY <1>1, <1>2, <2>1, <2>2 DEF TypeOK, Known
<1>3. CASE call_state[f] # None
  <2>1. /\ call_state' = call_state
        /\ newly_added' = newly_added
        /\ inconsistent' = (inconsistent \/ call_state[f] # info)
    BY <1>3 DEF AddCallState
  <2>2. f \in Known
    BY <1>3 DEF Known
  <2>3. Known' = Known
    BY <2>1 DEF Known
  <2> QED BY <2>1, <2>2, <2>3
<1> QED BY <1>2, <1>3

\* A step lists known functions only.
LEMMA ListedStep == TypeOK /\ ListedAreKnown /\ [Next]_vars => ListedAreKnown'
<1> SUFFICES ASSUME TypeOK, ListedAreKnown, [Next]_vars PROVE ListedAreKnown'
  OBVIOUS
<1>1. CASE Seed
  <2>1. AddCallState(root, seed) /\ root \in Fn /\ seed \in Info(root)
    BY <1>1 DEF Seed, TypeOK
  <2> QED BY <1>1, <2>1, AddCallStateLists DEF Seed, ListedAreKnown
<1>2. CASE Move
  <2>1. Range(needs_processing') = Range(needs_processing) \cup Range(newly_added)
    BY <1>2, ConcatElements DEF Move, TypeOK
  <2>2. Range(newly_added') = {}
    BY <1>2 DEF Move, Range
  <2> QED BY <1>2, <2>1, <2>2 DEF Move, ListedAreKnown, Known
<1>3. CASE Pick
  <2>1. Range(needs_processing) = Range(needs_processing') \cup {index'}
    BY <1>3, LastElements DEF Pick, TypeOK
  <2> QED BY <1>3, <2>1 DEF Pick, ListedAreKnown, Known
<1>4. CASE VisitCall
  <2>1. Head(rest) \in Uses(index)
    BY <1>4, HeadElements DEF VisitCall, TypeOK
  <2>2. call_state[index] \in Info(index)
    BY <1>4 DEF VisitCall, TypeOK, ListedAreKnown, Known
  <2>3. Head(rest).fn \in Fn /\ Passed(call_state[index], Head(rest)) \in Info(Head(rest).fn)
    BY <1>4, <2>1, <2>2, PassedOK DEF VisitCall, TypeOK
  <2>4. AddCallState(Head(rest).fn, Passed(call_state[index], Head(rest)))
    BY <1>4 DEF VisitCall
  <2> QED BY <1>4, <2>3, <2>4, AddCallStateLists DEF VisitCall, ListedAreKnown
<1>5. CASE VisitUnsaturated \/ EndVisit \/ Return \/ UNCHANGED vars
  BY <1>5 DEF VisitUnsaturated, EndVisit, Return, vars, ListedAreKnown, Known
<1> QED BY <1>1, <1>2, <1>3, <1>4, <1>5 DEF Next

\* In the initial state nothing is listed and nothing is known.
LEMMA InitOK == Init => TypeOK /\ ListedAreKnown
<1> SUFFICES ASSUME Init PROVE TypeOK /\ ListedAreKnown
  OBVIOUS
<1>1. Range(<<>>) = {}
  BY DEF Range
<1>2. ListedAreKnown
  BY <1>1 DEF Init, ListedAreKnown
<1>3. call_state \in [Fn -> Infos \cup {None}]
  BY DEF Init
<1>4. \A f \in Fn : call_state[f] \in Info(f) \cup {None}
  BY DEF Init
<1>5. rest \in Seq(Use) /\ Range(rest) \subseteq Uses(index)
  BY <1>1 DEF Init
<1>6. newly_added \in Seq(Fn) /\ needs_processing \in Seq(Fn)
  BY DEF Init
<1>7. inconsistent \in BOOLEAN
  BY DEF Init
<1>8. result \in {None} \cup Specialization
  BY DEF Init
<1>9. /\ group \in Groups /\ root \in Fn /\ seed \in Info(root) /\ index \in Fn
      /\ pc \in {"seed", "move", "loop", "visit", "done"}
  BY DEF Init
<1> QED BY <1>2, <1>3, <1>4, <1>5, <1>6, <1>7, <1>8, <1>9 DEF TypeOK

\* Every variable has its type: in particular call_state holds for each function
\* a specialization with exactly as many entries as it has arguments.
THEOREM TypeCorrect == Spec => []TypeOK
<1>1. TypeOK /\ ListedAreKnown /\ [Next]_vars => TypeOK' /\ ListedAreKnown'
  BY TypeStep, ListedStep
<1> QED BY <1>1, InitOK, PTL DEF Spec

\* The body of a function is visited only after its specialization is known.
THEOREM VisitsKnownFunctions == Spec => []ListedAreKnown
<1> QED BY InitOK, ListedStep, TypeCorrect, PTL DEF Spec

(***************************************************************************)
(* Soundness.                                                              *)
(***************************************************************************)

\* What VisitCall does, in terms of the sets of listed and known functions.
LEMMA VisitCallEffect ==
  ASSUME TypeOK, ListedAreKnown, VisitCall
  PROVE  LET use == Head(rest) IN
           /\ Range(rest) = {use} \cup Range(Tail(rest))
           /\ use \in Uses(index)
           /\ use.fn \in Fn
           /\ Known' = Known \cup {use.fn}
           /\ \A x \in Known : call_state'[x] = call_state[x]
           /\ Range(newly_added) \subseteq Range(newly_added')
           /\ use.fn \in Known \/ use.fn \in Range(newly_added')
           /\ inconsistent => inconsistent'
           /\ ~inconsistent' => call_state'[use.fn] = Passed(call_state[index], use)
           /\ index \in Known
<1>1. Range(rest) = {Head(rest)} \cup Range(Tail(rest)) /\ Head(rest) \in Uses(index)
  BY HeadElements DEF VisitCall, TypeOK
<1>2. index \in Known /\ call_state[index] \in Info(index)
  BY DEF VisitCall, TypeOK, ListedAreKnown, Known
<1>3. Head(rest).fn \in Fn /\ Passed(call_state[index], Head(rest)) \in Info(Head(rest).fn)
  BY <1>1, <1>2, PassedOK DEF VisitCall, TypeOK
<1>4. AddCallState(Head(rest).fn, Passed(call_state[index], Head(rest)))
  BY DEF VisitCall
<1> QED BY <1>1, <1>2, <1>3, <1>4, AddCallStateLists

\* A step keeps the bookkeeping of the phases.
LEMMA PhasesStep == TypeOK /\ ListedAreKnown /\ Phases /\ [Next]_vars => Phases'
<1> SUFFICES ASSUME TypeOK, ListedAreKnown, Phases, [Next]_vars PROVE Phases'
  OBVIOUS
<1>1. CASE Seed
  <2>1. AddCallState(root, seed) /\ root \in Fn /\ seed \in Info(root) /\ seed # None
    BY <1>1, NoneAssumption DEF Seed, TypeOK
  <2>2. call_state[root] = None
    BY <1>1, <2>1 DEF Seed, Phases, Known
  <2>3. call_state' = [call_state EXCEPT ![root] = seed]
    BY <2>1, <2>2 DEF AddCallState
  <2>4. call_state'[root] = seed
    BY <2>1, <2>3 DEF TypeOK
  <2> QED BY <1>1, <2>4 DEF Seed, Phases, input
<1>2. CASE Move
  <2>1. Range(newly_added') = {}
    BY <1>2 DEF Move, Range
  <2> QED BY <1>2, <2>1 DEF Move, Phases, input
<1>3. CASE Pick
  BY <1>3 DEF Pick, Phases, input
<1>4. CASE VisitCall
  <2>1. \A x \in Known : call_state'[x] = call_state[x]
    BY <1>4, VisitCallEffect
  <2>2. root \in Known
    BY <1>4, NoneAssumption DEF VisitCall, Phases, TypeOK, Known
  <2> QED BY <1>4, <2>1, <2>2 DEF VisitCall, Phases, input
<1>5. CASE VisitUnsaturated \/ EndVisit
  BY <1>5 DEF VisitUnsaturated, EndVisit, Phases, input, Known
<1>6. CASE Return
  <2>1. Range(needs_processing') = {}
    BY <1>6 DEF Return, Range
  <2>2. (\E f \in Fn : call_state[f] = None) <=> Known # Fn
    BY DEF Known
  <2>3. Known' = Known
    BY <1>6 DEF Return, Known
  <2> QED BY <1>6, <2>1, <2>2, <2>3 DEF Return, Phases, input
<1>7. CASE UNCHANGED vars
  <2>1. Known' = Known
    BY <1>7 DEF vars, Known
  <2> QED BY <1>7, <2>1 DEF vars, Phases
<1> QED BY <1>1, <1>2, <1>3, <1>4, <1>5, <1>6, <1>7 DEF Next

\* A use that agrees with what is known goes on to agree (call_state is never
\* overwritten).
LEMMA AgreeStable ==
  ASSUME NEW f \in Known, NEW use, use.fn \in Known,
         Agrees(call_state, f, use),
         \A x \in Known : call_state'[x] = call_state[x]
  PROVE  Agrees(call_state', f, use)
BY DEF Agrees

\* A step keeps all visited uses in agreement.
LEMMA VisitedAgreeStep ==
  TypeOK /\ ListedAreKnown /\ Phases /\ VisitedAgree /\ [Next]_vars => VisitedAgree'
<1> SUFFICES ASSUME TypeOK, ListedAreKnown, Phases, VisitedAgree, [Next]_vars,
                    ~inconsistent',
                    NEW f \in Known', NEW use \in Uses(f)', Visited(f, use)'
             PROVE  use.fn \in Known' /\ Agrees(call_state', f, use)
  BY DEF VisitedAgree
<1>1. ASSUME use \in Uses(f), f \in Known, Visited(f, use), ~inconsistent,
             Known \subseteq Known',
             \A x \in Known : call_state'[x] = call_state[x]
      PROVE  use.fn \in Known' /\ Agrees(call_state', f, use)
  BY <1>1, AgreeStable DEF VisitedAgree
<1>2. CASE Seed
  <2>1. AddCallState(root, seed) /\ root \in Fn /\ seed \in Info(root)
    BY <1>2 DEF Seed, TypeOK
  <2>2. Known' = {root} /\ root \in Range(newly_added')
    BY <1>2, <2>1, AddCallStateLists DEF Seed, Phases
  <2> QED BY <2>2 DEF Visited
<1>3. CASE Move
  <2>1. Range(needs_processing') = Range(needs_processing) \cup Range(newly_added)
    BY <1>3, ConcatElements DEF Move, TypeOK
  <2>2. Visited(f, use)
    BY <1>3, <2>1 DEF Move, Visited
  <2> QED BY <1>1, <1>3, <2>2 DEF Move, Uses, input, Known
<1>4. CASE Pick
  <2>1. Range(needs_processing) = Range(needs_processing') \cup {index'}
    BY <1>4, LastElements DEF Pick, TypeOK
  <2>2. Range(rest') = Uses(index')
    BY <1>4 DEF Pick, Uses
  <2>3. use \in Uses(f) /\ f # index'
    BY <1>4, <2>2 DEF Pick, Visited, Uses, input
  <2>4. Visited(f, use)
    BY <1>4, <2>1, <2>3 DEF Pick, Visited
  <2> QED BY <1>1, <1>4, <2>3, <2>4 DEF Pick, Known
<1>5. CASE VisitCall
  <2> DEFINE u == Head(rest)
  <2>1. /\ Range(rest) = {u} \cup Range(Tail(rest))
        /\ Known' = Known \cup {u.fn}
        /\ \A x \in Known : call_state'[x] = call_state[x]
        /\ Range(newly_added) \subseteq Range(newly_added')
        /\ u.fn \in Known \/ u.fn \in Range(newly_added')
        /\ ~inconsistent
        /\ call_state'[u.fn] = Passed(call_state[index], u)
        /\ index \in Known
    BY <1>5, VisitCallEffect
  <2>2. use \in Uses(f) /\ f \in Known
    BY <1>5, <2>1 DEF VisitCall, Visited, Uses, input
  <2>3. rest' = Tail(rest) /\ index' = index /\ pc = "visit" /\ pc' = "visit"
        /\ needs_processing' = needs_processing /\ Saturated(u)
    BY <1>5 DEF VisitCall
  <2> HIDE DEF u
  <2>4. CASE f = index /\ use = u
    <3>1. call_state'[f] = call_state[f]
      BY <2>1, <2>2
    <3> QED BY <2>1, <2>3, <2>4, <3>1 DEF Agrees
  <2>5. CASE ~(f = index /\ use = u)
    <3>1. Visited(f, use)
      BY <2>1, <2>3, <2>5 DEF Visited
    <3> QED BY <1>1, <2>1, <2>2, <3>1
  <2> QED BY <2>4, <2>5
<1>6. CASE VisitUnsaturated
  BY <1>6 DEF VisitUnsaturated
<1>7. CASE EndVisit
  <2>1. Range(rest) = {}
    BY <1>7 DEF EndVisit, Range
  <2>2. Visited(f, use)
    BY <1>7, <2>1 DEF EndVisit, Visited
  <2> QED BY <1>1, <1>7, <2>2 DEF EndVisit, Uses, input, Known
<1>8. CASE Return
  <2>1. Visited(f, use)
    BY <1>8 DEF Return, Visited
  <2> QED BY <1>1, <1>8, <2>1 DEF Return, Uses, input, Known
<1>9. CASE UNCHANGED vars
  BY <1>1, <1>9 DEF vars, Uses, Known, Visited
<1> QED BY <1>2, <1>3, <1>4, <1>5, <1>6, <1>7, <1>8, <1>9 DEF Next

\* In the initial state nothing is known.
LEMMA InitPhases == Init => Phases /\ VisitedAgree
<1> SUFFICES ASSUME Init PROVE Phases /\ VisitedAgree
  OBVIOUS
<1>1. Known = {}
  BY DEF Init, Known
<1>2. Range(<<>>) = {}
  BY DEF Range
<1> QED BY <1>1, <1>2 DEF Init, Phases, VisitedAgree

\* The lists are empty where the code counts on it.
THEOREM PhasesHold == Spec => []Phases
<1> QED BY InitPhases, PhasesStep, TypeCorrect, VisitsKnownFunctions, PTL DEF Spec

\* Every use that has been visited agrees with the recorded specializations.
THEOREM VisitedUsesAgree == Spec => []VisitedAgree
<1> QED BY InitPhases, VisitedAgreeStep, TypeCorrect, VisitsKnownFunctions, PhasesHold, PTL
        DEF Spec

\* A specialization that is returned keeps the seed and is consistent in the
\* body of every function of the group.
THEOREM Soundness == Spec => []ResultConsistent
<1>1. TypeOK /\ Phases /\ VisitedAgree => ResultConsistent
  <2> SUFFICES ASSUME TypeOK, Phases, VisitedAgree, result # None
               PROVE  result[root] = seed /\ ConsistentOn(Fn, result)
    BY DEF ResultConsistent
  <2>1. pc = "done" /\ ~inconsistent /\ Known = Fn /\ result = call_state
    BY DEF Phases
  <2>2. result[root] = seed
    BY <2>1 DEF Phases
  <2>3. ASSUME NEW f \in Fn, NEW use \in Uses(f)
        PROVE  Agrees(result, f, use)
    <3>1. Visited(f, use)
      BY <2>1 DEF Phases, Visited
    <3> QED BY <2>1, <3>1 DEF VisitedAgree
  <2> QED BY <2>2, <2>3 DEF ConsistentOn
<1> QED BY <1>1, TypeCorrect, PhasesHold, VisitedUsesAgree, PTL

(***************************************************************************)
(* Completeness.                                                           *)
(***************************************************************************)

\* The functions reached from root are closed under uses (the call graph).
LEMMA ReachableClosed ==
  ASSUME group \in Groups, NEW f \in Reachable, NEW use \in Uses(f), use.fn \in Fn
  PROVE  use.fn \in Reachable
BY DEF Reachable, Closed

\* A step computes nothing but what every consistent specialization says.
LEMMA OnlyForcedStep ==
  TypeOK /\ ListedAreKnown /\ Phases /\ OnlyForced /\ [Next]_vars => OnlyForced'
<1> SUFFICES ASSUME TypeOK, ListedAreKnown, Phases, OnlyForced, [Next]_vars PROVE OnlyForced'
  OBVIOUS
<1>1. /\ group' = group /\ root' = root /\ seed' = seed
      /\ Reachable' = Reachable
      /\ \A info : ConsistentOn(Reachable, info)' <=> ConsistentOn(Reachable, info)
  <2>1. group' = group /\ root' = root /\ seed' = seed
    BY DEF Next, Seed, Move, Pick, VisitCall, VisitUnsaturated, EndVisit, Return, vars, input
  <2>2. \A f : Uses(f)' = Uses(f)
    BY <2>1 DEF Uses
  <2>3. Reachable' = Reachable
    BY <2>1, <2>2 DEF Reachable, Closed
  <2> QED BY <2>1, <2>2, <2>3 DEF ConsistentOn
<1> SUFFICES ASSUME NEW info \in Specialization, info[root] = seed,
                    ConsistentOn(Reachable, info)
             PROVE  ~inconsistent' /\ \A f \in Known' : f \in Reachable /\ call_state'[f] = info[f]
  BY <1>1 DEF OnlyForced
<1>2. ~inconsistent /\ \A f \in Known : f \in Reachable /\ call_state[f] = info[f]
  BY DEF OnlyForced
<1>3. CASE Seed
  <2>1. AddCallState(root, seed) /\ root \in Fn /\ seed \in Info(root)
    BY <1>3 DEF Seed, TypeOK
  <2>2. call_state[root] = None
    BY <1>3, <2>1 DEF Seed, Phases, Known
  <2>3. call_state' = [call_state EXCEPT ![root] = seed] /\ inconsistent' = inconsistent
    BY <2>1, <2>2 DEF AddCallState
  <2>4. Known' = {root}
    BY <1>3, <2>1, AddCallStateLists DEF Seed, Phases
  <2>5. root \in Reachable
    BY <2>1 DEF Reachable
  <2> QED BY <1>2, <2>1, <2>3, <2>4, <2>5 DEF TypeOK
<1>4. CASE VisitCall
  <2> DEFINE u == Head(rest)
  <2>1. /\ u \in Uses(index) /\ u.fn \in Fn
        /\ Known' = Known \cup {u.fn}
        /\ \A x \in Known : call_state'[x] = call_state[x]
        /\ index \in Known
    BY <1>4, VisitCallEffect
  <2>2. index \in Reachable /\ call_state[index] = info[index]
    BY <1>2, <2>1
  <2>3. Passed(info[index], u) = info[u.fn]
    BY <2>1, <2>2 DEF ConsistentOn, Agrees
  <2>4. u.fn \in Reachable
    BY <2>1, <2>2, ReachableClosed DEF TypeOK
  <2>5. AddCallState(u.fn, info[u.fn])
    BY <1>4, <2>2, <2>3 DEF VisitCall
  <2>6. u.fn \in Known => call_state[u.fn] = info[u.fn]
    BY <1>2
  <2>7. call_state'[u.fn] = info[u.fn] /\ inconsistent' = FALSE
    <3>1. CASE call_state[u.fn] = None
      <4>1. /\ call_state' = [call_state EXCEPT ![u.fn] = info[u.fn]]
            /\ inconsistent' = inconsistent
        BY <2>5, <3>1 DEF AddCallState
      <4> QED BY <1>2, <2>1, <4>1 DEF TypeOK
    <3>2. CASE call_state[u.fn] # None
      <4>1. call_state' = call_state /\ inconsistent' = (inconsistent \/ call_state[u.fn] # info[u.fn])
        BY <2>5, <3>2 DEF AddCallState
      <4>2. call_state[u.fn] = info[u.fn]
        BY <2>1, <2>6, <3>2 DEF Known
      <4> QED BY <1>2, <4>1, <4>2
    <3> QED BY <3>1, <3>2
  <2> QED BY <1>2, <2>1, <2>4, <2>7
<1>5. CASE VisitUnsaturated
  <2>1. Head(rest) \in Uses(index) /\ ~Saturated(Head(rest)) /\ index \in Known
    BY <1>5, HeadElements DEF VisitUnsaturated, TypeOK, ListedAreKnown
  <2>2. index \in Reachable
    BY <1>2, <2>1
  <2> QED BY <2>1, <2>2 DEF ConsistentOn, Agrees
<1>6. CASE Move \/ Pick \/ EndVisit \/ Return \/ UNCHANGED vars
  <2>1. call_state' = call_state /\ inconsistent' = inconsistent
    BY <1>6 DEF Move, Pick, EndVisit, Return, vars
  <2> QED BY <1>2, <2>1 DEF Known
<1> QED BY <1>3, <1>4, <1>5, <1>6 DEF Next

\* Everything computed is forced: it is part of every consistent specialization
\* that extends the seed, and while there is one nothing is found inconsistent.
THEOREM Completeness == Spec => []OnlyForced
<1>1. Init => OnlyForced
  BY DEF Init, OnlyForced, Known
<1> QED BY <1>1, OnlyForcedStep, TypeCorrect, VisitsKnownFunctions, PhasesHold, PTL DEF Spec

\* The answer is None only when root does not reach the whole group or when no
\* consistent specialization exists.
THEOREM NoneOnlyIfNone == Spec => []NoneIsDeserved
<1>1. TypeOK /\ Phases /\ VisitedAgree /\ OnlyForced => NoneIsDeserved
  <2> SUFFICES ASSUME TypeOK, Phases, VisitedAgree, OnlyForced,
                      pc = "done", result = None, Reachable = Fn,
                      NEW info \in Specialization, info[root] = seed, ConsistentOn(Fn, info)
               PROVE  FALSE
    BY DEF NoneIsDeserved
  <2>1. ~inconsistent
    BY DEF OnlyForced
  <2>2. root \in Known
    BY NoneAssumption DEF Phases, Known, TypeOK
  <2>3. Closed(Known)
    <3> SUFFICES ASSUME NEW f \in Known, NEW use \in Uses(f) PROVE use.fn \in Known
      BY DEF Closed
    <3>1. Visited(f, use)
      BY DEF Phases, Visited
    <3> QED BY <2>1, <3>1 DEF VisitedAgree
  <2>4. Known = Fn
    BY <2>2, <2>3 DEF Reachable, Known
  <2>5. result = call_state
    <3>1. ~(pc # "done" \/ inconsistent \/ Known # Fn)
      BY <2>1, <2>4
    <3>2. result = IF pc # "done" \/ inconsistent \/ Known # Fn THEN None ELSE call_state
      BY Zenon DEF Phases
    <3> QED BY <3>1, <3>2
  <2>6. \A f \in Fn : call_state[f] \in Info(f)
    BY <2>4 DEF Known, TypeOK
  <2>7. call_state \in [Fn -> Infos]
    BY <2>6 DEF Infos, TypeOK
  <2>8. call_state \in Specialization
    BY <2>6, <2>7 DEF Specialization
  <2> QED BY <2>5, <2>8, NoneAssumption
<1> QED BY <1>1, TypeCorrect, PhasesHold, VisitedUsesAgree, Completeness, PTL

\* A specialization, once recorded, is never changed, and an inconsistency is
\* never forgotten.
THEOREM NothingIsRevised == Spec => Settled
<1> DEFINE A == /\ \A f \in Known : call_state'[f] = call_state[f]
                /\ inconsistent => inconsistent'
<1>1. TypeOK /\ ListedAreKnown /\ [Next]_vars => [A]_vars
  <2> SUFFICES ASSUME TypeOK, ListedAreKnown, Next PROVE A
    OBVIOUS
  <2>1. CASE Seed
    <3>1. AddCallState(root, seed) /\ root \in Fn /\ seed \in Info(root)
      BY <2>1 DEF Seed, TypeOK
    <3> QED BY <3>1, AddCallStateLists
  <2>2. CASE VisitCall BY <2>2, VisitCallEffect
  <2>3. CASE Move \/ Pick \/ VisitUnsaturated \/ EndVisit \/ Return
    BY <2>3 DEF Move, Pick, VisitUnsaturated, EndVisit, Return
  <2> QED BY <2>1, <2>2, <2>3 DEF Next
<1> QED BY <1>1, TypeCorrect, VisitsKnownFunctions, PTL DEF Spec, Settled

(***************************************************************************)
(* Termination.  What is left to do is measured by the functions not       *)
(* reached yet, then by those that are listed, then by the place in the    *)
(* loop and in the body that is visited.                                   *)
(***************************************************************************)
Unreached == Cardinality(Fn \ Known)
Listed == Len(needs_processing) + Len(newly_added)
Place ==
  CASE pc \in {"seed", "visit"} -> 3 + Len(rest)
    [] pc = "move" -> 2
    [] pc = "loop" -> 1
    [] pc = "done" -> 0

WorkLeft == <<Unreached, <<Listed, Place>>>>

Less == OpToRel(<, Nat)
Work == Nat \X (Nat \X Nat)
LessWork == LexPairOrdering(Less, LexPairOrdering(Less, Less, Nat, Nat), Nat, Nat \X Nat)

\* The order of what is left to do has no infinite descent.
LEMMA LessWorkEnds == IsWellFoundedOn(LessWork, Work)
<1>1. IsWellFoundedOn(Less, Nat)
  BY NatLessThanWellFounded DEF Less
<1>2. IsWellFoundedOn(LexPairOrdering(Less, Less, Nat, Nat), Nat \X Nat)
  BY <1>1, WFLexPairOrdering
<1> QED BY <1>1, <1>2, WFLexPairOrdering DEF LessWork, Work

\* Less work: fewer functions to reach, or as many and fewer listed ones, or as
\* many of both and a later place in the loop.
LEMMA LessWorkCases ==
  ASSUME NEW a \in Nat, NEW b \in Nat, NEW c \in Nat,
         NEW x \in Nat, NEW y \in Nat, NEW z \in Nat,
         a < x \/ (a = x /\ (b < y \/ (b = y /\ c < z)))
  PROVE  << <<a, <<b, c>>>>, <<x, <<y, z>>>> >> \in LessWork
<1>1. /\ a < x => <<a, x>> \in Less
      /\ b < y => <<b, y>> \in Less
      /\ c < z => <<c, z>> \in Less
  BY DEF Less, OpToRel
<1>2. CASE a < x
  BY <1>1, <1>2 DEF LessWork, LexPairOrdering
<1>3. CASE a = x /\ (b < y \/ (b = y /\ c < z))
  <2>1. << <<b, c>>, <<y, z>> >> \in LexPairOrdering(Less, Less, Nat, Nat)
    BY <1>1, <1>3 DEF LexPairOrdering
  <2> HIDE DEF Less
  <2> DEFINE L == LexPairOrdering(Less, Less, Nat, Nat)
  <2>2. << <<b, c>>, <<y, z>> >> \in L /\ a = x
    BY <1>3, <2>1
  <2> HIDE DEF L
  <2>3. << <<a, <<b, c>>>>, <<x, <<y, z>>>> >> \in LexPairOrdering(Less, L, Nat, Nat \X Nat)
    BY <2>2 DEF LexPairOrdering
  <2> QED BY <2>3 DEF LessWork, L
<1> QED BY <1>2, <1>3

\* What is left to do is measured in natural numbers (WorkLeft).
LEMMA WorkIsNatural ==
  TypeOK => Unreached \in Nat /\ Listed \in Nat /\ Place \in Nat
<1> SUFFICES ASSUME TypeOK PROVE Unreached \in Nat /\ Listed \in Nat /\ Place \in Nat
  OBVIOUS
<1>1. Unreached \in Nat
  <2>1. Fn \ Known \in SUBSET Fn
    OBVIOUS
  <2> QED BY <2>1, FnAssumption, FS_Subset, FS_CardinalityType DEF Unreached
<1>2. Listed \in Nat /\ Len(rest) \in Nat
  BY LenProperties DEF Listed, TypeOK
<1> QED BY <1>1, <1>2 DEF Place, TypeOK

\* A function that is reached for the first time is one less to reach, and one
\* that is known is not listed again (add_call_state).
LEMMA AddCallStateWork ==
  ASSUME TypeOK, NEW f \in Fn, NEW info \in Info(f), AddCallState(f, info)
  PROVE  Unreached' < Unreached \/ (Unreached' = Unreached /\ newly_added' = newly_added)
<1>1. Known' = Known \cup {f}
  BY AddCallStateLists
<1>2. CASE call_state[f] = None
  <2> DEFINE S == Fn \ Known
  <2>1. IsFiniteSet(S) /\ f \in S /\ Fn \ Known' = S \ {f}
    <3>1. S \in SUBSET Fn
      OBVIOUS
    <3>2. f \in S /\ Fn \ Known' = S \ {f}
      BY <1>1, <1>2 DEF Known
    <3> QED BY <3>1, <3>2, FnAssumption, FS_Subset
  <2> HIDE DEF S
  <2>2. Cardinality(S \ {f}) = Cardinality(S) - 1 /\ Cardinality(S) \in Nat
    BY <2>1, FS_RemoveElement, FS_CardinalityType
  <2> QED BY <2>1, <2>2 DEF Unreached, S
<1>3. CASE call_state[f] # None
  <2>1. Known' = Known /\ newly_added' = newly_added
    BY <1>1, <1>3 DEF AddCallState, Known
  <2> QED BY <2>1 DEF Unreached
<1> QED BY <1>2, <1>3

\* Every step of the loop leaves less work to be done.
LEMMA WorkDecreases ==
  TypeOK /\ TypeOK' /\ ListedAreKnown /\ Next => <<WorkLeft', WorkLeft>> \in LessWork
<1> SUFFICES ASSUME TypeOK, TypeOK', ListedAreKnown, Next
             PROVE  <<WorkLeft', WorkLeft>> \in LessWork
  OBVIOUS
<1> SUFFICES \/ Unreached' < Unreached
             \/ /\ Unreached' = Unreached
                /\ Listed' < Listed \/ (Listed' = Listed /\ Place' < Place)
  <2>1. Unreached \in Nat /\ Listed \in Nat /\ Place \in Nat
    BY WorkIsNatural
  <2>2. Unreached' \in Nat /\ Listed' \in Nat /\ Place' \in Nat
    <3>1. Unreached' \in Nat
      <4>1. Fn \ Known' \in SUBSET Fn
        OBVIOUS
      <4> QED BY <4>1, FnAssumption, FS_Subset, FS_CardinalityType DEF Unreached
    <3>2. Listed' \in Nat /\ Len(rest') \in Nat
      BY LenProperties DEF Listed, TypeOK
    <3> QED BY <3>1, <3>2 DEF Place, TypeOK
  <2> QED BY <2>1, <2>2, LessWorkCases DEF WorkLeft
<1>1. Len(rest) \in Nat /\ Len(needs_processing) \in Nat /\ Len(newly_added) \in Nat
  BY LenProperties DEF TypeOK
<1>2. CASE Seed
  <2>1. AddCallState(root, seed) /\ root \in Fn /\ seed \in Info(root) /\ pc = "seed"
        /\ pc' = "move" /\ UNCHANGED needs_processing
    BY <1>2 DEF Seed, TypeOK
  <2>2. Place' = 2 /\ Place = 3 + Len(rest)
    BY <2>1 DEF Place
  <2> QED BY <1>1, <2>1, <2>2, AddCallStateWork DEF Listed
<1>3. CASE Move
  <2>1. Unreached' = Unreached /\ Place' = 1 /\ Place = 2
    BY <1>3 DEF Move, Unreached, Known, Place
  <2>2. Len(needs_processing \o newly_added) = Len(needs_processing) + Len(newly_added)
    BY ConcatProperties DEF TypeOK
  <2>3. Listed' = Listed
    BY <1>1, <1>3, <2>2 DEF Move, Listed
  <2> QED BY <2>1, <2>3
<1>4. CASE Pick
  <2>1. Unreached' = Unreached /\ newly_added' = newly_added
    BY <1>4 DEF Pick, Unreached, Known
  <2>2. Len(needs_processing') = Len(needs_processing) - 1
    <3>1. /\ needs_processing \in Seq(Fn) /\ needs_processing # <<>>
          /\ needs_processing' = SubSeq(needs_processing, 1, Len(needs_processing) - 1)
      BY <1>4 DEF Pick, TypeOK, Front
    <3>2. Len(needs_processing) # 0
      BY <3>1, EmptySeq
    <3> DEFINE n == Len(needs_processing) - 1
    <3>3. n \in 0 .. Len(needs_processing)
      BY <1>1, <3>2
    <3> HIDE DEF n
    <3>4. Len(SubSeq(needs_processing, 1, n)) = n
      BY <3>1, <3>3
    <3> QED BY <3>1, <3>4 DEF n
  <2> QED BY <1>1, <2>1, <2>2 DEF Listed
<1>5. CASE VisitCall
  <2> DEFINE use == Head(rest)
  <2>1. use \in Uses(index) /\ Len(Tail(rest)) = Len(rest) - 1
    BY <1>5, HeadElements, HeadTailProperties DEF VisitCall, TypeOK
  <2>2. call_state[index] \in Info(index)
    BY <1>5 DEF VisitCall, TypeOK, ListedAreKnown, Known
  <2>3. use.fn \in Fn /\ Passed(call_state[index], use) \in Info(use.fn)
    BY <1>5, <2>1, <2>2, PassedOK DEF VisitCall, TypeOK
  <2>4. AddCallState(use.fn, Passed(call_state[index], use))
    BY <1>5 DEF VisitCall
  <2>5. Unreached' < Unreached \/ (Unreached' = Unreached /\ newly_added' = newly_added)
    BY <2>3, <2>4, AddCallStateWork
  <2>6. Place' = 3 + (Len(rest) - 1) /\ Place = 3 + Len(rest)
        /\ needs_processing' = needs_processing
    BY <1>5, <2>1 DEF VisitCall, Place
  <2> QED BY <1>1, <2>5, <2>6 DEF Listed
<1>6. CASE VisitUnsaturated
  <2>1. Unreached' = Unreached /\ Listed' = Listed
    BY <1>6 DEF VisitUnsaturated, Unreached, Known, Listed
  <2>2. Len(Tail(rest)) = Len(rest) - 1
    BY <1>6, HeadTailProperties DEF VisitUnsaturated, TypeOK
  <2>3. Place' = 3 + (Len(rest) - 1) /\ Place = 3 + Len(rest)
    BY <1>6, <2>2 DEF VisitUnsaturated, Place
  <2> QED BY <1>1, <2>1, <2>3
<1>7. CASE EndVisit
  <2>1. Unreached' = Unreached /\ Listed' = Listed /\ Place' = 2 /\ Place = 3 + Len(rest)
    BY <1>7 DEF EndVisit, Unreached, Known, Listed, Place
  <2> QED BY <1>1, <2>1
<1>8. CASE Return
  <2>1. Unreached' = Unreached /\ Listed' = Listed /\ Place' = 0 /\ Place = 1
    BY <1>8 DEF Return, Unreached, Known, Listed, Place
  <2> QED BY <2>1
<1> QED BY <1>2, <1>3, <1>4, <1>5, <1>6, <1>7, <1>8 DEF Next

\* What the loop of compute_fix_specialization_closure has still to do becomes
\* less in every step, in an order without infinite descent.
WorkShrinks == [][Next => <<WorkLeft', WorkLeft>> \in LessWork]_vars

\* The loop ends however the functions of the group call each other: no run of
\* it takes infinitely many steps.
THEOREM LoopEnds == IsWellFoundedOn(LessWork, Work) /\ (Spec => WorkShrinks)
<1>1. TypeOK /\ TypeOK' /\ ListedAreKnown /\ [Next]_vars =>
        [Next => <<WorkLeft', WorkLeft>> \in LessWork]_vars
  BY WorkDecreases
<1>2. Spec => WorkShrinks
  BY <1>1, TypeCorrect, VisitsKnownFunctions, PTL DEF Spec, WorkShrinks
<1> QED BY <1>2, LessWorkEnds
=============================================================================
