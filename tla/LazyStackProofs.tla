-------------------------- MODULE LazyStackProofs ---------------------------
(***************************************************************************)
(* Proofs about LazyStack, for any number of nodes, handles and values and *)
(* any bound on the length of a stack: types, ownership, what a call may   *)
(* write, and the sizes of the blocks, which are a binary counter whatever *)
(* calls are made on however many copies.                                  *)
(***************************************************************************)
EXTENDS LazyStack, FiniteSetTheorems, WellFoundedInduction, TLAPS

(***************************************************************************)
(* Reach is the least set that holds the roots and is closed under next.   *)
(***************************************************************************)

\* Only allocated nodes are reached (Reach, the ownership of shared_ptr).
LEMMA ReachAllocated ==
  ASSUME NEW hp, NEW roots
  PROVE  Reach(hp, roots) \subseteq DOMAIN hp
BY DEF Reach

\* A node that a root points at is reached (Reach, the ownership of shared_ptr).
LEMMA ReachRoot ==
  ASSUME NEW hp, NEW roots, NEW r \in roots, r # NULL, r \in DOMAIN hp
  PROVE  r \in Reach(hp, roots)
BY DEF Reach

\* The successor of a reached node is reached (Reach, the ownership of
\* shared_ptr).
LEMMA ReachNext ==
  ASSUME NEW hp, NEW roots, NEW n \in Reach(hp, roots),
         hp[n].next # NULL, hp[n].next \in DOMAIN hp
  PROVE  hp[n].next \in Reach(hp, roots)
BY DEF Reach, LinkClosed

\* Whatever closed set of nodes holds the roots holds all that is reached
\* (Reach, the ownership of shared_ptr).
LEMMA ReachLeast ==
  ASSUME NEW hp, NEW roots, NEW S \in SUBSET DOMAIN hp,
         roots \ {NULL} \subseteq S, LinkClosed(hp, S)
  PROVE  Reach(hp, roots) \subseteq S
BY DEF Reach

(***************************************************************************)
(* Heaps without dangling pointers.                                        *)
(***************************************************************************)
Live(hp) == DOMAIN hp \cup {NULL}
HeapOK(hp) ==
  /\ DOMAIN hp \subseteq Node
  /\ hp \in [DOMAIN hp -> [items : Seq(Value) \ {<<>>}, next : Live(hp)]]

\* Freeing what no object reaches leaves no dangling pointer behind (Collect,
\* the release of the last shared_ptr to a node).
LEMMA CollectOK ==
  ASSUME NEW hp, HeapOK(hp), NEW rp \in [Handle -> Live(hp)]
  PROVE  /\ HeapOK(Collect(hp, Objects(rp)))
         /\ rp \in [Handle -> Live(Collect(hp, Objects(rp)))]
<1> DEFINE R  == Reach(hp, Objects(rp))
           c  == Collect(hp, Objects(rp))
<1>1. R \subseteq DOMAIN hp
  BY ReachAllocated
<1>2. DOMAIN c = R /\ \A n \in R : c[n] = hp[n]
  BY DEF Collect
<1>3. ASSUME NEW n \in R
      PROVE  hp[n] \in [items : Seq(Value) \ {<<>>}, next : R \cup {NULL}]
  <2>1. hp[n] \in [items : Seq(Value) \ {<<>>}, next : Live(hp)]
    BY <1>1 DEF HeapOK
  <2>2. hp[n].next \in R \cup {NULL}
    BY <2>1, ReachNext DEF Live
  <2> QED BY <2>1, <2>2
<1>4. HeapOK(c)
  <2>1. c = [n \in R |-> hp[n]]
    BY DEF Collect
  <2> HIDE DEF R, c
  <2>2. c \in [R -> [items : Seq(Value) \ {<<>>}, next : R \cup {NULL}]]
    BY <2>1, <1>3
  <2> QED BY <1>1, <1>2, <2>2 DEF HeapOK, Live
<1>5. ASSUME NEW h \in Handle PROVE rp[h] \in R \cup {NULL}
  <2>1. rp[h] \in Objects(rp)
    BY DEF Objects
  <2> QED BY <2>1, ReachRoot DEF Live
<1> QED BY <1>2, <1>4, <1>5 DEF Live

\* A new node with a non-empty block and a live successor keeps the heap well
\* formed (Alloc, std::make_shared).
LEMMA AllocOK ==
  ASSUME NEW n \in Node, HeapOK(heap),
         NEW items \in Seq(Value) \ {<<>>}, NEW next \in LivePtr
  PROVE  /\ HeapOK(Alloc(n, items, next))
         /\ DOMAIN Alloc(n, items, next) = DOMAIN heap \cup {n}
BY DEF Alloc, HeapOK, Live, LivePtr

\* Redirecting the next pointer of a node to a live node keeps the heap well
\* formed (Link, the assignments through current and pptr).
LEMMA LinkOK ==
  ASSUME NEW hp, HeapOK(hp), NEW m \in DOMAIN hp, NEW n \in Live(hp)
  PROVE  HeapOK(Link(hp, m, n)) /\ DOMAIN Link(hp, m, n) = DOMAIN hp
BY DEF Link, HeapOK, Live

\* Returning a live node leaves a well typed state (Return, the assignment of a
\* call's result to an object).
LEMMA ReturnOK ==
  ASSUME NEW hp, HeapOK(hp), NEW dst \in Handle, NEW n \in Live(hp),
         repr \in [Handle -> Live(hp)], Return(hp, dst, n)
  PROVE  TypeOK'
<1>1. repr' \in [Handle -> Live(hp)]
  BY DEF Return
<1>2. HeapOK(heap') /\ repr' \in [Handle -> Live(heap')]
  BY <1>1, CollectOK DEF Return
<1>3. frame' = Idle
  BY DEF Return
<1> QED BY <1>2, <1>3 DEF TypeOK, HeapOK, Live, LivePtr, Frame

(***************************************************************************)
(* Type correctness.                                                       *)
(***************************************************************************)

\* The parts of TypeOK in terms of HeapOK (heap, repr and frame).
LEMMA TypeParts ==
  TypeOK <=> HeapOK(heap) /\ repr \in [Handle -> LivePtr] /\ frame \in Frame
BY DEF TypeOK, HeapOK, Live, LivePtr

\* The kind of call in progress determines which locals it has (frame).
LEMMA FrameFields ==
  ASSUME frame \in Frame
  PROVE  /\ frame.fn = "push" =>
              frame \in [fn : {"push"}, dst : Handle,
                         items : Seq(Value) \ {<<>>}, next : LivePtr]
         /\ frame.fn = "pop" =>
              frame \in [fn : {"pop"}, dst : Handle, rest : Seq(Value), pow : Nat \ {0},
                         first : LivePtr, last : LivePtr, next : LivePtr]
         /\ frame.fn = "set" =>
              frame \in [fn : {"set"}, h : Handle, at : LivePtr, index : Nat,
                         value : Value]
BY DEF Frame, Idle

\* The call's local pointers stay live while nodes are only added (frame).
LEMMA FrameGrows ==
  ASSUME LivePtr \subseteq LivePtr', frame \in Frame, UNCHANGED frame
  PROVE  (frame \in Frame)'
BY DEF Frame, Idle

\* set visits live nodes (Current, the expression *pptr).
LEMMA CurrentLive ==
  ASSUME TypeOK, frame.fn = "set"
  PROVE  Current \in LivePtr
<1>1. frame.h \in Handle /\ frame.at \in LivePtr
  BY FrameFields DEF TypeOK
<1> QED BY <1>1 DEF TypeOK, Current, LivePtr

\* Each iteration of the loop of push keeps the types.
LEMMA PushMergeType == TypeOK /\ PushMerge => TypeOK'
<1> SUFFICES ASSUME TypeOK, PushMerge PROVE TypeOK'
  OBVIOUS
<1>1. frame \in [fn : {"push"}, dst : Handle,
                 items : Seq(Value) \ {<<>>}, next : LivePtr]
  BY FrameFields DEF TypeOK, PushMerge
<1>2. heap[frame.next] \in [items : Seq(Value) \ {<<>>}, next : LivePtr]
  BY <1>1 DEF TypeOK, PushMerge, Carry, LivePtr
<1>3. frame.items \o heap[frame.next].items \in Seq(Value) \ {<<>>}
  BY <1>1, <1>2
<1>4. frame' \in [fn : {"push"}, dst : Handle,
                  items : Seq(Value) \ {<<>>}, next : LivePtr]
  BY <1>1, <1>2, <1>3 DEF PushMerge
<1> QED BY <1>4 DEF PushMerge, TypeOK, LivePtr, Frame

\* The end of push keeps the types.
LEMMA PushReturnType == TypeOK /\ PushReturn => TypeOK'
<1> SUFFICES ASSUME TypeOK, PushReturn PROVE TypeOK'
  OBVIOUS
<1>1. frame \in [fn : {"push"}, dst : Handle,
                 items : Seq(Value) \ {<<>>}, next : LivePtr]
  BY FrameFields DEF TypeOK, PushReturn
<1>2. PICK n \in Node \ DOMAIN heap :
        Return(Alloc(n, frame.items, frame.next), frame.dst, n)
  BY DEF PushReturn
<1> DEFINE hp == Alloc(n, frame.items, frame.next)
<1>3. HeapOK(hp) /\ DOMAIN hp = DOMAIN heap \cup {n}
  BY <1>1, AllocOK, TypeParts
<1>4. repr \in [Handle -> Live(hp)]
  BY <1>3 DEF TypeOK, LivePtr, Live
<1> QED BY <1>1, <1>2, <1>3, <1>4, ReturnOK DEF Live

\* A bit that is set is not above the size (BitSet, size & pow).
LEMMA BitSetBound ==
  ASSUME NEW size \in Nat, NEW pow \in Nat \ {0}, BitSet(size, pow)
  PROVE  pow \in 1 .. size
<1>1. size < pow => size \div pow = 0
  OBVIOUS
<1> QED BY <1>1 DEF BitSet

\* Looking for the next bit keeps the types.
LEMMA PopShiftType == TypeOK /\ PopShift => TypeOK'
<1> SUFFICES ASSUME TypeOK, PopShift PROVE TypeOK'
  OBVIOUS
<1>1. frame \in [fn : {"pop"}, dst : Handle, rest : Seq(Value), pow : Nat \ {0},
                 first : LivePtr, last : LivePtr, next : LivePtr]
  BY FrameFields DEF TypeOK, PopShift
<1>2. frame' \in [fn : {"pop"}, dst : Handle, rest : Seq(Value), pow : Nat \ {0},
                  first : LivePtr, last : LivePtr, next : LivePtr]
  BY <1>1 DEF PopShift
<1> QED BY <1>2 DEF PopShift, TypeOK, LivePtr, Frame

\* Each block that pop splits off keeps the types.
LEMMA PopSplitType == TypeOK /\ PopSplit => TypeOK'
<1> SUFFICES ASSUME TypeOK, PopSplit PROVE TypeOK'
  OBVIOUS
<1>1. frame \in [fn : {"pop"}, dst : Handle, rest : Seq(Value), pow : Nat \ {0},
                 first : LivePtr, last : LivePtr, next : LivePtr]
  BY FrameFields DEF TypeOK, PopSplit
<1> DEFINE p == frame.pow
<1>0. p \in 1 .. Len(frame.rest)
  BY <1>1, BitSetBound DEF PopSplit
<1>2. PICK n \in Node \ DOMAIN heap :
        /\ heap' = IF frame.last = NULL
                   THEN Alloc(n, SubSeq(frame.rest, 1, p), NULL)
                   ELSE Link(Alloc(n, SubSeq(frame.rest, 1, p), NULL), frame.last, n)
        /\ frame' = [frame EXCEPT !.rest = SubSeq(@, p + 1, Len(@)),
                                  !.first = IF @ = NULL THEN n ELSE @,
                                  !.last = n]
  BY DEF PopSplit
<1> DEFINE block == SubSeq(frame.rest, 1, p)
           hp == Alloc(n, block, NULL)
<1>3. block \in Seq(Value) \ {<<>>} /\ SubSeq(frame.rest, p + 1, Len(frame.rest)) \in Seq(Value)
  <2> HIDE DEF p
  <2>1. block \in Seq(Value) /\ Len(block) = p
    BY <1>0, <1>1
  <2> QED BY <1>0, <1>1, <2>1
<1>4. HeapOK(hp) /\ DOMAIN hp = DOMAIN heap \cup {n}
  BY <1>3, AllocOK, TypeParts DEF LivePtr
<1>5. HeapOK(heap') /\ DOMAIN heap' = DOMAIN heap \cup {n}
  <2>1. CASE frame.last = NULL
    BY <1>2, <1>4, <2>1
  <2>2. CASE frame.last # NULL
    <3>1. frame.last \in DOMAIN hp /\ n \in Live(hp)
      BY <1>1, <1>4, <2>2 DEF LivePtr, Live
    <3> HIDE DEF hp
    <3>2. heap' = Link(hp, frame.last, n)
      BY <1>2, <2>2 DEF hp
    <3> QED BY <1>4, <3>1, <3>2, LinkOK
  <2> QED BY <2>1, <2>2
<1>6. LivePtr' = LivePtr \cup {n}
  BY <1>5 DEF LivePtr
<1>7. frame' \in Frame'
  <2> DEFINE rest == SubSeq(frame.rest, p + 1, Len(frame.rest))
             front == IF frame.first = NULL THEN n ELSE frame.first
  <2>1. frame' = [frame EXCEPT !.rest = rest, !.first = front, !.last = n]
    BY <1>2
  <2>2. /\ rest \in Seq(Value)
        /\ front \in LivePtr' /\ n \in LivePtr' /\ frame.next \in LivePtr'
    BY <1>1, <1>3, <1>6
  <2> HIDE DEF rest, front
  <2>3. frame' \in [fn : {"pop"}, dst : Handle, rest : Seq(Value), pow : Nat \ {0},
                    first : LivePtr', last : LivePtr', next : LivePtr']
    BY <1>1, <2>1, <2>2
  <2> QED BY <2>3 DEF Frame
<1>8. repr' \in [Handle -> LivePtr']
  BY <1>6 DEF TypeOK, PopSplit
<1> QED BY <1>5, <1>7, <1>8 DEF TypeOK, HeapOK, Live, LivePtr

\* The end of pop keeps the types.
LEMMA PopReturnType == TypeOK /\ PopReturn => TypeOK'
<1> SUFFICES ASSUME TypeOK, PopReturn PROVE TypeOK'
  OBVIOUS
<1>1. frame \in [fn : {"pop"}, dst : Handle, rest : Seq(Value), pow : Nat \ {0},
                 first : LivePtr, last : LivePtr, next : LivePtr]
  BY FrameFields DEF TypeOK, PopReturn
<1>2. HeapOK(heap) /\ repr \in [Handle -> Live(heap)]
  BY DEF TypeOK, HeapOK, Live, LivePtr
<1>3. CASE frame.last = NULL
  <2>1. Return(heap, frame.dst, frame.next)
    BY <1>3 DEF PopReturn
  <2> QED BY <1>1, <1>2, <2>1, ReturnOK DEF Live, LivePtr
<1>4. CASE frame.last # NULL
  <2> DEFINE hp == Link(heap, frame.last, frame.next)
  <2>1. HeapOK(hp) /\ DOMAIN hp = DOMAIN heap
    BY <1>1, <1>2, <1>4, LinkOK DEF Live, LivePtr
  <2>2. Return(hp, frame.dst, frame.first)
    BY <1>4 DEF PopReturn
  <2>3. Live(hp) = Live(heap) /\ frame.first \in Live(hp)
    BY <1>1, <2>1 DEF Live, LivePtr
  <2> HIDE DEF hp
  <2> QED BY <1>1, <1>2, <2>1, <2>2, <2>3, ReturnOK
<1> QED BY <1>3, <1>4

\* Replacing a shared node by a copy keeps the types.
LEMMA SetUnshareType == TypeOK /\ SetUnshare => TypeOK'
<1> SUFFICES ASSUME TypeOK, SetUnshare PROVE TypeOK'
  OBVIOUS
<1>1. frame \in [fn : {"set"}, h : Handle, at : LivePtr, index : Nat, value : Value]
  BY FrameFields DEF TypeOK, SetUnshare
<1>2. Current \in DOMAIN heap
  BY CurrentLive DEF SetUnshare, LivePtr
<1>3. PICK n \in Node \ DOMAIN heap :
        LET hp == Alloc(n, heap[Current].items, heap[Current].next) IN
        IF frame.at = NULL
        THEN repr' = [repr EXCEPT ![frame.h] = n] /\ heap' = hp
        ELSE heap' = Link(hp, frame.at, n) /\ UNCHANGED repr
  BY DEF SetUnshare
<1> DEFINE hp == Alloc(n, heap[Current].items, heap[Current].next)
<1>4. HeapOK(hp) /\ DOMAIN hp = DOMAIN heap \cup {n}
  <2>1. heap[Current] \in [items : Seq(Value) \ {<<>>}, next : LivePtr]
    BY <1>2 DEF TypeOK
  <2> QED BY <2>1, AllocOK, TypeParts
<1>5. HeapOK(heap') /\ DOMAIN heap' = DOMAIN heap \cup {n}
  <2>1. CASE frame.at = NULL
    BY <1>3, <1>4, <2>1
  <2>2. CASE frame.at # NULL
    <3>1. frame.at \in DOMAIN hp /\ n \in Live(hp)
      BY <1>1, <1>4, <2>2 DEF LivePtr, Live
    <3> HIDE DEF hp
    <3>2. heap' = Link(hp, frame.at, n)
      BY <1>3, <2>2 DEF hp
    <3> QED BY <1>4, <3>1, <3>2, LinkOK
  <2> QED BY <2>1, <2>2
<1>6. LivePtr' = LivePtr \cup {n}
  BY <1>5 DEF LivePtr
<1>7. (frame \in Frame)'
  BY <1>6, FrameGrows DEF TypeOK, SetUnshare
<1>8. repr' \in [Handle -> LivePtr']
  BY <1>1, <1>3, <1>6 DEF TypeOK
<1> QED BY <1>5, <1>7, <1>8 DEF TypeOK, HeapOK, Live, LivePtr

\* Writing the element keeps the types.
LEMMA SetWriteType == TypeOK /\ SetWrite => TypeOK'
<1> SUFFICES ASSUME TypeOK, SetWrite PROVE TypeOK'
  OBVIOUS
<1>1. frame \in [fn : {"set"}, h : Handle, at : LivePtr, index : Nat, value : Value]
  BY FrameFields DEF TypeOK, SetWrite
<1> DEFINE c == Current
           i == frame.index + 1
           items == heap[c].items
<1>2. c \in DOMAIN heap
  BY CurrentLive DEF SetWrite, LivePtr
<1>3. heap[c] \in [items : Seq(Value) \ {<<>>}, next : LivePtr]
  BY <1>2 DEF TypeOK
<1>4. items \in Seq(Value) /\ items # <<>> /\ i \in 1 .. Len(items)
  BY <1>1, <1>3 DEF SetWrite
<1>5. [items EXCEPT ![i] = frame.value] \in Seq(Value) \ {<<>>}
  <2>1. [items EXCEPT ![i] = frame.value] \in [1 .. Len(items) -> Value]
    BY <1>1, <1>4
  <2>2. Len([items EXCEPT ![i] = frame.value]) = Len(items)
    BY <1>1, <1>4, <2>1
  <2> QED BY <1>1, <1>4, <2>1, <2>2
<1>6. heap' = [heap EXCEPT ![c] = [heap[c] EXCEPT !.items = [items EXCEPT ![i] = frame.value]]]
  BY DEF SetWrite
<1>7. [heap[c] EXCEPT !.items = [items EXCEPT ![i] = frame.value]]
        \in [items : Seq(Value) \ {<<>>}, next : LivePtr]
  BY <1>3, <1>5
<1>8. /\ DOMAIN heap' = DOMAIN heap
      /\ heap' \in [DOMAIN heap -> [items : Seq(Value) \ {<<>>}, next : LivePtr]]
  BY <1>2, <1>6, <1>7 DEF TypeOK
<1> QED BY <1>8 DEF TypeOK, SetWrite, LivePtr, Frame

\* Moving on to the next node keeps the types.
LEMMA SetAdvanceType == TypeOK /\ SetAdvance => TypeOK'
<1> SUFFICES ASSUME TypeOK, SetAdvance PROVE TypeOK'
  OBVIOUS
<1>1. frame \in [fn : {"set"}, h : Handle, at : LivePtr, index : Nat, value : Value]
  BY FrameFields DEF TypeOK, SetAdvance
<1>2. Current \in DOMAIN heap
  BY CurrentLive DEF SetAdvance, LivePtr
<1>3. heap[Current].items \in Seq(Value)
  BY <1>2 DEF TypeOK
<1>4. frame.index - Len(heap[Current].items) \in Nat
  BY <1>1, <1>3 DEF SetAdvance
<1>5. frame' \in [fn : {"set"}, h : Handle, at : LivePtr, index : Nat, value : Value]
  BY <1>1, <1>2, <1>4 DEF SetAdvance, LivePtr
<1> QED BY <1>5 DEF TypeOK, SetAdvance, LivePtr, Frame

\* Starting a call, copying and clearing keep the types.
LEMMA CallType == TypeOK /\ Call => TypeOK'
<1> SUFFICES ASSUME TypeOK, Call PROVE TypeOK'
  OBVIOUS
<1> USE DEF TypeOK
<1>1. HeapOK(heap) /\ repr \in [Handle -> Live(heap)]
  BY DEF HeapOK, Live, LivePtr
<1>2. ASSUME NEW src \in Handle, NEW dst \in Handle, Copy(src, dst) PROVE TypeOK'
  BY <1>1, <1>2, ReturnOK DEF Copy
<1>3. ASSUME NEW h \in Handle, Clear(h) PROVE TypeOK'
  BY <1>1, <1>3, ReturnOK DEF Clear, Live
<1>4. ASSUME NEW src \in Handle, NEW dst \in Handle, PopCall(src, dst) PROVE TypeOK'
  <2>1. heap[repr[src]] \in [items : Seq(Value) \ {<<>>}, next : LivePtr]
    BY <1>4 DEF PopCall, LivePtr
  <2>2. Tail(heap[repr[src]].items) \in Seq(Value)
    BY <2>1
  <2>3. frame' \in [fn : {"pop"}, dst : Handle, rest : Seq(Value), pow : Nat \ {0},
                    first : LivePtr, last : LivePtr, next : LivePtr]
    BY <1>4, <2>1, <2>2 DEF PopCall, LivePtr
  <2> QED BY <1>4, <2>3 DEF PopCall, LivePtr, Frame
<1>5. ASSUME NEW src \in Handle, NEW dst \in Handle, NEW v \in Value, PushCall(src, v, dst)
      PROVE  TypeOK'
  <2>1. <<v>> \in Seq(Value) \ {<<>>}
    OBVIOUS
  <2>2. frame' \in [fn : {"push"}, dst : Handle,
                    items : Seq(Value) \ {<<>>}, next : LivePtr]
    BY <1>5, <2>1 DEF PushCall
  <2> QED BY <1>5, <2>2 DEF PushCall, LivePtr, Frame
<1>6. ASSUME NEW h \in Handle, NEW index \in 0 .. MaxLen, NEW v \in Value, SetCall(h, index, v)
      PROVE  TypeOK'
  <2>1. frame' \in [fn : {"set"}, h : Handle, at : LivePtr, index : Nat, value : Value]
    BY <1>6, MaxLenAssumption DEF SetCall, LivePtr
  <2> QED BY <1>6, <2>1 DEF SetCall, LivePtr, Frame
<1> QED BY <1>2, <1>3, <1>4, <1>5, <1>6 DEF Call

\* A step that changes nothing keeps the types (vars).
LEMMA StutterType == TypeOK /\ UNCHANGED vars => TypeOK'
BY DEF TypeOK, vars, LivePtr, Frame, Idle

\* Every variable has its type, no pointer dangles and no block is empty, in
\* every state between two iterations of push, pop and set.
THEOREM TypeCorrect == Spec => []TypeOK
<1>1. Init => TypeOK
  BY DEF Init, TypeOK, LivePtr, Frame, Idle
<1>2. TypeOK /\ [Next]_vars => TypeOK'
  <2> SUFFICES ASSUME TypeOK, [Next]_vars PROVE TypeOK'
    OBVIOUS
  <2>1. CASE Call BY <2>1, CallType
  <2>2. CASE PushMerge BY <2>2, PushMergeType
  <2>3. CASE PushReturn BY <2>3, PushReturnType
  <2>0. CASE PopShift BY <2>0, PopShiftType
  <2>4. CASE PopSplit BY <2>4, PopSplitType
  <2>5. CASE PopReturn BY <2>5, PopReturnType
  <2>6. CASE SetUnshare BY <2>6, SetUnshareType
  <2>7. CASE SetWrite BY <2>7, SetWriteType
  <2>8. CASE SetAdvance BY <2>8, SetAdvanceType
  <2>9. CASE SetThrow
    BY <2>9 DEF SetThrow, TypeOK, LivePtr, Frame
  <2>10. CASE UNCHANGED vars BY <2>10, StutterType
  <2> QED BY <2>0, <2>1, <2>2, <2>3, <2>4, <2>5, <2>6, <2>7, <2>8, <2>9, <2>10
          DEF Next, Step
<1> QED BY <1>1, <1>2, PTL DEF Spec

(***************************************************************************)
(* Writes are private.                                                     *)
(***************************************************************************)

\* A use count of one leaves no second pointer: if an object points at the node
\* then no other object does and no node does, and if a node points at it then
\* no object does and no other node does (UseCount, shared_ptr::unique).
LEMMA SolePointer ==
  ASSUME TypeOK, NEW n, UseCount(n) = 1
  PROVE  /\ \A h \in Handle : repr[h] = n =>
              /\ \A g \in Handle : repr[g] = n => g = h
              /\ \A m \in DOMAIN heap : heap[m].next # n
         /\ \A m \in DOMAIN heap : heap[m].next = n =>
              /\ \A g \in Handle : repr[g] # n
              /\ \A k \in DOMAIN heap : heap[k].next = n => k = m
<1> DEFINE A == {h \in Handle : repr[h] = n}
           B == {m \in DOMAIN heap : heap[m].next = n}
<1>1. IsFiniteSet(A) /\ IsFiniteSet(B)
  <2>1. A \in SUBSET Handle /\ B \in SUBSET Node
    BY DEF TypeOK
  <2> QED BY <2>1, FS_Subset, HandleAssumption, NodeAssumption
<1>2. Cardinality(A) \in Nat /\ Cardinality(B) \in Nat
  BY <1>1, FS_CardinalityType
<1>3. Cardinality(A) + Cardinality(B) = 1
  BY DEF UseCount
<1>4. \/ Cardinality(A) = 1 /\ Cardinality(B) = 0
      \/ Cardinality(A) = 0 /\ Cardinality(B) = 1
  BY <1>2, <1>3
<1>5. CASE Cardinality(A) = 1 /\ Cardinality(B) = 0
  <2>1. (\E x : A = {x}) /\ B = {}
    BY <1>1, <1>5, FS_Singleton, FS_EmptySet
  <2> QED BY <2>1
<1>6. CASE Cardinality(A) = 0 /\ Cardinality(B) = 1
  <2>1. A = {} /\ (\E x : B = {x})
    BY <1>1, <1>6, FS_Singleton, FS_EmptySet
  <2> QED BY <2>1
<1> QED BY <1>4, <1>5, <1>6

\* The node set looks at, once unshared, is reached from its own handle only
\* (SetWrite and SetAdvance after the test of unique).
LEMMA UnsharedIsPrivate ==
  ASSUME TypeOK, OwnsPath, frame.fn = "set", Current # NULL, UseCount(Current) = 1
  PROVE  \A g \in Handle \ {frame.h} : Current \notin Reach(heap, {repr[g]})
<1> SUFFICES ASSUME NEW g \in Handle \ {frame.h}
             PROVE  Current \notin Reach(heap, {repr[g]})
  OBVIOUS
<1> DEFINE R == Reach(heap, {repr[g]})
           S == R \ {Current}
<1>1. frame.h \in Handle /\ frame.at \in LivePtr
  BY FrameFields DEF TypeOK
<1>2. R \subseteq DOMAIN heap
  BY ReachAllocated
<1>3. \A n \in DOMAIN heap : heap[n].next \in LivePtr
  BY DEF TypeOK
<1>4. repr[g] # Current /\ \A n \in R : heap[n].next # Current
  <2>1. CASE frame.at = NULL
    <3>1. repr[frame.h] = Current
      BY <2>1 DEF Current
    <3> QED BY <1>1, <1>2, <3>1, SolePointer
  <2>2. CASE frame.at # NULL
    <3>1. frame.at \in DOMAIN heap /\ heap[frame.at].next = Current
      BY <1>1, <2>2 DEF Current, LivePtr
    <3>2. frame.at \notin R
      BY <2>2 DEF OwnsPath
    <3> QED BY <1>2, <3>1, <3>2, SolePointer
  <2> QED BY <2>1, <2>2
<1>5. {repr[g]} \ {NULL} \subseteq S
  <2>1. repr[g] \in LivePtr
    BY DEF TypeOK
  <2> QED BY <1>4, <2>1, ReachRoot DEF LivePtr
<1>6. LinkClosed(heap, S)
  <2>1. \A n \in R : heap[n].next # NULL => heap[n].next \in R
    BY <1>2, <1>3, ReachNext DEF LivePtr
  <2> HIDE DEF R
  <2> QED BY <1>4, <2>1 DEF LinkClosed
<1>7. R \subseteq S
  BY <1>2, <1>5, <1>6, ReachLeast
<1> QED BY <1>7

\* What a pointer reaches does not grow when a node it does not reach is
\* redirected to a new one, or when a node is merely added (PopSplit and
\* SetUnshare).
LEMMA ReachUntouched ==
  ASSUME TypeOK, NEW r \in LivePtr, NEW n \in Node \ DOMAIN heap,
         NEW items, NEW next,
         NEW m \in DOMAIN heap \cup {NULL}, m \notin Reach(heap, {r})
  PROVE  LET hp == Alloc(n, items, next) IN
           /\ Reach(hp, {r}) \subseteq Reach(heap, {r})
           /\ m # NULL =>
                Reach(Link(hp, m, n), {r}) \subseteq Reach(heap, {r})
<1> DEFINE hp == Alloc(n, items, next)
           R == Reach(heap, {r})
<1>1. R \subseteq DOMAIN heap
  BY ReachAllocated
<1>2. {r} \ {NULL} \subseteq R
  BY ReachRoot DEF LivePtr
<1>3. \A k \in R : heap[k].next # NULL => heap[k].next \in R
  <2>1. \A k \in R : heap[k].next \in LivePtr
    BY <1>1 DEF TypeOK
  <2> QED BY <2>1, ReachNext DEF LivePtr
<1>4. DOMAIN hp = DOMAIN heap \cup {n} /\ \A k \in R : hp[k] = heap[k]
  BY <1>1 DEF Alloc
<1>5. Reach(hp, {r}) \subseteq R
  <2> HIDE DEF hp, R
  <2>1. R \in SUBSET DOMAIN hp /\ LinkClosed(hp, R)
    BY <1>1, <1>3, <1>4 DEF LinkClosed
  <2> QED BY <1>2, <2>1, ReachLeast
<1>6. ASSUME m # NULL PROVE Reach(Link(hp, m, n), {r}) \subseteq R
  <2> DEFINE lk == Link(hp, m, n)
  <2>1. DOMAIN lk = DOMAIN heap \cup {n} /\ \A k \in R : lk[k] = heap[k]
    BY <1>1, <1>4 DEF Link
  <2> HIDE DEF lk, R
  <2>2. R \in SUBSET DOMAIN lk /\ LinkClosed(lk, R)
    BY <1>1, <1>3, <2>1 DEF LinkClosed
  <2> QED BY <1>2, <2>2, ReachLeast DEF lk
<1> QED BY <1>5, <1>6

\* A step keeps the call's ownership of the node it will redirect (OwnsPath).
LEMMA OwnsPathStep == TypeOK /\ OwnsPath /\ [Next]_vars => OwnsPath'
<1> SUFFICES ASSUME TypeOK, OwnsPath, [Next]_vars PROVE OwnsPath'
  OBVIOUS
<1>1. ASSUME frame' = Idle PROVE OwnsPath'
  BY <1>1 DEF OwnsPath, Idle
<1>2. CASE Call
  <2>1. ASSUME NEW src \in Handle, NEW dst \in Handle,
               Copy(src, dst) \/ Clear(dst)
        PROVE  OwnsPath'
    BY <1>1, <2>1 DEF Copy, Clear, Return
  <2>2. ASSUME NEW src \in Handle, NEW dst \in Handle, PopCall(src, dst)
        PROVE  OwnsPath'
    BY <2>2 DEF PopCall, OwnsPath
  <2>3. ASSUME NEW src \in Handle, NEW dst \in Handle, NEW v \in Value, PushCall(src, v, dst)
        PROVE  OwnsPath'
    BY <2>3 DEF PushCall, OwnsPath
  <2>4. ASSUME NEW h \in Handle, NEW index \in 0 .. MaxLen, NEW v \in Value, SetCall(h, index, v)
        PROVE  OwnsPath'
    BY <2>4 DEF SetCall, OwnsPath
  <2> QED BY <1>2, <2>1, <2>2, <2>3, <2>4 DEF Call
<1>3. CASE PushMerge
  <2>1. frame'.fn = "push"
    BY <1>3, FrameFields DEF PushMerge, TypeOK
  <2> QED BY <2>1 DEF OwnsPath
<1>4. CASE PushReturn BY <1>1, <1>4 DEF PushReturn, Return
<1>0. CASE PopShift
  <2>1. frame'.fn = "pop" /\ frame'.last = frame.last /\ UNCHANGED <<heap, repr>>
    BY <1>0, FrameFields DEF PopShift, TypeOK
  <2> QED BY <1>0, <2>1 DEF OwnsPath, PopShift
<1>5. CASE PopSplit
  <2>1. frame \in [fn : {"pop"}, dst : Handle, rest : Seq(Value), pow : Nat \ {0},
                   first : LivePtr, last : LivePtr, next : LivePtr]
    BY <1>5, FrameFields DEF TypeOK, PopSplit
  <2> DEFINE block == SubSeq(frame.rest, 1, frame.pow)
  <2>2. PICK n \in Node \ DOMAIN heap :
          /\ heap' = IF frame.last = NULL THEN Alloc(n, block, NULL)
                     ELSE Link(Alloc(n, block, NULL), frame.last, n)
          /\ frame'.fn = "pop" /\ frame'.last = n
          /\ repr' = repr
    BY <1>5, <2>1 DEF PopSplit
  <2>3. ASSUME NEW g \in Handle PROVE n \notin Reach(heap', {repr[g]})
    <3>1. frame.last \in DOMAIN heap \cup {NULL} /\ frame.last \notin Reach(heap, {repr[g]})
      <4>1. NULL \notin Reach(heap, {repr[g]})
        BY ReachAllocated, NullAssumption DEF TypeOK
      <4> QED BY <1>5, <2>1, <4>1 DEF OwnsPath, PopSplit, LivePtr
    <3>2. Reach(heap', {repr[g]}) \subseteq Reach(heap, {repr[g]})
      BY <2>2, <3>1, ReachUntouched DEF TypeOK
    <3> QED BY <3>2, ReachAllocated
  <2> QED BY <2>2, <2>3 DEF OwnsPath
<1>6. CASE PopReturn BY <1>1, <1>6 DEF PopReturn, Return
<1>7. CASE SetUnshare
  <2>1. frame \in [fn : {"set"}, h : Handle, at : LivePtr, index : Nat, value : Value]
    BY <1>7, FrameFields DEF TypeOK, SetUnshare
  <2>2. CASE frame.at = NULL
    BY <1>7, <2>1, <2>2 DEF SetUnshare, OwnsPath
  <2>3. CASE frame.at # NULL
    <3>1. PICK n \in Node \ DOMAIN heap :
            /\ heap' = Link(Alloc(n, heap[Current].items, heap[Current].next), frame.at, n)
            /\ repr' = repr
      BY <1>7, <2>3 DEF SetUnshare
    <3>2. ASSUME NEW g \in Handle \ {frame.h}
          PROVE  frame.at \notin Reach(heap', {repr[g]})
      <4>1. frame.at \in DOMAIN heap \cup {NULL} /\ frame.at \notin Reach(heap, {repr[g]})
        BY <1>7, <2>1, <2>3 DEF OwnsPath, SetUnshare, LivePtr
      <4>2. Reach(heap', {repr[g]}) \subseteq Reach(heap, {repr[g]})
        BY <2>3, <3>1, <4>1, ReachUntouched DEF TypeOK
      <4> QED BY <4>1, <4>2
    <3> QED BY <1>7, <2>1, <3>1, <3>2 DEF OwnsPath, SetUnshare
  <2> QED BY <2>2, <2>3
<1>8. CASE SetWrite BY <1>1, <1>8 DEF SetWrite
<1>9. CASE SetAdvance
  <2>1. frame \in [fn : {"set"}, h : Handle, at : LivePtr, index : Nat, value : Value]
    BY <1>9, FrameFields DEF TypeOK, SetAdvance
  <2>2. frame'.fn = "set" /\ frame'.h = frame.h /\ frame'.at = Current
    BY <1>9, <2>1 DEF SetAdvance
  <2>3. \A g \in Handle \ {frame.h} : Current \notin Reach(heap, {repr[g]})
    BY <1>9, UnsharedIsPrivate DEF SetAdvance
  <2>4. heap' = heap /\ repr' = repr
    BY <1>9 DEF SetAdvance
  <2> QED BY <2>2, <2>3, <2>4 DEF OwnsPath
<1>10. CASE SetThrow BY <1>1, <1>10 DEF SetThrow
<1>11. CASE UNCHANGED vars
  BY <1>11 DEF OwnsPath, vars
<1> QED BY <1>0, <1>2, <1>3, <1>4, <1>5, <1>6, <1>7, <1>8, <1>9, <1>10, <1>11
        DEF Next, Step

\* Collecting changes no node that survives (Collect, shared_ptr releases).
LEMMA ReturnKeepsNodes ==
  ASSUME NEW hp, NEW dst, NEW r, Return(hp, dst, r)
  PROVE  \A n \in DOMAIN heap' : heap'[n] = hp[n]
BY DEF Return, Collect

\* Whatever node a step changes in place is seen by one handle at most
\* (PrivateWrite, the stores through current and pptr).
LEMMA WritePrivateStep ==
  ASSUME TypeOK, OwnsPath, [Next]_vars,
         NEW n \in DOMAIN heap \cap DOMAIN heap', heap'[n] # heap[n]
  PROVE  PrivateWrite(n)
<1>1. ASSUME NEW hp, NEW dst, NEW r, Return(hp, dst, r), hp[n] = heap[n] PROVE FALSE
  BY <1>1, ReturnKeepsNodes
<1>2. ~ UNCHANGED heap
  OBVIOUS
<1>3. ASSUME NEW k \in Node \ DOMAIN heap, NEW items, NEW next
      PROVE  Alloc(k, items, next)[n] = heap[n]
  BY DEF Alloc
<1>4. CASE Call
  BY <1>1, <1>2, <1>4 DEF Call, Copy, Clear, PushCall, PopCall, SetCall
<1>5. CASE PushReturn
  BY <1>1, <1>3, <1>5 DEF PushReturn
<1>6. CASE PopSplit
  <2>1. n = frame.last /\ frame.last # NULL
    BY <1>3, <1>6 DEF PopSplit, Link, Alloc
  <2> QED BY <1>6, <2>1 DEF PopSplit, OwnsPath, PrivateWrite
<1>7. CASE PopReturn
  <2>1. n = frame.last /\ frame.last # NULL
    <3>1. CASE frame.last = NULL
      BY <1>1, <1>7, <3>1 DEF PopReturn
    <3>2. CASE frame.last # NULL
      <4>1. Return(Link(heap, frame.last, frame.next), frame.dst, frame.first)
        BY <1>7, <3>2 DEF PopReturn
      <4>2. n # frame.last => Link(heap, frame.last, frame.next)[n] = heap[n]
        BY DEF Link
      <4> QED BY <1>1, <3>2, <4>1, <4>2
    <3> QED BY <3>1, <3>2
  <2> QED BY <1>7, <2>1 DEF PopReturn, OwnsPath, PrivateWrite
<1>8. CASE SetUnshare
  <2>1. n = frame.at /\ frame.at # NULL
    BY <1>3, <1>8 DEF SetUnshare, Link, Alloc
  <2> QED BY <1>8, <2>1 DEF SetUnshare, OwnsPath, PrivateWrite
<1>9. CASE SetWrite
  <2>1. n = Current
    BY <1>9 DEF SetWrite
  <2>2. \A g \in Handle \ {frame.h} : Current \notin Reach(heap, {repr[g]})
    BY <1>9, UnsharedIsPrivate DEF SetWrite
  <2> QED BY <2>1, <2>2 DEF PrivateWrite
<1>10. CASE PushMerge \/ PopShift \/ SetAdvance \/ SetThrow \/ UNCHANGED vars
  BY <1>2, <1>10 DEF PushMerge, PopShift, SetAdvance, SetThrow, vars
<1> QED BY <1>4, <1>5, <1>6, <1>7, <1>8, <1>9, <1>10 DEF Next, Step

\* The node a call is about to redirect belongs to no stack but its own.
THEOREM PathOwned == Spec => []OwnsPath
<1>1. Init => OwnsPath
  BY DEF Init, OwnsPath, Idle
<1> QED BY <1>1, OwnsPathStep, TypeCorrect, PTL DEF Spec

\* A node that is changed in place is seen by one lazy_stack object at most, so
\* no handle changes under another one's hand.
THEOREM PrivateWrites == Spec => WritesArePrivate
<1> DEFINE A == \A n \in DOMAIN heap \cap DOMAIN heap' :
                  heap'[n] # heap[n] => PrivateWrite(n)
<1>1. TypeOK /\ OwnsPath /\ [Next]_vars => [A]_vars
  BY WritePrivateStep
<1> QED BY <1>1, TypeCorrect, PathOwned, PTL DEF Spec, WritesArePrivate


(***************************************************************************)
(* Arithmetic of sizes and bits.                                           *)
(***************************************************************************)

\* A block of one item has an allowed size (PowerOfTwo, the sizes of blocks).
LEMMA PowerOfOne == PowerOfTwo(1)
<1>1. \A d, q \in 1 .. 1 : d = 1
  OBVIOUS
<1> QED BY <1>1 DEF PowerOfTwo

\* The product of odd numbers is odd (PowerOfTwo, the sizes of blocks).
LEMMA OddTimesOdd ==
  ASSUME NEW d \in Nat, NEW q \in Nat, d % 2 = 1, q % 2 = 1
  PROVE  (d * q) % 2 = 1
<1>1. PICK a \in Nat : d = 2 * a + 1
  <2>1. d = 2 * (d \div 2) + (d % 2) /\ d \div 2 \in Nat
    OBVIOUS
  <2> QED BY <2>1
<1>2. PICK b \in Nat : q = 2 * b + 1
  <2>1. q = 2 * (q \div 2) + (q % 2) /\ q \div 2 \in Nat
    OBVIOUS
  <2> QED BY <2>1
<1> DEFINE c == 2 * (a * b) + a + b
<1>3. c \in Nat /\ d * q = 2 * c + 1
  BY <1>1, <1>2
<1> HIDE DEF c
<1> QED BY <1>3

\* A number is even or odd (PowerOfTwo, the sizes of blocks).
LEMMA EvenOrOdd ==
  ASSUME NEW d \in Nat
  PROVE  /\ d % 2 = 0 \/ d % 2 = 1
         /\ d % 2 = 0 => \E a \in Nat : d = 2 * a
<1>1. d = 2 * (d \div 2) + (d % 2) /\ d \div 2 \in Nat /\ d % 2 \in 0 .. 1
  OBVIOUS
<1> QED BY <1>1

\* Two blocks of one allowed size make up another (PowerOfTwo; the carry of
\* push, the shift of pop).
LEMMA PowerDouble ==
  ASSUME NEW x \in Nat, PowerOfTwo(x)
  PROVE  PowerOfTwo(2 * x)
<1>1. x >= 1 /\ \A d, q \in 1 .. x : d * q = x => d = 1 \/ d % 2 = 0
  BY DEF PowerOfTwo
<1>2. ASSUME NEW d \in 1 .. 2 * x, NEW q \in 1 .. 2 * x, d * q = 2 * x, d % 2 # 0
      PROVE  d = 1
  <2>1. d % 2 = 1 /\ (2 * x) % 2 = 0
    BY <1>1, <1>2, EvenOrOdd
  <2>2. PICK r \in Nat : q = 2 * r
    <3>1. q % 2 # 1
      BY <1>2, <2>1, OddTimesOdd
    <3> QED BY <3>1, EvenOrOdd
  <2>3. d * r = x
    BY <1>2, <2>2
  <2>4. d \in 1 .. x /\ r \in 1 .. x
    <3>1. r >= 1
      BY <2>2
    <3>2. d <= d * r /\ r <= d * r
      BY <3>1
    <3> QED BY <2>3, <3>1, <3>2
  <2> QED BY <1>1, <2>1, <2>3, <2>4
<1> QED BY <1>1, <1>2 DEF PowerOfTwo

\* An allowed size but one is twice an allowed size (PowerOfTwo, the sizes of
\* blocks).
LEMMA PowerHalf ==
  ASSUME NEW x \in Nat, PowerOfTwo(x), x # 1
  PROVE  \E y \in Nat : x = 2 * y /\ PowerOfTwo(y)
<1>1. x >= 1 /\ \A d, q \in 1 .. x : d * q = x => d = 1 \/ d % 2 = 0
  BY DEF PowerOfTwo
<1>2. x % 2 = 0
  <2>1. x \in 1 .. x /\ 1 \in 1 .. x /\ x * 1 = x
    BY <1>1
  <2> QED BY <1>1, <2>1
<1>3. PICK y \in Nat : x = 2 * y
  BY <1>2, EvenOrOdd
<1>4. ASSUME NEW d \in 1 .. y, NEW q \in 1 .. y, d * q = y
      PROVE  d = 1 \/ d % 2 = 0
  <2>1. d * (2 * q) = x
    BY <1>3, <1>4
  <2>2. d \in 1 .. x /\ 2 * q \in 1 .. x
    BY <1>3
  <2> QED BY <1>1, <2>1, <2>2
<1>5. y >= 1
  BY <1>1, <1>3
<1>6. PowerOfTwo(y)
  BY <1>4, <1>5 DEF PowerOfTwo
<1> QED BY <1>3, <1>6

\* Between an allowed size and its double there is none (PowerOfTwo): a block
\* that is larger than the one before it can still take in a carry of as much.
LEMMA PowerGap ==
  ASSUME NEW x \in Nat, NEW y \in Nat, PowerOfTwo(x), PowerOfTwo(y), x < y
  PROVE  2 * x <= y
<1> DEFINE T == {n \in Nat : \E a \in Nat : /\ PowerOfTwo(a) /\ PowerOfTwo(n)
                                            /\ a < n /\ 2 * a > n}
<1> SUFFICES ASSUME T # {} PROVE FALSE
  OBVIOUS
<1>1. PICK n \in T : \A m \in T : ~ (<<m, n>> \in OpToRel(<, Nat))
  <2> HIDE DEF T
  <2>1. T \subseteq Nat
    BY DEF T
  <2> QED BY <2>1, NatLessThanWellFounded, WFMin
<1>2. PICK a \in Nat : PowerOfTwo(a) /\ PowerOfTwo(n) /\ a < n /\ 2 * a > n
  OBVIOUS
<1>3. PICK m \in Nat : n = 2 * m /\ PowerOfTwo(m)
  <2>1. n # 1
    BY <1>2 DEF PowerOfTwo
  <2> QED BY <1>2, <2>1, PowerHalf
<1>4. a # 1
  BY <1>2, <1>3
<1>5. PICK b \in Nat : a = 2 * b /\ PowerOfTwo(b)
  BY <1>2, <1>4, PowerHalf
<1>6. m \in T
  BY <1>2, <1>3, <1>5
<1>7. <<m, n>> \in OpToRel(<, Nat)
  BY <1>2, <1>3 DEF OpToRel
<1> QED BY <1>1, <1>6, <1>7

\* A number that another one divides is a multiple of it (%, size & pow).
LEMMA MultipleOf ==
  ASSUME NEW a \in Nat, NEW b \in Nat \ {0}, a % b = 0
  PROVE  \E q \in Nat : a = b * q /\ a \div b = q
<1>1. a = b * (a \div b) + (a % b) /\ a \div b \in Nat
  OBVIOUS
<1> QED BY <1>1

\* The multiples of a number (%, size & pow).
LEMMA Multiples ==
  ASSUME NEW b \in Nat \ {0}, NEW q \in Nat
  PROVE  (b * q) % b = 0 /\ (b * q) \div b = q
<1> DEFINE a == b * q
           d == a \div b
           r == a % b
<1>1. a \in Nat /\ d \in Nat /\ r \in 0 .. b - 1 /\ a = b * d + r
  OBVIOUS
<1>2. b * (q - d) = r
  BY <1>1
<1> HIDE DEF a, d, r
<1>3. q - d < 1
  <2>1. ASSUME q - d >= 1 PROVE b * (q - d) >= b
    BY <1>1, <2>1
  <2> QED BY <1>1, <1>2, <2>1
<1>4. q - d > -1
  <2>1. ASSUME q - d <= -1 PROVE b * (q - d) <= -b
    <3>1. d - q >= 1 => b * (d - q) >= b
      BY <1>1
    <3>2. b * (q - d) = - (b * (d - q))
      BY <1>1
    <3> QED BY <1>1, <2>1, <3>1, <3>2
  <2> QED BY <1>1, <1>2, <2>1
<1>5. q = d
  BY <1>1, <1>3, <1>4
<1>6. r = 0
  BY <1>1, <1>5 DEF a
<1> QED BY <1>5, <1>6 DEF a, d, r

\* pop does not pass over a bit: where the bit at pow is clear, none is set
\* below the next one (PopShift, pow << 1).
LEMMA ClearBit ==
  ASSUME NEW size \in Nat, NEW pow \in Nat \ {0},
         size % pow = 0, ~BitSet(size, pow)
  PROVE  size % (2 * pow) = 0
<1>1. PICK q \in Nat : size = pow * q /\ size \div pow = q
  BY MultipleOf
<1>2. PICK r \in Nat : q = 2 * r
  BY <1>1, EvenOrOdd DEF BitSet
<1> DEFINE b == 2 * pow
<1>3. size = b * r /\ b \in Nat \ {0}
  BY <1>1, <1>2
<1> HIDE DEF b
<1>4. size % b = 0
  BY <1>3, Multiples
<1> QED BY <1>4 DEF b

\* A bit that is set is clear once a block of its size is split off, and with
\* it every bit up to it (PopSplit, i += pow).
LEMMA TakenBit ==
  ASSUME NEW size \in Nat, NEW pow \in Nat \ {0},
         size % pow = 0, BitSet(size, pow)
  PROVE  (size - pow) % (2 * pow) = 0
<1>1. PICK q \in Nat : size = pow * q /\ size \div pow = q
  BY MultipleOf
<1>2. PICK r \in Nat : q = 2 * r + 1
  <2>1. q = 2 * (q \div 2) + (q % 2) /\ q \div 2 \in Nat
    OBVIOUS
  <2> QED BY <1>1, <2>1 DEF BitSet
<1> DEFINE b == 2 * pow
<1>3. size - pow = b * r /\ b \in Nat \ {0}
  BY <1>1, <1>2
<1> HIDE DEF b
<1>4. (size - pow) % b = 0
  BY <1>3, Multiples
<1> QED BY <1>4 DEF b

\* What is divided by the double of a number is divided by it, and its bit is
\* clear (BitSet, size & pow).
LEMMA DoubleDivides ==
  ASSUME NEW size \in Nat, NEW pow \in Nat \ {0}, size % (2 * pow) = 0
  PROVE  size % pow = 0 /\ ~BitSet(size, pow)
<1>1. 2 * pow \in Nat \ {0}
  OBVIOUS
<1>2. PICK r \in Nat : size = (2 * pow) * r
  BY <1>1, MultipleOf
<1>3. size = pow * (2 * r) /\ 2 * r \in Nat
  BY <1>2
<1>4. size % pow = 0 /\ size \div pow = 2 * r
  BY <1>3, Multiples
<1>5. (2 * r) % 2 = 0
  OBVIOUS
<1> QED BY <1>4, <1>5 DEF BitSet

(***************************************************************************)
(* The inductive invariant.  BinaryCounter alone says nothing of the block *)
(* a call is about to link: push must not pass over a block as large as    *)
(* its own, and what pop has still to split must fit between the last      *)
(* block it has made and the first one it leaves as it is.                 *)
(***************************************************************************)
Ascending(hp) ==
  \A n \in DOMAIN hp :
    /\ PowerOfTwo(Len(hp[n].items))
    /\ hp[n].next # NULL => Len(hp[n].items) < Len(hp[hp[n].next].items)

SizeOf(n) == Len(heap[n].items)

\* push never passes a block as large as its own, so it can be linked where it
\* stops.
PushShape ==
  frame.fn = "push" =>
    /\ PowerOfTwo(Len(frame.items))
    /\ frame.next # NULL => Len(frame.items) <= SizeOf(frame.next)

\* No bit of the rest of pop lies under pow, the last block is not larger than
\* pow and shorter than the next one will be, and what pop has to split fits
\* between it and the block that follows.
PopShape ==
  frame.fn = "pop" =>
    /\ PowerOfTwo(frame.pow)
    /\ Len(frame.rest) % frame.pow = 0
    /\ frame.last # NULL =>
         /\ SizeOf(frame.last) <= frame.pow
         /\ SizeOf(frame.last) = frame.pow => Len(frame.rest) % (2 * frame.pow) = 0
    /\ frame.next # NULL =>
         /\ Len(frame.rest) < SizeOf(frame.next)
         /\ frame.last # NULL => SizeOf(frame.last) < SizeOf(frame.next)

\* The inductive invariant.
ShapeInv == Ascending(heap) /\ PushShape /\ PopShape

\* What is left after a release is as it was (Collect, shared_ptr).
LEMMA CollectAscending ==
  ASSUME NEW hp, HeapOK(hp), Ascending(hp), NEW rp \in [Handle -> Live(hp)]
  PROVE  Ascending(Collect(hp, Objects(rp)))
<1> DEFINE c == Collect(hp, Objects(rp))
<1>1. HeapOK(c) /\ DOMAIN c \subseteq DOMAIN hp /\ \A n \in DOMAIN c : c[n] = hp[n]
  BY CollectOK, ReachAllocated DEF Collect
<1> HIDE DEF c
<1>2. \A n \in DOMAIN c : c[n].next # NULL => c[n].next \in DOMAIN c
  BY <1>1 DEF HeapOK, Live
<1>3. Ascending(c)
  BY <1>1, <1>2 DEF Ascending
<1> QED BY <1>3 DEF c

\* A new block may go in front of a larger one (Alloc, std::make_shared).
LEMMA AllocAscending ==
  ASSUME HeapOK(heap), Ascending(heap), NEW n \in Node \ DOMAIN heap,
         NEW items, PowerOfTwo(Len(items)), NEW next \in LivePtr,
         next # NULL => Len(items) < SizeOf(next)
  PROVE  Ascending(Alloc(n, items, next))
<1> DEFINE hp == Alloc(n, items, next)
<1>1. /\ DOMAIN hp = DOMAIN heap \cup {n}
      /\ hp[n] = [items |-> items, next |-> next]
      /\ \A m \in DOMAIN heap : hp[m] = heap[m]
  BY DEF Alloc
<1>2. \A m \in DOMAIN heap : heap[m].next # NULL => heap[m].next \in DOMAIN heap
  BY DEF HeapOK, Live
<1> HIDE DEF hp
<1>3. Ascending(hp)
  BY <1>1, <1>2 DEF Ascending, SizeOf, LivePtr
<1> QED BY <1>3 DEF hp

\* A block may be linked in front of a larger one (Link, the assignments
\* through current and pptr).
LEMMA LinkAscending ==
  ASSUME NEW hp, HeapOK(hp), Ascending(hp), NEW m \in DOMAIN hp, NEW n \in Live(hp),
         n # NULL => Len(hp[m].items) < Len(hp[n].items)
  PROVE  Ascending(Link(hp, m, n))
<1> DEFINE lk == Link(hp, m, n)
<1>1. /\ DOMAIN lk = DOMAIN hp
      /\ \A k \in DOMAIN hp : lk[k].items = hp[k].items
      /\ \A k \in DOMAIN hp : lk[k].next = IF k = m THEN n ELSE hp[k].next
  BY DEF Link, HeapOK
<1>2. \A k \in DOMAIN hp : hp[k].next # NULL => hp[k].next \in DOMAIN hp
  BY DEF HeapOK, Live
<1> HIDE DEF lk
<1>3. Ascending(lk)
  BY <1>1, <1>2 DEF Ascending, Live
<1> QED BY <1>3 DEF lk

\* Returning from a call keeps the shape if the heap it leaves has it (Return).
LEMMA ReturnShape ==
  ASSUME NEW hp, HeapOK(hp), Ascending(hp), NEW dst \in Handle, NEW n \in Live(hp),
         repr \in [Handle -> Live(hp)], Return(hp, dst, n)
  PROVE  ShapeInv'
<1>1. repr' \in [Handle -> Live(hp)] /\ heap' = Collect(hp, Objects(repr')) /\ frame' = Idle
  BY DEF Return
<1>2. Ascending(heap')
  BY <1>1, CollectAscending
<1> QED BY <1>1, <1>2 DEF ShapeInv, PushShape, PopShape, Idle

\* The start of a call, copies and clears keep the shape: push begins with a
\* block of one, pop with one less than a power of two.
LEMMA CallShape == TypeOK /\ ShapeInv /\ Call => ShapeInv'
<1> SUFFICES ASSUME TypeOK, ShapeInv, Call PROVE ShapeInv'
  OBVIOUS
<1>1. HeapOK(heap) /\ repr \in [Handle -> Live(heap)] /\ Ascending(heap)
  BY TypeParts DEF LivePtr, Live, ShapeInv
<1>2. ASSUME NEW src \in Handle, NEW dst \in Handle, Copy(src, dst) PROVE ShapeInv'
  BY <1>1, <1>2, ReturnShape DEF Copy
<1>3. ASSUME NEW h \in Handle, Clear(h) PROVE ShapeInv'
  BY <1>1, <1>3, ReturnShape DEF Clear, Live
<1>4. ASSUME NEW src \in Handle, NEW dst \in Handle, PopCall(src, dst) PROVE ShapeInv'
  <2> DEFINE top == heap[repr[src]]
             rest == Tail(top.items)
  <2>1. repr[src] \in DOMAIN heap /\ top \in [items : Seq(Value) \ {<<>>}, next : LivePtr]
    BY <1>4 DEF PopCall, TypeOK, LivePtr
  <2>2. /\ rest \in Seq(Value) /\ Len(rest) = Len(top.items) - 1
        /\ Len(rest) \in Nat /\ Len(top.items) \in Nat
    BY <2>1
  <2>3. top.next # NULL => /\ Len(top.items) < SizeOf(top.next)
                           /\ SizeOf(top.next) \in Nat
    BY <1>1, <2>1 DEF Ascending, SizeOf, TypeOK, LivePtr
  <2>4. /\ frame'.fn = "pop" /\ frame'.pow = 1 /\ frame'.rest = rest
        /\ frame'.last = NULL /\ frame'.next = top.next
        /\ UNCHANGED heap
    BY <1>4 DEF PopCall
  <2> HIDE DEF top, rest
  <2>5. ASSUME NEW size \in Nat PROVE size % 1 = 0
    OBVIOUS
  <2>6. Len(rest) % 1 = 0
    BY <2>2, <2>5, Zenon
  <2>7. top.next # NULL => Len(rest) < SizeOf(top.next)
    BY <2>2, <2>3
  <2> QED BY <1>1, <2>4, <2>6, <2>7, PowerOfOne DEF ShapeInv, PushShape, PopShape, SizeOf
<1>5. ASSUME NEW src \in Handle, NEW dst \in Handle, NEW v \in Value, PushCall(src, v, dst)
      PROVE  ShapeInv'
  <2>1. frame'.fn = "push" /\ frame'.items = <<v>> /\ frame'.next = repr[src] /\ UNCHANGED heap
    BY <1>5 DEF PushCall
  <2>2. Len(<<v>>) = 1
    OBVIOUS
  <2>3. repr[src] # NULL => 1 <= SizeOf(repr[src])
    BY <1>1 DEF Ascending, PowerOfTwo, SizeOf, Live
  <2> QED BY <1>1, <2>1, <2>2, <2>3, PowerOfOne DEF ShapeInv, PushShape, PopShape, SizeOf
<1>6. ASSUME NEW h \in Handle, NEW index \in 0 .. MaxLen, NEW v \in Value, SetCall(h, index, v)
      PROVE  ShapeInv'
  BY <1>1, <1>6 DEF SetCall, ShapeInv, PushShape, PopShape
<1> QED BY <1>2, <1>3, <1>4, <1>5, <1>6 DEF Call

\* A carry keeps the shape: the block that has taken in the next one is twice
\* as large, which is no more than the size of what follows.
LEMMA PushMergeShape == TypeOK /\ ShapeInv /\ PushMerge => ShapeInv'
<1> SUFFICES ASSUME TypeOK, ShapeInv, PushMerge PROVE ShapeInv'
  OBVIOUS
<1>1. frame \in [fn : {"push"}, dst : Handle,
                 items : Seq(Value) \ {<<>>}, next : LivePtr]
  BY FrameFields DEF TypeOK, PushMerge
<1> DEFINE taken == heap[frame.next]
           size == Len(frame.items)
<1>2. frame.next \in DOMAIN heap /\ taken \in [items : Seq(Value) \ {<<>>}, next : LivePtr]
  BY <1>1 DEF PushMerge, Carry, LivePtr, TypeOK
<1>3. Len(taken.items) = size /\ size \in Nat /\ PowerOfTwo(size)
  BY <1>1, <1>2 DEF PushMerge, Carry, ShapeInv, PushShape
<1>4. Len(frame.items \o taken.items) = 2 * size
  BY <1>1, <1>2, <1>3
<1>5. taken.next # NULL => 2 * size <= SizeOf(taken.next)
  <2>1. ASSUME taken.next # NULL PROVE 2 * size <= SizeOf(taken.next)
    <3>1. taken.next \in DOMAIN heap /\ size < SizeOf(taken.next)
      BY <1>2, <1>3, <2>1 DEF ShapeInv, Ascending, SizeOf, LivePtr
    <3>2. SizeOf(taken.next) \in Nat /\ PowerOfTwo(SizeOf(taken.next))
      BY <3>1 DEF ShapeInv, Ascending, SizeOf, TypeOK
    <3> QED BY <1>3, <3>1, <3>2, PowerGap
  <2> QED BY <2>1
<1>6. /\ frame'.fn = "push" /\ frame'.items = frame.items \o taken.items
      /\ frame'.next = taken.next /\ UNCHANGED heap
  BY <1>1 DEF PushMerge
<1>7. PowerOfTwo(2 * size)
  BY <1>3, PowerDouble
<1> HIDE DEF taken, size
<1> QED BY <1>4, <1>5, <1>6, <1>7 DEF ShapeInv, PushShape, PopShape, SizeOf

\* The end of push keeps the shape: what follows is not as large as the new
\* block and not smaller, so it is larger.
LEMMA PushReturnShape == TypeOK /\ ShapeInv /\ PushReturn => ShapeInv'
<1> SUFFICES ASSUME TypeOK, ShapeInv, PushReturn PROVE ShapeInv'
  OBVIOUS
<1>1. frame \in [fn : {"push"}, dst : Handle,
                 items : Seq(Value) \ {<<>>}, next : LivePtr]
  BY FrameFields DEF TypeOK, PushReturn
<1>2. PICK n \in Node \ DOMAIN heap :
        Return(Alloc(n, frame.items, frame.next), frame.dst, n)
  BY DEF PushReturn
<1> DEFINE hp == Alloc(n, frame.items, frame.next)
<1>3. HeapOK(hp) /\ DOMAIN hp = DOMAIN heap \cup {n}
  BY <1>1, AllocOK, TypeParts
<1>4. repr \in [Handle -> Live(hp)] /\ n \in Live(hp)
  BY <1>3 DEF TypeOK, LivePtr, Live
<1>5. frame.next # NULL => Len(frame.items) < SizeOf(frame.next)
  <2>1. frame.next # NULL => SizeOf(frame.next) \in Nat /\ SizeOf(frame.next) # Len(frame.items)
    BY <1>1 DEF PushReturn, Carry, TypeOK, SizeOf, LivePtr
  <2> QED BY <1>1, <2>1 DEF PushReturn, ShapeInv, PushShape
<1>6. Ascending(hp)
  BY <1>1, <1>5, AllocAscending, TypeParts DEF PushReturn, ShapeInv, PushShape
<1> QED BY <1>1, <1>2, <1>3, <1>4, <1>6, ReturnShape

\* What the locals of pop are (frame).
LEMMA PopFrame ==
  ASSUME TypeOK, frame.fn = "pop"
  PROVE  /\ frame \in [fn : {"pop"}, dst : Handle, rest : Seq(Value), pow : Nat \ {0},
                       first : LivePtr, last : LivePtr, next : LivePtr]
         /\ Len(frame.rest) \in Nat
         /\ \A n \in LivePtr : n # NULL => n \in DOMAIN heap /\ SizeOf(n) \in Nat
<1>1. frame \in [fn : {"pop"}, dst : Handle, rest : Seq(Value), pow : Nat \ {0},
                 first : LivePtr, last : LivePtr, next : LivePtr]
  BY FrameFields DEF TypeOK
<1> QED BY <1>1 DEF TypeOK, LivePtr, SizeOf

\* Moving on to the next bit keeps the shape (PopShift).
LEMMA PopShiftShape == TypeOK /\ ShapeInv /\ PopShift => ShapeInv'
<1> SUFFICES ASSUME TypeOK, ShapeInv, PopShift PROVE ShapeInv'
  OBVIOUS
<1> DEFINE size == Len(frame.rest)
           pow == frame.pow
<1>1. /\ frame \in [fn : {"pop"}, dst : Handle, rest : Seq(Value), pow : Nat \ {0},
                    first : LivePtr, last : LivePtr, next : LivePtr]
      /\ size \in Nat /\ pow \in Nat \ {0}
      /\ frame.last # NULL => SizeOf(frame.last) \in Nat
  BY PopFrame DEF PopShift
<1>2. frame' = [frame EXCEPT !.pow = 2 * pow] /\ UNCHANGED <<heap, repr>>
  BY DEF PopShift
<1>3. /\ frame'.fn = "pop" /\ frame'.pow = 2 * pow /\ frame'.rest = frame.rest
      /\ frame'.last = frame.last /\ frame'.next = frame.next
  BY <1>1, <1>2
<1>4. /\ PowerOfTwo(pow) /\ size % pow = 0
      /\ frame.last # NULL => SizeOf(frame.last) <= pow
  BY DEF ShapeInv, PopShape, PopShift
<1>5. PowerOfTwo(2 * pow)
  BY <1>1, <1>4, PowerDouble
<1>6. size % (2 * pow) = 0
  BY <1>1, <1>4, ClearBit DEF PopShift
<1>7. frame.last # NULL => SizeOf(frame.last) < 2 * pow
  BY <1>1, <1>4
<1> QED BY <1>1, <1>2, <1>3, <1>5, <1>6, <1>7 DEF ShapeInv, PushShape, PopShape, PopShift, SizeOf

\* Splitting off a block keeps the shape: it is larger than the last one,
\* whose bit is clear by now, and what is left has no bit up to its own.
LEMMA PopSplitShape == TypeOK /\ ShapeInv /\ PopSplit => ShapeInv'
<1> SUFFICES ASSUME TypeOK, ShapeInv, PopSplit PROVE ShapeInv'
  OBVIOUS
<1> DEFINE size == Len(frame.rest)
           pow == frame.pow
           block == SubSeq(frame.rest, 1, pow)
           rest == SubSeq(frame.rest, pow + 1, size)
<1>1. /\ frame \in [fn : {"pop"}, dst : Handle, rest : Seq(Value), pow : Nat \ {0},
                    first : LivePtr, last : LivePtr, next : LivePtr]
      /\ size \in Nat /\ pow \in Nat \ {0}
      /\ \A n \in LivePtr : n # NULL => n \in DOMAIN heap /\ SizeOf(n) \in Nat
  BY PopFrame DEF PopSplit
<1>2. PICK n \in Node \ DOMAIN heap :
        /\ heap' = IF frame.last = NULL THEN Alloc(n, block, NULL)
                   ELSE Link(Alloc(n, block, NULL), frame.last, n)
        /\ frame' = [frame EXCEPT !.rest = rest,
                                  !.first = IF @ = NULL THEN n ELSE @,
                                  !.last = n]
  BY DEF PopSplit
<1>3. pow \in 1 .. size
  BY <1>1, BitSetBound DEF PopSplit
<1>4. /\ block \in Seq(Value) /\ Len(block) = pow
      /\ rest \in Seq(Value) /\ Len(rest) = size - pow
  <2> HIDE DEF pow, size
  <2>1. frame.rest \in Seq(Value) /\ size = Len(frame.rest)
    BY <1>1 DEF size
  <2> QED BY <1>1, <1>3, <2>1
<1>5. /\ frame'.fn = "pop" /\ frame'.pow = pow /\ frame'.rest = rest
      /\ frame'.last = n /\ frame'.next = frame.next
  BY <1>1, <1>2
<1>6. /\ PowerOfTwo(pow) /\ size % pow = 0
      /\ frame.last # NULL => /\ SizeOf(frame.last) <= pow
                              /\ SizeOf(frame.last) = pow => size % (2 * pow) = 0
      /\ frame.next # NULL => size < SizeOf(frame.next)
  BY DEF ShapeInv, PopShape, PopSplit
<1>7. (size - pow) % (2 * pow) = 0
  BY <1>1, <1>6, TakenBit DEF PopSplit
<1>8. (size - pow) % pow = 0
  <2>1. size - pow \in Nat
    BY <1>1, <1>3
  <2> HIDE DEF size, pow
  <2> QED BY <1>1, <1>7, <2>1, DoubleDivides
<1>9. frame.last # NULL => SizeOf(frame.last) < pow
  <2>1. ASSUME size % (2 * pow) = 0 PROVE FALSE
    BY <1>1, <2>1, DoubleDivides DEF PopSplit
  <2> QED BY <1>1, <1>6, <2>1
<1> HIDE DEF block, rest, size, pow
<1> DEFINE hp == Alloc(n, block, NULL)
<1>10. /\ HeapOK(hp) /\ Ascending(hp) /\ DOMAIN hp = DOMAIN heap \cup {n}
       /\ hp[n].items = block /\ \A m \in DOMAIN heap : hp[m] = heap[m]
  <2>1. block \in Seq(Value) \ {<<>>} /\ NULL \in LivePtr
    BY <1>1, <1>4 DEF LivePtr
  <2>2. HeapOK(hp) /\ Ascending(hp)
    BY <1>4, <1>6, <2>1, AllocOK, AllocAscending, TypeParts DEF ShapeInv
  <2> QED BY <2>2 DEF Alloc
<1>11. /\ Ascending(heap')
       /\ DOMAIN heap' = DOMAIN heap \cup {n} /\ heap'[n].items = block
       /\ \A m \in DOMAIN heap : heap'[m].items = heap[m].items
  <2>1. CASE frame.last = NULL
    BY <1>2, <1>10, <2>1
  <2>2. CASE frame.last # NULL
    <3>1. frame.last \in DOMAIN hp /\ n \in Live(hp)
      BY <1>1, <1>10, <2>2 DEF Live
    <3>2. Len(hp[frame.last].items) < Len(hp[n].items)
      BY <1>1, <1>4, <1>9, <1>10, <2>2 DEF SizeOf
    <3> HIDE DEF hp
    <3>3. heap' = Link(hp, frame.last, n)
      BY <1>2, <2>2 DEF hp
    <3>4. /\ DOMAIN heap' = DOMAIN hp
          /\ \A m \in DOMAIN hp : heap'[m].items = hp[m].items
      BY <1>10, <3>3 DEF Link, HeapOK
    <3> QED BY <1>10, <3>1, <3>2, <3>3, <3>4, LinkAscending
  <2> QED BY <2>1, <2>2
<1>12. SizeOf(n)' = pow /\ (frame.next # NULL => SizeOf(frame.next)' = SizeOf(frame.next))
  BY <1>1, <1>4, <1>5, <1>11 DEF SizeOf
<1>13. frame.next # NULL => size - pow < SizeOf(frame.next) /\ pow < SizeOf(frame.next)
  BY <1>1, <1>3, <1>6
<1>14. PopShape'
  BY <1>1, <1>4, <1>5, <1>6, <1>7, <1>8, <1>11, <1>12, <1>13 DEF PopShape, SizeOf
<1> QED BY <1>5, <1>11, <1>14 DEF ShapeInv, PushShape

\* The end of pop keeps the shape: the last block made is smaller than the
\* first one that is left as it is (PopReturn, *current = next).
LEMMA PopReturnShape == TypeOK /\ ShapeInv /\ PopReturn => ShapeInv'
<1> SUFFICES ASSUME TypeOK, ShapeInv, PopReturn PROVE ShapeInv'
  OBVIOUS
<1>1. frame \in [fn : {"pop"}, dst : Handle, rest : Seq(Value), pow : Nat \ {0},
                 first : LivePtr, last : LivePtr, next : LivePtr]
  BY PopFrame DEF PopReturn
<1>2. HeapOK(heap) /\ Ascending(heap) /\ repr \in [Handle -> Live(heap)]
  BY TypeParts DEF ShapeInv, LivePtr, Live
<1>3. CASE frame.last = NULL
  <2>1. Return(heap, frame.dst, frame.next) /\ frame.next \in Live(heap)
    BY <1>1, <1>3 DEF PopReturn, Live, LivePtr
  <2> QED BY <1>1, <1>2, <2>1, ReturnShape
<1>4. CASE frame.last # NULL
  <2> DEFINE hp == Link(heap, frame.last, frame.next)
  <2>1. frame.last \in DOMAIN heap /\ frame.next \in Live(heap)
    BY <1>1, <1>4 DEF Live, LivePtr
  <2>2. HeapOK(hp) /\ DOMAIN hp = DOMAIN heap
    BY <1>2, <2>1, LinkOK
  <2>3. Ascending(hp)
    <3>1. frame.next # NULL => SizeOf(frame.last) < SizeOf(frame.next)
      BY <1>4 DEF PopReturn, ShapeInv, PopShape
    <3> QED BY <1>2, <2>1, <3>1, LinkAscending DEF SizeOf
  <2>4. Return(hp, frame.dst, frame.first)
    BY <1>4 DEF PopReturn
  <2>5. repr \in [Handle -> Live(hp)] /\ frame.first \in Live(hp)
    BY <1>1, <1>2, <2>2 DEF Live, LivePtr
  <2> HIDE DEF hp
  <2> QED BY <1>1, <2>2, <2>3, <2>4, <2>5, ReturnShape
<1> QED BY <1>3, <1>4

\* Replacing a shared node by a copy keeps the shape: the copy is as large.
LEMMA SetUnshareShape == TypeOK /\ ShapeInv /\ SetUnshare => ShapeInv'
<1> SUFFICES ASSUME TypeOK, ShapeInv, SetUnshare PROVE ShapeInv'
  OBVIOUS
<1>1. frame \in [fn : {"set"}, h : Handle, at : LivePtr, index : Nat, value : Value]
  BY FrameFields DEF TypeOK, SetUnshare
<1>2. Current \in DOMAIN heap
  BY CurrentLive DEF SetUnshare, LivePtr
<1> DEFINE c == heap[Current]
<1>3. PICK n \in Node \ DOMAIN heap :
        LET hp == Alloc(n, c.items, c.next) IN
        IF frame.at = NULL
        THEN repr' = [repr EXCEPT ![frame.h] = n] /\ heap' = hp
        ELSE heap' = Link(hp, frame.at, n) /\ UNCHANGED repr
  BY DEF SetUnshare
<1> DEFINE hp == Alloc(n, c.items, c.next)
<1>4. c \in [items : Seq(Value) \ {<<>>}, next : LivePtr]
  BY <1>2 DEF TypeOK
<1>5. PowerOfTwo(Len(c.items)) /\ (c.next # NULL => Len(c.items) < SizeOf(c.next))
  BY <1>2 DEF ShapeInv, Ascending, SizeOf
<1>6. HeapOK(hp) /\ Ascending(hp) /\ DOMAIN hp = DOMAIN heap \cup {n}
  BY <1>4, <1>5, AllocOK, AllocAscending, TypeParts DEF ShapeInv
<1>7. Ascending(heap')
  <2>1. CASE frame.at = NULL
    BY <1>3, <1>6, <2>1
  <2>2. CASE frame.at # NULL
    <3>1. frame.at \in DOMAIN heap /\ heap[frame.at].next = Current
      BY <1>1, <2>2 DEF LivePtr, Current
    <3>2. Len(heap[frame.at].items) < Len(c.items)
      BY <1>2, <3>1 DEF ShapeInv, Ascending, SetUnshare
    <3>3. hp[frame.at] = heap[frame.at] /\ hp[n].items = c.items
      BY <3>1 DEF Alloc
    <3> HIDE DEF hp, c
    <3>4. heap' = Link(hp, frame.at, n)
      BY <1>3, <2>2 DEF hp
    <3>5. n \in Live(hp) /\ frame.at \in DOMAIN hp
      BY <1>6, <3>1 DEF Live
    <3> QED BY <1>6, <3>2, <3>3, <3>4, <3>5, LinkAscending
  <2> QED BY <2>1, <2>2
<1>8. frame' = frame
  BY DEF SetUnshare
<1> QED BY <1>1, <1>7, <1>8 DEF ShapeInv, PushShape, PopShape

\* Writing an element keeps the shape: no block changes its size.
LEMMA SetWriteShape == TypeOK /\ ShapeInv /\ SetWrite => ShapeInv'
<1> SUFFICES ASSUME TypeOK, ShapeInv, SetWrite PROVE ShapeInv'
  OBVIOUS
<1>1. frame \in [fn : {"set"}, h : Handle, at : LivePtr, index : Nat, value : Value]
  BY FrameFields DEF TypeOK, SetWrite
<1>2. Current \in DOMAIN heap
  BY CurrentLive DEF SetWrite, LivePtr
<1> DEFINE items == heap[Current].items
           i == frame.index + 1
           written == [items EXCEPT ![i] = frame.value]
<1>3. items \in Seq(Value) /\ i \in 1 .. Len(items)
  BY <1>1, <1>2 DEF TypeOK, SetWrite
<1>4. Len(written) = Len(items)
  <2>1. written \in [1 .. Len(items) -> Value]
    BY <1>1, <1>3
  <2> QED BY <1>3, <2>1
<1>5. heap' = [heap EXCEPT ![Current] = [heap[Current] EXCEPT !.items = written]]
  BY DEF SetWrite
<1> HIDE DEF written, items, i
<1>6. /\ DOMAIN heap' = DOMAIN heap
      /\ \A n \in DOMAIN heap : /\ heap'[n].next = heap[n].next
                                /\ Len(heap'[n].items) = Len(heap[n].items)
  BY <1>2, <1>4, <1>5 DEF TypeOK, items
<1>7. Ascending(heap')
  BY <1>6 DEF ShapeInv, Ascending, TypeOK, LivePtr
<1> QED BY <1>7 DEF ShapeInv, PushShape, PopShape, SetWrite, Idle

\* The sizes of blocks are powers of two that grow along every chain, and what
\* push and pop still have to link fits in, between any two steps.
THEOREM ShapeHolds == Spec => []ShapeInv
<1>1. Init => ShapeInv
  BY DEF Init, ShapeInv, Ascending, PushShape, PopShape, Idle
<1>2. TypeOK /\ ShapeInv /\ [Next]_vars => ShapeInv'
  <2> SUFFICES ASSUME TypeOK, ShapeInv, [Next]_vars PROVE ShapeInv'
    OBVIOUS
  <2>1. CASE Call BY <2>1, CallShape
  <2>2. CASE PushMerge BY <2>2, PushMergeShape
  <2>3. CASE PushReturn BY <2>3, PushReturnShape
  <2>4. CASE PopShift BY <2>4, PopShiftShape
  <2>5. CASE PopSplit BY <2>5, PopSplitShape
  <2>6. CASE PopReturn BY <2>6, PopReturnShape
  <2>7. CASE SetUnshare BY <2>7, SetUnshareShape
  <2>8. CASE SetWrite BY <2>8, SetWriteShape
  <2>9. CASE SetAdvance
    <3>1. frame'.fn = "set" /\ heap' = heap
      BY <2>9, FrameFields DEF SetAdvance, TypeOK
    <3> QED BY <3>1 DEF ShapeInv, PushShape, PopShape
  <2>10. CASE SetThrow
    BY <2>10 DEF SetThrow, ShapeInv, PushShape, PopShape, Idle
  <2>11. CASE UNCHANGED vars
    BY <2>11 DEF vars, ShapeInv, PushShape, PopShape, SizeOf
  <2> QED BY <2>1, <2>2, <2>3, <2>4, <2>5, <2>6, <2>7, <2>8, <2>9, <2>10, <2>11
          DEF Next, Step
<1> QED BY <1>1, <1>2, TypeCorrect, PTL DEF Spec

\* Every block has a power of two of elements and is smaller than the next.
THEOREM BlocksAreBinaryCounter == Spec => []BinaryCounter
<1>1. ShapeInv => BinaryCounter
  BY DEF ShapeInv, Ascending, BinaryCounter
<1> QED BY <1>1, ShapeHolds, PTL

\* Every block is at least twice as large as the one before it, so a walk from
\* node to node reaches any of n elements after at most log n + 1 blocks: what a
\* chain of blocks is kept for.
BlocksDouble ==
  \A n \in DOMAIN heap :
    heap[n].next # NULL => 2 * Len(heap[n].items) <= Len(heap[heap[n].next].items)

\* Accesses are logarithmic (size, at, get, set).
THEOREM WalksAreShort == Spec => []BlocksDouble
<1>1. TypeOK /\ ShapeInv => BlocksDouble
  <2> SUFFICES ASSUME TypeOK, ShapeInv, NEW n \in DOMAIN heap, heap[n].next # NULL
               PROVE  2 * Len(heap[n].items) <= Len(heap[heap[n].next].items)
    BY DEF BlocksDouble
  <2> DEFINE x == Len(heap[n].items)
             y == Len(heap[heap[n].next].items)
  <2>1. heap[n].next \in DOMAIN heap
    BY DEF TypeOK, LivePtr
  <2>2. PowerOfTwo(x) /\ PowerOfTwo(y) /\ x < y
    BY <2>1 DEF ShapeInv, Ascending
  <2>3. x \in Nat /\ y \in Nat
    BY <2>1 DEF TypeOK
  <2> HIDE DEF x, y
  <2>4. 2 * x <= y
    BY <2>2, <2>3, PowerGap
  <2> QED BY <2>4 DEF x, y
<1> QED BY <1>1, ShapeHolds, TypeCorrect, PTL

\* The search of pop for the next bit never starts above one.
THEOREM PopNeverPassesBit == Spec => []PopFindsBit
<1>1. ShapeInv => PopFindsBit
  BY DEF ShapeInv, PopShape, PopFindsBit
<1> QED BY <1>1, ShapeHolds, PTL
=============================================================================
