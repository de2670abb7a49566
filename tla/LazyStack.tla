------------------------------ MODULE LazyStack ------------------------------
(***************************************************************************)
(* coqcic::lazy_stack (coqcic/lazy_stack.h): a persistent stack kept as a  *)
(* chain of shared nodes, each with a block of items and a shared_ptr to   *)
(* the next node.                                                          *)
(*                                                                         *)
(* heap maps every allocated lazy_stack_repr to its contents, repr maps    *)
(* every lazy_stack object to the node its repr_ points at, and frame is   *)
(* the call in progress: its arguments and local variables.  The loops of  *)
(* push, pop and set take one step per iteration.  Reference counting      *)
(* frees a node as soon as nothing reaches it (Collect).                   *)
(***************************************************************************)
EXTENDS Integers, Sequences, FiniteSets

CONSTANTS
  Node,     \* storage for lazy_stack_repr objects
  Handle,   \* lazy_stack objects of the client
  Value,    \* stack elements
  NULL,     \* the null pointer
  MaxLen    \* bound: no stack grows beyond MaxLen elements

ASSUME NullAssumption == NULL \notin Node
ASSUME NodeAssumption == IsFiniteSet(Node)
ASSUME HandleAssumption == IsFiniteSet(Handle)
ASSUME MaxLenAssumption == MaxLen \in Nat

VARIABLES heap, repr, frame

vars == <<heap, repr, frame>>

Idle == [fn |-> "idle"]

(***************************************************************************)
(* Reading a stack.                                                        *)
(***************************************************************************)

\* The elements from node n on, top first: what size, at and get iterate over.
Elements(hp, n) ==
  LET walk[m \in DOMAIN hp \cup {NULL}] ==
        IF m = NULL THEN <<>> ELSE hp[m].items \o walk[hp[m].next]
  IN  walk[n]

Contents(h) == Elements(heap, repr[h])

(***************************************************************************)
(* Ownership.  A node is alive while a lazy_stack object, a shared_ptr     *)
(* local to the call, or another live node points at it.                   *)
(***************************************************************************)
LinkClosed(hp, S) == \A n \in S : hp[n].next # NULL => hp[n].next \in S

Reach(hp, roots) ==
  {n \in DOMAIN hp : \A S \in SUBSET DOMAIN hp :
     (roots \ {NULL} \subseteq S /\ LinkClosed(hp, S)) => n \in S}

Collect(hp, roots) == [n \in Reach(hp, roots) |-> hp[n]]

Objects(rp) == {rp[h] : h \in Handle}

\* Fault: only the first node is tested for being shared, set assumes that it
\* owns what follows a node it owns
UseCountOfHead(n) ==
  IF frame.at = NULL
  THEN Cardinality({h \in Handle : repr[h] = n})
       + Cardinality({m \in DOMAIN heap : heap[m].next = n})
  ELSE 1

\* shared_ptr::use_count of the pointers to n held by objects and nodes
UseCount(n) ==
  Cardinality({h \in Handle : repr[h] = n})
  + Cardinality({m \in DOMAIN heap : heap[m].next = n})

Alloc(n, items, next) ==
  [m \in DOMAIN heap \cup {n} |->
     IF m = n THEN [items |-> items, next |-> next] ELSE heap[m]]

Link(hp, owner, n) == [hp EXCEPT ![owner].next = n]

\* The call returns node n, which is assigned to object dst; what dst held
\* before is released.
Return(hp, dst, n) ==
  /\ repr' = [repr EXCEPT ![dst] = n]
  /\ heap' = Collect(hp, Objects(repr'))
  /\ frame' = Idle

(***************************************************************************)
(* Calls of the client that change objects without a loop.                 *)
(***************************************************************************)
Copy(src, dst) == frame = Idle /\ Return(heap, dst, repr[src])

Clear(h) == frame = Idle /\ repr[h] # NULL /\ Return(heap, h, NULL)

(***************************************************************************)
(* dst = src.push(v): a new block absorbs the following blocks as long as  *)
(* they have exactly its size, the carry of a binary counter.              *)
(***************************************************************************)
PushCall(src, v, dst) ==
  /\ frame = Idle
  /\ Len(Contents(src)) < MaxLen
  /\ frame' = [fn |-> "push", dst |-> dst, items |-> <<v>>, next |-> repr[src]]
  /\ UNCHANGED <<heap, repr>>

\* Fault: lazy_stackmap's condition, a block absorbs all that are as large
CarryAtLeast(items, next) == next # NULL /\ Len(heap[next].items) >= Len(items)

\* push's loop condition
Carry(items, next) == next # NULL /\ Len(heap[next].items) = Len(items)

\* Fault: what is absorbed goes before what was there
PushMergeInFront ==
  /\ frame.fn = "push"
  /\ Carry(frame.items, frame.next)
  /\ frame' = [frame EXCEPT !.items = heap[frame.next].items \o @,
                            !.next = heap[frame.next].next]
  /\ UNCHANGED <<heap, repr>>

PushMerge ==
  /\ frame.fn = "push"
  /\ Carry(frame.items, frame.next)
  /\ frame' = [frame EXCEPT !.items = @ \o heap[frame.next].items,
                            !.next = heap[frame.next].next]
  /\ UNCHANGED <<heap, repr>>

PushReturn ==
  /\ frame.fn = "push"
  /\ ~Carry(frame.items, frame.next)
  /\ \E n \in Node \ DOMAIN heap :
       Return(Alloc(n, frame.items, frame.next), frame.dst, n)

(***************************************************************************)
(* dst = src.pop(): the first block loses its head and the rest of it is   *)
(* split into blocks of ascending powers of two, linked front to back.     *)
(* The code requires a non-empty stack.                                    *)
(***************************************************************************)
PopCall(src, dst) ==
  /\ frame = Idle
  /\ repr[src] # NULL
  /\ frame' = [fn |-> "pop", dst |-> dst,
               rest |-> Tail(heap[repr[src]].items),
               pow |-> 1,
               first |-> NULL,      \* local variable repr
               last |-> NULL,       \* current is &last->next, or &first
               next |-> heap[repr[src]].next]
  /\ UNCHANGED <<heap, repr>>

\* size & pow, where pow is a power of two
BitSet(size, pow) == (size \div pow) % 2 = 1

\* Fault: pow = pow << 2, every other bit is passed over
PopShiftTwice ==
  /\ frame.fn = "pop"
  /\ frame.rest # <<>>
  /\ ~BitSet(Len(frame.rest), frame.pow)
  /\ frame' = [frame EXCEPT !.pow = 4 * @]
  /\ UNCHANGED <<heap, repr>>

\* Fault: the shifted value is not assigned
PopShiftNowhere ==
  /\ frame.fn = "pop"
  /\ frame.rest # <<>>
  /\ ~BitSet(Len(frame.rest), frame.pow)
  /\ UNCHANGED vars

\* while ((size & pow) == 0) pow = pow << 1
PopShift ==
  /\ frame.fn = "pop"
  /\ frame.rest # <<>>
  /\ ~BitSet(Len(frame.rest), frame.pow)
  /\ frame' = [frame EXCEPT !.pow = 2 * @]
  /\ UNCHANGED <<heap, repr>>

PopSplit ==
  /\ frame.fn = "pop"
  /\ frame.rest # <<>>
  /\ BitSet(Len(frame.rest), frame.pow)
  /\ \E n \in Node \ DOMAIN heap :
       /\ LET hp == Alloc(n, SubSeq(frame.rest, 1, frame.pow), NULL)
          IN  heap' = IF frame.last = NULL THEN hp ELSE Link(hp, frame.last, n)
       /\ frame' = [frame EXCEPT !.rest = SubSeq(@, frame.pow + 1, Len(@)),
                                 !.first = IF @ = NULL THEN n ELSE @,
                                 !.last = n]
       /\ UNCHANGED repr

\* Fault: do { ... } while (i != end), a block is made even of no items
PopReturnEmptyBlock ==
  /\ frame.fn = "pop"
  /\ frame.rest = <<>>
  /\ IF frame.last = NULL
     THEN \E n \in Node \ DOMAIN heap :
            Return(Alloc(n, <<>>, frame.next), frame.dst, n)
     ELSE Return(Link(heap, frame.last, frame.next), frame.dst, frame.first)

PopReturn ==
  /\ frame.fn = "pop"
  /\ frame.rest = <<>>
  /\ IF frame.last = NULL
     THEN Return(heap, frame.dst, frame.next)
     ELSE Return(Link(heap, frame.last, frame.next), frame.dst, frame.first)

(***************************************************************************)
(* h.set(index, v): walks down the chain, replacing every node it does not *)
(* own alone by a copy, up to the node that holds the element.  frame.at   *)
(* is the node whose next pointer pptr points at, NULL for &repr_.         *)
(***************************************************************************)
SetCall(h, index, v) ==
  /\ frame = Idle
  /\ frame' = [fn |-> "set", h |-> h, at |-> NULL, index |-> index, value |-> v]
  /\ UNCHANGED <<heap, repr>>

\* *pptr
Current == IF frame.at = NULL THEN repr[frame.h] ELSE heap[frame.at].next

SetUnshare ==
  /\ frame.fn = "set"
  /\ Current # NULL
  /\ UseCount(Current) # 1
  /\ \E n \in Node \ DOMAIN heap :
       LET hp == Alloc(n, heap[Current].items, heap[Current].next) IN
       IF frame.at = NULL
       THEN repr' = [repr EXCEPT ![frame.h] = n] /\ heap' = hp
       ELSE heap' = Link(hp, frame.at, n) /\ UNCHANGED repr
  /\ UNCHANGED frame

SetWrite ==
  /\ frame.fn = "set"
  /\ Current # NULL
  /\ UseCount(Current) = 1
  /\ frame.index < Len(heap[Current].items)
  /\ heap' = [heap EXCEPT ![Current].items[frame.index + 1] = frame.value]
  /\ frame' = Idle
  /\ UNCHANGED repr

SetAdvance ==
  /\ frame.fn = "set"
  /\ Current # NULL
  /\ UseCount(Current) = 1
  /\ frame.index >= Len(heap[Current].items)
  /\ frame' = [frame EXCEPT !.index = @ - Len(heap[Current].items), !.at = Current]
  /\ UNCHANGED <<heap, repr>>

\* "Index out of range"
SetThrow ==
  /\ frame.fn = "set"
  /\ Current = NULL
  /\ frame' = Idle
  /\ UNCHANGED <<heap, repr>>

(***************************************************************************)
(* The specification.  A call that has started runs to its end, so every   *)
(* step of a loop is eventually taken.                                     *)
(***************************************************************************)
Init ==
  /\ heap = [n \in {} |-> NULL]
  /\ repr = [h \in Handle |-> NULL]
  /\ frame = Idle

Step ==
  \/ PushMerge \/ PushReturn
  \/ PopShift \/ PopSplit \/ PopReturn
  \/ SetUnshare \/ SetWrite \/ SetAdvance \/ SetThrow

Call ==
  \/ \E src, dst \in Handle : Copy(src, dst) \/ PopCall(src, dst)
  \/ \E h \in Handle : Clear(h)
  \/ \E src, dst \in Handle, v \in Value : PushCall(src, v, dst)
  \/ \E h \in Handle, index \in 0 .. MaxLen, v \in Value : SetCall(h, index, v)

Next == Call \/ Step

Spec == Init /\ [][Next]_vars

FairSpec == Spec /\ WF_vars(Step)

(***************************************************************************)
(* Properties.                                                             *)
(***************************************************************************)

\* A shared_ptr is null or points at a live node.
LivePtr == DOMAIN heap \cup {NULL}

Frame ==
  {Idle}
  \cup [fn : {"push"}, dst : Handle, items : Seq(Value) \ {<<>>}, next : LivePtr]
  \cup [fn : {"pop"}, dst : Handle, rest : Seq(Value), pow : Nat \ {0},
        first : LivePtr, last : LivePtr, next : LivePtr]
  \cup [fn : {"set"}, h : Handle, at : LivePtr, index : Nat, value : Value]

\* Every variable has its type, no pointer dangles, and no node is empty: the
\* latter is what lets empty() test the pointer alone and pop() start at the
\* second item of the first block.
TypeOK ==
  /\ DOMAIN heap \subseteq Node
  /\ heap \in [DOMAIN heap -> [items : Seq(Value) \ {<<>>}, next : LivePtr]]
  /\ repr \in [Handle -> LivePtr]
  /\ frame \in Frame

\* A power of two: every divisor of it but 1 is even.
PowerOfTwo(x) == x >= 1 /\ \A d, q \in 1 .. x : d * q = x => d = 1 \/ d % 2 = 0

\* Blocks have sizes that are powers of two and grow along a chain, which is
\* what bounds the chain, and with it every access, by the logarithm of the
\* size.  push keeps it by carrying exactly, pop by splitting at the lowest bit.
BinaryCounter ==
  \A n \in DOMAIN heap :
    /\ PowerOfTwo(Len(heap[n].items))
    /\ heap[n].next # NULL => Len(heap[n].items) < Len(heap[heap[n].next].items)

\* The loop of pop that looks for the next set bit starts at or below it, so it
\* stops: no bit of the rest lies under pow.
PopFindsBit == frame.fn = "pop" => Len(frame.rest) % frame.pow = 0

\* A node that is changed in place is seen by one lazy_stack object at most:
\* set copies every shared node on its way before it writes through it, so a
\* handle never changes under another one's hand.
PrivateWrite(n) ==
  \A g, h \in Handle :
    n \in Reach(heap, {repr[g]}) /\ n \in Reach(heap, {repr[h]}) => g = h

WritesArePrivate ==
  [][\A n \in DOMAIN heap \cap DOMAIN heap' :
       heap'[n] # heap[n] => PrivateWrite(n)]_vars

\* Why: the node whose next pointer a call is about to redirect is its own.
\* The last block pop has linked is not yet part of any stack, and the node set
\* has arrived at is part of no stack but the one it is called on.
OwnsPath ==
  /\ frame.fn = "pop" /\ frame.last # NULL =>
       \A g \in Handle : frame.last \notin Reach(heap, {repr[g]})
  /\ frame.fn = "set" /\ frame.at # NULL =>
       \A g \in Handle \ {frame.h} : frame.at \notin Reach(heap, {repr[g]})

\* What the call in progress is going to make of its object, whatever it has
\* done so far: push and pop have the rest of their work before them, set is at
\* the node that starts at the given position of the object's contents.
Outcome ==
  LET E(n) == Elements(heap, n) IN
  CASE frame.fn = "push" -> frame.items \o E(frame.next)
    [] frame.fn = "pop"  -> E(frame.first) \o frame.rest \o E(frame.next)
    [] frame.fn = "set"  ->
         LET old == Contents(frame.h)
             position == Len(old) - Len(E(Current)) + frame.index
         IN  [old EXCEPT ![position + 1] = frame.value]

\* set is going to run off the end of the chain.
OutOfRange == frame.fn = "set" /\ frame.index >= Len(Elements(heap, Current))

Promised ==
  CASE frame.fn = "idle" -> [fn |-> "idle"]
    [] OutOfRange -> [fn |-> "throw"]
    [] OTHER -> [fn |-> "return",
                 object |-> IF frame.fn = "set" THEN frame.h ELSE frame.dst,
                 result |-> Outcome]

\* The stacks that clients see behave as values: what a call will make of its
\* object is settled by its arguments when it starts, is not affected by any
\* of its steps and appears in the single step in which it returns; no step
\* disturbs another object, and set throws if and only if its index was out of
\* range, having changed nothing however many nodes it has copied.
Abstract ==
  INSTANCE PersistentStack
    WITH stack <- [h \in Handle |-> Contents(h)], call <- Promised

BehavesAsValues == Abstract!Spec

\* push, pop and set return: each loop makes progress until it stops.
EveryCallReturns == []<>(frame = Idle)
=============================================================================
