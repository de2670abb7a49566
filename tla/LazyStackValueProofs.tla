------------------------ MODULE LazyStackValueProofs ------------------------
(***************************************************************************)
(* Proof that LazyStack implements PersistentStack: lazy_stack objects     *)
(* behave as values.  Every call of the client starts the abstract call    *)
(* with the same arguments, every step of a loop is a stutter, and every   *)
(* return keeps the promise.  A number that bounds the iterations a call   *)
(* has left goes down with each of them, so every loop stops.              *)
(*                                                                         *)
(* First come lemmas about what a lazy_stack shows: the elements that a    *)
(* walk along the next pointers finds (Elements), and what each way of     *)
(* changing the nodes does to them.                                        *)
(***************************************************************************)
EXTENDS LazyStackProofs, SequenceTheorems

(***************************************************************************)
(* Reading a chain.  The loop of at, get and size ends because no chain    *)
(* runs into itself.  Said without induction: there is a function that     *)
(* gives for every node the finite sequence of elements from there on.     *)
(***************************************************************************)
Follows(hp, S, f) ==
  /\ f[NULL] = <<>>
  /\ \A n \in S : f[n] = hp[n].items \o f[hp[n].next]

IsReading(hp, f) ==
  f \in [Live(hp) -> Seq(Value)] /\ Follows(hp, DOMAIN hp, f)

Readable(hp) == \E f : IsReading(hp, f)

\* A walk along next gives the same elements in two heaps that have the same
\* nodes wherever it comes (Elements, the loop of lazy_stack::at).
LEMMA ReadingsAgree ==
  ASSUME NEW hp, HeapOK(hp), NEW f, IsReading(hp, f),
         NEW S \in SUBSET DOMAIN hp, LinkClosed(hp, S),
         NEW g, Follows(hp, S, g)
  PROVE  \A n \in S : g[n] = f[n]
<1> DEFINE Wrong == {n \in S : g[n] # f[n]}
           T == {Len(f[n]) : n \in Wrong}
<1> SUFFICES ASSUME Wrong # {} PROVE FALSE
  OBVIOUS
<1>1. \A n \in S : /\ hp[n].items \in Seq(Value) \ {<<>>}
                   /\ hp[n].next \in Live(hp)
                   /\ hp[n].next # NULL => hp[n].next \in S
                   /\ f[n] \in Seq(Value) /\ f[hp[n].next] \in Seq(Value)
                   /\ f[n] = hp[n].items \o f[hp[n].next]
  BY NullAssumption DEF HeapOK, Live, LinkClosed, IsReading, Follows
<1>2. PICK k \in T : \A j \in T : ~ (<<j, k>> \in OpToRel(<, Nat))
  <2>1. \A n \in Wrong : Len(f[n]) \in Nat
    BY <1>1
  <2>2. T \subseteq Nat /\ T # {}
    BY <2>1, Zenon
  <2> HIDE DEF T
  <2> QED BY <2>2, NatLessThanWellFounded, WFMin
<1>3. PICK n \in Wrong : k = Len(f[n])
  OBVIOUS
<1> DEFINE m == hp[n].next
<1>4. m # NULL
  BY <1>1, <1>3 DEF IsReading, Follows
<1>5. m \in Wrong
  BY <1>1, <1>3, <1>4 DEF Follows
<1>6. Len(f[m]) \in Nat /\ Len(f[m]) < Len(f[n])
  <2>1. /\ hp[n].items \in Seq(Value) /\ hp[n].items # <<>>
        /\ f[m] \in Seq(Value) /\ f[n] = hp[n].items \o f[m]
    BY <1>1, <1>3
  <2> HIDE DEF m
  <2>2. /\ Len(f[n]) = Len(hp[n].items) + Len(f[m])
        /\ Len(hp[n].items) \in Nat \ {0} /\ Len(f[m]) \in Nat
    BY <2>1, ConcatProperties, LenProperties, EmptySeq
  <2>3. \A a, b, c : a = b + c /\ b \in Nat \ {0} /\ c \in Nat => c < a
    OBVIOUS
  <2> QED BY <2>2, <2>3, Zenon
<1>7. <<Len(f[m]), k>> \in OpToRel(<, Nat)
  BY <1>1, <1>3, <1>6 DEF OpToRel
<1> QED BY <1>2, <1>5, <1>7

\* The elements from a node on are what a reading of the heap says (Elements,
\* the loop of lazy_stack::at).
LEMMA ElementsAreRead ==
  ASSUME NEW hp, HeapOK(hp), NEW f, IsReading(hp, f)
  PROVE  \A n \in Live(hp) : Elements(hp, n) = f[n]
<1> DEFINE Body(g) == [m \in DOMAIN hp \cup {NULL} |->
                         IF m = NULL THEN <<>> ELSE hp[m].items \o g[hp[m].next]]
           walk == CHOOSE g : g = Body(g)
<1>1. f = Body(f)
  <2>1. f = [m \in DOMAIN hp \cup {NULL} |-> f[m]]
    BY DEF IsReading, Live
  <2>2. \A m \in DOMAIN hp \cup {NULL} : f[m] = Body(f)[m]
    BY NullAssumption DEF IsReading, Follows, Live, HeapOK
  <2> QED BY <2>1, <2>2
<1>2. walk = Body(walk)
  BY <1>1
<1>3. \A n : Elements(hp, n) = walk[n]
  BY DEF Elements
<1> HIDE DEF walk
<1>4. Follows(hp, DOMAIN hp, walk)
  BY <1>2, NullAssumption DEF HeapOK, Follows
<1>5. LinkClosed(hp, DOMAIN hp)
  BY DEF HeapOK, Live, LinkClosed
<1> HIDE DEF Body
<1>6. \A n \in DOMAIN hp : walk[n] = f[n]
  BY <1>4, <1>5, ReadingsAgree
<1> QED BY <1>3, <1>4, <1>6 DEF Live, IsReading, Follows

\* The elements from a node on are its own and then those of the next node
\* (Elements, the loop of lazy_stack::at).
LEMMA Unfold ==
  ASSUME NEW hp, HeapOK(hp), Readable(hp)
  PROVE  /\ Elements(hp, NULL) = <<>>
         /\ \A n \in Live(hp) : Elements(hp, n) \in Seq(Value)
         /\ \A n \in DOMAIN hp : /\ hp[n].next \in Live(hp)
                                /\ hp[n].items \in Seq(Value) \ {<<>>}
                                /\ Elements(hp, n) = hp[n].items \o Elements(hp, hp[n].next)
<1>1. PICK f : IsReading(hp, f)
  BY DEF Readable
<1>2. NULL \in Live(hp) /\ \A n \in DOMAIN hp : n \in Live(hp)
  BY DEF Live
<1>3. \A n \in Live(hp) : Elements(hp, n) = f[n]
  BY <1>1, ElementsAreRead
<1>4. \A n \in DOMAIN hp : hp[n].next \in Live(hp) /\ hp[n].items \in Seq(Value) \ {<<>>}
  BY DEF HeapOK
<1>5. /\ f[NULL] = <<>> /\ \A n \in Live(hp) : f[n] \in Seq(Value)
      /\ \A n \in DOMAIN hp : f[n] = hp[n].items \o f[hp[n].next]
  BY <1>1 DEF IsReading, Follows
<1> QED BY <1>2, <1>3, <1>4, <1>5

\* Whatever assigns sequences to nodes as a walk does, is what a walk finds
\* (Elements, the loop of lazy_stack::at).
LEMMA Fold ==
  ASSUME NEW hp, HeapOK(hp), NEW f, f \in [Live(hp) -> Seq(Value)],
         f[NULL] = <<>>, \A n \in DOMAIN hp : f[n] = hp[n].items \o f[hp[n].next]
  PROVE  Readable(hp) /\ \A n \in Live(hp) : Elements(hp, n) = f[n]
<1>1. IsReading(hp, f)
  BY DEF IsReading, Follows
<1> QED BY <1>1, ElementsAreRead DEF Readable

\* A new node shows its own elements before those of its successor, and all
\* others what they did (Alloc, std::make_shared).
LEMMA AllocElements ==
  ASSUME HeapOK(heap), Readable(heap), NEW n \in Node \ DOMAIN heap,
         NEW items \in Seq(Value) \ {<<>>}, NEW next \in LivePtr
  PROVE  LET hp == Alloc(n, items, next) IN
           /\ Readable(hp)
           /\ Elements(hp, n) = items \o Elements(heap, next)
           /\ \A m \in LivePtr : Elements(hp, m) = Elements(heap, m)
<1> DEFINE hp == Alloc(n, items, next)
           f == [m \in Live(hp) |-> IF m = n THEN items \o Elements(heap, next)
                                    ELSE Elements(heap, m)]
<1>1. HeapOK(hp) /\ DOMAIN hp = DOMAIN heap \cup {n}
  BY AllocOK
<1>2. /\ Live(hp) = LivePtr \cup {n} /\ n \notin LivePtr /\ NULL \in LivePtr
      /\ LivePtr = Live(heap)
  BY <1>1, NullAssumption DEF Live, LivePtr
<1>3. hp[n].items = items /\ hp[n].next = next /\ \A m \in DOMAIN heap : hp[m] = heap[m]
  BY DEF Alloc
<1> HIDE DEF hp
<1>4. /\ Elements(heap, NULL) = <<>>
      /\ \A m \in LivePtr : Elements(heap, m) \in Seq(Value)
      /\ \A m \in DOMAIN heap :
           /\ heap[m].next \in LivePtr
           /\ Elements(heap, m) = heap[m].items \o Elements(heap, heap[m].next)
  BY <1>2, Unfold
<1>5. /\ f[n] = items \o Elements(heap, next)
      /\ \A m \in LivePtr : f[m] = Elements(heap, m)
  BY <1>2
<1>6. f \in [Live(hp) -> Seq(Value)]
  <2>1. items \o Elements(heap, next) \in Seq(Value)
    BY <1>4, ConcatProperties
  <2> QED BY <1>2, <1>4, <2>1
<1> HIDE DEF f
<1>7. ASSUME NEW m \in DOMAIN hp PROVE f[m] = hp[m].items \o f[hp[m].next]
  <2>1. CASE m = n
    <3>1. f[next] = Elements(heap, next)
      BY <1>5
    <3> QED BY <1>3, <1>5, <2>1, <3>1
  <2>2. CASE m # n
    <3>1. m \in DOMAIN heap /\ m \in LivePtr
      BY <1>1, <2>2 DEF LivePtr
    <3>2. f[heap[m].next] = Elements(heap, heap[m].next)
      BY <1>4, <1>5, <3>1
    <3>3. f[m] = heap[m].items \o Elements(heap, heap[m].next)
      BY <1>4, <1>5, <3>1
    <3> QED BY <1>3, <3>1, <3>2, <3>3
  <2> QED BY <2>1, <2>2
<1>8. f[NULL] = <<>>
  BY <1>2, <1>4, <1>5
<1>9. Readable(hp) /\ \A m \in Live(hp) : Elements(hp, m) = f[m]
  BY <1>1, <1>6, <1>7, <1>8, Fold
<1> QED BY <1>2, <1>5, <1>9 DEF hp

\* What is left after a release shows what it did (Collect, shared_ptr).
LEMMA CollectElements ==
  ASSUME NEW hp, HeapOK(hp), Readable(hp), NEW rp \in [Handle -> Live(hp)]
  PROVE  LET c == Collect(hp, Objects(rp)) IN
           /\ Readable(c)
           /\ \A n \in Live(c) : n \in Live(hp) /\ Elements(c, n) = Elements(hp, n)
<1> DEFINE c == Collect(hp, Objects(rp))
           f == [n \in Live(c) |-> Elements(hp, n)]
<1>1. /\ HeapOK(c) /\ DOMAIN c \subseteq DOMAIN hp
      /\ \A n \in DOMAIN c : c[n] = hp[n]
  BY CollectOK, ReachAllocated DEF Collect
<1> HIDE DEF c
<1>2. Live(c) \subseteq Live(hp) /\ NULL \in Live(c) /\ DOMAIN c \subseteq Live(c)
  BY <1>1 DEF Live
<1>3. f \in [Live(c) -> Seq(Value)] /\ f[NULL] = <<>>
  BY <1>2, Unfold
<1>4. ASSUME NEW n \in DOMAIN c PROVE f[n] = c[n].items \o f[c[n].next]
  <2>1. c[n].next \in Live(c) /\ c[n] = hp[n] /\ n \in DOMAIN hp
    BY <1>1 DEF HeapOK
  <2>2. f[n] = Elements(hp, n) /\ f[c[n].next] = Elements(hp, c[n].next)
    BY <1>2, <2>1
  <2> HIDE DEF f
  <2> QED BY <2>1, <2>2, Unfold
<1>5. Readable(c) /\ \A n \in Live(c) : Elements(c, n) = f[n]
  <2> HIDE DEF f
  <2> QED BY <1>1, <1>3, <1>4, Fold
<1> QED BY <1>2, <1>5 DEF c

\* Redirecting a pointer to a node that shows the same elements changes
\* nothing that can be seen (Link in set, where a copy replaces a node).
LEMMA RelinkElements ==
  ASSUME NEW hp, HeapOK(hp), Readable(hp), NEW m \in DOMAIN hp, NEW n \in Live(hp),
         Elements(hp, n) = Elements(hp, hp[m].next)
  PROVE  /\ Readable(Link(hp, m, n))
         /\ \A k \in Live(hp) : Elements(Link(hp, m, n), k) = Elements(hp, k)
<1> DEFINE lk == Link(hp, m, n)
           f == [k \in Live(hp) |-> Elements(hp, k)]
<1>1. /\ HeapOK(lk) /\ DOMAIN lk = DOMAIN hp /\ Live(lk) = Live(hp)
      /\ \A k \in DOMAIN hp : /\ lk[k].items = hp[k].items
                             /\ lk[k].next = IF k = m THEN n ELSE hp[k].next
  BY LinkOK DEF Link, HeapOK, Live
<1> HIDE DEF lk
<1>2. f \in [Live(lk) -> Seq(Value)] /\ f[NULL] = <<>>
  BY <1>1, Unfold DEF Live
<1>3. ASSUME NEW k \in DOMAIN lk PROVE f[k] = lk[k].items \o f[lk[k].next]
  <2>1. k \in Live(hp) /\ hp[k].next \in Live(hp)
    BY <1>1, Unfold DEF Live
  <2>2. /\ f[k] = Elements(hp, k) /\ f[n] = Elements(hp, n)
        /\ f[hp[k].next] = Elements(hp, hp[k].next)
    BY <2>1
  <2> HIDE DEF f
  <2>3. Elements(hp, k) = hp[k].items \o Elements(hp, hp[k].next)
    BY <1>1, Unfold
  <2> QED BY <1>1, <2>2, <2>3
<1>4. Readable(lk) /\ \A k \in Live(lk) : Elements(lk, k) = f[k]
  <2> HIDE DEF f
  <2> QED BY <1>1, <1>2, <1>3, Fold
<1> QED BY <1>1, <1>4 DEF lk

(***************************************************************************)
(* What is reached from one node.                                          *)
(***************************************************************************)

\* Nothing is reached from the null pointer (Reach, the ownership of
\* shared_ptr).
LEMMA ReachNull == ASSUME NEW hp PROVE Reach(hp, {NULL}) = {}
<1>1. LinkClosed(hp, {})
  BY DEF LinkClosed
<1>2. Reach(hp, {NULL}) \subseteq {}
  BY <1>1, ReachLeast
<1> QED BY <1>2

\* From a node, the node itself is reached and what its successor reaches
\* (Reach, the ownership of shared_ptr).
LEMMA ReachStep ==
  ASSUME NEW hp, HeapOK(hp), NEW k \in DOMAIN hp
  PROVE  Reach(hp, {k}) = {k} \cup Reach(hp, {hp[k].next})
<1> DEFINE R == Reach(hp, {k})
           N == Reach(hp, {hp[k].next})
           S == {k} \cup N
<1>1. /\ R \subseteq DOMAIN hp /\ N \subseteq DOMAIN hp
      /\ \A n \in DOMAIN hp : hp[n].next = NULL \/ hp[n].next \in DOMAIN hp
  BY ReachAllocated DEF HeapOK, Live
<1>2. k # NULL
  BY NullAssumption DEF HeapOK
<1>3. k \in R /\ \A n \in R : hp[n].next # NULL => hp[n].next \in R
  BY <1>1, <1>2, ReachRoot, ReachNext
<1>4. /\ hp[k].next # NULL => hp[k].next \in N
      /\ \A n \in N : hp[n].next # NULL => hp[n].next \in N
  BY <1>1, ReachRoot, ReachNext
<1> HIDE DEF R, N
<1>5. R \subseteq S
  <2>1. S \in SUBSET DOMAIN hp /\ {k} \ {NULL} \subseteq S /\ LinkClosed(hp, S)
    BY <1>1, <1>4 DEF LinkClosed
  <2> HIDE DEF S
  <2> QED BY <2>1, ReachLeast DEF R
<1>6. N \subseteq R
  <2>1. R \in SUBSET DOMAIN hp /\ {hp[k].next} \ {NULL} \subseteq R /\ LinkClosed(hp, R)
    BY <1>1, <1>3 DEF LinkClosed
  <2> QED BY <2>1, ReachLeast DEF N
<1> QED BY <1>3, <1>5, <1>6 DEF R, N

\* No chain runs into itself, and what is further down shows fewer elements
\* (Elements, the loop of lazy_stack::at).
LEMMA ReachShorter ==
  ASSUME NEW hp, HeapOK(hp), Readable(hp), NEW k \in DOMAIN hp
  PROVE  /\ k \notin Reach(hp, {hp[k].next})
         /\ \A j \in Reach(hp, {k}) : Len(Elements(hp, j)) <= Len(Elements(hp, k))
<1> DEFINE L(n) == Len(Elements(hp, n))
           S == {j \in DOMAIN hp : L(j) < L(k)}
<1>1. \A n \in DOMAIN hp : /\ hp[n].next \in Live(hp)
                          /\ L(n) \in Nat /\ L(hp[n].next) \in Nat
                          /\ L(hp[n].next) < L(n)
  <2> SUFFICES ASSUME NEW n \in DOMAIN hp
               PROVE  /\ hp[n].next \in Live(hp)
                      /\ L(n) \in Nat /\ L(hp[n].next) \in Nat
                      /\ L(hp[n].next) < L(n)
    OBVIOUS
  <2>1. /\ hp[n].next \in Live(hp) /\ hp[n].items \in Seq(Value) /\ hp[n].items # <<>>
        /\ Elements(hp, hp[n].next) \in Seq(Value)
        /\ Elements(hp, n) = hp[n].items \o Elements(hp, hp[n].next)
    BY Unfold
  <2>2. /\ L(n) = Len(hp[n].items) + L(hp[n].next)
        /\ Len(hp[n].items) \in Nat \ {0} /\ L(hp[n].next) \in Nat
    BY <2>1, ConcatProperties, LenProperties, EmptySeq
  <2>3. \A a, b, c : a = b + c /\ b \in Nat \ {0} /\ c \in Nat => c < a /\ a \in Nat
    OBVIOUS
  <2> QED BY <2>1, <2>2, <2>3, Zenon
<1> HIDE DEF L
<1>2. Reach(hp, {hp[k].next}) \subseteq S
  <2>1. {hp[k].next} \ {NULL} \subseteq S /\ LinkClosed(hp, S)
    BY <1>1 DEF Live, LinkClosed
  <2>2. S \in SUBSET DOMAIN hp
    OBVIOUS
  <2> HIDE DEF S
  <2> QED BY <2>1, <2>2, ReachLeast
<1>3. k \notin S /\ \A j \in {k} \cup S : L(j) <= L(k)
  BY <1>1
<1> HIDE DEF S
<1> QED BY <1>2, <1>3, ReachStep DEF L

\* The way to a node does not depend on where the node itself points, nor on
\* nodes that are added (Reach; Alloc and Link).
LEMMA ReachTarget ==
  ASSUME NEW hp, HeapOK(hp), NEW hq, HeapOK(hq), DOMAIN hp \subseteq DOMAIN hq,
         NEW t \in DOMAIN hp, \A n \in DOMAIN hp \ {t} : hq[n].next = hp[n].next,
         NEW r \in Live(hp), t \in Reach(hp, {r})
  PROVE  t \in Reach(hq, {r})
<1> SUFFICES ASSUME NEW S \in SUBSET DOMAIN hq, {r} \ {NULL} \subseteq S,
                    LinkClosed(hq, S), t \notin S
             PROVE  FALSE
  BY DEF Reach
<1> DEFINE T == S \cap DOMAIN hp
<1>1. \A n \in DOMAIN hp : hp[n].next = NULL \/ hp[n].next \in DOMAIN hp
  BY DEF HeapOK, Live
<1>2. LinkClosed(hp, T)
  BY <1>1 DEF LinkClosed
<1>3. {r} \ {NULL} \subseteq T
  BY DEF Live
<1>4. Reach(hp, {r}) \subseteq T
  BY <1>2, <1>3, ReachLeast
<1> QED BY <1>4

(***************************************************************************)
(* Changing a chain.                                                       *)
(***************************************************************************)

\* Concatenation is associative (the blocks of a chain).
LEMMA Associative ==
  \A a, b, c \in Seq(Value) : (a \o b) \o c = a \o (b \o c)
BY ConcatAssociative

\* A block and what is left of it make up what it was split from (the loop of
\* pop).
LEMMA SplitBlock ==
  ASSUME NEW s \in Seq(Value), NEW p \in 1 .. Len(s)
  PROVE  /\ SubSeq(s, 1, p) \in Seq(Value) \ {<<>>}
         /\ SubSeq(s, p + 1, Len(s)) \in Seq(Value)
         /\ s = SubSeq(s, 1, p) \o SubSeq(s, p + 1, Len(s))
<1> DEFINE block == SubSeq(s, 1, p)
           rest == SubSeq(s, p + 1, Len(s))
<1>1. block \in Seq(Value) /\ Len(block) = p /\ rest \in Seq(Value)
  OBVIOUS
<1>2. block \o rest = SubSeq(s, 1, Len(s))
  BY ConcatAdjacentSubSeq
<1>3. SubSeq(s, 1, Len(s)) = s
  BY SubSeqFull
<1> HIDE DEF block, rest
<1>4. block # <<>>
  BY <1>1
<1> QED BY <1>1, <1>2, <1>3, <1>4 DEF block, rest

\* Without its head, a concatenation starts with the tail of its first part
\* (pop begins at the second item of the first block).
LEMMA TailConcat ==
  ASSUME NEW s \in Seq(Value), s # <<>>, NEW t \in Seq(Value)
  PROVE  s \o t # <<>> /\ Tail(s \o t) = Tail(s) \o t
<1> DEFINE st == s \o t
           left == Tail(st)
           tail == Tail(s)
           right == tail \o t
<1>1. /\ st \in Seq(Value) /\ Len(st) = Len(s) + Len(t)
      /\ \A i \in 1 .. Len(s) + Len(t) :
           st[i] = IF i <= Len(s) THEN s[i] ELSE t[i - Len(s)]
  BY ConcatProperties
<1>2. Len(s) \in Nat \ {0} /\ Len(t) \in Nat
  BY LenProperties, EmptySeq
<1>3. tail \in Seq(Value) /\ Len(tail) = Len(s) - 1
      /\ \A i \in 1 .. Len(tail) : tail[i] = s[i + 1]
  BY HeadTailProperties
<1> HIDE DEF st, tail
<1>4. st # <<>>
  BY <1>1, <1>2
<1>5. left \in Seq(Value) /\ Len(left) = Len(st) - 1
      /\ \A i \in 1 .. Len(left) : left[i] = st[i + 1]
  BY <1>1, <1>4, HeadTailProperties
<1>6. right \in Seq(Value) /\ Len(right) = Len(tail) + Len(t)
      /\ \A i \in 1 .. Len(tail) + Len(t) :
           right[i] = IF i <= Len(tail) THEN tail[i] ELSE t[i - Len(tail)]
  BY <1>3, ConcatProperties
<1> HIDE DEF left, right
<1>7. Len(left) = Len(right)
  BY <1>1, <1>2, <1>3, <1>5, <1>6
<1>8. ASSUME NEW i \in 1 .. Len(left) PROVE left[i] = right[i]
  <2>1. i \in 1 .. Len(s) + Len(t) - 1 /\ i \in Nat /\ i + 1 \in 1 .. Len(s) + Len(t)
    BY <1>1, <1>2, <1>5
  <2>2. left[i] = st[i + 1] /\ st[i + 1] = IF i + 1 <= Len(s) THEN s[i + 1] ELSE t[i + 1 - Len(s)]
    BY <1>1, <1>5, <2>1
  <2>3. right[i] = IF i <= Len(tail) THEN tail[i] ELSE t[i - Len(tail)]
    BY <1>2, <1>3, <1>6, <2>1
  <2>4. CASE i <= Len(tail)
    <3>1. tail[i] = s[i + 1]
      BY <1>2, <1>3, <2>1, <2>4
    <3> QED BY <1>2, <1>3, <2>1, <2>2, <2>3, <2>4, <3>1
  <2>5. CASE ~ (i <= Len(tail))
    <3>1. i + 1 - Len(s) = i - Len(tail) /\ ~ (i + 1 <= Len(s))
      BY <1>2, <1>3, <2>1, <2>5
    <3> QED BY <2>2, <2>3, <2>5, <3>1
  <2> QED BY <2>4, <2>5
<1>9. left = right
  BY <1>5, <1>6, <1>7, <1>8, SeqEqual
<1> QED BY <1>4, <1>9 DEF left, right, st, tail

\* Linking a chain to the last node of another appends its elements to all
\* that reach that node, and to nothing else (Link in pop).
LEMMA AppendElements ==
  ASSUME NEW hp, HeapOK(hp), Readable(hp),
         NEW m \in DOMAIN hp, hp[m].next = NULL,
         NEW n \in Live(hp), m \notin Reach(hp, {n})
  PROVE  LET lk == Link(hp, m, n) IN
           /\ Readable(lk)
           /\ \A k \in Live(hp) :
                Elements(lk, k) = IF m \in Reach(hp, {k})
                                  THEN Elements(hp, k) \o Elements(hp, n)
                                  ELSE Elements(hp, k)
<1> DEFINE lk == Link(hp, m, n)
           E(k) == Elements(hp, k)
           f == [k \in Live(hp) |-> IF m \in Reach(hp, {k}) THEN E(k) \o E(n) ELSE E(k)]
<1>1. HeapOK(lk) /\ DOMAIN lk = DOMAIN hp /\ Live(lk) = Live(hp)
  BY LinkOK DEF Live
<1>2. \A k \in DOMAIN hp : /\ lk[k].items = hp[k].items
                          /\ lk[k].next = IF k = m THEN n ELSE hp[k].next
  BY DEF Link, HeapOK
<1> HIDE DEF lk
<1>3. /\ E(NULL) = <<>> /\ \A k \in Live(hp) : E(k) \in Seq(Value)
      /\ \A k \in DOMAIN hp : /\ k \in Live(hp) /\ hp[k].next \in Live(hp)
                             /\ hp[k].items \in Seq(Value)
                             /\ E(k) = hp[k].items \o E(hp[k].next)
  BY Unfold DEF Live
<1> HIDE DEF E
<1>4. \A k \in Live(hp) : f[k] = IF m \in Reach(hp, {k}) THEN E(k) \o E(n) ELSE E(k)
  OBVIOUS
<1>5. f \in [Live(lk) -> Seq(Value)]
  <2>1. \A k \in Live(hp) : E(k) \o E(n) \in Seq(Value)
    BY <1>3, ConcatProperties
  <2> QED BY <1>1, <1>3, <2>1
<1> HIDE DEF f
<1>6. f[NULL] = <<>>
  BY <1>3, <1>4, ReachNull DEF Live
<1>7. ASSUME NEW k \in DOMAIN lk PROVE f[k] = lk[k].items \o f[lk[k].next]
  <2>1. k \in DOMAIN hp
    BY <1>1
  <2>2. CASE k = m
    <3>1. m \in Reach(hp, {m})
      BY ReachRoot, NullAssumption DEF HeapOK
    <3>2. f[k] = E(m) \o E(n) /\ f[n] = E(n)
      BY <1>3, <1>4, <2>2, <3>1
    <3>3. E(m) = hp[m].items
      <4>1. E(m) = hp[m].items \o <<>> /\ hp[m].items \in Seq(Value)
        BY <1>3
      <4> QED BY <4>1, ConcatEmptySeq
    <3> QED BY <1>2, <2>2, <3>2, <3>3
  <2>3. CASE k # m
    <3> DEFINE j == hp[k].next
    <3>1. /\ lk[k].next = j /\ lk[k].items = hp[k].items /\ j \in Live(hp)
          /\ E(k) = hp[k].items \o E(j)
      BY <1>2, <1>3, <2>1, <2>3
    <3>2. m \in Reach(hp, {k}) <=> m \in Reach(hp, {j})
      BY <2>1, <2>3, ReachStep
    <3> HIDE DEF j
    <3>3. CASE m \in Reach(hp, {k})
      <4>1. f[k] = E(k) \o E(n) /\ f[j] = E(j) \o E(n)
        BY <1>3, <1>4, <2>1, <3>1, <3>2, <3>3
      <4>2. (hp[k].items \o E(j)) \o E(n) = hp[k].items \o (E(j) \o E(n))
        <5>1. hp[k].items \in Seq(Value) /\ E(j) \in Seq(Value) /\ E(n) \in Seq(Value)
          BY <1>3, <2>1, <3>1
        <5> QED BY <5>1, Associative, Zenon
      <4> QED BY <3>1, <4>1, <4>2
    <3>4. CASE m \notin Reach(hp, {k})
      <4>1. f[k] = E(k) /\ f[j] = E(j)
        BY <1>3, <1>4, <2>1, <3>1, <3>2, <3>4
      <4> QED BY <3>1, <4>1
    <3> QED BY <3>3, <3>4
  <2> QED BY <2>2, <2>3
<1>8. Readable(lk) /\ \A k \in Live(lk) : Elements(lk, k) = f[k]
  BY <1>1, <1>5, <1>6, <1>7, Fold
<1> QED BY <1>1, <1>4, <1>8 DEF lk, E

\* Changing an element of a concatenation changes it in the part it is in
\* (EXCEPT, the assignment to items[index]).
LEMMA ExceptConcat ==
  ASSUME NEW s \in Seq(Value), NEW t \in Seq(Value), NEW v \in Value
  PROVE  /\ \A j \in 1 .. Len(s) :
              [s \o t EXCEPT ![j] = v] = [s EXCEPT ![j] = v] \o t
         /\ \A j \in 1 .. Len(t) :
              [s \o t EXCEPT ![Len(s) + j] = v] = s \o [t EXCEPT ![j] = v]
<1> DEFINE st == s \o t
<1>1. /\ st \in Seq(Value) /\ Len(st) = Len(s) + Len(t)
      /\ \A i \in 1 .. Len(s) + Len(t) :
           st[i] = IF i <= Len(s) THEN s[i] ELSE t[i - Len(s)]
  BY ConcatProperties
<1>2. Len(s) \in Nat /\ Len(t) \in Nat
  OBVIOUS
<1> HIDE DEF st
<1>3. ASSUME NEW j \in 1 .. Len(s)
      PROVE  [st EXCEPT ![j] = v] = [s EXCEPT ![j] = v] \o t
  <2> DEFINE new == [s EXCEPT ![j] = v]
             left == [st EXCEPT ![j] = v]
             right == new \o t
  <2>1. /\ new \in Seq(Value) /\ Len(new) = Len(s)
        /\ \A i \in 1 .. Len(s) : new[i] = IF i = j THEN v ELSE s[i]
    BY ExceptSeq
  <2>2. j \in 1 .. Len(st)
    BY <1>1, <1>2
  <2>3. /\ left \in Seq(Value) /\ Len(left) = Len(st)
        /\ \A i \in 1 .. Len(st) : left[i] = IF i = j THEN v ELSE st[i]
    BY <1>1, <2>2, ExceptSeq
  <2> HIDE DEF new
  <2>4. /\ right \in Seq(Value) /\ Len(right) = Len(new) + Len(t)
        /\ \A i \in 1 .. Len(new) + Len(t) :
             right[i] = IF i <= Len(new) THEN new[i] ELSE t[i - Len(new)]
    BY <2>1, ConcatProperties
  <2> HIDE DEF left, right
  <2>5. ASSUME NEW i \in 1 .. Len(left) PROVE left[i] = right[i]
    <3>1. i \in 1 .. Len(s) + Len(t) /\ i \in Nat
      BY <1>1, <1>2, <2>3
    <3>2. left[i] = (IF i = j THEN v ELSE st[i])
      BY <1>1, <2>3, <3>1
    <3>3. right[i] = (IF i <= Len(s) THEN new[i] ELSE t[i - Len(s)])
      BY <2>1, <2>4, <3>1
    <3>4. st[i] = (IF i <= Len(s) THEN s[i] ELSE t[i - Len(s)])
      BY <1>1, <3>1
    <3>5. CASE i <= Len(s)
      <4>1. new[i] = (IF i = j THEN v ELSE s[i])
        BY <1>2, <2>1, <3>1, <3>5
      <4> QED BY <3>2, <3>3, <3>4, <3>5, <4>1
    <3>6. CASE ~ (i <= Len(s))
      <4>1. i # j
        BY <1>2, <3>1, <3>6
      <4> QED BY <3>2, <3>3, <3>4, <3>6, <4>1
    <3> QED BY <3>5, <3>6
  <2>6. left = right
    BY <1>1, <2>1, <2>3, <2>4, <2>5, SeqEqual
  <2> QED BY <2>6 DEF left, right, new
<1>4. ASSUME NEW j \in 1 .. Len(t)
      PROVE  [st EXCEPT ![Len(s) + j] = v] = s \o [t EXCEPT ![j] = v]
  <2> DEFINE new == [t EXCEPT ![j] = v]
             at == Len(s) + j
             left == [st EXCEPT ![at] = v]
             right == s \o new
  <2>1. /\ new \in Seq(Value) /\ Len(new) = Len(t)
        /\ \A i \in 1 .. Len(t) : new[i] = IF i = j THEN v ELSE t[i]
    BY ExceptSeq
  <2>2. at \in 1 .. Len(st) /\ at = Len(s) + j
    BY <1>1, <1>2
  <2> HIDE DEF at
  <2>3. /\ left \in Seq(Value) /\ Len(left) = Len(st)
        /\ \A i \in 1 .. Len(st) : left[i] = IF i = at THEN v ELSE st[i]
    BY <1>1, <2>2, ExceptSeq
  <2> HIDE DEF new
  <2>4. /\ right \in Seq(Value) /\ Len(right) = Len(s) + Len(new)
        /\ \A i \in 1 .. Len(s) + Len(new) :
             right[i] = IF i <= Len(s) THEN s[i] ELSE new[i - Len(s)]
    BY <2>1, ConcatProperties
  <2> HIDE DEF left, right
  <2>5. ASSUME NEW i \in 1 .. Len(left) PROVE left[i] = right[i]
    <3>1. i \in 1 .. Len(s) + Len(t) /\ i \in Nat
      BY <1>1, <1>2, <2>3
    <3>2. left[i] = (IF i = at THEN v ELSE st[i])
      BY <1>1, <2>3, <3>1
    <3>3. right[i] = (IF i <= Len(s) THEN s[i] ELSE new[i - Len(s)])
      BY <2>1, <2>4, <3>1
    <3>4. st[i] = (IF i <= Len(s) THEN s[i] ELSE t[i - Len(s)])
      BY <1>1, <3>1
    <3>5. CASE i <= Len(s)
      <4>1. i # at
        BY <1>2, <2>2, <3>1, <3>5
      <4> QED BY <3>2, <3>3, <3>4, <3>5, <4>1
    <3>6. CASE ~ (i <= Len(s))
      <4> DEFINE k == i - Len(s)
      <4>1. k \in 1 .. Len(t) /\ (k = j <=> i = at)
        BY <1>2, <2>2, <3>1, <3>6
      <4> HIDE DEF k
      <4>2. new[k] = (IF k = j THEN v ELSE t[k])
        BY <2>1, <4>1
      <4>3. right[i] = new[k] /\ st[i] = t[k]
        BY <3>3, <3>4, <3>6 DEF k
      <4> QED BY <3>2, <4>1, <4>2, <4>3
    <3> QED BY <3>5, <3>6
  <2>6. left = right
    BY <1>1, <2>1, <2>3, <2>4, <2>5, SeqEqual
  <2> QED BY <2>6 DEF left, right, new, at
<1> QED BY <1>3, <1>4 DEF st

Put(s, j, v) == [s EXCEPT ![j] = v]

\* The same for any two sequences (the assignment to items[index]).
LEMMA PutConcat ==
  \A s, t \in Seq(Value) : \A v \in Value :
    /\ \A j \in 1 .. Len(s) : Put(s \o t, j, v) = Put(s, j, v) \o t
    /\ \A j \in 1 .. Len(t) : Put(s \o t, Len(s) + j, v) = s \o Put(t, j, v)
BY ExceptConcat DEF Put

Written(c, i, v) ==
  [heap EXCEPT ![c] = [heap[c] EXCEPT !.items = [heap[c].items EXCEPT ![i] = v]]]

\* Writing an element of a node changes, for all that reach the node, the one
\* element at its place behind the elements before the node, and nothing for
\* any other (SetWrite, the assignment to items[index]).
LEMMA WriteElements ==
  ASSUME HeapOK(heap), Readable(heap), NEW c \in DOMAIN heap,
         NEW i \in 1 .. Len(heap[c].items), NEW v \in Value
  PROVE  LET E(k) == Elements(heap, k)
             wr == Written(c, i, v)
         IN  /\ HeapOK(wr) /\ Readable(wr)
             /\ \A k \in LivePtr :
                  Elements(wr, k) = IF c \in Reach(heap, {k})
                                    THEN [E(k) EXCEPT ![Len(E(k)) - Len(E(c)) + i] = v]
                                    ELSE E(k)
<1> DEFINE E(k) == Elements(heap, k)
           P(k) == Len(E(k)) - Len(E(c)) + i
           wr == Written(c, i, v)
           new == [heap[c].items EXCEPT ![i] = v]
           f == [k \in LivePtr |-> IF c \in Reach(heap, {k})
                                   THEN [E(k) EXCEPT ![P(k)] = v] ELSE E(k)]
<1>1. LivePtr = Live(heap) /\ NULL \in LivePtr /\ c \in LivePtr
  BY DEF LivePtr, Live
<1>2. heap[c].items \in Seq(Value) \ {<<>>} /\ heap[c].next \in LivePtr
  BY <1>1, Unfold
<1>3. new \in Seq(Value) /\ Len(new) = Len(heap[c].items) /\ new # <<>>
  <2>1. new \in Seq(Value) /\ Len(new) = Len(heap[c].items)
    BY <1>2, ExceptSeq
  <2> HIDE DEF new
  <2>2. Len(heap[c].items) # 0
    BY <1>2
  <2> QED BY <2>1, <2>2
<1>4. /\ DOMAIN wr = DOMAIN heap
      /\ \A k \in DOMAIN heap : /\ wr[k].next = heap[k].next
                               /\ wr[k].items = IF k = c THEN new ELSE heap[k].items
  BY DEF HeapOK, Written
<1>5. HeapOK(wr)
  <2> HIDE DEF new
  <2>1. [heap[c] EXCEPT !.items = new] \in [items : Seq(Value) \ {<<>>}, next : Live(heap)]
    BY <1>3 DEF HeapOK
  <2>2. wr = [heap EXCEPT ![c] = [heap[c] EXCEPT !.items = new]]
    BY DEF Written, new
  <2>3. Live(wr) = Live(heap)
    BY <1>4 DEF Live
  <2> HIDE DEF wr
  <2> QED BY <1>4, <2>1, <2>2, <2>3 DEF HeapOK
<1>6. /\ E(NULL) = <<>>
      /\ \A k \in LivePtr : E(k) \in Seq(Value)
      /\ \A k \in DOMAIN heap : /\ heap[k].next \in LivePtr
                               /\ heap[k].items \in Seq(Value)
                               /\ E(k) = heap[k].items \o E(heap[k].next)
  BY <1>1, Unfold
<1>14. \A k \in LivePtr : Len(E(k)) \in Nat
  BY <1>6, LenProperties
<1>15. \A k \in DOMAIN heap : /\ k \in LivePtr /\ Len(heap[k].items) \in Nat
                            /\ Len(E(k)) = Len(heap[k].items) + Len(E(heap[k].next))
  <2> SUFFICES ASSUME NEW k \in DOMAIN heap
               PROVE  /\ k \in LivePtr /\ Len(heap[k].items) \in Nat
                      /\ Len(E(k)) = Len(heap[k].items) + Len(E(heap[k].next))
    OBVIOUS
  <2>1. /\ k \in LivePtr /\ heap[k].items \in Seq(Value) /\ E(heap[k].next) \in Seq(Value)
        /\ E(k) = heap[k].items \o E(heap[k].next)
    BY <1>6 DEF LivePtr
  <2> HIDE DEF E
  <2> QED BY <2>1, LenProperties, ConcatProperties
<1>7. i <= Len(E(c)) /\ i \in Nat \ {0}
  <2>1. /\ Len(E(c)) = Len(heap[c].items) + Len(E(heap[c].next))
        /\ Len(E(heap[c].next)) \in Nat /\ Len(heap[c].items) \in Nat
    BY <1>2, <1>14, <1>15
  <2>2. \A x, y, z : x = y + z /\ y \in Nat /\ z \in Nat /\ i \in 1 .. y =>
                    i <= x /\ i \in Nat \ {0}
    OBVIOUS
  <2> QED BY <2>1, <2>2, Zenon
<1>8. \A k \in LivePtr : c \in Reach(heap, {k}) =>
         k \in DOMAIN heap /\ Len(E(c)) <= Len(E(k)) /\ P(k) \in 1 .. Len(E(k))
  <2> SUFFICES ASSUME NEW k \in LivePtr, c \in Reach(heap, {k})
               PROVE  k \in DOMAIN heap /\ Len(E(c)) <= Len(E(k)) /\ P(k) \in 1 .. Len(E(k))
    OBVIOUS
  <2>1. k \in DOMAIN heap
    BY ReachNull DEF LivePtr
  <2>2. Len(E(c)) <= Len(E(k))
    BY <2>1, ReachShorter
  <2>3. Len(E(c)) \in Nat /\ Len(E(k)) \in Nat
    BY <1>1, <1>14
  <2> HIDE DEF E
  <2> QED BY <1>7, <2>1, <2>2, <2>3
<1> HIDE DEF E, new, wr
<1>9. f \in [LivePtr -> Seq(Value)]
  <2>1. \A k \in LivePtr : c \in Reach(heap, {k}) => [E(k) EXCEPT ![P(k)] = v] \in Seq(Value)
    <3> HIDE DEF P
    <3> QED BY <1>6, <1>8, ExceptSeq
  <2> QED BY <1>6, <2>1
<1>10. \A k \in LivePtr : f[k] = IF c \in Reach(heap, {k})
                                 THEN [E(k) EXCEPT ![P(k)] = v] ELSE E(k)
  OBVIOUS
<1> HIDE DEF f
<1>11. f[NULL] = <<>>
  BY <1>1, <1>6, <1>10, ReachNull
<1>12. ASSUME NEW k \in DOMAIN heap PROVE f[k] = wr[k].items \o f[wr[k].next]
  <2> DEFINE j == heap[k].next
             s == heap[k].items
  <2>1. /\ k \in LivePtr /\ j \in LivePtr /\ s \in Seq(Value) /\ E(j) \in Seq(Value)
        /\ E(k) = s \o E(j)
    BY <1>6, <1>15
  <2>4. Len(E(j)) \in Nat /\ Len(s) \in Nat /\ Len(E(k)) = Len(s) + Len(E(j))
    BY <1>14, <1>15, <2>1
  <2>2. CASE k = c
    <3>1. c \in Reach(heap, {c}) /\ c \notin Reach(heap, {j})
      BY <2>2, ReachRoot, ReachShorter, NullAssumption DEF HeapOK
    <3>2. f[k] = [E(c) EXCEPT ![P(c)] = v] /\ f[j] = E(j)
      BY <1>10, <2>1, <2>2, <3>1
    <3>3. P(c) = i
      BY <1>7, <2>2, <2>4
    <3>4. [s \o E(j) EXCEPT ![i] = v] = [s EXCEPT ![i] = v] \o E(j)
      <4>1. i \in 1 .. Len(s)
        BY <2>2
      <4> HIDE DEF j, s
      <4>2. Put(s \o E(j), i, v) = Put(s, i, v) \o E(j)
        BY <2>1, <4>1, PutConcat, Zenon
      <4> QED BY <4>2, Zenon DEF Put
    <3>5. wr[k].items = [s EXCEPT ![i] = v] /\ wr[k].next = j
      BY <1>4, <2>2 DEF new
    <3> HIDE DEF j, s, P
    <3> QED BY <2>1, <2>2, <3>2, <3>3, <3>4, <3>5
  <2>3. CASE k # c
    <3>1. wr[k].items = s /\ wr[k].next = j
      BY <1>4, <2>3
    <3>2. c \in Reach(heap, {k}) <=> c \in Reach(heap, {j})
      BY <2>3, ReachStep
    <3>3. CASE c \in Reach(heap, {k})
      <4>1. P(j) \in 1 .. Len(E(j))
        BY <1>8, <2>1, <3>2, <3>3
      <4>2. P(k) = Len(s) + P(j)
        <5>1. Len(E(c)) \in Nat /\ i \in Nat
          BY <1>1, <1>7, <1>14
        <5> HIDE DEF j, s
        <5>2. Len(E(k)) - Len(E(c)) + i = Len(s) + (Len(E(j)) - Len(E(c)) + i)
          BY <2>4, <5>1, SMT
        <5> QED BY <5>2, Zenon
      <4>3. f[k] = [E(k) EXCEPT ![P(k)] = v] /\ f[j] = [E(j) EXCEPT ![P(j)] = v]
        BY <1>10, <2>1, <3>2, <3>3
      <4> HIDE DEF P, j, s
      <4>4. [s \o E(j) EXCEPT ![Len(s) + P(j)] = v] = s \o [E(j) EXCEPT ![P(j)] = v]
        <5>1. Put(s \o E(j), Len(s) + P(j), v) = s \o Put(E(j), P(j), v)
          BY <2>1, <4>1, PutConcat, Zenon
        <5> QED BY <5>1, Zenon DEF Put
      <4> QED BY <2>1, <3>1, <4>2, <4>3, <4>4
    <3>4. CASE c \notin Reach(heap, {k})
      <4>1. f[k] = E(k) /\ f[j] = E(j)
        BY <1>10, <2>1, <3>2, <3>4
      <4> QED BY <2>1, <3>1, <4>1
    <3> QED BY <3>3, <3>4
  <2> QED BY <2>2, <2>3
<1>13. Readable(wr) /\ \A k \in LivePtr : Elements(wr, k) = f[k]
  <2>1. Live(wr) = LivePtr
    BY <1>4 DEF Live, LivePtr
  <2>2. f \in [Live(wr) -> Seq(Value)]
    BY <1>9, <2>1
  <2>3. \A k \in DOMAIN wr : f[k] = wr[k].items \o f[wr[k].next]
    BY <1>4, <1>12
  <2>4. Readable(wr) /\ \A k \in Live(wr) : Elements(wr, k) = f[k]
    BY <1>5, <1>11, <2>2, <2>3, Fold
  <2> QED BY <2>1, <2>4
<1> QED BY <1>5, <1>10, <1>13 DEF wr, E


(***************************************************************************)
(* The inductive invariant.                                                *)
(***************************************************************************)

\* The blocks pop has linked so far are a chain from first to last that is
\* apart from the rest of the stack.
PopChain ==
  frame.fn = "pop" =>
    /\ frame.first = NULL <=> frame.last = NULL
    /\ frame.last # NULL => /\ heap[frame.last].next = NULL
                            /\ frame.last \in Reach(heap, {frame.first})
                            /\ frame.last \notin Reach(heap, {frame.next})

\* set is on its way down the chain of its object.
SetPath ==
  frame.fn = "set" /\ frame.at # NULL => frame.at \in Reach(heap, {repr[frame.h]})

\* No chain runs into itself, and each call is where it believes to be.
ValueInv == Readable(heap) /\ PopChain /\ SetPath

Stacks == [h \in Handle |-> Contents(h)]

(***************************************************************************)
(* What each kind of call promises.                                        *)
(***************************************************************************)

\* Nothing is promised between two calls (Promised).
LEMMA PromiseIdle ==
  /\ frame = Idle => Promised = Abstract!Idle
  /\ frame' = Idle => Promised' = Abstract!Idle
BY DEF Promised, OutOfRange, Idle, Abstract!Idle

\* push promises its block before what it has not absorbed (Promised).
LEMMA PromisePush ==
  /\ frame.fn = "push" =>
       Promised = Abstract!Returns(frame.dst, frame.items \o Elements(heap, frame.next))
  /\ frame'.fn = "push" =>
       Promised' = Abstract!Returns(frame'.dst, frame'.items \o Elements(heap', frame'.next))
BY DEF Promised, OutOfRange, Outcome, Abstract!Returns

\* pop promises its blocks, the rest of the first block and the other blocks
\* (Promised).
LEMMA PromisePop ==
  /\ frame.fn = "pop" =>
       Promised = Abstract!Returns(frame.dst,
                    Elements(heap, frame.first) \o frame.rest \o Elements(heap, frame.next))
  /\ frame'.fn = "pop" =>
       Promised' = Abstract!Returns(frame'.dst,
                     Elements(heap', frame'.first) \o frame'.rest \o Elements(heap', frame'.next))
BY DEF Promised, OutOfRange, Outcome, Abstract!Returns

\* What set makes of the contents old of object h, when it has index positions
\* to go in the chain below (Promised).
SetPromise(h, old, below, index, v) ==
  IF index >= Len(below) THEN Abstract!Throws
  ELSE Abstract!Returns(h, [old EXCEPT ![Len(old) - Len(below) + index + 1] = v])

\* set promises to write behind the positions it has passed, or to throw
\* (Promised).
LEMMA PromiseSet ==
  /\ frame.fn = "set" =>
       Promised = SetPromise(frame.h, Contents(frame.h), Elements(heap, Current),
                             frame.index, frame.value)
  /\ frame'.fn = "set" =>
       Promised' = SetPromise(frame'.h, Elements(heap', repr'[frame'.h]),
                              Elements(heap', Current'), frame'.index, frame'.value)
BY DEF Promised, OutOfRange, Outcome, Contents, SetPromise,
       Abstract!Returns, Abstract!Throws

(***************************************************************************)
(* The steps of the loops: no object changes, and neither does what the    *)
(* call promises.                                                          *)
(***************************************************************************)

\* An iteration of the loop of push moves a block from the chain to the new
\* one, behind what is there.
LEMMA PushMergeKeeps ==
  ASSUME TypeOK, ValueInv, PushMerge
  PROVE  ValueInv' /\ UNCHANGED <<Stacks, Promised>>
<1>1. frame \in [fn : {"push"}, dst : Handle, items : Seq(Value) \ {<<>>}, next : LivePtr]
  BY FrameFields DEF TypeOK, PushMerge
<1> DEFINE n == frame.next
           block == heap[n].items
           E(k) == Elements(heap, k)
<1>2. n \in DOMAIN heap
  BY <1>1 DEF PushMerge, Carry, LivePtr
<1>3. /\ frame'.fn = "push" /\ frame'.dst = frame.dst
      /\ frame'.items = frame.items \o block /\ frame'.next = heap[n].next
      /\ heap' = heap /\ repr' = repr
  BY <1>1 DEF PushMerge
<1>4. ValueInv'
  BY <1>3 DEF ValueInv, PopChain, SetPath
<1>5. Stacks' = Stacks
  BY <1>3 DEF Stacks, Contents
<1>6. Promised' = Promised
  <2>1. /\ E(n) = block \o E(heap[n].next) /\ frame.items \in Seq(Value)
        /\ block \in Seq(Value) /\ E(heap[n].next) \in Seq(Value)
    BY <1>1, <1>2, Unfold, TypeParts DEF ValueInv
  <2> DEFINE below == E(heap[n].next)
  <2> HIDE DEF E, block, n, below
  <2>3. frame.items \in Seq(Value) /\ block \in Seq(Value) /\ below \in Seq(Value)
    BY <2>1 DEF below
  <2>4. (frame.items \o block) \o below = frame.items \o (block \o below)
    BY <2>3, Associative, Zenon
  <2>2. (frame.items \o block) \o E(heap[n].next) = frame.items \o E(n)
    BY <2>1, <2>4 DEF below
  <2> QED BY <1>1, <1>3, <2>2, PromisePush DEF E, n
<1> QED BY <1>4, <1>5, <1>6

\* Looking for the next bit touches nothing that pop promises.
LEMMA PopShiftKeeps ==
  ASSUME TypeOK, ValueInv, PopShift
  PROVE  ValueInv' /\ UNCHANGED <<Stacks, Promised>>
<1>1. frame \in [fn : {"pop"}, dst : Handle, rest : Seq(Value), pow : Nat \ {0},
                 first : LivePtr, last : LivePtr, next : LivePtr]
  BY FrameFields DEF TypeOK, PopShift
<1>2. /\ frame'.fn = "pop" /\ frame'.dst = frame.dst /\ frame'.rest = frame.rest
      /\ frame'.first = frame.first /\ frame'.last = frame.last
      /\ frame'.next = frame.next
      /\ heap' = heap /\ repr' = repr
  BY <1>1 DEF PopShift
<1>3. ValueInv'
  BY <1>1, <1>2 DEF ValueInv, PopChain, SetPath
<1>4. Stacks' = Stacks
  BY <1>2 DEF Stacks, Contents
<1>5. Promised' = Promised
  BY <1>1, <1>2, PromisePop
<1> QED BY <1>3, <1>4, <1>5

\* Moving on to the next node takes as many positions off the index as there
\* are items in the node.
LEMMA SetAdvanceKeeps ==
  ASSUME TypeOK, ValueInv, SetAdvance
  PROVE  ValueInv' /\ UNCHANGED <<Stacks, Promised>>
<1>1. frame \in [fn : {"set"}, h : Handle, at : LivePtr, index : Nat, value : Value]
  BY FrameFields DEF TypeOK, SetAdvance
<1> DEFINE c == Current
           size == Len(heap[c].items)
           E(k) == Elements(heap, k)
<1>2. c \in DOMAIN heap /\ HeapOK(heap) /\ NULL \notin DOMAIN heap
  BY CurrentLive, TypeParts, NullAssumption DEF SetAdvance, LivePtr, HeapOK
<1>3. /\ frame'.fn = "set" /\ frame'.h = frame.h /\ frame'.value = frame.value
      /\ frame'.at = c /\ frame'.index = frame.index - size
      /\ heap' = heap /\ repr' = repr /\ frame.index >= size
  BY <1>1 DEF SetAdvance
<1>4. Current' = heap[c].next
  <2> HIDE DEF c
  <2> QED BY <1>2, <1>3 DEF Current
<1>5. c \in Reach(heap, {repr[frame.h]})
  <2>1. CASE frame.at = NULL
    <3>1. c = repr[frame.h]
      BY <2>1 DEF Current
    <3> HIDE DEF c
    <3> QED BY <1>2, <3>1, ReachRoot
  <2>2. CASE frame.at # NULL
    <3>1. frame.at \in Reach(heap, {repr[frame.h]}) /\ c = heap[frame.at].next
      BY <1>1, <2>2 DEF Current, ValueInv, SetPath
    <3> HIDE DEF c
    <3> QED BY <1>2, <3>1, ReachNext
  <2> QED BY <2>1, <2>2
<1> HIDE DEF c
<1>6. ValueInv'
  BY <1>3, <1>5 DEF ValueInv, PopChain, SetPath
<1>7. Stacks' = Stacks
  BY <1>3 DEF Stacks, Contents
<1>8. Promised' = Promised
  <2> DEFINE old == E(repr[frame.h])
             next == heap[c].next
  <2>1. /\ Len(E(c)) = size + Len(E(next)) /\ size \in Nat /\ Len(E(next)) \in Nat
        /\ Len(old) \in Nat
    <3>1. /\ E(c) = heap[c].items \o E(next) /\ heap[c].items \in Seq(Value)
          /\ E(next) \in Seq(Value)
      BY <1>2, Unfold DEF ValueInv
    <3>2. old \in Seq(Value)
      BY <1>1, <1>2, Unfold DEF TypeOK, ValueInv, Live, LivePtr
    <3> HIDE DEF E, next, old
    <3> QED BY <3>1, <3>2, ConcatProperties, LenProperties
  <2> HIDE DEF E, next, old, size
  <2>2. /\ frame.index - size >= Len(E(next)) <=> frame.index >= Len(E(c))
        /\ Len(old) - Len(E(next)) + (frame.index - size) + 1
             = Len(old) - Len(E(c)) + frame.index + 1
    BY <1>1, <2>1
  <2>3. SetPromise(frame.h, old, E(next), frame.index - size, frame.value)
          = SetPromise(frame.h, old, E(c), frame.index, frame.value)
    BY <2>2, Zenon DEF SetPromise
  <2>4. Promised = SetPromise(frame.h, old, E(c), frame.index, frame.value)
    BY <1>1, PromiseSet DEF Contents, old, E, c
  <2>5. Promised' = SetPromise(frame.h, old, E(next), frame.index - size, frame.value)
    BY <1>3, <1>4, PromiseSet DEF old, E, next
  <2> QED BY <2>3, <2>4, <2>5
<1> QED BY <1>6, <1>7, <1>8

\* pop links the next block to the chain it is building: the block leaves the
\* rest and is what the chain now ends with.
LEMMA PopSplitKeeps ==
  ASSUME TypeOK, OwnsPath, ValueInv, PopSplit
  PROVE  ValueInv' /\ UNCHANGED <<Stacks, Promised>>
<1>1. frame \in [fn : {"pop"}, dst : Handle, rest : Seq(Value), pow : Nat \ {0},
                 first : LivePtr, last : LivePtr, next : LivePtr]
  BY FrameFields DEF TypeOK, PopSplit
<1> DEFINE block == SubSeq(frame.rest, 1, frame.pow)
           rest == SubSeq(frame.rest, frame.pow + 1, Len(frame.rest))
           E(k) == Elements(heap, k)
<1>2. PICK n \in Node \ DOMAIN heap :
        /\ heap' = IF frame.last = NULL THEN Alloc(n, block, NULL)
                   ELSE Link(Alloc(n, block, NULL), frame.last, n)
        /\ frame' = [frame EXCEPT !.rest = SubSeq(@, frame.pow + 1, Len(@)),
                                  !.first = IF @ = NULL THEN n ELSE @,
                                  !.last = n]
        /\ repr' = repr
  BY DEF PopSplit
<1>3. /\ frame'.fn = "pop" /\ frame'.dst = frame.dst /\ frame'.rest = rest
      /\ frame'.first = IF frame.first = NULL THEN n ELSE frame.first
      /\ frame'.last = n /\ frame'.next = frame.next
  BY <1>1, <1>2
<1>4. /\ block \in Seq(Value) \ {<<>>} /\ rest \in Seq(Value)
      /\ frame.rest = block \o rest
  <2>1. frame.pow \in 1 .. Len(frame.rest)
    <3>1. Len(frame.rest) \in Nat /\ frame.pow \in Nat \ {0}
      BY <1>1, LenProperties
    <3>2. BitSet(Len(frame.rest), frame.pow)
      BY DEF PopSplit
    <3> QED BY <3>1, <3>2, BitSetBound
  <2>2. frame.rest \in Seq(Value)
    BY <1>1
  <2> QED BY <2>1, <2>2, SplitBlock
<1>5. HeapOK(heap) /\ Readable(heap) /\ NULL \notin Node /\ Live(heap) = LivePtr
  BY TypeParts, NullAssumption DEF ValueInv, Live, LivePtr
<1>6. frame.last \in DOMAIN heap \cup {NULL} /\ repr \in [Handle -> LivePtr]
  BY <1>1 DEF LivePtr, TypeOK
<1> DEFINE hp == Alloc(n, block, NULL)
<1> HIDE DEF block, rest
<1>7. /\ HeapOK(hp) /\ DOMAIN hp = DOMAIN heap \cup {n}
      /\ hp[n].next = NULL /\ \A k \in DOMAIN heap : hp[k] = heap[k]
  <2>1. \A k \in DOMAIN hp : hp[k] = IF k = n THEN [items |-> block, next |-> NULL] ELSE heap[k]
    BY DEF Alloc
  <2>2. HeapOK(hp) /\ DOMAIN hp = DOMAIN heap \cup {n}
    BY <1>4, <1>5, AllocOK DEF LivePtr
  <2> HIDE DEF hp
  <2> QED BY <2>1, <2>2
<1>8. /\ Readable(hp) /\ Elements(hp, n) = block
      /\ \A k \in LivePtr : Elements(hp, k) = E(k)
  <2>1. block \o E(NULL) = block
    BY <1>4, <1>5, Unfold, ConcatEmptySeq
  <2>2. /\ Readable(hp) /\ Elements(hp, n) = block \o E(NULL)
        /\ \A k \in LivePtr : Elements(hp, k) = E(k)
    BY <1>4, <1>5, AllocElements DEF LivePtr
  <2> QED BY <2>1, <2>2
<1>9. heap' = IF frame.last = NULL THEN hp ELSE Link(hp, frame.last, n)
  BY <1>2
<1>10. n \notin Reach(heap', {frame.next})
  <2>1. frame.last \notin Reach(heap, {frame.next})
    BY <1>5, ReachAllocated DEF ValueInv, PopChain, PopSplit, HeapOK
  <2>2. Reach(heap', {frame.next}) \subseteq Reach(heap, {frame.next})
    BY <1>1, <1>6, <1>9, <2>1, ReachUntouched
  <2> QED BY <2>2, ReachAllocated
<1>11. E(frame.next) \in Seq(Value) /\ E(frame.first) \in Seq(Value)
  BY <1>1, <1>5, Unfold
<1> HIDE DEF hp, E
<1>12. CASE frame.last = NULL
  <2>1. heap' = hp /\ frame.first = NULL /\ frame'.first = n
    BY <1>3, <1>9, <1>12 DEF ValueInv, PopChain, PopSplit
  <2>2. n \in Reach(heap', {n}) /\ n # NULL
    BY <1>5, <1>7, <2>1, ReachRoot
  <2>3. ValueInv'
    BY <1>3, <1>7, <1>8, <1>10, <2>1, <2>2 DEF ValueInv, PopChain, SetPath
  <2>4. Stacks' = Stacks
    BY <1>2, <1>6, <1>8, <2>1 DEF Stacks, Contents, E
  <2>5. Promised' = Promised
    <3>1. E(frame.first) = <<>>
      BY <1>5, <2>1, Unfold DEF E
    <3>2. /\ Promised = Abstract!Returns(frame.dst, (<<>> \o frame.rest) \o E(frame.next))
          /\ Promised' = Abstract!Returns(frame.dst, (block \o rest) \o E(frame.next))
      BY <1>1, <1>3, <1>8, <2>1, <3>1, PromisePop DEF E
    <3>3. <<>> \o frame.rest = frame.rest
      BY <1>1, ConcatEmptySeq
    <3> QED BY <1>4, <3>2, <3>3
  <2> QED BY <2>3, <2>4, <2>5
<1>13. CASE frame.last # NULL
  <2> DEFINE last == frame.last
             lk == Link(hp, last, n)
  <2>1. /\ heap' = lk /\ frame.first # NULL /\ frame'.first = frame.first
        /\ heap[last].next = NULL
        /\ last \in Reach(heap, {frame.first}) /\ last \notin Reach(heap, {frame.next})
    BY <1>3, <1>9, <1>13 DEF ValueInv, PopChain, PopSplit
  <2>2. /\ last \in DOMAIN heap /\ last \in DOMAIN hp /\ hp[last].next = NULL
        /\ n \in Live(hp) /\ Live(hp) = LivePtr \cup {n} /\ n # last
    BY <1>6, <1>7, <1>13, <2>1 DEF Live, LivePtr
  <2>3. last \notin Reach(hp, {n})
    BY <1>7, <2>2, ReachStep, ReachNull
  <2>4. \A k \in LivePtr : last \in Reach(heap, {k}) <=> last \in Reach(hp, {k})
    <3>1. ASSUME NEW k \in LivePtr, last \in Reach(heap, {k}) PROVE last \in Reach(hp, {k})
      BY <1>5, <1>7, <2>2, <3>1, ReachTarget
    <3>2. ASSUME NEW k \in LivePtr, last \notin Reach(heap, {k}) PROVE last \notin Reach(hp, {k})
      BY <1>6, <3>2, ReachUntouched DEF hp
    <3> QED BY <3>1, <3>2
  <2>5. /\ Readable(lk)
        /\ \A k \in LivePtr : Elements(lk, k) = IF last \in Reach(heap, {k})
                                                THEN E(k) \o block ELSE E(k)
        /\ Elements(lk, n) = block
    <3>1. /\ Readable(lk)
          /\ \A k \in Live(hp) : Elements(lk, k) = IF last \in Reach(hp, {k})
                                                   THEN Elements(hp, k) \o Elements(hp, n)
                                                   ELSE Elements(hp, k)
      BY <1>7, <1>8, <2>2, <2>3, AppendElements
    <3> HIDE DEF lk
    <3> QED BY <1>8, <2>2, <2>3, <2>4, <3>1
  <2>6. lk[last].next = n /\ lk[n].next = NULL /\ DOMAIN lk = DOMAIN hp /\ HeapOK(lk)
    <3>1. HeapOK(lk) /\ DOMAIN lk = DOMAIN hp
      BY <1>7, <2>2, LinkOK
    <3>2. \A k \in DOMAIN hp : lk[k] = IF k = last THEN [hp[last] EXCEPT !.next = n] ELSE hp[k]
      BY DEF Link
    <3>3. [hp[last] EXCEPT !.next = n].next = n
      BY <1>7, <2>2 DEF HeapOK
    <3> HIDE DEF lk
    <3> QED BY <1>7, <2>2, <3>1, <3>2, <3>3
  <2>7. n \in Reach(lk, {frame.first}) /\ n # NULL
    <3>1. \A k \in DOMAIN heap \ {last} : lk[k].next = heap[k].next
      BY <1>7, <2>2 DEF Link
    <3>2. last \in Reach(lk, {frame.first})
      <4> HIDE DEF lk
      <4> QED BY <1>1, <1>5, <1>7, <2>1, <2>2, <2>6, <3>1, ReachTarget
    <3> HIDE DEF lk
    <3> QED BY <1>5, <1>7, <2>6, <3>2, ReachNext
  <2> HIDE DEF lk
  <2>8. ValueInv'
    BY <1>3, <1>10, <2>1, <2>5, <2>6, <2>7 DEF ValueInv, PopChain, SetPath
  <2>9. Stacks' = Stacks
    <3>1. \A g \in Handle : Elements(lk, repr[g]) = Elements(heap, repr[g])
      BY <1>6, <1>13, <2>5 DEF OwnsPath, PopSplit, E
    <3> QED BY <1>2, <2>1, <3>1 DEF Stacks, Contents
  <2>10. Promised' = Promised
    <3>1. /\ Promised = Abstract!Returns(frame.dst, (E(frame.first) \o frame.rest) \o E(frame.next))
          /\ Promised' = Abstract!Returns(frame.dst,
                           ((E(frame.first) \o block) \o rest) \o E(frame.next))
      BY <1>1, <1>3, <2>1, <2>5, PromisePop DEF E
    <3> DEFINE front == E(frame.first)
    <3> HIDE DEF front
    <3>2. front \in Seq(Value) /\ block \in Seq(Value) /\ rest \in Seq(Value)
      BY <1>4, <1>11 DEF front
    <3>3. (front \o block) \o rest = front \o (block \o rest)
      BY <3>2, Associative, Zenon
    <3> QED BY <1>4, <3>1, <3>3 DEF front
  <2> QED BY <2>8, <2>9, <2>10
<1> QED BY <1>12, <1>13

\* A copy that replaces a shared node shows what the node shows.
LEMMA SetUnshareKeeps ==
  ASSUME TypeOK, ValueInv, SetUnshare
  PROVE  /\ ValueInv' /\ UNCHANGED <<Stacks, Promised>>
         /\ Elements(heap', Current') = Elements(heap, Current)
<1>1. frame \in [fn : {"set"}, h : Handle, at : LivePtr, index : Nat, value : Value]
  BY FrameFields DEF TypeOK, SetUnshare
<1> DEFINE c == Current
           h == frame.h
           E(k) == Elements(heap, k)
<1>2. /\ HeapOK(heap) /\ Readable(heap) /\ NULL \notin DOMAIN heap
      /\ Live(heap) = LivePtr /\ repr \in [Handle -> LivePtr]
  BY TypeParts, NullAssumption DEF ValueInv, Live, LivePtr, HeapOK
<1>3. c \in DOMAIN heap /\ c \in LivePtr
  BY CurrentLive DEF SetUnshare, LivePtr
<1>4. PICK n \in Node \ DOMAIN heap :
        IF frame.at = NULL
        THEN repr' = [repr EXCEPT ![h] = n] /\ heap' = Alloc(n, heap[c].items, heap[c].next)
        ELSE heap' = Link(Alloc(n, heap[c].items, heap[c].next), frame.at, n) /\ repr' = repr
  BY DEF SetUnshare
<1>5. frame' = frame /\ frame.fn = "set"
  BY DEF SetUnshare
<1> DEFINE hp == Alloc(n, heap[c].items, heap[c].next)
<1>6. /\ heap[c].items \in Seq(Value) \ {<<>>} /\ heap[c].next \in LivePtr
      /\ E(c) = heap[c].items \o E(heap[c].next)
  <2> HIDE DEF c
  <2> QED BY <1>2, <1>3, Unfold
<1>7. /\ HeapOK(hp) /\ DOMAIN hp = DOMAIN heap \cup {n}
      /\ \A k \in DOMAIN heap : hp[k] = heap[k]
  <2>1. \A k \in DOMAIN heap : hp[k] = heap[k]
    BY DEF Alloc
  <2>2. HeapOK(hp) /\ DOMAIN hp = DOMAIN heap \cup {n}
    <3> HIDE DEF c
    <3> QED BY <1>2, <1>6, AllocOK
  <2> QED BY <2>1, <2>2
<1>8. /\ Readable(hp) /\ Elements(hp, n) = E(c)
      /\ \A k \in LivePtr : Elements(hp, k) = E(k)
  <2> DEFINE items == heap[c].items
             next == heap[c].next
  <2>1. items \in Seq(Value) \ {<<>>} /\ next \in LivePtr /\ E(c) = items \o E(next)
    BY <1>6
  <2>2. hp = Alloc(n, items, next)
    OBVIOUS
  <2> HIDE DEF c, hp, items, next
  <2> QED BY <1>2, <2>1, <2>2, AllocElements
<1>9. /\ Promised = SetPromise(h, E(repr[h]), E(c), frame.index, frame.value)
      /\ Promised' = SetPromise(h, Elements(heap', repr'[h]), Elements(heap', Current'),
                                frame.index, frame.value)
  BY <1>5, PromiseSet DEF Contents
<1> HIDE DEF hp
<1>10. CASE frame.at = NULL
  <2>1. heap' = hp /\ repr' = [repr EXCEPT ![h] = n] /\ c = repr[h]
    BY <1>4, <1>10 DEF hp, Current
  <2>2. repr'[h] = n /\ Current' = n /\ \A g \in Handle \ {h} : repr'[g] = repr[g]
    BY <1>1, <1>2, <1>5, <1>10, <2>1 DEF Current
  <2> HIDE DEF c
  <2>3. ValueInv'
    BY <1>5, <1>8, <1>10, <2>1 DEF ValueInv, PopChain, SetPath
  <2>4. \A g \in Handle : Elements(hp, repr'[g]) = E(repr[g])
    BY <1>2, <1>8, <2>1, <2>2
  <2>5. Stacks' = Stacks
    BY <2>1, <2>4 DEF Stacks, Contents
  <2>6. Elements(heap', repr'[h]) = E(repr[h]) /\ Elements(heap', Current') = E(c)
    BY <1>8, <2>1, <2>2
  <2>7. Elements(heap', Current') = Elements(heap, Current)
    BY <2>6 DEF c
  <2> HIDE DEF E
  <2> QED BY <1>9, <2>3, <2>5, <2>6, <2>7
<1>11. CASE frame.at # NULL
  <2> DEFINE at == frame.at
             lk == Link(hp, at, n)
  <2>1. heap' = lk /\ repr' = repr /\ at \in DOMAIN heap /\ c = heap[at].next
    BY <1>1, <1>4, <1>11 DEF hp, Current, LivePtr
  <2>2. at \in DOMAIN hp /\ n \in Live(hp) /\ LivePtr \subseteq Live(hp) /\ hp[at].next = c
    BY <1>7, <2>1 DEF Live, LivePtr
  <2> HIDE DEF c
  <2>3. Readable(lk) /\ \A k \in Live(hp) : Elements(lk, k) = Elements(hp, k)
    BY <1>3, <1>7, <1>8, <2>2, RelinkElements
  <2>4. /\ HeapOK(lk) /\ DOMAIN lk = DOMAIN hp /\ lk[at].next = n
        /\ \A k \in DOMAIN heap \ {at} : lk[k].next = heap[k].next
    <3>1. HeapOK(lk) /\ DOMAIN lk = DOMAIN hp
      BY <1>7, <2>2, LinkOK
    <3>2. \A k \in DOMAIN hp : lk[k] = IF k = at THEN [hp[at] EXCEPT !.next = n] ELSE hp[k]
      BY DEF Link
    <3>3. [hp[at] EXCEPT !.next = n].next = n
      BY <1>7, <2>2 DEF HeapOK
    <3> HIDE DEF lk
    <3> QED BY <1>7, <2>2, <3>1, <3>2, <3>3
  <2> HIDE DEF lk
  <2>5. at \in Reach(lk, {repr[h]})
    <3>1. at \in Reach(heap, {repr[h]}) /\ repr[h] \in Live(heap)
      BY <1>1, <1>2, <1>5, <1>11 DEF ValueInv, SetPath
    <3> QED BY <1>2, <1>7, <2>1, <2>4, <3>1, ReachTarget
  <2>6. Current' = n
    BY <1>5, <1>11, <2>1, <2>4 DEF Current
  <2>7. ValueInv'
    BY <1>5, <2>1, <2>3, <2>5 DEF ValueInv, PopChain, SetPath
  <2>8. \A k \in LivePtr : Elements(lk, k) = E(k)
    BY <1>8, <2>2, <2>3
  <2>9. Stacks' = Stacks
    BY <1>2, <2>1, <2>8 DEF Stacks, Contents
  <2>10. Elements(heap', repr'[h]) = E(repr[h]) /\ Elements(heap', Current') = E(c)
    BY <1>1, <1>2, <1>8, <2>1, <2>2, <2>3, <2>6, <2>8
  <2>11. Elements(heap', Current') = Elements(heap, Current)
    BY <2>10 DEF c
  <2> HIDE DEF E
  <2> QED BY <1>9, <2>7, <2>9, <2>10, <2>11
<1> QED BY <1>10, <1>11

(***************************************************************************)
(* The steps that end a call.                                              *)
(***************************************************************************)

\* What a call returns becomes the contents of one object, and the release of
\* what the object held changes nothing else (Return).
LEMMA ReturnAssigns ==
  ASSUME NEW hp, HeapOK(hp), Readable(hp), NEW dst \in Handle, NEW n \in Live(hp),
         repr \in [Handle -> Live(hp)],
         \A g \in Handle : Elements(hp, repr[g]) = Contents(g),
         Return(hp, dst, n)
  PROVE  ValueInv' /\ Stacks' = [Stacks EXCEPT ![dst] = Elements(hp, n)]
<1>1. /\ repr' = [repr EXCEPT ![dst] = n] /\ heap' = Collect(hp, Objects(repr'))
      /\ frame' = Idle
  BY DEF Return
<1>2. repr' \in [Handle -> Live(hp)]
  BY <1>1
<1>3. /\ Readable(heap')
      /\ \A k \in Live(heap') : Elements(heap', k) = Elements(hp, k)
      /\ repr' \in [Handle -> Live(heap')]
  BY <1>1, <1>2, CollectElements, CollectOK
<1>4. ValueInv'
  BY <1>1, <1>3 DEF ValueInv, PopChain, SetPath, Idle
<1>5. \A g \in Handle : Elements(heap', repr'[g]) = IF g = dst THEN Elements(hp, n)
                                                    ELSE Contents(g)
  BY <1>1, <1>3
<1>6. Stacks' = [Stacks EXCEPT ![dst] = Elements(hp, n)]
  BY <1>5 DEF Stacks, Contents
<1> QED BY <1>4, <1>6

\* A call that returns what it promises is an abstract return (Return).
LEMMA ReturnKeepsPromise ==
  ASSUME NEW hp, HeapOK(hp), Readable(hp), NEW dst \in Handle, NEW n \in Live(hp),
         repr \in [Handle -> Live(hp)],
         \A g \in Handle : Elements(hp, repr[g]) = Contents(g),
         Return(hp, dst, n),
         Promised = Abstract!Returns(dst, Elements(hp, n))
  PROVE  ValueInv' /\ Abstract!Return
<1>1. ValueInv' /\ Stacks' = [Stacks EXCEPT ![dst] = Elements(hp, n)]
  BY ReturnAssigns
<1>2. Promised' = Abstract!Idle
  BY PromiseIdle DEF Return
<1>3. /\ Promised.fn = "return" /\ Promised.object = dst
      /\ Promised.result = Elements(hp, n)
  BY DEF Abstract!Returns
<1> QED BY <1>1, <1>2, <1>3 DEF Abstract!Return, Stacks

\* push returns the node it has built (PushReturn).
LEMMA PushReturns ==
  ASSUME TypeOK, ValueInv, PushReturn
  PROVE  ValueInv' /\ Abstract!Return
<1>1. frame \in [fn : {"push"}, dst : Handle, items : Seq(Value) \ {<<>>}, next : LivePtr]
  BY FrameFields DEF TypeOK, PushReturn
<1>2. PICK n \in Node \ DOMAIN heap :
        Return(Alloc(n, frame.items, frame.next), frame.dst, n)
  BY DEF PushReturn
<1> DEFINE hp == Alloc(n, frame.items, frame.next)
<1>3. /\ HeapOK(heap) /\ Readable(heap) /\ repr \in [Handle -> LivePtr]
      /\ frame.items \in Seq(Value) \ {<<>>} /\ frame.next \in LivePtr
      /\ frame.dst \in Handle
  BY <1>1, TypeParts DEF ValueInv
<1>4. HeapOK(hp) /\ n \in Live(hp) /\ LivePtr \subseteq Live(hp)
  <2>1. HeapOK(hp) /\ DOMAIN hp = DOMAIN heap \cup {n}
    BY <1>3, AllocOK
  <2> HIDE DEF hp
  <2> QED BY <2>1 DEF Live, LivePtr
<1>5. /\ Readable(hp) /\ Elements(hp, n) = frame.items \o Elements(heap, frame.next)
      /\ \A k \in LivePtr : Elements(hp, k) = Elements(heap, k)
  BY <1>3, AllocElements
<1>6. Return(hp, frame.dst, n)
  BY <1>2
<1> HIDE DEF hp
<1>7. Promised = Abstract!Returns(frame.dst, Elements(hp, n))
  BY <1>1, <1>5, PromisePush
<1>8. \A g \in Handle : Elements(hp, repr[g]) = Contents(g)
  BY <1>3, <1>5 DEF Contents
<1>9. repr \in [Handle -> Live(hp)]
  BY <1>3, <1>4
<1> QED BY <1>3, <1>4, <1>5, <1>6, <1>7, <1>8, <1>9, ReturnKeepsPromise

\* pop returns its chain of new blocks, with the blocks that are left behind it
\* (PopReturn).
LEMMA PopReturns ==
  ASSUME TypeOK, OwnsPath, ValueInv, PopReturn
  PROVE  ValueInv' /\ Abstract!Return
<1>1. frame \in [fn : {"pop"}, dst : Handle, rest : Seq(Value), pow : Nat \ {0},
                 first : LivePtr, last : LivePtr, next : LivePtr]
  BY FrameFields DEF TypeOK, PopReturn
<1> DEFINE E(k) == Elements(heap, k)
<1>2. /\ HeapOK(heap) /\ Readable(heap) /\ Live(heap) = LivePtr
      /\ repr \in [Handle -> LivePtr] /\ frame.dst \in Handle
  BY <1>1, TypeParts DEF ValueInv, Live, LivePtr
<1>3. E(NULL) = <<>> /\ \A k \in LivePtr : E(k) \in Seq(Value)
  BY <1>2, Unfold
<1>4. \A g \in Handle : E(repr[g]) = Contents(g)
  BY DEF Contents
<1> HIDE DEF E
<1>5. Promised = Abstract!Returns(frame.dst, E(frame.first) \o E(frame.next))
  <2>1. E(frame.first) \o <<>> = E(frame.first)
    BY <1>1, <1>3, ConcatEmptySeq
  <2> QED BY <1>1, <2>1, PromisePop DEF PopReturn, E
<1>6. CASE frame.last = NULL
  <2>1. Return(heap, frame.dst, frame.next) /\ frame.first = NULL
    BY <1>6 DEF PopReturn, ValueInv, PopChain
  <2>2. <<>> \o E(frame.next) = E(frame.next)
    BY <1>1, <1>3, ConcatEmptySeq
  <2>3. Promised = Abstract!Returns(frame.dst, Elements(heap, frame.next))
    BY <1>3, <1>5, <2>1, <2>2 DEF E
  <2>4. frame.next \in Live(heap)
    BY <1>1, <1>2
  <2> QED BY <1>2, <1>4, <2>1, <2>3, <2>4, ReturnKeepsPromise DEF E
<1>7. CASE frame.last # NULL
  <2> DEFINE last == frame.last
             next == frame.next
             lk == Link(heap, last, next)
  <2>1. /\ Return(lk, frame.dst, frame.first) /\ last \in DOMAIN heap
        /\ heap[last].next = NULL /\ next \in LivePtr /\ frame.first \in LivePtr
        /\ last \in Reach(heap, {frame.first}) /\ last \notin Reach(heap, {next})
        /\ \A g \in Handle : last \notin Reach(heap, {repr[g]})
    BY <1>1, <1>7 DEF PopReturn, ValueInv, PopChain, OwnsPath, LivePtr
  <2> HIDE DEF last, next
  <2>2. HeapOK(lk) /\ Live(lk) = LivePtr
    BY <1>2, <2>1, LinkOK DEF Live, LivePtr
  <2>3. /\ Readable(lk)
        /\ \A k \in LivePtr : Elements(lk, k) = IF last \in Reach(heap, {k})
                                                THEN E(k) \o E(next) ELSE E(k)
    BY <1>2, <2>1, AppendElements DEF E
  <2> HIDE DEF lk
  <2>4. Promised = Abstract!Returns(frame.dst, Elements(lk, frame.first))
    BY <1>5, <2>1, <2>3 DEF next
  <2>5. \A g \in Handle : Elements(lk, repr[g]) = Contents(g)
    BY <1>2, <1>4, <2>1, <2>3
  <2> QED BY <1>2, <2>1, <2>2, <2>3, <2>4, <2>5, ReturnKeepsPromise
<1> QED BY <1>6, <1>7

\* set writes the element in the node it has arrived at, which only its own
\* object reaches (SetWrite).
LEMMA SetReturns ==
  ASSUME TypeOK, OwnsPath, ValueInv, SetWrite
  PROVE  ValueInv' /\ Abstract!Return
<1>1. frame \in [fn : {"set"}, h : Handle, at : LivePtr, index : Nat, value : Value]
  BY FrameFields DEF TypeOK, SetWrite
<1> DEFINE c == Current
           h == frame.h
           i == frame.index + 1
           E(k) == Elements(heap, k)
           wr == Written(c, i, frame.value)
<1>2. /\ HeapOK(heap) /\ Readable(heap) /\ Live(heap) = LivePtr
      /\ repr \in [Handle -> LivePtr] /\ NULL \notin DOMAIN heap
      /\ h \in Handle /\ frame.value \in Value
  BY <1>1, TypeParts, NullAssumption DEF ValueInv, Live, LivePtr, HeapOK
<1>3. c \in DOMAIN heap
  BY CurrentLive DEF SetWrite, LivePtr
<1>4. heap' = wr /\ repr' = repr /\ frame' = Idle
  BY DEF SetWrite, Written
<1>5. \A g \in Handle : c \in Reach(heap, {repr[g]}) <=> g = h
  <2>1. \A g \in Handle \ {h} : c \notin Reach(heap, {repr[g]})
    BY UnsharedIsPrivate DEF SetWrite
  <2>2. CASE frame.at = NULL
    <3>1. c = repr[h]
      BY <2>2 DEF Current
    <3> HIDE DEF c
    <3>2. c \in Reach(heap, {repr[h]})
      BY <1>2, <1>3, <3>1, ReachRoot
    <3> QED BY <2>1, <3>2
  <2>3. CASE frame.at # NULL
    <3>1. frame.at \in Reach(heap, {repr[h]}) /\ c = heap[frame.at].next
      BY <2>3 DEF Current, ValueInv, SetPath, SetWrite
    <3> HIDE DEF c
    <3>2. c \in Reach(heap, {repr[h]})
      BY <1>2, <1>3, <3>1, ReachNext
    <3> QED BY <2>1, <3>2
  <2> QED BY <2>2, <2>3
<1>6. Promised = SetPromise(h, E(repr[h]), E(c), frame.index, frame.value)
  BY PromiseSet DEF Contents, SetWrite
<1>7. i \in 1 .. Len(heap[c].items)
  <2>1. frame.index < Len(heap[c].items) /\ frame.index \in Nat
    BY <1>1 DEF SetWrite
  <2>2. heap[c].items \in Seq(Value)
    BY <1>2, <1>3 DEF HeapOK
  <2> HIDE DEF c
  <2> QED BY <2>1, <2>2
<1> HIDE DEF c
<1>8. frame.index < Len(E(c)) /\ \A k \in LivePtr : Len(E(k)) \in Nat
  <2>1. /\ E(c) = heap[c].items \o E(heap[c].next) /\ heap[c].items \in Seq(Value)
        /\ E(heap[c].next) \in Seq(Value) /\ \A k \in LivePtr : E(k) \in Seq(Value)
    BY <1>2, <1>3, Unfold
  <2> HIDE DEF E
  <2>2. /\ Len(E(c)) = Len(heap[c].items) + Len(E(heap[c].next))
        /\ Len(E(heap[c].next)) \in Nat /\ Len(heap[c].items) \in Nat
    BY <2>1, ConcatProperties, LenProperties
  <2>3. frame.index < Len(heap[c].items) /\ frame.index \in Nat
    BY <1>1 DEF SetWrite, c
  <2>4. \A x, y, z, w : /\ w = y + z /\ x \in Nat /\ y \in Nat /\ z \in Nat
                       /\ x < y
                       => x < w
    OBVIOUS
  <2>5. frame.index < Len(E(c))
    BY <2>2, <2>3, <2>4, Zenon
  <2> QED BY <2>1, <2>5, LenProperties
<1>9. /\ Readable(wr)
      /\ \A k \in LivePtr :
           Elements(wr, k) = IF c \in Reach(heap, {k})
                             THEN [E(k) EXCEPT ![Len(E(k)) - Len(E(c)) + i] = frame.value]
                             ELSE E(k)
  <2> HIDE DEF i
  <2> QED BY <1>2, <1>3, <1>7, WriteElements
<1> HIDE DEF wr
<1> DEFINE new == [E(repr[h]) EXCEPT ![Len(E(repr[h])) - Len(E(c)) + i] = frame.value]
<1>10. Promised = Abstract!Returns(h, new)
  <2>1. Len(E(repr[h])) - Len(E(c)) + frame.index + 1 = Len(E(repr[h])) - Len(E(c)) + i
    <3>1. Len(E(repr[h])) \in Nat /\ Len(E(c)) \in Nat
      BY <1>2, <1>3, <1>8 DEF LivePtr
    <3> QED BY <1>1, <3>1
  <2>2. ~ (frame.index >= Len(E(c)))
    <3>1. Len(E(c)) \in Nat
      BY <1>3, <1>8 DEF LivePtr
    <3> HIDE DEF E
    <3> QED BY <1>1, <1>8, <3>1
  <2> QED BY <1>6, <2>1, <2>2 DEF SetPromise
<1>11. Stacks' = [Stacks EXCEPT ![h] = new]
  <2>1. \A g \in Handle : Elements(wr, repr[g]) = IF g = h THEN new ELSE E(repr[g])
    BY <1>2, <1>5, <1>9
  <2> HIDE DEF new, h
  <2> QED BY <1>4, <2>1 DEF Stacks, Contents
<1>12. Promised' = Abstract!Idle
  BY <1>4, PromiseIdle
<1>13. ValueInv'
  BY <1>4, <1>9 DEF ValueInv, PopChain, SetPath, Idle
<1> HIDE DEF new, h
<1>14. Promised.fn = "return" /\ Promised.object = h /\ Promised.result = new
  BY <1>10 DEF Abstract!Returns
<1> QED BY <1>11, <1>12, <1>13, <1>14 DEF Abstract!Return, Stacks

\* set throws exactly when it was called with an index out of range (SetThrow).
LEMMA SetThrows ==
  ASSUME TypeOK, ValueInv, SetThrow
  PROVE  ValueInv' /\ Abstract!Throw
<1>1. frame \in [fn : {"set"}, h : Handle, at : LivePtr, index : Nat, value : Value]
  BY FrameFields DEF TypeOK, SetThrow
<1>2. heap' = heap /\ repr' = repr /\ frame' = Idle
  BY DEF SetThrow
<1>3. Elements(heap, Current) = <<>>
  BY Unfold, TypeParts DEF ValueInv, SetThrow
<1>4. Promised = Abstract!Throws
  <2>1. frame.index >= Len(<<>>)
    BY <1>1
  <2> QED BY <1>1, <1>3, <2>1, PromiseSet DEF SetPromise
<1>5. Promised' = Abstract!Idle /\ Stacks' = Stacks
  BY <1>2, PromiseIdle DEF Stacks, Contents
<1>6. ValueInv'
  BY <1>2 DEF ValueInv, PopChain, SetPath, Idle
<1> QED BY <1>4, <1>5, <1>6 DEF Abstract!Throw, Stacks

(***************************************************************************)
(* The calls of the client.                                                *)
(***************************************************************************)

\* Copying an object copies its contents (Copy).
LEMMA CopyCopies ==
  ASSUME TypeOK, ValueInv, NEW src \in Handle, NEW dst \in Handle, Copy(src, dst)
  PROVE  ValueInv' /\ Abstract!Copy(src, dst)
<1>1. HeapOK(heap) /\ Readable(heap) /\ repr \in [Handle -> Live(heap)]
  BY TypeParts DEF ValueInv, Live, LivePtr
<1>2. Return(heap, dst, repr[src]) /\ frame = Idle
  BY DEF Copy
<1>3. repr[src] \in Live(heap)
  BY <1>1
<1>4. ValueInv' /\ Stacks' = [Stacks EXCEPT ![dst] = Elements(heap, repr[src])]
  BY <1>1, <1>2, <1>3, ReturnAssigns DEF Contents
<1>5. Promised = Abstract!Idle /\ Promised' = Abstract!Idle
  BY <1>2, PromiseIdle DEF Return
<1>6. Elements(heap, repr[src]) = Stacks[src]
  BY DEF Stacks, Contents
<1> QED BY <1>4, <1>5, <1>6 DEF Abstract!Copy, Stacks

\* Clearing an object empties it (Clear).
LEMMA ClearClears ==
  ASSUME TypeOK, ValueInv, NEW h \in Handle, Clear(h)
  PROVE  ValueInv' /\ Abstract!Clear(h)
<1>1. HeapOK(heap) /\ Readable(heap) /\ repr \in [Handle -> Live(heap)] /\ NULL \in Live(heap)
  BY TypeParts DEF ValueInv, Live, LivePtr
<1>2. Return(heap, h, NULL) /\ frame = Idle
  BY DEF Clear
<1>3. ValueInv' /\ Stacks' = [Stacks EXCEPT ![h] = Elements(heap, NULL)]
  BY <1>1, <1>2, ReturnAssigns DEF Contents
<1>4. Promised = Abstract!Idle /\ Promised' = Abstract!Idle
  BY <1>2, PromiseIdle DEF Return
<1>5. Elements(heap, NULL) = <<>>
  BY <1>1, Unfold
<1> QED BY <1>3, <1>4, <1>5 DEF Abstract!Clear, Stacks

\* push promises its argument on top of the stack it is called on (PushCall).
LEMMA PushPromises ==
  ASSUME TypeOK, ValueInv, NEW src \in Handle, NEW v \in Value, NEW dst \in Handle,
         PushCall(src, v, dst)
  PROVE  ValueInv' /\ Abstract!Push(src, v, dst)
<1>1. /\ frame = Idle /\ heap' = heap /\ repr' = repr
      /\ frame'.fn = "push" /\ frame'.dst = dst /\ frame'.items = <<v>>
      /\ frame'.next = repr[src]
  BY DEF PushCall
<1>2. ValueInv'
  BY <1>1 DEF ValueInv, PopChain, SetPath
<1>3. Promised = Abstract!Idle
  BY <1>1, PromiseIdle
<1>4. Promised' = Abstract!Returns(dst, <<v>> \o Stacks[src])
  BY <1>1, PromisePush DEF Stacks, Contents
<1>5. Stacks' = Stacks
  BY <1>1 DEF Stacks, Contents
<1> QED BY <1>2, <1>3, <1>4, <1>5 DEF Abstract!Push, Abstract!Start, Stacks

\* pop promises the stack it is called on without its top (PopCall).
LEMMA PopPromises ==
  ASSUME TypeOK, ValueInv, NEW src \in Handle, NEW dst \in Handle, PopCall(src, dst)
  PROVE  ValueInv' /\ Abstract!Pop(src, dst)
<1> DEFINE n == repr[src]
           items == heap[n].items
           below == Elements(heap, heap[n].next)
<1>1. /\ frame = Idle /\ n # NULL /\ heap' = heap /\ repr' = repr
      /\ frame'.fn = "pop" /\ frame'.dst = dst /\ frame'.rest = Tail(items)
      /\ frame'.first = NULL /\ frame'.last = NULL /\ frame'.next = heap[n].next
  BY DEF PopCall
<1>2. ValueInv'
  BY <1>1 DEF ValueInv, PopChain, SetPath
<1>3. Promised = Abstract!Idle
  BY <1>1, PromiseIdle
<1>4. HeapOK(heap) /\ Readable(heap) /\ n \in DOMAIN heap
  BY <1>1, TypeParts DEF ValueInv, LivePtr, TypeOK
<1>5. /\ Elements(heap, NULL) = <<>> /\ Elements(heap, n) = items \o below
      /\ items \in Seq(Value) /\ items # <<>> /\ below \in Seq(Value)
  <2> HIDE DEF n
  <2>1. heap[n].next \in Live(heap) /\ items \in Seq(Value) \ {<<>>}
        /\ Elements(heap, n) = items \o below
    BY <1>4, Unfold
  <2> QED BY <1>4, <2>1, Unfold
<1>6. Promised' = Abstract!Returns(dst, (<<>> \o Tail(items)) \o below)
  BY <1>1, <1>5, PromisePop
<1>7. Stacks[src] = Elements(heap, n) /\ Stacks' = Stacks
  BY <1>1 DEF Stacks, Contents
<1> HIDE DEF n, items, below
<1>8. /\ <<>> \o Tail(items) = Tail(items) /\ Tail(items \o below) = Tail(items) \o below
      /\ items \o below # <<>>
  <2>1. Tail(items) \in Seq(Value)
    BY <1>5, HeadTailProperties
  <2> QED BY <1>5, <2>1, ConcatEmptySeq, TailConcat
<1>9. Stacks[src] # <<>> /\ Promised' = Abstract!Returns(dst, Tail(Stacks[src]))
  BY <1>5, <1>6, <1>7, <1>8
<1> QED BY <1>2, <1>3, <1>7, <1>9 DEF Abstract!Pop, Abstract!Start, Stacks

\* set promises to change the element at its index, or to throw when there is
\* none (SetCall).
LEMMA SetPromises ==
  ASSUME TypeOK, ValueInv, NEW h \in Handle, NEW index \in 0 .. MaxLen, NEW v \in Value,
         SetCall(h, index, v)
  PROVE  /\ ValueInv'
         /\ IF index < Len(Stacks[h]) THEN Abstract!Set(h, index, v)
            ELSE Abstract!SetOutOfRange
<1>1. /\ frame = Idle /\ heap' = heap /\ repr' = repr
      /\ frame'.fn = "set" /\ frame'.h = h /\ frame'.at = NULL
      /\ frame'.index = index /\ frame'.value = v
  BY DEF SetCall
<1>2. ValueInv'
  BY <1>1 DEF ValueInv, PopChain, SetPath
<1>3. Promised = Abstract!Idle
  BY <1>1, PromiseIdle
<1> DEFINE old == Stacks[h]
<1>4. Stacks' = Stacks /\ old = Elements(heap, repr[h])
  BY <1>1 DEF Stacks, Contents
<1>5. old \in Seq(Value) /\ index \in Nat
  <2>1. HeapOK(heap) /\ Readable(heap) /\ repr[h] \in Live(heap)
    BY TypeParts DEF ValueInv, Live, LivePtr
  <2>2. old \in Seq(Value)
    BY <1>4, <2>1, Unfold
  <2> QED BY <2>2, MaxLenAssumption
<1>6. Promised' = SetPromise(h, old, old, index, v)
  BY <1>1, <1>4, PromiseSet DEF Current
<1> HIDE DEF old
<1>7. Len(old) \in Nat
  BY <1>5, LenProperties
<1>8. Len(old) - Len(old) + index + 1 = index + 1
  BY <1>5, <1>7
<1>9. CASE index < Len(old)
  <2>1. Promised' = Abstract!Returns(h, [old EXCEPT ![index + 1] = v])
    BY <1>5, <1>6, <1>7, <1>8, <1>9 DEF SetPromise
  <2> QED BY <1>2, <1>3, <1>4, <1>9, <2>1 DEF Abstract!Set, Abstract!Start, Stacks, old
<1>10. CASE ~ (index < Len(old))
  <2>1. Promised' = Abstract!Throws
    BY <1>5, <1>6, <1>7, <1>10 DEF SetPromise
  <2> QED BY <1>2, <1>3, <1>4, <1>10, <2>1 DEF Abstract!SetOutOfRange, Abstract!Start, Stacks, old
<1> QED BY <1>9, <1>10

(***************************************************************************)
(* The refinement.                                                         *)
(***************************************************************************)

\* Every step of a call or of the client is one of the abstract specification,
\* or changes nothing it knows of, and keeps the invariant.
LEMMA StepsMap ==
  TypeOK /\ OwnsPath /\ ValueInv /\ [Next]_vars =>
    ValueInv' /\ [Abstract!Next]_<<Stacks, Promised>>
<1> SUFFICES ASSUME TypeOK, OwnsPath, ValueInv, [Next]_vars
             PROVE  ValueInv' /\ (Abstract!Next \/ UNCHANGED <<Stacks, Promised>>)
  OBVIOUS
<1>1. ASSUME NEW src \in Handle, NEW dst \in Handle, Copy(src, dst)
      PROVE  ValueInv' /\ Abstract!Next
  BY <1>1, CopyCopies DEF Abstract!Next
<1>2. ASSUME NEW h \in Handle, Clear(h) PROVE ValueInv' /\ Abstract!Next
  BY <1>2, ClearClears DEF Abstract!Next
<1>3. ASSUME NEW src \in Handle, NEW v \in Value, NEW dst \in Handle, PushCall(src, v, dst)
      PROVE  ValueInv' /\ Abstract!Next
  BY <1>3, PushPromises DEF Abstract!Next
<1>4. ASSUME NEW src \in Handle, NEW dst \in Handle, PopCall(src, dst)
      PROVE  ValueInv' /\ Abstract!Next
  BY <1>4, PopPromises DEF Abstract!Next
<1>5. ASSUME NEW h \in Handle, NEW index \in 0 .. MaxLen, NEW v \in Value,
             SetCall(h, index, v)
      PROVE  ValueInv' /\ Abstract!Next
  <2>1. /\ ValueInv'
        /\ IF index < Len(Stacks[h]) THEN Abstract!Set(h, index, v)
           ELSE Abstract!SetOutOfRange
    BY <1>5, SetPromises
  <2>2. CASE index < Len(Stacks[h])
    <3>1. Stacks[h] \in Seq(Value)
      BY TypeParts, Unfold DEF ValueInv, Stacks, Contents, Live, LivePtr
    <3>2. index \in 0 .. Len(Stacks[h]) - 1
      BY <2>2, <3>1, LenProperties, MaxLenAssumption
    <3> QED BY <2>1, <2>2, <3>2 DEF Abstract!Next, Stacks
  <2>3. CASE ~ (index < Len(Stacks[h]))
    BY <2>1, <2>3 DEF Abstract!Next
  <2> QED BY <2>2, <2>3
<1>6. CASE Call
  BY <1>1, <1>2, <1>3, <1>4, <1>5, <1>6 DEF Call
<1>7. CASE PushMerge BY <1>7, PushMergeKeeps
<1>8. CASE PopShift BY <1>8, PopShiftKeeps
<1>9. CASE PopSplit BY <1>9, PopSplitKeeps
<1>10. CASE SetUnshare BY <1>10, SetUnshareKeeps
<1>11. CASE SetAdvance BY <1>11, SetAdvanceKeeps
<1>12. CASE PushReturn BY <1>12, PushReturns DEF Abstract!Next
<1>13. CASE PopReturn BY <1>13, PopReturns DEF Abstract!Next
<1>14. CASE SetWrite BY <1>14, SetReturns DEF Abstract!Next
<1>15. CASE SetThrow BY <1>15, SetThrows DEF Abstract!Next
<1>16. CASE UNCHANGED vars
  <2>1. ValueInv'
    BY <1>16 DEF vars, ValueInv, PopChain, SetPath
  <2>2. UNCHANGED <<Stacks, Promised>>
    BY <1>16 DEF vars, Stacks, Promised, Contents, OutOfRange, Outcome, Current
  <2> QED BY <2>1, <2>2
<1> QED BY <1>6, <1>7, <1>8, <1>9, <1>10, <1>11, <1>12, <1>13, <1>14, <1>15, <1>16
        DEF Next, Step

\* Before the first call all objects are empty and nothing is promised.
LEMMA InitMaps == Init => ValueInv /\ Abstract!Init
<1> SUFFICES ASSUME Init PROVE ValueInv /\ Abstract!Init
  OBVIOUS
<1>1. heap = [n \in {} |-> NULL] /\ repr = [h \in Handle |-> NULL] /\ frame = Idle
  BY DEF Init
<1>2. HeapOK(heap)
  BY <1>1 DEF HeapOK
<1> DEFINE f == [n \in Live(heap) |-> <<>>]
<1>3. Readable(heap) /\ \A n \in Live(heap) : Elements(heap, n) = f[n]
  <2>1. f \in [Live(heap) -> Seq(Value)] /\ f[NULL] = <<>> /\ DOMAIN heap = {}
    BY <1>1 DEF Live
  <2> HIDE DEF f
  <2> QED BY <1>2, <2>1, Fold
<1>4. ValueInv
  BY <1>1, <1>3 DEF ValueInv, PopChain, SetPath, Idle
<1>5. Stacks = [h \in Handle |-> <<>>]
  BY <1>1, <1>3 DEF Stacks, Contents, Live
<1>6. Promised = Abstract!Idle
  BY <1>1, PromiseIdle
<1> QED BY <1>4, <1>5, <1>6 DEF Abstract!Init, Stacks

\* No chain ever runs into itself, the blocks pop has linked are a chain apart
\* from the rest of the stack, and set is on the chain of its object, in every
\* state between two iterations.
THEOREM ChainsAreReadable == Spec => []ValueInv
<1>1. Init => ValueInv
  BY InitMaps
<1>2. TypeOK /\ OwnsPath /\ ValueInv /\ [Next]_vars => ValueInv'
  BY StepsMap
<1> QED BY <1>1, <1>2, TypeCorrect, PathOwned, PTL DEF Spec

\* lazy_stack objects behave as values: what a call will make of its object is
\* settled by its arguments when it starts, no step of it can be seen until it
\* returns, it changes no other object, and set throws if and only if its index
\* was out of range.
THEOREM Refinement == Spec => BehavesAsValues
<1>1. Init => Abstract!Init
  BY InitMaps
<1>2. TypeOK /\ OwnsPath /\ ValueInv /\ [Next]_vars =>
        [Abstract!Next]_<<[h \in Handle |-> Contents(h)], Promised>>
  BY StepsMap DEF Stacks
<1> QED BY <1>1, <1>2, TypeCorrect, PathOwned, ChainsAreReadable, PTL
        DEF Spec, BehavesAsValues, Abstract!Spec

\* Each call of a client is the abstract call of the same name with the same
\* arguments (push, pop, set, the copy operations and the destructor).
CallsAreHonoured ==
  [][/\ \A src, dst \in Handle : /\ Copy(src, dst) => Abstract!Copy(src, dst)
                                /\ PopCall(src, dst) => Abstract!Pop(src, dst)
     /\ \A src, dst \in Handle, v \in Value :
          PushCall(src, v, dst) => Abstract!Push(src, v, dst)
     /\ \A h \in Handle : Clear(h) => Abstract!Clear(h)
     /\ \A h \in Handle, index \in 0 .. MaxLen, v \in Value :
          SetCall(h, index, v) => IF index < Len(Contents(h)) THEN Abstract!Set(h, index, v)
                                  ELSE Abstract!SetOutOfRange]_vars

\* What is promised is what the client has asked for: the refinement maps each
\* call to the abstract call with its own arguments.
THEOREM CallsHonoured == Spec => CallsAreHonoured
<1> DEFINE Honoured ==
      /\ \A src, dst \in Handle : /\ Copy(src, dst) => Abstract!Copy(src, dst)
                                 /\ PopCall(src, dst) => Abstract!Pop(src, dst)
      /\ \A src, dst \in Handle, v \in Value :
           PushCall(src, v, dst) => Abstract!Push(src, v, dst)
      /\ \A h \in Handle : Clear(h) => Abstract!Clear(h)
      /\ \A h \in Handle, index \in 0 .. MaxLen, v \in Value :
           SetCall(h, index, v) => IF index < Len(Contents(h)) THEN Abstract!Set(h, index, v)
                                   ELSE Abstract!SetOutOfRange
<1>1. ASSUME TypeOK, ValueInv PROVE Honoured
  <2>1. ASSUME NEW src \in Handle, NEW dst \in Handle
        PROVE  /\ Copy(src, dst) => Abstract!Copy(src, dst)
               /\ PopCall(src, dst) => Abstract!Pop(src, dst)
    BY <1>1, CopyCopies, PopPromises
  <2>2. ASSUME NEW src \in Handle, NEW dst \in Handle, NEW v \in Value
        PROVE  PushCall(src, v, dst) => Abstract!Push(src, v, dst)
    BY <1>1, PushPromises
  <2>3. ASSUME NEW h \in Handle PROVE Clear(h) => Abstract!Clear(h)
    BY <1>1, ClearClears
  <2>4. ASSUME NEW h \in Handle, NEW index \in 0 .. MaxLen, NEW v \in Value,
               SetCall(h, index, v)
        PROVE  IF index < Len(Contents(h)) THEN Abstract!Set(h, index, v)
               ELSE Abstract!SetOutOfRange
    <3>1. Stacks[h] = Contents(h)
      BY DEF Stacks
    <3> QED BY <1>1, <2>4, <3>1, SetPromises
  <2> QED BY <2>1, <2>2, <2>3, <2>4
<1>2. TypeOK /\ ValueInv /\ [Next]_vars => [Honoured]_vars
  BY <1>1
<1> QED BY <1>2, TypeCorrect, ChainsAreReadable, PTL DEF Spec, CallsAreHonoured

(***************************************************************************)
(* The loops stop.  The variant: push and set have the elements further    *)
(* down the chain before them, and set visits a node twice when it has to  *)
(* copy it first.  pop either takes items from the rest or doubles pow,    *)
(* which never exceeds the rest.                                           *)
(***************************************************************************)
StepsLeft ==
  CASE frame.fn = "idle" -> 0
    [] frame.fn = "push" -> 1 + Len(Elements(heap, frame.next))
    [] frame.fn = "pop" ->
         1 + (IF frame.rest = <<>> THEN 0 ELSE 2 * Len(frame.rest) - frame.pow)
    [] frame.fn = "set" ->
         1 + 2 * Len(Elements(heap, Current)) + (IF UseCount(Current) = 1 THEN 0 ELSE 1)

\* No call has no steps left (StepsLeft).
LEMMA StepsIdle == frame' = Idle => StepsLeft' = 0
BY DEF StepsLeft, Idle

\* push may merge as many blocks as there are elements (StepsLeft).
LEMMA StepsPush ==
  /\ frame.fn = "push" => StepsLeft = 1 + Len(Elements(heap, frame.next))
  /\ frame'.fn = "push" => StepsLeft' = 1 + Len(Elements(heap', frame'.next))
BY DEF StepsLeft

\* pop may look at every bit and split off every item (StepsLeft).
LEMMA StepsPop ==
  /\ frame.fn = "pop" =>
       StepsLeft = 1 + (IF frame.rest = <<>> THEN 0 ELSE 2 * Len(frame.rest) - frame.pow)
  /\ frame'.fn = "pop" =>
       StepsLeft' = 1 + (IF frame'.rest = <<>> THEN 0
                         ELSE 2 * Len(frame'.rest) - frame'.pow)
BY DEF StepsLeft

\* set may copy and pass every node that is left (StepsLeft).
LEMMA StepsSet ==
  /\ frame.fn = "set" =>
       StepsLeft = 1 + 2 * Len(Elements(heap, Current))
                     + (IF UseCount(Current) = 1 THEN 0 ELSE 1)
  /\ frame'.fn = "set" =>
       StepsLeft' = 1 + 2 * Len(Elements(heap', Current'))
                      + (IF UseCount(Current)' = 1 THEN 0 ELSE 1)
BY DEF StepsLeft

\* The number of elements on a chain (Elements).
LEMMA ElementsLength ==
  ASSUME TypeOK, ValueInv
  PROVE  /\ \A n \in LivePtr : Len(Elements(heap, n)) \in Nat
         /\ \A n \in DOMAIN heap : /\ heap[n].next \in LivePtr
                                  /\ Len(heap[n].items) \in Nat \ {0}
                                  /\ Len(Elements(heap, n))
                                       = Len(heap[n].items) + Len(Elements(heap, heap[n].next))
<1>1. /\ \A n \in LivePtr : Elements(heap, n) \in Seq(Value)
      /\ \A n \in DOMAIN heap :
           /\ heap[n].next \in LivePtr /\ heap[n].items \in Seq(Value) \ {<<>>}
           /\ Elements(heap, n) = heap[n].items \o Elements(heap, heap[n].next)
  BY TypeParts, Unfold DEF ValueInv, Live, LivePtr
<1>2. \A n \in LivePtr : Len(Elements(heap, n)) \in Nat
  BY <1>1, LenProperties
<1>3. ASSUME NEW n \in DOMAIN heap
      PROVE  /\ Len(heap[n].items) \in Nat \ {0}
             /\ Len(Elements(heap, n))
                  = Len(heap[n].items) + Len(Elements(heap, heap[n].next))
  <2> DEFINE items == heap[n].items
             below == Elements(heap, heap[n].next)
             whole == Elements(heap, n)
  <2>1. /\ items \in Seq(Value) /\ items # <<>> /\ below \in Seq(Value)
        /\ whole = items \o below
    BY <1>1
  <2> HIDE DEF items, below, whole
  <2>2. /\ Len(items) \in Nat \ {0} /\ Len(whole) = Len(items) + Len(below)
    BY <2>1, LenProperties, EmptySeq, ConcatProperties
  <2> QED BY <2>2 DEF items, below, whole
<1> QED BY <1>1, <1>2, <1>3

\* As long as pop has items left, pow does not exceed their number (PopShape).
LEMMA PowFits ==
  ASSUME TypeOK, ShapeInv, frame.fn = "pop"
  PROVE  /\ frame.rest \in Seq(Value) /\ Len(frame.rest) \in Nat /\ frame.pow \in Nat \ {0}
         /\ frame.rest # <<>> => frame.pow \in 1 .. Len(frame.rest)
<1>1. frame \in [fn : {"pop"}, dst : Handle, rest : Seq(Value), pow : Nat \ {0},
                 first : LivePtr, last : LivePtr, next : LivePtr]
  BY FrameFields DEF TypeOK
<1>2. Len(frame.rest) % frame.pow = 0
  BY DEF ShapeInv, PopShape
<1>3. /\ Len(frame.rest) \in Nat /\ frame.pow \in Nat \ {0}
      /\ frame.rest # <<>> => Len(frame.rest) # 0
  BY <1>1, LenProperties, EmptySeq
<1>4. \A len \in Nat \ {0} : \A pow \in Nat \ {0} : len % pow = 0 => pow \in 1 .. len
  <2>1. \A len \in Nat \ {0} : \A pow \in Nat \ {0} : len < pow => len % pow = len
    OBVIOUS
  <2> QED BY <2>1
<1> QED BY <1>1, <1>2, <1>3, <1>4

\* A copy that set has just made has one pointer to it (UseCount, make_shared).
LEMMA CopyIsUnshared ==
  ASSUME TypeOK, SetUnshare
  PROVE  UseCount(Current)' = 1
<1>1. frame \in [fn : {"set"}, h : Handle, at : LivePtr, index : Nat, value : Value]
  BY FrameFields DEF TypeOK, SetUnshare
<1> DEFINE c == Current
           h == frame.h
           at == frame.at
<1>2. /\ repr \in [Handle -> LivePtr] /\ \A m \in DOMAIN heap : heap[m].next \in LivePtr
      /\ HeapOK(heap) /\ NULL \notin Node /\ h \in Handle
  BY <1>1, TypeParts, NullAssumption DEF HeapOK, Live, LivePtr
<1>3. c \in DOMAIN heap
  BY CurrentLive DEF SetUnshare, LivePtr
<1>4. PICK n \in Node \ DOMAIN heap :
        IF at = NULL
        THEN repr' = [repr EXCEPT ![h] = n] /\ heap' = Alloc(n, heap[c].items, heap[c].next)
        ELSE heap' = Link(Alloc(n, heap[c].items, heap[c].next), at, n) /\ repr' = repr
  BY DEF SetUnshare
<1>5. frame' = frame /\ n \notin LivePtr
  BY <1>2 DEF SetUnshare, LivePtr
<1> DEFINE hp == Alloc(n, heap[c].items, heap[c].next)
<1>6. /\ DOMAIN hp = DOMAIN heap \cup {n} /\ HeapOK(hp) /\ hp[n].next \in LivePtr
      /\ \A m \in DOMAIN heap : hp[m] = heap[m]
  <2>1. heap[c].items \in Seq(Value) \ {<<>>} /\ heap[c].next \in LivePtr
    <3> HIDE DEF c
    <3> QED BY <1>2, <1>3 DEF HeapOK
  <2>2. hp[n].next \in LivePtr /\ \A m \in DOMAIN heap : hp[m] = heap[m]
    <3> HIDE DEF c
    <3> QED BY <2>1 DEF Alloc
  <2> HIDE DEF c
  <2> QED BY <1>2, <2>1, <2>2, AllocOK
<1> HIDE DEF hp, c
<1> DEFINE A == {g \in Handle : repr'[g] = n}
           B == {m \in DOMAIN heap' : heap'[m].next = n}
<1>7. CASE at = NULL
  <2>1. repr' = [repr EXCEPT ![h] = n] /\ heap' = hp
    BY <1>4, <1>7 DEF hp
  <2>2. Current' = n
    BY <1>2, <1>5, <1>7, <2>1 DEF Current
  <2>3. A = {h}
    BY <1>2, <1>5, <2>1
  <2>4. B = {}
    BY <1>2, <1>5, <1>6, <2>1
  <2>5. Cardinality(A) = 1 /\ Cardinality(B) = 0
    BY <2>3, <2>4, FS_Singleton, FS_EmptySet
  <2> QED BY <2>2, <2>5 DEF UseCount
<1>8. CASE at # NULL
  <2>1. repr' = repr /\ heap' = Link(hp, at, n) /\ at \in DOMAIN heap
    BY <1>1, <1>4, <1>8 DEF hp, LivePtr
  <2>2. /\ DOMAIN heap' = DOMAIN hp
        /\ \A m \in DOMAIN hp : heap'[m].next = IF m = at THEN n ELSE hp[m].next
    BY <1>6, <2>1 DEF Link, HeapOK
  <2>3. Current' = n
    BY <1>5, <1>6, <1>8, <2>1, <2>2 DEF Current
  <2>4. A = {}
    BY <1>2, <1>5, <2>1
  <2>5. B = {at}
    BY <1>2, <1>5, <1>6, <2>1, <2>2
  <2>6. Cardinality(A) = 0 /\ Cardinality(B) = 1
    BY <2>4, <2>5, FS_Singleton, FS_EmptySet
  <2> QED BY <2>3, <2>6 DEF UseCount
<1> QED BY <1>7, <1>8

\* The number of steps a call has left is a natural number (StepsLeft).
LEMMA StepsAreNatural == TypeOK /\ ShapeInv /\ ValueInv => StepsLeft \in Nat
<1> SUFFICES ASSUME TypeOK, ShapeInv, ValueInv PROVE StepsLeft \in Nat
  OBVIOUS
<1>1. CASE frame = Idle
  BY <1>1 DEF StepsLeft, Idle
<1>2. CASE frame.fn = "push"
  <2>1. frame.next \in LivePtr
    BY <1>2, FrameFields DEF TypeOK
  <2>2. Len(Elements(heap, frame.next)) \in Nat
    BY <2>1, ElementsLength
  <2> QED BY <1>2, <2>2, StepsPush
<1>3. CASE frame.fn = "pop"
  <2>1. /\ Len(frame.rest) \in Nat /\ frame.pow \in Nat \ {0}
        /\ frame.rest # <<>> => frame.pow \in 1 .. Len(frame.rest)
    BY <1>3, PowFits
  <2> QED BY <1>3, <2>1, StepsPop
<1>4. CASE frame.fn = "set"
  <2>1. Len(Elements(heap, Current)) \in Nat
    BY <1>4, CurrentLive, ElementsLength
  <2> QED BY <1>4, <2>1, StepsSet
<1> QED BY <1>1, <1>2, <1>3, <1>4 DEF TypeOK, Frame

\* Every step of a loop leaves fewer steps to be taken.
LEMMA StepsDecrease ==
  TypeOK /\ ShapeInv /\ ValueInv /\ Step => StepsLeft' < StepsLeft
<1> SUFFICES ASSUME TypeOK, ShapeInv, ValueInv, Step PROVE StepsLeft' < StepsLeft
  OBVIOUS
<1>1. ASSUME frame' = Idle, StepsLeft > 0 PROVE StepsLeft' < StepsLeft
  BY <1>1, StepsIdle
<1>2. ASSUME frame.fn = "push" PROVE frame.next \in LivePtr /\ StepsLeft > 0
  <2>1. frame.next \in LivePtr
    BY <1>2, FrameFields DEF TypeOK
  <2>2. Len(Elements(heap, frame.next)) \in Nat
    BY <2>1, ElementsLength
  <2> QED BY <1>2, <2>1, <2>2, StepsPush
<1>3. ASSUME frame.fn = "pop" PROVE StepsLeft > 0
  <2>1. /\ Len(frame.rest) \in Nat /\ frame.pow \in Nat \ {0}
        /\ frame.rest # <<>> => frame.pow \in 1 .. Len(frame.rest)
    BY <1>3, PowFits
  <2> QED BY <1>3, <2>1, StepsPop
<1>4. ASSUME frame.fn = "set"
      PROVE Len(Elements(heap, Current)) \in Nat /\ StepsLeft > 0
  <2>1. Len(Elements(heap, Current)) \in Nat
    BY <1>4, CurrentLive, ElementsLength
  <2> QED BY <1>4, <2>1, StepsSet
<1>5. CASE PushMerge
  <2> DEFINE n == frame.next
             m == heap[n].next
  <2>1. frame.fn = "push" /\ n \in DOMAIN heap
    BY <1>2, <1>5 DEF PushMerge, Carry, LivePtr
  <2>2. frame'.fn = "push" /\ frame'.next = m /\ heap' = heap
    BY <1>5, <2>1, FrameFields DEF PushMerge, TypeOK
  <2>3. /\ Len(Elements(heap, n)) = Len(heap[n].items) + Len(Elements(heap, m))
        /\ Len(heap[n].items) \in Nat \ {0} /\ Len(Elements(heap, m)) \in Nat
    <3> HIDE DEF n
    <3> QED BY <2>1, ElementsLength
  <2> HIDE DEF m
  <2> QED BY <2>1, <2>2, <2>3, StepsPush
<1>6. CASE PushReturn
  BY <1>1, <1>2, <1>6 DEF PushReturn, Return
<1>7. CASE PopShift
  <2>1. /\ frame.fn = "pop" /\ frame.rest # <<>> /\ frame'.fn = "pop"
        /\ frame'.rest = frame.rest /\ frame'.pow = 2 * frame.pow
    BY <1>7, FrameFields DEF PopShift, TypeOK
  <2>2. Len(frame.rest) \in Nat /\ frame.pow \in 1 .. Len(frame.rest)
    BY <2>1, PowFits
  <2> QED BY <2>1, <2>2, StepsPop
<1>8. CASE PopSplit
  <2> DEFINE rest == SubSeq(frame.rest, frame.pow + 1, Len(frame.rest))
  <2>1. frame \in [fn : {"pop"}, dst : Handle, rest : Seq(Value), pow : Nat \ {0},
                   first : LivePtr, last : LivePtr, next : LivePtr]
    BY <1>8, FrameFields DEF PopSplit, TypeOK
  <2>2. /\ frame.fn = "pop" /\ frame.rest # <<>> /\ frame'.fn = "pop"
        /\ frame'.rest = rest /\ frame'.pow = frame.pow
    BY <1>8, <2>1 DEF PopSplit
  <2>3. Len(frame.rest) \in Nat /\ frame.pow \in 1 .. Len(frame.rest)
    BY <2>2, PowFits
  <2>4. Len(rest) = Len(frame.rest) - frame.pow
    BY <2>1, <2>3
  <2> HIDE DEF rest
  <2> QED BY <2>2, <2>3, <2>4, StepsPop
<1>9. CASE PopReturn
  BY <1>1, <1>3, <1>9 DEF PopReturn, Return
<1>10. CASE SetUnshare
  <2>1. frame.fn = "set" /\ UseCount(Current) # 1 /\ frame' = frame
    BY <1>10 DEF SetUnshare
  <2>2. Len(Elements(heap', Current')) = Len(Elements(heap, Current))
    BY <1>10, SetUnshareKeeps
  <2> QED BY <1>4, <1>10, <2>1, <2>2, CopyIsUnshared, StepsSet
<1>11. CASE SetAdvance
  <2> DEFINE c == Current
             m == heap[c].next
  <2>1. frame.fn = "set" /\ UseCount(c) = 1 /\ c \in DOMAIN heap /\ c # NULL
    BY <1>11, CurrentLive DEF SetAdvance, LivePtr
  <2>2. frame'.fn = "set" /\ frame'.at = c /\ heap' = heap /\ Current' = m
    <3>1. frame'.fn = "set" /\ frame'.at = c /\ heap' = heap
      BY <1>11, FrameFields DEF SetAdvance, TypeOK
    <3> HIDE DEF c
    <3> QED BY <2>1, <3>1 DEF Current
  <2>3. /\ Len(Elements(heap, c)) = Len(heap[c].items) + Len(Elements(heap, m))
        /\ Len(heap[c].items) \in Nat \ {0} /\ Len(Elements(heap, m)) \in Nat
    <3> HIDE DEF c
    <3> QED BY <2>1, ElementsLength
  <2>4. StepsLeft = 1 + 2 * Len(Elements(heap, c))
    BY <1>4, <2>1, StepsSet
  <2>5. StepsLeft' = 1 + 2 * Len(Elements(heap, m)) + (IF UseCount(Current)' = 1 THEN 0 ELSE 1)
    BY <2>2, StepsSet
  <2> HIDE DEF c, m
  <2> QED BY <2>3, <2>4, <2>5
<1>12. CASE SetWrite \/ SetThrow
  BY <1>1, <1>4, <1>12 DEF SetWrite, SetThrow
<1> QED BY <1>5, <1>6, <1>7, <1>8, <1>9, <1>10, <1>11, <1>12 DEF Step

\* Whatever a call still has to do is bounded by a number that each step of its
\* loops lowers, so none of them runs for ever (the loops of push, pop and set;
\* the inner loop of pop is the one that BinaryCounter keeps from overrunning).
CallsProgress == [][(Step => StepsLeft' < StepsLeft) /\ StepsLeft \in Nat]_vars

\* No loop of push, pop and set runs for ever: each step of a call lowers the number of
\* those it has left.
THEOREM LoopsStop == Spec => CallsProgress
<1>1. TypeOK /\ ShapeInv /\ ValueInv /\ [Next]_vars =>
        [(Step => StepsLeft' < StepsLeft) /\ StepsLeft \in Nat]_vars
  BY StepsAreNatural, StepsDecrease
<1> QED BY <1>1, TypeCorrect, ShapeHolds, ChainsAreReadable, PTL DEF Spec, CallsProgress
=============================================================================
