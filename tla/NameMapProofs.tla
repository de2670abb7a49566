--------------------------- MODULE NameMapProofs ---------------------------
(***************************************************************************)
(* What lazy_stackmap (NameMap) promises the resolver, for any names in    *)
(* any order: the index it gives is that of the innermost binding.  None   *)
(* of it depends on which blocks push merges; in fact it always merges     *)
(* all.                                                                    *)
(***************************************************************************)
EXTENDS NameMap, FiniteSetTheorems, WellFoundedInduction, TLAPS

\* What blocks are, for names from some set: std::unordered_map<T, size_t>.
Blocks(Name) == UNION {[D -> Nat] : D \in SUBSET Name}

(***************************************************************************)
(* The operators.                                                          *)
(***************************************************************************)

\* Some block is the first to know a name that is known (get_index, find).
LEMMA FirstExists ==
  ASSUME NEW S, NEW chain \in Seq(S), NEW key, Knows(chain, key) # {}
  PROVE  \E i \in Knows(chain, key) : \A j \in Knows(chain, key) : i <= j
<1>1. Knows(chain, key) \subseteq Nat
  BY DEF Knows
<1>2. PICK i \in Knows(chain, key) :
        \A j \in Knows(chain, key) : ~(<<j, i>> \in OpToRel(<, Nat))
  BY <1>1, NatLessThanWellFounded, WFMin
<1>3. ASSUME NEW j \in Knows(chain, key), j < i PROVE FALSE
  <2>1. <<j, i>> \in Nat \X Nat
    BY <1>1
  <2>2. <<j, i>> \in OpToRel(<, Nat)
    BY <1>3, <2>1 DEF OpToRel
  <2> QED BY <1>2, <2>2
<1> QED BY <1>1, <1>3

\* The first block that knows a name decides (get_index).
LEMMA FirstDecides ==
  ASSUME NEW S, NEW chain \in Seq(S), NEW key, NEW i \in Knows(chain, key),
         \A j \in Knows(chain, key) : i <= j
  PROVE  Lookup(chain, key) = chain[i][key]
<1> DEFINE K == Knows(chain, key)
           first == CHOOSE k \in K : \A j \in K : k <= j
<1>1. K \subseteq Nat
  BY DEF Knows
<1>2. first \in K /\ \A j \in K : first <= j
  <2> HIDE DEF K
  <2> QED BY Zenon DEF K
<1>3. first = i
  <2> HIDE DEF first, K
  <2>1. i \in K /\ \A j \in K : i <= j
    BY DEF K
  <2> QED BY <1>1, <1>2, <2>1
<1> QED BY <1>3 DEF Lookup

\* Merging the first blocks of a chain does not change what it says of any name:
\* what is inserted never replaces what is there (push, the loop body).
LEMMA MergingKeeps ==
  ASSUME NEW S, NEW chain \in Seq(S), NEW end \in 1 .. Len(chain),
         NEW T, Merged(SubSeq(chain, 1, end)) \in T, S \subseteq T, NEW key
  PROVE  LET new == <<Merged(SubSeq(chain, 1, end))>> \o SubSeq(chain, end + 1, Len(chain))
         IN  /\ Knows(new, key) = {} <=> Knows(chain, key) = {}
             /\ Knows(chain, key) # {} => Lookup(new, key) = Lookup(chain, key)
<1> DEFINE front == SubSeq(chain, 1, end)
           back == SubSeq(chain, end + 1, Len(chain))
           merged == Merged(front)
           new == <<merged>> \o back
<1>1. /\ front \in Seq(S) /\ Len(front) = end
      /\ \A i \in 1 .. end : front[i] = chain[i]
  OBVIOUS
<1>2. /\ back \in Seq(S) /\ Len(back) = Len(chain) - end
      /\ \A i \in 1 .. Len(chain) - end : back[i] = chain[end + i]
  OBVIOUS
<1>3. DOMAIN merged = UNION {DOMAIN front[i] : i \in DOMAIN front}
      /\ (key \in DOMAIN merged => merged[key] = Lookup(front, key))
  BY DEF Merged
<1>4. key \in DOMAIN merged <=> \E i \in 1 .. end : key \in DOMAIN chain[i]
  BY <1>1, <1>3
<1> HIDE DEF front, back, merged
<1>5. /\ new \in Seq(T) /\ Len(new) = 1 + Len(chain) - end
      /\ new[1] = merged
      /\ \A i \in 2 .. Len(new) : new[i] = chain[end + (i - 1)]
  <2>1. back \in Seq(T) /\ <<merged>> \in Seq(T) /\ Len(<<merged>>) = 1
    BY <1>2 DEF merged, front
  <2>2. /\ new \in Seq(T) /\ Len(new) = 1 + Len(back)
        /\ new[1] = merged
        /\ \A i \in 2 .. 1 + Len(back) : new[i] = back[i - 1]
    BY <2>1
  <2> HIDE DEF new
  <2>3. ASSUME NEW i \in 2 .. Len(new) PROVE new[i] = chain[end + (i - 1)]
    <3>1. Len(chain) \in Nat /\ end \in Nat
      OBVIOUS
    <3> DEFINE j == i - 1
    <3>2. j \in 1 .. Len(chain) - end /\ new[i] = back[j]
      BY <1>2, <2>2, <3>1
    <3> HIDE DEF j
    <3>3. back[j] = chain[end + j]
      BY <1>2, <3>2
    <3> QED BY <3>2, <3>3 DEF j
  <2> QED BY <1>2, <2>2, <2>3
<1> HIDE DEF new
<1>6. Len(chain) \in Nat /\ end \in Nat
  OBVIOUS
<1>7. CASE Knows(chain, key) = {}
  <2>1. \A i \in 1 .. Len(chain) : key \notin DOMAIN chain[i]
    BY <1>7 DEF Knows
  <2>2. key \notin DOMAIN new[1]
    BY <1>4, <1>5, <2>1
  <2>3. ASSUME NEW i \in 2 .. Len(new) PROVE key \notin DOMAIN new[i]
    BY <1>6, <1>5, <2>1
  <2>4. Knows(new, key) = {}
    BY <1>5, <2>2, <2>3 DEF Knows
  <2> QED BY <1>7, <2>4 DEF new, back, merged, front
<1>8. CASE Knows(chain, key) # {}
  <2>1. PICK i \in Knows(chain, key) : \A j \in Knows(chain, key) : i <= j
    BY <1>8, FirstExists
  <2>2. /\ i \in 1 .. Len(chain) /\ key \in DOMAIN chain[i]
        /\ \A j \in 1 .. Len(chain) : key \in DOMAIN chain[j] => i <= j
    BY <2>1 DEF Knows
  <2>3. Lookup(chain, key) = chain[i][key]
    BY <2>1, FirstDecides
  <2>4. CASE i <= end
    <3>1. i \in Knows(front, key) /\ \A j \in Knows(front, key) : i <= j
      BY <1>1, <2>2, <2>4 DEF Knows
    <3>2. key \in DOMAIN merged
      BY <1>4, <2>2, <2>4
    <3>3. merged[key] = chain[i][key]
      BY <1>1, <1>3, <2>2, <2>4, <3>1, <3>2, FirstDecides
    <3>4. 1 \in Knows(new, key) /\ \A j \in Knows(new, key) : 1 <= j
      BY <1>5, <3>2 DEF Knows
    <3>5. Lookup(new, key) = new[1][key]
      BY <1>5, <3>4, FirstDecides
    <3> QED BY <1>5, <1>8, <2>3, <3>3, <3>4, <3>5 DEF new, back, merged, front
  <2>5. CASE i > end
    <3> DEFINE k == 1 + (i - end)
    <3>1. k \in 2 .. Len(new) /\ new[k] = chain[i]
      <4>1. k \in 2 .. Len(new) /\ end + (k - 1) = i
        BY <1>6, <1>5, <2>2, <2>5
      <4> HIDE DEF k
      <4> QED BY <1>5, <4>1
    <3>2. key \notin DOMAIN new[1]
      BY <1>4, <1>5, <2>2, <2>5
    <3>3. ASSUME NEW j \in 2 .. Len(new), key \in DOMAIN new[j] PROVE k <= j
      <4>1. Len(new) = 1 + Len(chain) - end
        BY <1>5
      <4>2. end + (j - 1) \in 1 .. Len(chain)
        BY <1>6, <4>1
      <4>3. i <= end + (j - 1)
        BY <1>5, <2>2, <3>3, <4>2
      <4> QED BY <1>6, <2>2, <4>3
    <3> HIDE DEF k
    <3>4. k \in Knows(new, key)
      BY <1>5, <2>2, <3>1 DEF Knows
    <3>5. \A j \in Knows(new, key) : k <= j
      BY <1>5, <3>2, <3>3 DEF Knows
    <3>6. Lookup(new, key) = chain[i][key]
      BY <1>5, <3>1, <3>4, <3>5, FirstDecides
    <3> QED BY <1>8, <2>3, <3>4, <3>6 DEF new, back, merged, front
  <2> QED BY <2>2, <2>4, <2>5
<1> QED BY <1>7, <1>8

\* Merged blocks are a block (push).
LEMMA MergedIsBlock ==
  ASSUME NEW Name, NEW chain \in Seq(Blocks(Name))
  PROVE  Merged(chain) \in Blocks(Name)
<1> DEFINE D == UNION {DOMAIN chain[i] : i \in DOMAIN chain}
<1>1. \A i \in DOMAIN chain : chain[i] \in Blocks(Name)
  OBVIOUS
<1>2. \A i \in DOMAIN chain :
        DOMAIN chain[i] \subseteq Name /\ \A key \in DOMAIN chain[i] : chain[i][key] \in Nat
  BY <1>1 DEF Blocks
<1>3. D \in SUBSET Name
  BY <1>2
<1>4. ASSUME NEW key \in D PROVE Lookup(chain, key) \in Nat
  <2>1. Knows(chain, key) # {}
    BY DEF Knows
  <2>2. PICK i \in Knows(chain, key) : \A j \in Knows(chain, key) : i <= j
    BY <2>1, FirstExists
  <2>3. Lookup(chain, key) = chain[i][key]
    BY <2>2, FirstDecides
  <2> QED BY <1>2, <2>3 DEF Knows
<1> HIDE DEF D
<1>5. [key \in D |-> Lookup(chain, key)] \in [D -> Nat]
  BY <1>4
<1>6. Merged(chain) = [key \in D |-> Lookup(chain, key)]
  BY DEF Merged, D
<1> QED BY <1>3, <1>5, <1>6 DEF Blocks

\* The loop of push has an end.
LEMMA EndExists ==
  ASSUME NEW S, NEW chain \in Seq(S), Len(chain) >= 1
  PROVE  \E k \in 1 .. Len(chain) :
           ~GoesOn(chain, k) /\ \A j \in 1 .. k - 1 : GoesOn(chain, j)
<1> DEFINE T == {k \in 1 .. Len(chain) : ~GoesOn(chain, k)}
<1>1. Len(chain) \in T
  BY DEF GoesOn
<1>2. T \subseteq Nat
  OBVIOUS
<1>3. PICK k \in T : \A j \in T : ~(<<j, k>> \in OpToRel(<, Nat))
  <2> HIDE DEF T
  <2> QED BY <1>1, <1>2, NatLessThanWellFounded, WFMin
<1>4. ASSUME NEW j \in 1 .. k - 1, ~GoesOn(chain, j) PROVE FALSE
  <2>1. j \in T
    BY <1>2, <1>4
  <2>2. <<j, k>> \in Nat \X Nat /\ j < k
    BY <1>2
  <2>3. <<j, k>> \in OpToRel(<, Nat)
    BY <2>2 DEF OpToRel
  <2> QED BY <1>3, <2>1, <2>3
<1> QED BY <1>4

\* Whatever push merges, its chain says of every name what the new block in
\* front of the old chain says.
LEMMA AbsorbKeeps ==
  ASSUME NEW Name, NEW items \in Blocks(Name), NEW next \in Seq(Blocks(Name))
  PROVE  /\ Absorb(items, next) \in Seq(Blocks(Name))
         /\ \A key :
              /\ Knows(Absorb(items, next), key) = {} <=> Knows(<<items>> \o next, key) = {}
              /\ Knows(<<items>> \o next, key) # {} =>
                   Lookup(Absorb(items, next), key) = Lookup(<<items>> \o next, key)
<1> DEFINE chain == <<items>> \o next
           end == CHOOSE k \in 1 .. Len(chain) :
                    ~GoesOn(chain, k) /\ \A j \in 1 .. k - 1 : GoesOn(chain, j)
           front == SubSeq(chain, 1, end)
           back == SubSeq(chain, end + 1, Len(chain))
<1>1. chain \in Seq(Blocks(Name)) /\ Len(chain) >= 1
  OBVIOUS
<1>2. Absorb(items, next) = <<Merged(front)>> \o back
  BY DEF Absorb
<1> HIDE DEF chain
<1>3. end \in 1 .. Len(chain)
  <2>1. \E k \in 1 .. Len(chain) :
          ~GoesOn(chain, k) /\ \A j \in 1 .. k - 1 : GoesOn(chain, j)
    BY <1>1, EndExists
  <2> QED BY <2>1, Zenon
<1> HIDE DEF end
<1>4. front \in Seq(Blocks(Name)) /\ back \in Seq(Blocks(Name))
  BY <1>1, <1>3
<1>5. Merged(front) \in Blocks(Name)
  <2> HIDE DEF front
  <2> QED BY <1>4, MergedIsBlock
<1>6. Absorb(items, next) \in Seq(Blocks(Name))
  <2> HIDE DEF front, back
  <2> QED BY <1>2, <1>4, <1>5
<1>7. ASSUME NEW key
      PROVE  LET new == <<Merged(front)>> \o back
             IN  /\ Knows(new, key) = {} <=> Knows(chain, key) = {}
                 /\ Knows(chain, key) # {} => Lookup(new, key) = Lookup(chain, key)
  BY <1>1, <1>3, <1>5, MergingKeeps
<1> HIDE DEF front, back
<1> QED BY <1>2, <1>6, <1>7 DEF chain

\* A new block decides on the names it has, the old ones on all others.
LEMMA NewBlockDecides ==
  ASSUME NEW S, NEW items \in S, NEW next \in Seq(S), NEW key
  PROVE  LET chain == <<items>> \o next
         IN  /\ key \in DOMAIN items =>
                  Knows(chain, key) # {} /\ Lookup(chain, key) = items[key]
             /\ key \notin DOMAIN items =>
                  /\ Knows(chain, key) = {} <=> Knows(next, key) = {}
                  /\ Knows(next, key) # {} => Lookup(chain, key) = Lookup(next, key)
<1> DEFINE chain == <<items>> \o next
<1>1. /\ chain \in Seq(S) /\ Len(chain) = 1 + Len(next) /\ chain[1] = items
      /\ \A i \in 2 .. Len(chain) : chain[i] = next[i - 1]
      /\ \A i \in 1 .. Len(next) : chain[i + 1] = next[i]
  OBVIOUS
<1>2. Len(next) \in Nat
  OBVIOUS
<1> HIDE DEF chain
<1>3. CASE key \in DOMAIN items
  <2>1. 1 \in Knows(chain, key) /\ \A j \in Knows(chain, key) : 1 <= j
    BY <1>1, <1>2, <1>3 DEF Knows
  <2>2. Lookup(chain, key) = chain[1][key]
    BY <1>1, <2>1, FirstDecides
  <2> QED BY <1>1, <1>3, <2>1, <2>2 DEF chain
<1>4. CASE key \notin DOMAIN items
  <2>1. \A i : i \in Knows(chain, key) => i \in 2 .. Len(chain) /\ i - 1 \in Knows(next, key)
    BY <1>1, <1>2, <1>4 DEF Knows
  <2>2. \A i : i \in Knows(next, key) => i \in 1 .. Len(next) /\ i + 1 \in Knows(chain, key)
    BY <1>1, <1>2 DEF Knows
  <2>3. ASSUME Knows(next, key) # {} PROVE Lookup(chain, key) = Lookup(next, key)
    <3>1. PICK i \in Knows(next, key) : \A j \in Knows(next, key) : i <= j
      BY <2>3, FirstExists
    <3>2. Lookup(next, key) = next[i][key]
      BY <3>1, FirstDecides
    <3> DEFINE k == i + 1
    <3>3. k \in Knows(chain, key) /\ chain[k] = next[i]
      BY <1>1, <2>2
    <3>4. ASSUME NEW j \in Knows(chain, key) PROVE k <= j
      <4>1. j \in 2 .. Len(chain) /\ i <= j - 1 /\ i \in 1 .. Len(next)
        BY <2>1, <2>2, <3>1
      <4> QED BY <1>1, <1>2, <4>1
    <3> HIDE DEF k
    <3>5. Lookup(chain, key) = chain[k][key]
      BY <1>1, <3>3, <3>4, FirstDecides
    <3> QED BY <3>2, <3>3, <3>5
  <2>4. Knows(chain, key) = {} <=> Knows(next, key) = {}
    BY <2>1, <2>2
  <2> QED BY <1>4, <2>3, <2>4 DEF chain
<1> QED BY <1>3, <1>4

(***************************************************************************)
(* Maps made by push.  pushed are the names bound on the way to a scope,   *)
(* outermost first, and maps[k] is the map after the first k of them, as   *)
(* the resolver has it where k names are in scope.                         *)
(***************************************************************************)

MadeBy(maps, pushed) ==
  /\ maps[0] = EmptyMap
  /\ \A k \in 1 .. Len(pushed) : maps[k] = PushName(maps[k - 1], pushed[k])

\* The map of a scope knows the names in it, and of each the depth at which it was
\* bound last.
Shows(map, pushed, k, Name) ==
  /\ map.blocks \in Seq(Blocks(Name))
  /\ map.bottom = k
  /\ \A name \in Name :
       /\ Knows(map.blocks, name) # {} <=> \E i \in 1 .. k : pushed[i] = name
       /\ \A i \in 1 .. k :
            pushed[i] = name /\ (\A j \in i + 1 .. k : pushed[j] # name) =>
              Lookup(map.blocks, name) = i

\* The empty map shows the empty scope (lazy_stackmap()).
LEMMA EmptyShows ==
  ASSUME NEW Name, NEW pushed PROVE Shows(EmptyMap, pushed, 0, Name)
<1>1. Knows(<<>>, pushed) = {} /\ \A name : Knows(<<>>, name) = {}
  BY DEF Knows
<1> QED BY <1>1 DEF Shows, EmptyMap

\* push adds its name at the depth below all others (lazy_stackmap::push).
LEMMA PushShows ==
  ASSUME NEW Name, NEW pushed \in Seq(Name), NEW k \in 1 .. Len(pushed),
         NEW map, Shows(map, pushed, k - 1, Name)
  PROVE  Shows(PushName(map, pushed[k]), pushed, k, Name)
<1> DEFINE key == pushed[k]
           items == [x \in {key} |-> map.bottom + 1]
           chain == <<items>> \o map.blocks
           new == PushName(map, key)
<1>1. key \in Name /\ k \in Nat
  OBVIOUS
<1>2. map.blocks \in Seq(Blocks(Name)) /\ map.bottom = k - 1
  BY DEF Shows
<1>3. items \in Blocks(Name) /\ DOMAIN items = {key} /\ items[key] = k
  <2>1. map.bottom + 1 = k
    BY <1>1, <1>2
  <2>2. items = [x \in {key} |-> k]
    BY <2>1
  <2> HIDE DEF items
  <2>3. items \in [{key} -> Nat] /\ {key} \in SUBSET Name
    BY <1>1, <2>2
  <2>4. items \in Blocks(Name)
    BY <2>3 DEF Blocks
  <2> QED BY <2>2, <2>4
<1>4. new.blocks = Absorb(items, map.blocks) /\ new.bottom = k
  BY <1>1, <1>2 DEF PushName
<1> HIDE DEF items, new, key
<1>5. /\ new.blocks \in Seq(Blocks(Name))
      /\ \A name : /\ Knows(new.blocks, name) = {} <=> Knows(chain, name) = {}
                   /\ Knows(chain, name) # {} => Lookup(new.blocks, name) = Lookup(chain, name)
  BY <1>2, <1>3, <1>4, AbsorbKeeps
<1>6. /\ Knows(chain, key) # {} /\ Lookup(chain, key) = k
      /\ \A name : name # key =>
           /\ Knows(chain, name) = {} <=> Knows(map.blocks, name) = {}
           /\ Knows(map.blocks, name) # {} => Lookup(chain, name) = Lookup(map.blocks, name)
  BY <1>2, <1>3, NewBlockDecides
<1> HIDE DEF chain
<1>7. ASSUME NEW name \in Name
      PROVE  /\ Knows(new.blocks, name) # {} <=> \E i \in 1 .. k : pushed[i] = name
             /\ \A i \in 1 .. k :
                  pushed[i] = name /\ (\A j \in i + 1 .. k : pushed[j] # name) =>
                    Lookup(new.blocks, name) = i
  <2>1. CASE name = key
    <3>1. k \in 1 .. k /\ pushed[k] = name
      BY <1>1, <2>1 DEF key
    <3>2. ASSUME NEW i \in 1 .. k, \A j \in i + 1 .. k : pushed[j] # name PROVE i = k
      BY <1>1, <3>1, <3>2
    <3> QED BY <1>5, <1>6, <2>1, <3>1, <3>2
  <2>2. CASE name # key
    <3>1. /\ Knows(map.blocks, name) # {} <=> \E i \in 1 .. k - 1 : pushed[i] = name
          /\ \A i \in 1 .. k - 1 :
               pushed[i] = name /\ (\A j \in i + 1 .. k - 1 : pushed[j] # name) =>
                 Lookup(map.blocks, name) = i
      BY DEF Shows
    <3>2. \A i \in 1 .. k : pushed[i] = name => i \in 1 .. k - 1
      BY <1>1, <2>2 DEF key
    <3>3. 1 .. k - 1 \subseteq 1 .. k
      BY <1>1
    <3>4. Knows(new.blocks, name) # {} <=> \E i \in 1 .. k : pushed[i] = name
      BY <1>5, <1>6, <2>2, <3>1, <3>2, <3>3
    <3>5. ASSUME NEW i \in 1 .. k, pushed[i] = name,
                 \A j \in i + 1 .. k : pushed[j] # name
          PROVE  Lookup(new.blocks, name) = i
      <4>1. i \in 1 .. k - 1 /\ \A j \in i + 1 .. k - 1 : pushed[j] # name
        BY <1>1, <3>2, <3>5
      <4>2. Lookup(map.blocks, name) = i /\ Knows(map.blocks, name) # {}
        BY <3>1, <3>5, <4>1
      <4> QED BY <1>5, <1>6, <2>2, <4>2
    <3> QED BY <3>4, <3>5
  <2> QED BY <2>1, <2>2
<1> QED BY <1>4, <1>5, <1>7 DEF Shows, new, key

\* The map of every scope shows it.
LEMMA ScopesAreShown ==
  ASSUME NEW Name, NEW pushed \in Seq(Name), NEW maps, MadeBy(maps, pushed)
  PROVE  \A k \in 0 .. Len(pushed) : Shows(maps[k], pushed, k, Name)
<1> DEFINE Wrong == {k \in 0 .. Len(pushed) : ~Shows(maps[k], pushed, k, Name)}
<1> SUFFICES ASSUME Wrong # {} PROVE FALSE
  OBVIOUS
<1>1. Wrong \subseteq Nat
  OBVIOUS
<1>2. PICK k \in Wrong : \A j \in Wrong : ~(<<j, k>> \in OpToRel(<, Nat))
  <2> HIDE DEF Wrong
  <2> QED BY <1>1, NatLessThanWellFounded, WFMin
<1>3. k # 0
  BY EmptyShows DEF MadeBy
<1>4. k \in 1 .. Len(pushed) /\ k - 1 \in 0 .. Len(pushed)
  BY <1>3
<1>5. Shows(maps[k - 1], pushed, k - 1, Name)
  <2> SUFFICES ASSUME k - 1 \in Wrong PROVE FALSE
    BY <1>4
  <2>1. <<k - 1, k>> \in Nat \X Nat /\ k - 1 < k
    BY <1>4
  <2>2. <<k - 1, k>> \in OpToRel(<, Nat)
    BY <2>1 DEF OpToRel
  <2> QED BY <1>2, <2>2
<1>6. Shows(maps[k], pushed, k, Name)
  BY <1>4, <1>5, PushShows DEF MadeBy
<1> QED BY <1>6

\* The resolver looks every name up as the innermost binding of it: get_index fails
\* exactly for the names that are not in scope, and for the others returns how many
\* names have been bound since (constr_ast_node_id::resolve).
THEOREM InnermostIsFound ==
  ASSUME NEW Name, NEW pushed \in Seq(Name), NEW maps, MadeBy(maps, pushed),
         NEW k \in 0 .. Len(pushed), NEW name \in Name
  PROVE  /\ Knowing(maps[k], name) = {} <=> \A i \in 1 .. k : pushed[i] # name
         /\ \A i \in 1 .. k :
              pushed[i] = name /\ (\A j \in i + 1 .. k : pushed[j] # name) =>
                GetIndex(maps[k], name) = k - i
<1>1. Shows(maps[k], pushed, k, Name)
  BY ScopesAreShown
<1> QED BY <1>1 DEF Shows, Knowing, GetIndex

(***************************************************************************)
(* What push merges.                                                       *)
(***************************************************************************)

\* A chain of one block at most, which is not empty.
Flat(chain) ==
  /\ Len(chain) \in 0 .. 1
  /\ Len(chain) = 1 => DOMAIN chain[1] # {} /\ IsFiniteSet(DOMAIN chain[1])

\* A block with one name absorbs the only block there is (push).
LEMMA AbsorbsAll ==
  ASSUME NEW Name, NEW key, NEW items \in Blocks(Name), DOMAIN items = {key},
         NEW next \in Seq(Blocks(Name)), Flat(next)
  PROVE  Flat(Absorb(items, next)) /\ Len(Absorb(items, next)) = 1
<1> DEFINE chain == <<items>> \o next
           end == CHOOSE k \in 1 .. Len(chain) :
                    ~GoesOn(chain, k) /\ \A j \in 1 .. k - 1 : GoesOn(chain, j)
           block == Merged(SubSeq(chain, 1, end))
<1>1. Absorb(items, next) = <<block>> \o SubSeq(chain, end + 1, Len(chain))
  BY DEF Absorb
<1>2. Len(next) = 0 \/ (Len(next) = 1 /\ DOMAIN next[1] # {} /\ IsFiniteSet(DOMAIN next[1]))
  BY DEF Flat
<1>3. /\ chain \in Seq(Blocks(Name)) /\ Len(chain) = 1 + Len(next)
      /\ chain[1] = items
      /\ \A i \in 2 .. Len(chain) : chain[i] = next[i - 1]
  OBVIOUS
<1> HIDE DEF chain, block
<1>4. end \in 1 .. Len(chain) /\ ~GoesOn(chain, end)
  <2>1. \E k \in 1 .. Len(chain) :
          ~GoesOn(chain, k) /\ \A j \in 1 .. k - 1 : GoesOn(chain, j)
    BY <1>2, <1>3, EndExists
  <2> QED BY <2>1, Zenon
<1> HIDE DEF end
<1>5. IsFiniteSet({key}) /\ Cardinality({key}) = 1
  BY FS_Singleton
<1>6. CASE Len(next) = 0
  <2>1. Len(chain) = 1 /\ end = 1
    BY <1>3, <1>4, <1>6
  <2>2. SubSeq(chain, 1, end) = chain /\ SubSeq(chain, end + 1, Len(chain)) = <<>>
    BY <1>3, <2>1
  <2>3. DOMAIN block = UNION {DOMAIN chain[i] : i \in DOMAIN chain}
    BY <2>2 DEF block, Merged
  <2>4. DOMAIN chain = {1}
    BY <1>3, <2>1
  <2>5. DOMAIN block = {key}
    BY <1>3, <2>3, <2>4
  <2>6. Absorb(items, next) = <<block>> \o <<>>
    BY <1>1, <2>2
  <2>7. Absorb(items, next) = <<block>>
    BY <2>6
  <2>8. Len(<<block>>) = 1 /\ <<block>>[1] = block
    OBVIOUS
  <2> QED BY <1>5, <2>5, <2>7, <2>8 DEF Flat
<1>7. CASE Len(next) = 1
  <2>1. Len(chain) = 2 /\ chain[2] = next[1] /\ DOMAIN chain = {1, 2}
    BY <1>3, <1>7
  <2>2. DOMAIN chain[2] # {} /\ IsFiniteSet(DOMAIN chain[2])
    BY <1>2, <1>7, <2>1
  <2>3. end # 1
    <3>1. SubSeq(chain, 1, 1) \in Seq(Blocks(Name)) /\ Len(SubSeq(chain, 1, 1)) = 1
          /\ SubSeq(chain, 1, 1)[1] = items
      BY <1>3, <2>1
    <3> DEFINE front == SubSeq(chain, 1, 1)
    <3>2. DOMAIN front = {1}
      BY <3>1
    <3> HIDE DEF front
    <3>3. DOMAIN Merged(front) = {key}
      BY <3>1, <3>2 DEF Merged, front
    <3>4. SizeOf(Merged(front)) = 1
      BY <1>5, <3>3 DEF SizeOf
    <3>5. SizeOf(chain[2]) \in Nat /\ SizeOf(chain[2]) # 0
      BY <2>2, FS_CardinalityType, FS_EmptySet DEF SizeOf
    <3>6. GoesOn(chain, 1)
      BY <2>1, <3>4, <3>5 DEF GoesOn, front
    <3> QED BY <1>4, <3>6
  <2>4. end = 2
    BY <1>4, <2>1, <2>3
  <2>5. SubSeq(chain, 1, end) = chain /\ SubSeq(chain, end + 1, Len(chain)) = <<>>
    <3>1. end = Len(chain) /\ Len(chain) \in Nat
      BY <2>1, <2>4
    <3>2. chain \in Seq(Blocks(Name))
      BY <1>3
    <3> QED BY <3>1, <3>2
  <2>6. DOMAIN block = UNION {DOMAIN chain[i] : i \in DOMAIN chain}
    BY <2>5 DEF block, Merged
  <2>7. DOMAIN block = {key} \cup DOMAIN chain[2]
    BY <1>3, <2>1, <2>6
  <2>8. DOMAIN block # {} /\ IsFiniteSet(DOMAIN block)
    BY <1>5, <2>2, <2>7, FS_Union
  <2>9. Absorb(items, next) = <<block>> \o <<>>
    BY <1>1, <2>5
  <2>10. Absorb(items, next) = <<block>>
    BY <2>9
  <2>11. Len(<<block>>) = 1 /\ <<block>>[1] = block
    OBVIOUS
  <2> QED BY <2>8, <2>10, <2>11 DEF Flat
<1> QED BY <1>2, <1>6, <1>7

\* The condition of the loop in push, at least as large instead of as large, makes it
\* merge everything: a map has one block with all names, which every push copies,
\* and no two maps share any.
THEOREM EveryPushCopiesAll ==
  ASSUME NEW Name, NEW pushed \in Seq(Name), NEW maps, MadeBy(maps, pushed),
         NEW k \in 1 .. Len(pushed)
  PROVE  Len(maps[k].blocks) = 1
<1> DEFINE Wrong == {n \in 0 .. Len(pushed) : ~Flat(maps[n].blocks)}
<1>1. \A n \in 1 .. Len(pushed) :
        Flat(maps[n - 1].blocks) => Flat(maps[n].blocks) /\ Len(maps[n].blocks) = 1
  <2> SUFFICES ASSUME NEW n \in 1 .. Len(pushed), Flat(maps[n - 1].blocks)
               PROVE  Flat(maps[n].blocks) /\ Len(maps[n].blocks) = 1
    OBVIOUS
  <2>1. Shows(maps[n - 1], pushed, n - 1, Name)
    BY ScopesAreShown
  <2>2. maps[n - 1].blocks \in Seq(Blocks(Name)) /\ maps[n - 1].bottom \in Nat
    BY <2>1 DEF Shows
  <2>3. maps[n] = PushName(maps[n - 1], pushed[n]) /\ pushed[n] \in Name
    BY DEF MadeBy
  <2> DEFINE items == [x \in {pushed[n]} |-> maps[n - 1].bottom + 1]
  <2>4. maps[n].blocks = Absorb(items, maps[n - 1].blocks)
    BY <2>3 DEF PushName
  <2>5. DOMAIN items = {pushed[n]} /\ items \in Blocks(Name)
    <3>1. items \in [{pushed[n]} -> Nat] /\ {pushed[n]} \in SUBSET Name
      BY <2>2, <2>3
    <3> HIDE DEF items
    <3> QED BY <3>1 DEF Blocks
  <2> HIDE DEF items
  <2>6. Flat(Absorb(items, maps[n - 1].blocks)) /\ Len(Absorb(items, maps[n - 1].blocks)) = 1
    BY <2>2, <2>5, AbsorbsAll
  <2> QED BY <2>4, <2>6
<1>2. Wrong = {}
  <2> SUFFICES ASSUME Wrong # {} PROVE FALSE
    OBVIOUS
  <2>1. Wrong \subseteq Nat
    OBVIOUS
  <2>2. PICK n \in Wrong : \A j \in Wrong : ~(<<j, n>> \in OpToRel(<, Nat))
    <3> HIDE DEF Wrong
    <3> QED BY <2>1, NatLessThanWellFounded, WFMin
  <2>3. n # 0
    BY DEF MadeBy, EmptyMap, Flat
  <2>4. n \in 1 .. Len(pushed) /\ n - 1 \in 0 .. Len(pushed)
    BY <2>3
  <2>5. n - 1 \notin Wrong
    <3>1. <<n - 1, n>> \in Nat \X Nat /\ n - 1 < n
      BY <2>4
    <3>2. <<n - 1, n>> \in OpToRel(<, Nat)
      BY <3>1 DEF OpToRel
    <3> QED BY <2>2, <3>2
  <2> QED BY <1>1, <2>4, <2>5
<1>3. k - 1 \in 0 .. Len(pushed)
  OBVIOUS
<1> QED BY <1>1, <1>2, <1>3
=============================================================================
