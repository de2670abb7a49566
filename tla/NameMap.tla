------------------------------- MODULE NameMap -------------------------------
(***************************************************************************)
(* coqcic::lazy_stackmap (lazy_stackmap.h): a map from the names in scope  *)
(* to de Bruijn indices.  Nodes are never written once push has returned,  *)
(* so a map is a value: the blocks of its chain, newest first, each a      *)
(* function from names to the depth at which they were bound, and the      *)
(* number of names pushed.                                                 *)
(*                                                                         *)
(* flatten is left out: nothing calls it, and it assigns a shared_ptr to a *)
(* plain pointer, so it would not compile if something did.                *)
(***************************************************************************)
EXTENDS Integers, Sequences, FiniteSets

EmptyMap == [blocks |-> <<>>, bottom |-> 0]

\* The blocks of a chain that know a name
Knows(chain, key) == {i \in DOMAIN chain : key \in DOMAIN chain[i]}

\* What the first of them says of it
Lookup(chain, key) ==
  LET first == CHOOSE i \in Knows(chain, key) : \A j \in Knows(chain, key) : i <= j
  IN  chain[first][key]

SizeOf(items) == Cardinality(DOMAIN items)

\* Fault: a name in an older block replaces the newer one
MergedOldest(chain) ==
  [key \in UNION {DOMAIN chain[i] : i \in DOMAIN chain} |->
     chain[CHOOSE i \in Knows(chain, key) : \A j \in Knows(chain, key) : i >= j][key]]

\* The first block of a chain after those behind it were inserted, one after the
\* other: unordered_map::insert keeps what is there.
Merged(chain) ==
  [key \in UNION {DOMAIN chain[i] : i \in DOMAIN chain} |-> Lookup(chain, key)]

\* The loop of push goes on after its first k blocks are merged.
GoesOn(chain, k) ==
  k < Len(chain) /\ SizeOf(chain[k + 1]) >= SizeOf(Merged(SubSeq(chain, 1, k)))

\* A new block takes over the blocks that follow while they are at least as
\* large as what it has become.
Absorb(items, next) ==
  LET chain == <<items>> \o next
      end == CHOOSE k \in 1 .. Len(chain) :
               ~GoesOn(chain, k) /\ \A j \in 1 .. k - 1 : GoesOn(chain, j)
  IN  <<Merged(SubSeq(chain, 1, end))>> \o SubSeq(chain, end + 1, Len(chain))

PushName(map, key) ==
  [blocks |-> Absorb([k \in {key} |-> map.bottom + 1], map.blocks),
   bottom |-> map.bottom + 1]

\* The blocks that know a name
Knowing(map, key) == Knows(map.blocks, key)

\* get_index of a name that some block knows
GetIndex(map, key) == map.bottom - Lookup(map.blocks, key)
=============================================================================
