----------------------------- MODULE MCLazyStack -----------------------------
(* Bounded instances of LazyStack.                                         *)
EXTENDS LazyStack, TLC

\* Nodes, handles and values are interchangeable: the safety runs identify
\* states that differ by a renaming.  The liveness run does not use it.
Symmetry == Permutations(Node) \cup Permutations(Handle) \cup Permutations(Value)
=============================================================================
