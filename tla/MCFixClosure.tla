---------------------------- MODULE MCFixClosure ----------------------------
(* A bounded instance of FixClosure: all groups of three functions, f with  *)
(* two arguments, whose bodies are put together from the uses below.        *)
EXTENDS FixClosure

CONSTANTS f, g, h

ArityOf(x) == IF x = f THEN 2 ELSE 1
Arities == [x \in {f, g, h} |-> ArityOf(x)]

\* The uses of y that the body of x may contain: with n arguments, each of them
\* an argument of x or something else.
UsesOf(x, y, n) ==
  {[fn |-> y, args |-> s] : s \in [1 .. n -> 1 .. ArityOf(x) \cup {None}]}

Bodies(uses, n) == UNION {[1 .. k -> uses] : k \in 0 .. n}

\* f calls itself, with its arguments swapped or partly replaced, and the others,
\* so that two functions may be listed at a time; g calls back, passes its
\* argument on or is used without a call; h calls g, at times with an argument
\* to spare.
CallOf(y, args) == [fn |-> y, args |-> args]

UsesInF == {CallOf(f, <<2, 1>>), CallOf(f, <<1, None>>), CallOf(h, <<1>>)} \cup UsesOf(f, g, 1)
UsesInG == {CallOf(h, <<1>>), CallOf(g, <<>>)} \cup UsesOf(g, f, 2)
UsesInH == {CallOf(g, <<1, 1>>), CallOf(g, <<None>>)}

SmallGroups ==
  {[x \in {f, g, h} |-> IF x = f THEN p ELSE IF x = g THEN q ELSE r] :
     p \in Bodies(UsesInF, 2), q \in Bodies(UsesInG, 1), r \in Bodies(UsesInH, 1)}
=============================================================================
