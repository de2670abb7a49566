--------------------------- MODULE PersistentStack ---------------------------
(***************************************************************************)
(* What coqcic::lazy_stack promises: every object denotes an immutable     *)
(* looking sequence of its own, top of stack first.  push and pop "leave   *)
(* the old state unmodified and create new states instead"; set changes    *)
(* the one object it is called on and no other.                            *)
(*                                                                         *)
(* A call is a promise, made from its arguments and the stacks at the time *)
(* of the call, that is kept in one step when the call returns.            *)
(***************************************************************************)
EXTENDS Integers, Sequences

CONSTANTS Handle, Value

VARIABLES
  stack,   \* the sequence that every object denotes
  call     \* what the call in progress is going to do

Idle == [fn |-> "idle"]
Throws == [fn |-> "throw"]
Returns(object, result) == [fn |-> "return", object |-> object, result |-> result]

TypeOK ==
  /\ stack \in [Handle -> Seq(Value)]
  /\ call \in {Idle, Throws}
             \cup [fn : {"return"}, object : Handle, result : Seq(Value)]

Init == stack = [h \in Handle |-> <<>>] /\ call = Idle

Start(promise) == call = Idle /\ call' = promise /\ UNCHANGED stack

\* dst = src.push(v)
Push(src, v, dst) == Start(Returns(dst, <<v>> \o stack[src]))

\* dst = src.pop(); defined on a non-empty stack only
Pop(src, dst) == stack[src] # <<>> /\ Start(Returns(dst, Tail(stack[src])))

\* h.set(index, v) with an index in range
Set(h, index, v) ==
  /\ index < Len(stack[h])
  /\ Start(Returns(h, [stack[h] EXCEPT ![index + 1] = v]))

\* h.set(index, v) with an index out of range
SetOutOfRange == Start(Throws)

Return ==
  /\ call.fn = "return"
  /\ stack' = [stack EXCEPT ![call.object] = call.result]
  /\ call' = Idle

Throw == call = Throws /\ call' = Idle /\ UNCHANGED stack

\* dst = src (copy construction and assignment)
Copy(src, dst) ==
  call = Idle /\ stack' = [stack EXCEPT ![dst] = stack[src]] /\ UNCHANGED call

\* h = {} (also the end of a handle's life)
Clear(h) == call = Idle /\ stack' = [stack EXCEPT ![h] = <<>>] /\ UNCHANGED call

Next ==
  \/ \E src, dst \in Handle, v \in Value : Push(src, v, dst)
  \/ \E src, dst \in Handle : Pop(src, dst) \/ Copy(src, dst)
  \/ \E h \in Handle, v \in Value : \E i \in 0 .. Len(stack[h]) - 1 : Set(h, i, v)
  \/ \E h \in Handle : Clear(h)
  \/ SetOutOfRange \/ Return \/ Throw

Spec == Init /\ [][Next]_<<stack, call>>
=============================================================================
