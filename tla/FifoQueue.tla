----------------------------- MODULE FifoQueue -----------------------------
(***************************************************************************)
(* What ConcurrentQueue promises: an unbounded first-in first-out queue    *)
(* shared by processes, in which every call takes effect at one instant    *)
(* between its invocation and its return (linearizability).                *)
(***************************************************************************)
EXTENDS Sequences

CONSTANTS Procs, Values, Zero   \* Zero: the zero value of the element type

VARIABLES
  items,   \* contents, first in first
  call,    \* where each process is in its call
  arg,     \* the value it pushes
  result   \* what its Pop is about to return

vars == <<items, call, arg, result>>

Init ==
  /\ items = <<>>
  /\ call = [p \in Procs |-> "none"]
  /\ arg = [p \in Procs |-> Zero]
  /\ result = [p \in Procs |-> <<Zero, FALSE>>]

CallPush(p) ==
  /\ call[p] = "none"
  /\ call' = [call EXCEPT ![p] = "push"]
  /\ \E v \in Values : arg' = [arg EXCEPT ![p] = v]
  /\ UNCHANGED <<items, result>>

CallPop(p) ==
  /\ call[p] = "none"
  /\ call' = [call EXCEPT ![p] = "pop"]
  /\ UNCHANGED <<items, arg, result>>

Push(p) ==
  /\ call[p] = "push"
  /\ items' = Append(items, arg[p])
  /\ call' = [call EXCEPT ![p] = "pushed"]
  /\ UNCHANGED <<arg, result>>

Pop(p) ==
  /\ call[p] = "pop"
  /\ items # <<>>
  /\ result' = [result EXCEPT ![p] = <<Head(items), TRUE>>]
  /\ items' = Tail(items)
  /\ call' = [call EXCEPT ![p] = "popped"]
  /\ UNCHANGED arg

PopEmpty(p) ==
  /\ call[p] = "pop"
  /\ items = <<>>
  /\ result' = [result EXCEPT ![p] = <<Zero, FALSE>>]
  /\ call' = [call EXCEPT ![p] = "popped"]
  /\ UNCHANGED <<items, arg>>

\* The caller gets the result.
Return(p) ==
  /\ call[p] \in {"pushed", "popped"}
  /\ call' = [call EXCEPT ![p] = "none"]
  /\ arg' = [arg EXCEPT ![p] = Zero]
  /\ result' = [result EXCEPT ![p] = <<Zero, FALSE>>]
  /\ UNCHANGED items

Next == \E p \in Procs : CallPush(p) \/ CallPop(p) \/ Push(p) \/ Pop(p) \/ PopEmpty(p) \/ Return(p)

Spec == Init /\ [][Next]_vars
=============================================================================
