-------------------------- MODULE ConcurrentQueue --------------------------
(***************************************************************************)
(* lab0's ConcurrentQueue: goroutines that Push and Pop a Queue under a    *)
(* mutex.  Inside the critical section a goroutine first reads the queue's *)
(* fields and then writes them, so that two goroutines that were inside at *)
(* once could lose each other's updates.                                   *)
(***************************************************************************)
EXTENDS Queue, FiniteSets

CONSTANTS
  Procs,      \* goroutines
  NoProc,     \* holder of a free mutex
  MaxItems    \* bound on the elements in the queue

ASSUME ProcsAssumption == NoProc \notin Procs /\ MaxItems \in Nat

VARIABLES
  mu,      \* the goroutine that holds the mutex
  q,       \* the queue
  pc,      \* what a goroutine does next
  op,      \* the operation it is in
  arg,     \* the value it pushes
  local,   \* the fields it has read, while it uses them
  result   \* what its Pop is about to return

vars == <<mu, q, pc, op, arg, local, result>>

Init ==
  /\ mu = NoProc
  /\ q = NewQueue
  /\ pc = [p \in Procs |-> "idle"]
  /\ op = [p \in Procs |-> "pop"]
  /\ arg = [p \in Procs |-> Zero]
  /\ local = [p \in Procs |-> NewQueue]
  /\ result = [p \in Procs |-> <<Zero, FALSE>>]

Pushing == {p \in Procs : op[p] = "push" /\ pc[p] \in {"lock", "read", "write"}}

CallPush(p) ==
  /\ pc[p] = "idle"
  /\ q.numElements + Cardinality(Pushing) < MaxItems
  /\ pc' = [pc EXCEPT ![p] = "lock"]
  /\ op' = [op EXCEPT ![p] = "push"]
  /\ \E v \in Values : arg' = [arg EXCEPT ![p] = v]
  /\ UNCHANGED <<mu, q, local, result>>

CallPop(p) ==
  /\ pc[p] = "idle"
  /\ pc' = [pc EXCEPT ![p] = "lock"]
  /\ op' = [op EXCEPT ![p] = "pop"]
  /\ UNCHANGED <<mu, q, arg, local, result>>

\* Mutant of Lock: the mutex is not taken.
LockNothing(p) ==
  /\ pc[p] = "lock"
  /\ pc' = [pc EXCEPT ![p] = "read"]
  /\ UNCHANGED <<mu, q, op, arg, local, result>>

Lock(p) ==
  /\ pc[p] = "lock"
  /\ mu = NoProc
  /\ mu' = p
  /\ pc' = [pc EXCEPT ![p] = "read"]
  /\ UNCHANGED <<q, op, arg, local, result>>

Read(p) ==
  /\ pc[p] = "read"
  /\ local' = [local EXCEPT ![p] = q]
  /\ pc' = [pc EXCEPT ![p] = "write"]
  /\ UNCHANGED <<mu, q, op, arg, result>>

WritePush(p) ==
  /\ pc[p] = "write" /\ op[p] = "push"
  /\ q' = Push(local[p], arg[p])
  /\ pc' = [pc EXCEPT ![p] = "unlock"]
  /\ local' = [local EXCEPT ![p] = NewQueue]
  /\ UNCHANGED <<mu, op, arg, result>>

WritePop(p) ==
  /\ pc[p] = "write" /\ op[p] = "pop"
  /\ q' = Pop(local[p])
  /\ result' = [result EXCEPT ![p] = PopResult(local[p])]
  /\ pc' = [pc EXCEPT ![p] = "unlock"]
  /\ local' = [local EXCEPT ![p] = NewQueue]
  /\ UNCHANGED <<mu, op, arg>>

\* The mutex is released and the call returns.
Unlock(p) ==
  /\ pc[p] = "unlock"
  /\ mu' = NoProc
  /\ pc' = [pc EXCEPT ![p] = "idle"]
  /\ arg' = [arg EXCEPT ![p] = Zero]
  /\ result' = [result EXCEPT ![p] = <<Zero, FALSE>>]
  /\ UNCHANGED <<q, op, local>>

InCall(p) == Lock(p) \/ Read(p) \/ WritePush(p) \/ WritePop(p) \/ Unlock(p)

Next == \E p \in Procs : CallPush(p) \/ CallPop(p) \/ InCall(p)

Spec == Init /\ [][Next]_vars

\* A goroutine inside a call runs, and a goroutine that waits for the mutex
\* gets it: sync.Mutex hands over to a waiter that has starved for 1 ms.
Fairness ==
  \A p \in Procs : WF_vars(InCall(p)) /\ SF_vars(Lock(p))

-----------------------------------------------------------------------------
Elements == Values \cup {Zero}

\* Every variable keeps its type, and the fields of the queue agree with each
\* other in every state: neither head nor firstEmpty leaves the buffer, and
\* they are numElements apart even across a growth.
TypeOK ==
  /\ mu \in Procs \cup {NoProc}
  /\ RingOK(q)
  /\ pc \in [Procs -> {"idle", "lock", "read", "write", "unlock"}]
  /\ op \in [Procs -> {"push", "pop"}]
  /\ arg \in [Procs -> Elements]
  /\ result \in [Procs -> Elements \X BOOLEAN]

\* The refinement mapping: the contents of the ring buffer are the items, and
\* a call takes effect when it writes the queue.
Fifo == INSTANCE FifoQueue WITH
  items <- Contents(q),
  call <- [p \in Procs |->
             CASE pc[p] = "idle" -> "none"
               [] pc[p] = "unlock" -> (IF op[p] = "push" THEN "pushed" ELSE "popped")
               [] OTHER -> op[p]]

\* ConcurrentQueue is a linearizable FIFO queue: no interleaving of goroutines
\* and no growth of the buffer loses, repeats or reorders an element.
IsFifoQueue == Fifo!Spec

\* Every Push and every Pop returns.
CallsReturn == \A p \in Procs : (pc[p] # "idle") ~> (pc[p] = "idle")
=============================================================================
