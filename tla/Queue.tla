------------------------------- MODULE Queue -------------------------------
(***************************************************************************)
(* lab0's Queue: a ring buffer that doubles when it is full.  A queue is a *)
(* record with the fields of the struct; buf is indexed from 0.            *)
(***************************************************************************)
EXTENDS Integers, Sequences

CONSTANTS
  InitialSize,   \* length of the first buffer, 8 in NewQueue
  Values,        \* values pushed
  Zero           \* the zero value of the element type

\* At 1 the first growth would leave firstEmpty outside the buffer.
ASSUME QueueAssumption == InitialSize \in Nat /\ InitialSize >= 2

NewQueue ==
  [head |-> 0, firstEmpty |-> 0, numElements |-> 0,
   buf |-> [k \in 0..(InitialSize - 1) |-> Zero], size |-> InitialSize]

\* The buffer of twice the size: buf[head:], then buf[:firstEmpty], then zeros.
Grow(q) ==
  LET n == q.size - q.head IN
  [k \in 0..(2 * q.size - 1) |->
     IF k < n THEN q.buf[q.head + k]
     ELSE IF k < n + q.firstEmpty THEN q.buf[k - n]
     ELSE Zero]

Push(q, t) ==
  IF q.numElements < q.size
  THEN [head |-> q.head,
        firstEmpty |-> (q.firstEmpty + 1) % q.size,
        numElements |-> q.numElements + 1,
        buf |-> [q.buf EXCEPT ![q.firstEmpty] = t],
        size |-> q.size]
  ELSE [head |-> 0,
        firstEmpty |-> q.size + 1,
        numElements |-> q.numElements + 1,
        buf |-> [Grow(q) EXCEPT ![q.size] = t],
        size |-> 2 * q.size]

\* What Pop returns: the value and whether there was one.
PopResult(q) == IF q.numElements = 0 THEN <<Zero, FALSE>> ELSE <<q.buf[q.head], TRUE>>

\* What Pop leaves.
Pop(q) ==
  IF q.numElements = 0 THEN q
  ELSE [head |-> (q.head + 1) % q.size,
        firstEmpty |-> q.firstEmpty,
        numElements |-> q.numElements - 1,
        buf |-> q.buf,
        size |-> q.size]

-----------------------------------------------------------------------------
(***************************************************************************)
(* What a queue stands for.                                                *)
(***************************************************************************)

\* The index n positions after head h in a buffer of length s.
Wrap(h, s, n) == IF h + n < s THEN h + n ELSE h + n - s

Contents(q) == [k \in 1..q.numElements |-> q.buf[Wrap(q.head, q.size, k - 1)]]

\* The fields agree with each other: firstEmpty is numElements after head, and
\* both stay inside the buffer.
RingOK(q) ==
  /\ q = [head |-> q.head, firstEmpty |-> q.firstEmpty,
          numElements |-> q.numElements, buf |-> q.buf, size |-> q.size]
  /\ q.size \in Nat /\ q.size >= InitialSize
  /\ q.head \in 0..(q.size - 1)
  /\ q.numElements \in 0..q.size
  /\ q.firstEmpty = Wrap(q.head, q.size, q.numElements)
  /\ q.buf \in [0..(q.size - 1) -> Values \cup {Zero}]
=============================================================================
