---------------------------- MODULE SyncProofs -----------------------------
(***************************************************************************)
(* Proofs about lab0's concurrency exercises.  Queue and ConcurrentQueue,  *)
(* for every initial size of at least 2, every set of goroutines and every *)
(* set of values: the ring buffer stays well formed, and the queue         *)
(* implements FifoQueue.  Semaphore conserves its units for any number of  *)
(* waiters and posts.  ParallelFetcher keeps its limit for every number of *)
(* clients and every limit.  The merges lose and reorder nothing, for any  *)
(* inputs and any capacities of the channels.                              *)
(***************************************************************************)
EXTENDS ConcurrentQueue, Semaphore, ParallelFetcher, MergeChannels, MergeFetches, FiniteSetTheorems,
        TLAPS

(***************************************************************************)
(* The ring buffer.                                                        *)
(***************************************************************************)

\* (x + 1) % n for an index x of a buffer of length n.
LEMMA NextIndex ==
  ASSUME NEW n \in Nat, n >= 1, NEW x \in 0..(n - 1)
  PROVE  (x + 1) % n = IF x + 1 < n THEN x + 1 ELSE 0
  OBVIOUS

\* Walking around a buffer of length s from index h.
LEMMA WrapIndex ==
  ASSUME NEW s \in Nat, NEW h \in 0..(s - 1), NEW n \in 0..s
  PROVE  /\ Wrap(h, s, n) \in 0..(s - 1)
         /\ Wrap(h, s, 0) = h
         /\ Wrap(h, s, s) = h
         /\ h = 0 /\ n < s => Wrap(h, s, n) = n
  BY DEF Wrap

\* One step further is the next index.
LEMMA WrapNext ==
  ASSUME NEW s \in Nat, NEW h \in 0..(s - 1), NEW n \in 0..(s - 1)
  PROVE  /\ (Wrap(h, s, n) + 1) % s = Wrap(h, s, n + 1)
         /\ Wrap((h + 1) % s, s, n) = Wrap(h, s, n + 1)
  <1>1. Wrap(h, s, n) \in 0..(s - 1)
    BY WrapIndex
  <1>2. (Wrap(h, s, n) + 1) % s = IF Wrap(h, s, n) + 1 < s THEN Wrap(h, s, n) + 1 ELSE 0
    BY <1>1, NextIndex
  <1>3. (h + 1) % s = IF h + 1 < s THEN h + 1 ELSE 0
    BY NextIndex
  <1> QED
    BY <1>2, <1>3 DEF Wrap

\* Fewer than s steps apart are different indices.
LEMMA WrapDistinct ==
  ASSUME NEW s \in Nat, NEW h \in 0..(s - 1), NEW n \in 0..(s - 1), NEW k \in 0..(n - 1)
  PROVE  Wrap(h, s, k) # Wrap(h, s, n)
  BY DEF Wrap

\* A well-formed ring, with its fields named.
Ring(h, e, n, buf, s) ==
  /\ s \in Nat /\ s >= InitialSize
  /\ h \in 0..(s - 1)
  /\ n \in 0..s
  /\ e = Wrap(h, s, n)
  /\ buf \in [0..(s - 1) -> Values \cup {Zero}]

Struct(h, e, n, buf, s) ==
  [head |-> h, firstEmpty |-> e, numElements |-> n, buf |-> buf, size |-> s]

\* RingOK is Ring of the fields.
LEMMA RingFields ==
  ASSUME NEW x, RingOK(x)
  PROVE  /\ x = Struct(x.head, x.firstEmpty, x.numElements, x.buf, x.size)
         /\ Ring(x.head, x.firstEmpty, x.numElements, x.buf, x.size)
  BY DEF RingOK, Ring, Struct

\* Conversely, a struct of such fields satisfies RingOK.
LEMMA RingStruct ==
  ASSUME NEW h, NEW e, NEW n, NEW buf, NEW s, Ring(h, e, n, buf, s)
  PROVE  RingOK(Struct(h, e, n, buf, s))
  BY DEF RingOK, Ring, Struct

\* A new queue is a well-formed ring with nothing in it.
LEMMA NewQueueOK == RingOK(NewQueue) /\ Contents(NewQueue) = <<>>
  <1>1. Wrap(0, InitialSize, 0) = 0
    BY QueueAssumption DEF Wrap
  <1> QED
    BY <1>1, QueueAssumption DEF RingOK, NewQueue, Contents

\* The contents of a ring are a sequence of its n values.
LEMMA ContentsType ==
  ASSUME NEW h, NEW e, NEW n, NEW buf, NEW s, Ring(h, e, n, buf, s)
  PROVE  LET c == Contents(Struct(h, e, n, buf, s)) IN
         /\ c \in Seq(Values \cup {Zero})
         /\ Len(c) = n
         /\ \A k \in 1..n : c[k] = buf[Wrap(h, s, k - 1)]
  <1>1. ASSUME NEW k \in 1..n PROVE Wrap(h, s, k - 1) \in 0..(s - 1)
    <2>1. s \in Nat /\ h \in 0..(s - 1) /\ k - 1 \in 0..s
      BY DEF Ring
    <2> QED
      BY <2>1, WrapIndex
  <1>2. \A k \in 1..n : buf[Wrap(h, s, k - 1)] \in Values \cup {Zero}
    BY <1>1 DEF Ring
  <1>3. n \in Nat
    BY DEF Ring
  <1> QED
    BY <1>2, <1>3 DEF Contents, Struct

\* Growing a full ring keeps its elements and lays them out from index 0.
LEMMA GrowLayout ==
  ASSUME NEW h, NEW e, NEW buf, NEW s, Ring(h, e, s, buf, s)
  PROVE  LET g == Grow(Struct(h, e, s, buf, s)) IN
         /\ g \in [0..(2 * s - 1) -> Values \cup {Zero}]
         /\ \A k \in 0..(s - 1) : g[k] = buf[Wrap(h, s, k)]
  <1> DEFINE n == s - h
             elem(k) == IF k < n THEN buf[h + k] ELSE IF k < n + e THEN buf[k - n] ELSE Zero
             g == Grow(Struct(h, e, s, buf, s))
  <1>1. /\ s \in Nat /\ s >= 2 /\ h \in 0..(s - 1)
        /\ buf \in [0..(s - 1) -> Values \cup {Zero}]
    BY QueueAssumption DEF Ring
  <1>2. e = h
    BY <1>1, WrapIndex DEF Ring
  <1>3. g = [k \in 0..(2 * s - 1) |-> elem(k)]
    BY DEF Grow, Struct
  <1>4. ASSUME NEW k \in 0..(2 * s - 1) PROVE elem(k) \in Values \cup {Zero}
    <2>1. k < n => h + k \in 0..(s - 1)
      BY <1>1
    <2>2. ~(k < n) /\ k < n + e => k - n \in 0..(s - 1)
      BY <1>1, <1>2
    <2> HIDE DEF n
    <2> QED
      BY <1>1, <2>1, <2>2
  <1>5. ASSUME NEW k \in 0..(s - 1) PROVE elem(k) = buf[Wrap(h, s, k)]
    <2>1. k < n => h + k = Wrap(h, s, k)
      BY <1>1 DEF Wrap
    <2>2. ~(k < n) => k < n + e /\ k - n = Wrap(h, s, k)
      BY <1>1, <1>2 DEF Wrap
    <2> HIDE DEF n
    <2> QED
      BY <2>1, <2>2
  <1>6. 0..(s - 1) \subseteq 0..(2 * s - 1)
    BY <1>1
  <1> HIDE DEF elem, g
  <1>7. /\ g \in [0..(2 * s - 1) -> Values \cup {Zero}]
        /\ \A k \in 0..(s - 1) : g[k] = buf[Wrap(h, s, k)]
    BY <1>3, <1>4, <1>5, <1>6
  <1> QED
    BY <1>7 DEF g

\* Push keeps the ring well formed and appends to its contents, across the end
\* of the buffer and across a growth.
LEMMA PushRing ==
  ASSUME NEW h, NEW e, NEW n, NEW buf, NEW s, Ring(h, e, n, buf, s),
         NEW t \in Values \cup {Zero}
  PROVE  LET x == Struct(h, e, n, buf, s) IN
         RingOK(Push(x, t)) /\ Contents(Push(x, t)) = Append(Contents(x), t)
  <1> DEFINE x == Struct(h, e, n, buf, s)
  <1>0. /\ s \in Nat /\ s >= 2 /\ s >= InitialSize /\ h \in 0..(s - 1) /\ n \in 0..s
        /\ e = Wrap(h, s, n)
        /\ buf \in [0..(s - 1) -> Values \cup {Zero}]
    BY QueueAssumption DEF Ring
  \* The new ring holds the old elements where Wrap looks for them, then t.
  <1>1. PICK h2, e2, buf2, s2 :
          /\ Push(x, t) = Struct(h2, e2, n + 1, buf2, s2)
          /\ Ring(h2, e2, n + 1, buf2, s2)
          /\ \A k \in 0..(n - 1) : buf2[Wrap(h2, s2, k)] = buf[Wrap(h, s, k)]
          /\ buf2[Wrap(h2, s2, n)] = t
    <2>1. CASE n < s
      <3> DEFINE b2 == [buf EXCEPT ![e] = t]
                 e2 == (e + 1) % s
      <3>0. n \in 0..(s - 1)
        BY <1>0, <2>1
      <3>1. Push(x, t) = Struct(h, e2, n + 1, b2, s)
        BY <2>1 DEF Push, Struct
      <3>2. e \in 0..(s - 1) /\ e2 = Wrap(h, s, n + 1)
        <4>1. Wrap(h, s, n) \in 0..(s - 1)
          BY <1>0, WrapIndex
        <4>2. (Wrap(h, s, n) + 1) % s = Wrap(h, s, n + 1)
          BY <1>0, <3>0, WrapNext
        <4> QED
          BY <1>0, <4>1, <4>2
      <3>3. b2 \in [0..(s - 1) -> Values \cup {Zero}] /\ b2[e] = t
        BY <1>0, <3>2
      <3>4. n + 1 \in 0..s
        BY <1>0, <3>0
      <3>5. Ring(h, e2, n + 1, b2, s)
        BY <1>0, <3>2, <3>3, <3>4 DEF Ring
      <3>6. ASSUME NEW k \in 0..(n - 1) PROVE b2[Wrap(h, s, k)] = buf[Wrap(h, s, k)]
        <4>1. k \in 0..s
          BY <1>0
        <4>2. Wrap(h, s, k) # e
          BY <1>0, <3>0, WrapDistinct
        <4>3. Wrap(h, s, k) \in 0..(s - 1)
          BY <1>0, <4>1, WrapIndex
        <4> QED
          BY <1>0, <4>2, <4>3
      <3> HIDE DEF b2, e2, x
      <3> QED
        BY <1>0, <3>1, <3>3, <3>5, <3>6
    <2>2. CASE ~(n < s)
      <3> DEFINE g  == Grow(x)
                 b2 == [g EXCEPT ![s] = t]
      <3>0. n = s
        BY <1>0, <2>2
      <3>1. Push(x, t) = Struct(0, s + 1, n + 1, b2, 2 * s)
        BY <2>2 DEF Push, Struct
      <3>2. /\ g \in [0..(2 * s - 1) -> Values \cup {Zero}]
            /\ \A k \in 0..(s - 1) : g[k] = buf[Wrap(h, s, k)]
        <4>1. x = Struct(h, e, s, buf, s) /\ Ring(h, e, s, buf, s)
          BY <3>0
        <4> QED
          BY <4>1, GrowLayout
      <3>3. s \in 0..(2 * s - 1) /\ 0..(s - 1) \subseteq 0..(2 * s - 1)
        BY <1>0
      <3> HIDE DEF g
      <3>4. /\ b2 \in [0..(2 * s - 1) -> Values \cup {Zero}]
            /\ b2[s] = t
            /\ \A k \in 0..(s - 1) : b2[k] = buf[Wrap(h, s, k)]
        BY <1>0, <3>2, <3>3
      <3> HIDE DEF b2
      <3>5. \A k \in 0..(s + 1) : Wrap(0, 2 * s, k) = k
        <4>1. s + 1 < 2 * s
          BY <1>0
        <4> QED
          BY <1>0, <4>1 DEF Wrap
      <3>6. Ring(0, s + 1, n + 1, b2, 2 * s)
        <4>1. /\ 2 * s \in Nat /\ 2 * s >= InitialSize /\ 0 \in 0..(2 * s - 1)
              /\ s + 1 \in 0..(2 * s)
          BY <1>0, QueueAssumption
        <4>2. s + 1 = Wrap(0, 2 * s, s + 1)
          BY <1>0, <3>5
        <4> QED
          BY <3>0, <3>4, <4>1, <4>2 DEF Ring
      <3>7. \A k \in 0..(n - 1) : b2[Wrap(0, 2 * s, k)] = buf[Wrap(h, s, k)]
        BY <1>0, <3>0, <3>4, <3>5
      <3>8. b2[Wrap(0, 2 * s, n)] = t
        BY <1>0, <3>0, <3>4, <3>5
      <3> HIDE DEF x
      <3> QED
        BY <3>1, <3>6, <3>7, <3>8
    <2> QED
      BY <2>1, <2>2
  <1> DEFINE y == Struct(h2, e2, n + 1, buf2, s2)
  <1>2. RingOK(y)
    BY <1>1, RingStruct
  <1>3. /\ Contents(x) \in Seq(Values \cup {Zero}) /\ Len(Contents(x)) = n
        /\ \A k \in 1..n : Contents(x)[k] = buf[Wrap(h, s, k - 1)]
    BY ContentsType
  <1>4. /\ Contents(y) \in Seq(Values \cup {Zero}) /\ Len(Contents(y)) = n + 1
        /\ \A k \in 1..(n + 1) : Contents(y)[k] = buf2[Wrap(h2, s2, k - 1)]
    BY <1>1, ContentsType
  <1> HIDE DEF x, y
  <1>5. ASSUME NEW k \in 1..n PROVE Contents(y)[k] = Contents(x)[k]
    <2>1. k \in 1..(n + 1) /\ k - 1 \in 0..(n - 1)
      BY <1>0
    <2> QED
      BY <1>1, <1>3, <1>4, <2>1
  <1>6. Contents(y)[n + 1] = t
    <2>1. n + 1 \in 1..(n + 1) /\ (n + 1) - 1 = n
      BY <1>0
    <2> QED
      BY <1>1, <1>4, <2>1
  <1>7. Contents(y) = Append(Contents(x), t)
    BY <1>0, <1>3, <1>4, <1>5, <1>6
  <1>8. Push(x, t) = y
    BY <1>1 DEF y
  <1> QED
    BY <1>2, <1>7, <1>8 DEF x

\* Pop keeps the ring well formed, returns the first element and leaves the
\* others.
LEMMA PopRing ==
  ASSUME NEW h, NEW e, NEW n, NEW buf, NEW s, Ring(h, e, n, buf, s), n # 0
  PROVE  LET x == Struct(h, e, n, buf, s) IN
         /\ RingOK(Pop(x))
         /\ Contents(x) # <<>>
         /\ Contents(Pop(x)) = Tail(Contents(x))
         /\ PopResult(x) = <<Head(Contents(x)), TRUE>>
         /\ Head(Contents(x)) \in Values \cup {Zero}
  <1> DEFINE x  == Struct(h, e, n, buf, s)
             h2 == (h + 1) % s
             y  == Struct(h2, e, n - 1, buf, s)
  <1>0. /\ s \in Nat /\ h \in 0..(s - 1) /\ n \in 1..s
        /\ e = Wrap(h, s, n)
        /\ buf \in [0..(s - 1) -> Values \cup {Zero}]
    BY DEF Ring
  <1>1. Pop(x) = y /\ PopResult(x) = <<buf[h], TRUE>>
    BY DEF Pop, PopResult, Struct
  <1>2. h2 \in 0..(s - 1)
    BY <1>0, NextIndex
  <1>3. ASSUME NEW k \in 0..(n - 1) PROVE Wrap(h2, s, k) = Wrap(h, s, k + 1)
    <2>1. k \in 0..(s - 1)
      BY <1>0
    <2> QED
      BY <1>0, <2>1, WrapNext
  <1>4. Ring(h2, e, n - 1, buf, s)
    <2>1. n - 1 \in 0..(n - 1) /\ n - 1 \in 0..s /\ (n - 1) + 1 = n
      BY <1>0
    <2>2. e = Wrap(h2, s, n - 1)
      BY <1>0, <1>3, <2>1
    <2> QED
      BY <1>2, <2>1, <2>2 DEF Ring
  <1>5. RingOK(y)
    BY <1>4, RingStruct
  <1>6. /\ Contents(x) \in Seq(Values \cup {Zero}) /\ Len(Contents(x)) = n
        /\ \A k \in 1..n : Contents(x)[k] = buf[Wrap(h, s, k - 1)]
    BY ContentsType
  <1>7. /\ Contents(y) \in Seq(Values \cup {Zero}) /\ Len(Contents(y)) = n - 1
        /\ \A k \in 1..(n - 1) : Contents(y)[k] = buf[Wrap(h2, s, k - 1)]
    BY <1>4, ContentsType
  <1> HIDE DEF x, y, h2
  <1>8. ASSUME NEW k \in 1..(n - 1) PROVE Contents(y)[k] = Contents(x)[k + 1]
    <2>1. k - 1 \in 0..(n - 1) /\ k + 1 \in 1..n /\ (k - 1) + 1 = k /\ (k + 1) - 1 = k
      BY <1>0
    <2> QED
      BY <1>3, <1>6, <1>7, <2>1
  <1>9. Contents(y) = Tail(Contents(x))
    BY <1>0, <1>6, <1>7, <1>8
  <1>10. Head(Contents(x)) = buf[h] /\ Contents(x) # <<>> /\ buf[h] \in Values \cup {Zero}
    <2>1. 1 \in 1..n /\ 1 - 1 = 0
      BY <1>0
    <2>2. Wrap(h, s, 0) = h
      BY <1>0, WrapIndex
    <2>3. Contents(x)[1] = buf[h]
      BY <1>6, <2>1, <2>2
    <2> QED
      BY <1>0, <1>6, <2>3
  <1> QED
    BY <1>1, <1>5, <1>9, <1>10 DEF x

\* Push of a well-formed queue keeps it well formed and appends the element.
LEMMA PushCorrect ==
  ASSUME NEW x, RingOK(x), NEW t \in Values \cup {Zero}
  PROVE  RingOK(Push(x, t)) /\ Contents(Push(x, t)) = Append(Contents(x), t)
  BY RingFields, PushRing

\* Pop of a well-formed queue keeps it well formed and removes and returns the
\* first element, or the zero value and false when there is none.
LEMMA PopCorrect ==
  ASSUME NEW x, RingOK(x)
  PROVE  /\ RingOK(Pop(x))
         /\ PopResult(x) \in (Values \cup {Zero}) \X BOOLEAN
         /\ Contents(x) = <<>> =>
              Contents(Pop(x)) = <<>> /\ PopResult(x) = <<Zero, FALSE>>
         /\ Contents(x) # <<>> =>
              /\ Contents(Pop(x)) = Tail(Contents(x))
              /\ PopResult(x) = <<Head(Contents(x)), TRUE>>
  <1>1. CASE x.numElements = 0
    <2>1. Contents(x) = <<>>
      BY <1>1 DEF Contents
    <2>2. Pop(x) = x /\ PopResult(x) = <<Zero, FALSE>>
      BY <1>1 DEF Pop, PopResult
    <2>3. <<Zero, FALSE>> \in (Values \cup {Zero}) \X BOOLEAN
      OBVIOUS
    <2> QED
      BY <2>1, <2>2, <2>3, Zenon
  <1>2. CASE x.numElements # 0
    <2> DEFINE y == Struct(x.head, x.firstEmpty, x.numElements, x.buf, x.size)
    <2>1. x = y /\ Ring(x.head, x.firstEmpty, x.numElements, x.buf, x.size)
      BY RingFields
    <2>2. /\ RingOK(Pop(y))
          /\ Contents(y) # <<>>
          /\ Contents(Pop(y)) = Tail(Contents(y))
          /\ PopResult(y) = <<Head(Contents(y)), TRUE>>
          /\ Head(Contents(y)) \in Values \cup {Zero}
      BY <1>2, <2>1, PopRing
    <2> HIDE DEF y
    <2>3. <<Head(Contents(y)), TRUE>> \in (Values \cup {Zero}) \X BOOLEAN
      BY <2>2
    <2> QED
      BY <2>1, <2>2, <2>3, Zenon
  <1> QED
    BY <1>1, <1>2

-----------------------------------------------------------------------------
(***************************************************************************)
(* The inductive invariant.  Only the holder of the mutex is in the        *)
(* critical section, so what it has read is still what the queue is when   *)
(* it writes.                                                              *)
(***************************************************************************)
Critical == {"read", "write", "unlock"}

MutexInv ==
  /\ \A p \in Procs : pc[p] \in Critical <=> mu = p
  /\ local = [p \in Procs |-> local[p]]
  /\ \A p \in Procs : pc[p] = "write" => local[p] = q

QueueInv == TypeOK /\ MutexInv

USE DEF Elements

\* The invariant holds initially.
LEMMA QueueInit == Init => QueueInv
  <1> SUFFICES ASSUME Init PROVE QueueInv
    OBVIOUS
  <1>1. TypeOK
    BY NewQueueOK DEF Init, TypeOK
  <1>2. MutexInv
    BY ProcsAssumption DEF Init, MutexInv, Critical
  <1> QED
    BY <1>1, <1>2 DEF QueueInv

\* Every step preserves it.
LEMMA QueueNext == QueueInv /\ [Next]_vars => QueueInv'
  <1> SUFFICES ASSUME QueueInv, [Next]_vars PROVE QueueInv'
    OBVIOUS
  <1> USE DEF QueueInv, TypeOK, MutexInv, Critical
  <1>1. ASSUME NEW p \in Procs, CallPush(p) \/ CallPop(p) PROVE QueueInv'
    <2>1. TypeOK'
      <3>1. RingOK(q') /\ mu' = mu /\ result' = result
        BY <1>1 DEF CallPush, CallPop
      <3>2. /\ pc' = [pc EXCEPT ![p] = "lock"]
            /\ op' \in {[op EXCEPT ![p] = "push"], [op EXCEPT ![p] = "pop"]}
            /\ arg' = arg \/ \E e \in Values : arg' = [arg EXCEPT ![p] = e]
        BY <1>1 DEF CallPush, CallPop
      <3> QED
        BY <3>1, <3>2
    <2>2. MutexInv'
      BY <1>1 DEF CallPush, CallPop
    <2> QED
      BY <2>1, <2>2
  <1>2. ASSUME NEW p \in Procs, Lock(p) PROVE QueueInv'
    BY <1>2, ProcsAssumption DEF Lock
  <1>3. ASSUME NEW p \in Procs, Read(p) PROVE QueueInv'
    BY <1>3 DEF Read
  <1>4. ASSUME NEW p \in Procs, WritePush(p) PROVE QueueInv'
    <2>1. RingOK(q')
      BY <1>4, PushCorrect DEF WritePush
    <2>2. \A r \in Procs : r # p => pc[r] # "write"
      BY <1>4 DEF WritePush
    <2> QED
      BY <1>4, <2>1, <2>2 DEF WritePush
  <1>5. ASSUME NEW p \in Procs, WritePop(p) PROVE QueueInv'
    <2>1. RingOK(q') /\ PopResult(local[p]) \in Elements \X BOOLEAN
      BY <1>5, PopCorrect DEF WritePop
    <2>2. \A r \in Procs : r # p => pc[r] # "write"
      BY <1>5 DEF WritePop
    <2> QED
      BY <1>5, <2>1, <2>2 DEF WritePop
  <1>6. ASSUME NEW p \in Procs, Unlock(p) PROVE QueueInv'
    BY <1>6, ProcsAssumption DEF Unlock
  <1>7. CASE UNCHANGED vars
    BY <1>7 DEF vars
  <1> QED
    BY <1>1, <1>2, <1>3, <1>4, <1>5, <1>6, <1>7 DEF Next, InCall

\* The ring buffer is well formed in every reachable state.
THEOREM QueueTypesCorrect == Spec => []TypeOK
  <1>1. QueueInv => TypeOK
    BY DEF QueueInv
  <1> QED
    BY <1>1, QueueInit, QueueNext, PTL DEF Spec

-----------------------------------------------------------------------------
(***************************************************************************)
(* Refinement: each step of ConcurrentQueue is a step of FifoQueue or      *)
(* leaves FifoQueue's variables alone.                                     *)
(***************************************************************************)

\* An initial state maps to an initial state.
LEMMA RefineInit == Init => Fifo!Init
  <1> SUFFICES ASSUME Init PROVE Fifo!Init
    OBVIOUS
  <1>1. Contents(q) = <<>>
    BY NewQueueOK DEF Init
  <1> QED
    BY <1>1 DEF Init, Fifo!Init

\* A step maps to a step.
LEMMA RefineNext == QueueInv /\ [Next]_vars => [Fifo!Next]_(Fifo!vars)
  <1> SUFFICES ASSUME QueueInv, [Next]_vars PROVE [Fifo!Next]_(Fifo!vars)
    OBVIOUS
  <1> USE DEF QueueInv, TypeOK, MutexInv, Critical
  <1>1. ASSUME NEW p \in Procs, CallPush(p) PROVE Fifo!CallPush(p)
    BY <1>1 DEF CallPush, Fifo!CallPush
  <1>2. ASSUME NEW p \in Procs, CallPop(p) PROVE Fifo!CallPop(p)
    BY <1>2 DEF CallPop, Fifo!CallPop
  <1>3. ASSUME NEW p \in Procs, Lock(p) \/ Read(p) PROVE UNCHANGED Fifo!vars
    BY <1>3 DEF Lock, Read, Fifo!vars
  <1>4. ASSUME NEW p \in Procs, WritePush(p) PROVE Fifo!Push(p)
    <2>1. Contents(q)' = Append(Contents(q), arg[p])
      BY <1>4, PushCorrect DEF WritePush
    <2> QED
      BY <1>4, <2>1 DEF WritePush, Fifo!Push
  <1>5. ASSUME NEW p \in Procs, WritePop(p) PROVE Fifo!Pop(p) \/ Fifo!PopEmpty(p)
    <2>1. q' = Pop(q) /\ result' = [result EXCEPT ![p] = PopResult(q)]
      BY <1>5 DEF WritePop
    <2>2. CASE Contents(q) = <<>>
      <3>1. Contents(q)' = Contents(q) /\ PopResult(q) = <<Zero, FALSE>>
        BY <2>1, <2>2, PopCorrect
      <3> QED
        BY <1>5, <2>1, <2>2, <3>1 DEF WritePop, Fifo!PopEmpty
    <2>3. CASE Contents(q) # <<>>
      <3>1. Contents(q)' = Tail(Contents(q)) /\ PopResult(q) = <<Head(Contents(q)), TRUE>>
        BY <2>1, <2>3, PopCorrect
      <3> QED
        BY <1>5, <2>1, <2>3, <3>1 DEF WritePop, Fifo!Pop
    <2> QED
      BY <2>2, <2>3
  <1>6. ASSUME NEW p \in Procs, Unlock(p) PROVE Fifo!Return(p)
    BY <1>6 DEF Unlock, Fifo!Return
  <1>7. CASE UNCHANGED vars
    BY <1>7 DEF vars, Fifo!vars
  <1> QED
    BY <1>1, <1>2, <1>3, <1>4, <1>5, <1>6, <1>7 DEF Next, InCall, Fifo!Next

\* ConcurrentQueue implements FifoQueue: it is a linearizable FIFO queue for
\* any number of goroutines and elements.
THEOREM QueueIsFifo == Spec => IsFifoQueue
  <1>1. Spec => []QueueInv
    BY QueueInit, QueueNext, PTL DEF Spec
  <1> QED
    BY <1>1, RefineInit, RefineNext, PTL DEF Spec, IsFifoQueue, Fifo!Spec

-----------------------------------------------------------------------------
(***************************************************************************)
(* The inductive invariant adds that a waiter about to swap has loaded a   *)
(* positive value: then a swap that succeeds finds the counter positive,   *)
(* even if it changed and changed back since the load.                     *)
(***************************************************************************)
SemInv ==
  /\ SemTypeOK
  /\ UnitsConserved
  /\ \A w \in Waiters : wpc[w] = "cas" => val[w] > 0

\* Waits succeed no more often than Post was called, and the counter is what is
\* left.
THEOREM SemaphoreConservesUnits == SemSpec => [](SemTypeOK /\ UnitsConserved)
  <1>1. SemInit => SemInv
    BY SemaphoreAssumption DEF SemInit, SemInv, SemTypeOK, UnitsConserved
  <1>2. SemInv /\ [SemNext]_semVars => SemInv'
    <2> SUFFICES ASSUME SemInv, [SemNext]_semVars PROVE SemInv'
      OBVIOUS
    <2> USE SemaphoreAssumption DEF SemInv, SemTypeOK, UnitsConserved
    <2>1. CASE Post
      BY <2>1 DEF Post
    <2>2. ASSUME NEW w \in Waiters, Wait(w) \/ Cancel(w) \/ Return(w) PROVE SemInv'
      BY <2>2 DEF Wait, Cancel, Return
    <2>3. ASSUME NEW w \in Waiters, Select(w) PROVE SemInv'
      BY <2>3 DEF Select
    <2>4. ASSUME NEW w \in Waiters, Load(w) PROVE SemInv'
      BY <2>4 DEF Load
    <2>5. ASSUME NEW w \in Waiters, CompareAndSwap(w) PROVE SemInv'
      BY <2>5 DEF CompareAndSwap
    <2>6. CASE UNCHANGED semVars
      BY <2>6 DEF semVars
    <2> QED
      BY <2>1, <2>2, <2>3, <2>4, <2>5, <2>6 DEF SemNext, WaitStep
  <1>3. SemInv => SemTypeOK /\ UnitsConserved
    BY DEF SemInv
  <1> QED
    BY <1>1, <1>2, <1>3, PTL DEF SemSpec

-----------------------------------------------------------------------------
(***************************************************************************)
(* ParallelFetcher.                                                        *)
(***************************************************************************)
\* The list holds blocked clients, each once: without this a Release could hand
\* its unit to a client that already has one.
WaitersBlocked ==
  /\ \A k \in 1..Len(waiters) : cpc[waiters[k]] = "blocked"
  /\ \A k, l \in 1..Len(waiters) : waiters[k] = waiters[l] => k = l

FetcherInv ==
  /\ cpc \in [Clients -> {"idle", "acquire", "blocked", "fetching", "release"}]
  /\ cur \in Nat /\ waiters \in Seq(Clients)
  /\ WaitersBlocked
  /\ cur = Cardinality(Holders) /\ cur <= Limit

\* Taking one holder out, or putting one in, changes the count by one.
LEMMA HoldersCount ==
  ASSUME NEW H, IsFiniteSet(H), NEW c
  PROVE  /\ Cardinality(H) \in Nat
         /\ c \notin H => Cardinality(H \cup {c}) = Cardinality(H) + 1
         /\ c \in H => Cardinality(H \ {c}) = Cardinality(H) - 1
         /\ IsFiniteSet(H \ {c})
  BY FS_CardinalityType, FS_AddElement, FS_RemoveElement

\* Finitely many clients hold the semaphore.
LEMMA HoldersFinite == IsFiniteSet(Holders)
  BY FS_Subset, ParallelFetcherAssumption DEF Holders

\* FetcherInv holds initially.
LEMMA FetcherInitInv == FetcherInit => FetcherInv
<1> SUFFICES ASSUME FetcherInit PROVE FetcherInv
  OBVIOUS
<1>1. Holders = {}
  BY DEF FetcherInit, Holders
<1> QED
  BY <1>1, FS_EmptySet, ParallelFetcherAssumption DEF FetcherInit, FetcherInv, WaitersBlocked

\* Every step keeps FetcherInv.
LEMMA FetcherStepInv == FetcherInv /\ [FetcherNext]_fetcherVars => FetcherInv'
<1> SUFFICES ASSUME FetcherInv, [FetcherNext]_fetcherVars PROVE FetcherInv'
  OBVIOUS
<1> USE ParallelFetcherAssumption
<1>h. IsFiniteSet(Holders)
  BY HoldersFinite
<1>1. ASSUME NEW c \in Clients, Call(c) PROVE FetcherInv'
  <2>1. Holders' = Holders
    BY <1>1 DEF Call, Holders, FetcherInv
  <2> QED
    BY <1>1, <2>1 DEF Call, FetcherInv, WaitersBlocked
<1>2. ASSUME NEW c \in Clients, Acquire(c) PROVE FetcherInv'
  <2>1. CASE cur < Limit /\ waiters = <<>>
    <3>1. cur' = cur + 1 /\ cpc' = [cpc EXCEPT ![c] = "fetching"] /\ waiters' = waiters
      BY <1>2, <2>1 DEF Acquire
    <3>2. Holders' = Holders \cup {c} /\ c \notin Holders
      BY <1>2, <3>1 DEF Acquire, Holders, FetcherInv
    <3>3. Cardinality(Holders') = Cardinality(Holders) + 1
      BY <3>2, <1>h, HoldersCount
    <3> QED
      BY <2>1, <3>1, <3>3 DEF FetcherInv, WaitersBlocked
  <2>2. CASE ~(cur < Limit /\ waiters = <<>>)
    <3>1. /\ cur' = cur /\ cpc' = [cpc EXCEPT ![c] = "blocked"]
          /\ waiters' = waiters \/ waiters' = Append(waiters, c)
      BY <1>2, <2>2 DEF Acquire
    <3>2. Holders' = Holders
      BY <1>2, <3>1 DEF Acquire, Holders, FetcherInv
    <3>3. cpc[c] = "acquire"
      BY <1>2 DEF Acquire
    <3>4. WaitersBlocked' /\ waiters' \in Seq(Clients)
      <4>1. CASE waiters' = waiters
        BY <3>1, <3>3, <4>1 DEF FetcherInv, WaitersBlocked
      <4>2. CASE waiters' = Append(waiters, c)
        <5>1. waiters' \in Seq(Clients) /\ Len(waiters') = Len(waiters) + 1
          BY <4>2 DEF FetcherInv
        <5>2. /\ waiters'[Len(waiters) + 1] = c
              /\ \A k \in 1..Len(waiters) : waiters'[k] = waiters[k] /\ waiters[k] \in Clients
          BY <4>2 DEF FetcherInv
        <5>3. \A k \in 1..Len(waiters) : waiters[k] # c
          BY <3>3 DEF FetcherInv, WaitersBlocked
        <5>4. Len(waiters) \in Nat
          BY DEF FetcherInv
        <5>5. \A k \in 1..Len(waiters') : k \in 1..Len(waiters) \/ k = Len(waiters) + 1
          BY <5>1, <5>4
        <5>6. \A k \in 1..Len(waiters') : cpc'[waiters'[k]] = "blocked"
          BY <5>2, <5>3, <5>5, <3>1 DEF FetcherInv, WaitersBlocked
        <5>7. \A k, l \in 1..Len(waiters') : waiters'[k] = waiters'[l] => k = l
          BY <5>2, <5>3, <5>5 DEF FetcherInv, WaitersBlocked
        <5> QED
          BY <5>1, <5>6, <5>7 DEF WaitersBlocked
      <4> QED
        BY <3>1, <4>1, <4>2
    <3> QED
      BY <3>1, <3>2, <3>4 DEF FetcherInv
  <2> QED
    BY <2>1, <2>2
<1>3. ASSUME NEW c \in Clients, FetchReturns(c) PROVE FetcherInv'
  <2>1. Holders' = Holders
    BY <1>3 DEF FetchReturns, Holders, FetcherInv
  <2> QED
    BY <1>3, <2>1 DEF FetchReturns, FetcherInv, WaitersBlocked
<1>4. ASSUME NEW c \in Clients, Release(c) PROVE FetcherInv'
  <2>c. c \in Holders /\ cpc[c] = "release"
    BY <1>4 DEF Release, Holders
  <2>1. CASE waiters = <<>>
    <3>1. cur' = cur - 1 /\ cpc' = [cpc EXCEPT ![c] = "idle"] /\ waiters' = waiters
      BY <1>4, <2>1 DEF Release
    <3>2. Holders' = Holders \ {c}
      BY <3>1 DEF Holders, FetcherInv
    <3>3. Cardinality(Holders') = Cardinality(Holders) - 1 /\ Cardinality(Holders') \in Nat
      BY <3>2, <2>c, <1>h, HoldersCount, FS_CardinalityType
    <3> QED
      BY <2>1, <3>1, <3>3 DEF FetcherInv, WaitersBlocked
  <2>2. CASE waiters # <<>>
    <3> DEFINE w == Head(waiters)
    <3>1. /\ waiters' = Tail(waiters) /\ cur' = cur
          /\ cpc' = [cpc EXCEPT ![c] = "idle", ![w] = "fetching"]
      BY <1>4, <2>2 DEF Release
    <3>2. w \in Clients /\ cpc[w] = "blocked" /\ w = waiters[1] /\ Len(waiters) >= 1
      BY <2>2 DEF FetcherInv, WaitersBlocked
    <3>3. \A k \in 1..Len(waiters') : /\ k + 1 \in 1..Len(waiters)
                                      /\ waiters'[k] = waiters[k + 1]
      BY <3>1, <3>2, <2>2 DEF FetcherInv
    <3>4. waiters' \in Seq(Clients)
      BY <3>1, <2>2 DEF FetcherInv
    <3>5. \A k \in 1..Len(waiters') : waiters'[k] # w /\ waiters'[k] # c
      <4> SUFFICES ASSUME NEW k \in 1..Len(waiters') PROVE waiters'[k] # w /\ waiters'[k] # c
        OBVIOUS
      <4>1. /\ k + 1 \in 1..Len(waiters) /\ 1 \in 1..Len(waiters) /\ k + 1 # 1
            /\ waiters'[k] = waiters[k + 1]
        BY <3>2, <3>3, <3>4
      <4>2. waiters[k + 1] # waiters[1] /\ cpc[waiters[k + 1]] = "blocked"
        BY <4>1 DEF FetcherInv, WaitersBlocked
      <4> QED
        BY <4>1, <4>2, <3>2, <2>c
    <3>6. WaitersBlocked'
      <4>1. \A k \in 1..Len(waiters') : waiters'[k] \in Clients /\ cpc[waiters'[k]] = "blocked"
        BY <3>3, <3>4 DEF FetcherInv, WaitersBlocked
      <4>2. \A k \in 1..Len(waiters') : cpc'[waiters'[k]] = "blocked"
        BY <4>1, <3>1, <3>5 DEF FetcherInv
      <4>3. \A k, l \in 1..Len(waiters') : waiters'[k] = waiters'[l] => k = l
        <5> SUFFICES ASSUME NEW k \in 1..Len(waiters'), NEW l \in 1..Len(waiters'),
                            waiters'[k] = waiters'[l]
                     PROVE  k = l
          OBVIOUS
        <5>1. /\ k + 1 \in 1..Len(waiters) /\ waiters'[k] = waiters[k + 1]
              /\ l + 1 \in 1..Len(waiters) /\ waiters'[l] = waiters[l + 1]
          BY <3>2, <3>3, <3>4
        <5>2. k + 1 = l + 1
          BY <5>1 DEF FetcherInv, WaitersBlocked
        <5> QED
          BY <5>2
      <4> QED
        BY <4>2, <4>3 DEF WaitersBlocked
    <3>7. Holders' = (Holders \ {c}) \cup {w} /\ w \notin Holders \ {c}
      BY <3>1, <3>2, <2>c DEF Holders, FetcherInv
    <3>8. Cardinality(Holders') = Cardinality(Holders)
      <4>1. IsFiniteSet(Holders \ {c}) /\ Cardinality(Holders \ {c}) = Cardinality(Holders) - 1
        BY <2>c, <1>h, HoldersCount
      <4>2. Cardinality(Holders') = Cardinality(Holders \ {c}) + 1
        BY <4>1, <3>7, HoldersCount
      <4>3. Cardinality(Holders) \in Nat
        BY <1>h, HoldersCount
      <4> QED
        BY <4>1, <4>2, <4>3
    <3>9. cpc' \in [Clients -> {"idle", "acquire", "blocked", "fetching", "release"}]
      BY <3>1 DEF FetcherInv
    <3> QED
      BY <3>1, <3>4, <3>6, <3>8, <3>9 DEF FetcherInv
  <2> QED
    BY <2>1, <2>2
<1>5. CASE UNCHANGED fetcherVars
  <2>1. Holders' = Holders
    BY <1>5 DEF fetcherVars, Holders
  <2> QED
    BY <1>5, <2>1 DEF fetcherVars, FetcherInv, WaitersBlocked
<1> QED
  BY <1>1, <1>2, <1>3, <1>4, <1>5 DEF FetcherNext

\* No more than Limit clients are ever inside the wrapped Fetch, for any set of
\* clients and any limit (ParallelFetcher.Fetch, parallel_fetcher.go:35-42).
THEOREM FetchesAreBounded == FetcherSpec => []ConcurrencyBounded
<1>1. FetcherInv => ConcurrencyBounded
  <2> SUFFICES ASSUME FetcherInv PROVE ConcurrencyBounded
    OBVIOUS
  <2> DEFINE F == {c \in Clients : cpc[c] = "fetching"}
  <2>1. F \subseteq Holders
    BY DEF Holders
  <2>2. Cardinality(F) <= Cardinality(Holders) /\ Cardinality(F) \in Nat
    BY <2>1, HoldersFinite, FS_Subset, FS_CardinalityType
  <2> QED
    BY <2>2, ParallelFetcherAssumption DEF FetcherInv, ConcurrencyBounded
<1> QED
  BY <1>1, FetcherInitInv, FetcherStepInv, PTL DEF FetcherSpec

(***************************************************************************)
(* Merging.                                                                *)
(***************************************************************************)

\* Sequences.
LEMMA MoveHead ==
  ASSUME NEW D, NEW x \in Seq(D), NEW y \in Seq(D), y # <<>>
  PROVE  Append(x, Head(y)) \o Tail(y) = x \o y
  OBVIOUS

\* Head and tail of a concatenation.
LEMMA ConcatParts ==
  ASSUME NEW D, NEW x \in Seq(D), NEW y \in Seq(D), x # <<>>
  PROVE  /\ x \o y \in Seq(D) /\ x \o y # <<>>
         /\ Head(x \o y) = Head(x) /\ Tail(x \o y) = Tail(x) \o y
  OBVIOUS

\* Concatenation with the empty sequence.
LEMMA ConcatEmpty ==
  ASSUME NEW D, NEW x \in Seq(D)
  PROVE  x \o <<>> = x
  OBVIOUS

\* Concatenation with a sequence of one.
LEMMA ConcatOne ==
  ASSUME NEW D, NEW x \in Seq(D), NEW e \in D
  PROVE  x \o <<e>> = Append(x, e)
  OBVIOUS

\* Appending to the second part of a concatenation.
LEMMA ConcatAppend ==
  ASSUME NEW D, NEW x \in Seq(D), NEW y \in Seq(D), NEW e \in D
  PROVE  x \o Append(y, e) = Append(x \o y, e)
  OBVIOUS

\* What is left of a sequence from position n + 1 on.
LEMMA RestNext ==
  ASSUME NEW D, NEW all \in Seq(D), NEW n \in 0..Len(all), SubSeq(all, n + 1, Len(all)) # <<>>
  PROVE  /\ n + 1 <= Len(all)
         /\ Head(SubSeq(all, n + 1, Len(all))) = all[n + 1]
         /\ Tail(SubSeq(all, n + 1, Len(all))) = SubSeq(all, n + 2, Len(all))
  OBVIOUS

\* Something is left before the end.
LEMMA RestNotEmpty ==
  ASSUME NEW D, NEW all \in Seq(D), NEW n \in 0..Len(all), n < Len(all)
  PROVE  SubSeq(all, n + 1, Len(all)) # <<>>
<1> DEFINE rest == SubSeq(all, n + 1, Len(all))
<1>1. Len(rest) = Len(all) - n
  OBVIOUS
<1>2. Len(rest) # 0
  BY <1>1
<1>3. Len(<<>>) = 0
  OBVIOUS
<1> HIDE DEF rest
<1>4. rest # <<>>
  BY <1>2, <1>3, Zenon
<1> QED
  BY <1>4 DEF rest

\* What is left at the start and at the end.
LEMMA RestAll ==
  ASSUME NEW D, NEW all \in Seq(D)
  PROVE  SubSeq(all, 1, Len(all)) = all /\ SubSeq(all, Len(all) + 1, Len(all)) = <<>>
  OBVIOUS

\* Counting the values of a source.
LEMMA CountFromType ==
  ASSUME NEW s, NEW merged, NEW k \in Nat
  PROVE  CountFrom(s, merged, k) \in 0..k
<1> DEFINE S == {j \in 1..k : merged[j].from = s}
<1>1. IsFiniteSet(1..k) /\ Cardinality(1..k) = k
  BY FS_Interval
<1>2. IsFiniteSet(S) /\ Cardinality(S) <= Cardinality(1..k)
  BY <1>1, FS_Subset
<1>3. Cardinality(S) \in Nat
  BY <1>2, FS_CardinalityType
<1> QED
  BY <1>1, <1>2, <1>3 DEF CountFrom

\* Appending does not change the counts before it.
LEMMA CountFromSame ==
  ASSUME NEW s, NEW D, NEW merged \in Seq(D), NEW e \in D, NEW k \in 0..Len(merged)
  PROVE  CountFrom(s, Append(merged, e), k) = CountFrom(s, merged, k)
<1>1. {j \in 1..k : Append(merged, e)[j].from = s} = {j \in 1..k : merged[j].from = s}
  OBVIOUS
<1> QED
  BY <1>1 DEF CountFrom

\* Appending counts for the source of the element.
LEMMA CountFromAppend ==
  ASSUME NEW s, NEW D, NEW merged \in Seq(D), NEW e \in D
  PROVE  CountFrom(s, Append(merged, e), Len(merged) + 1)
           = CountFrom(s, merged, Len(merged)) + (IF e.from = s THEN 1 ELSE 0)
<1> DEFINE more == Append(merged, e)
           S == {j \in 1..Len(merged) : merged[j].from = s}
           T == {j \in 1..(Len(merged) + 1) : more[j].from = s}
<1>1. more[Len(merged) + 1] = e /\ \A j \in 1..Len(merged) : more[j] = merged[j]
  OBVIOUS
<1>3. IsFiniteSet(S) /\ Len(merged) + 1 \notin S /\ Cardinality(S) \in Nat
  <2>1. IsFiniteSet(1..Len(merged)) /\ S \subseteq 1..Len(merged)
    BY FS_Interval
  <2>2. IsFiniteSet(S)
    BY <2>1, FS_Subset
  <2> QED
    BY <2>2, FS_CardinalityType
<1>4. CASE e.from = s
  <2>1. T = S \cup {Len(merged) + 1}
    BY <1>1, <1>4
  <2> HIDE DEF S, T
  <2>2. Cardinality(T) = Cardinality(S) + 1
    BY <1>3, <2>1, FS_AddElement
  <2> QED
    BY <1>4, <2>2 DEF CountFrom, S, T
<1>5. CASE e.from # s
  <2>1. T = S
    BY <1>1, <1>5
  <2>2. CountFrom(s, more, Len(merged) + 1) = Cardinality(T)
        /\ CountFrom(s, merged, Len(merged)) = Cardinality(S)
    BY DEF CountFrom
  <2> HIDE DEF S, T
  <2> QED
    BY <1>3, <1>5, <2>1, <2>2
<1> QED
  BY <1>4, <1>5

\* At the beginning everything is still elsewhere.
LEMMA SplitNone ==
  ASSUME NEW s, NEW D, NEW all \in Seq(D)
  PROVE  IsSplit(all, s, <<>>, all)
<1>1. CountFrom(s, <<>>, 0) = 0
  BY CountFromType
<1> QED
  BY <1>1, RestAll DEF IsSplit

\* A source's next value is merged.
LEMMA SplitNext ==
  ASSUME NEW s, NEW D, NEW all \in Seq(D), NEW E, NEW merged \in Seq(E), NEW rest, NEW e \in E,
         IsSplit(all, s, merged, rest), rest # <<>>, e.from = s, e.value = Head(rest)
  PROVE  IsSplit(all, s, Append(merged, e), Tail(rest))
<1> DEFINE more == Append(merged, e)
           n == CountFrom(s, merged, Len(merged))
<1>a. \A k \in 0..Len(merged) : CountFrom(s, more, k) = CountFrom(s, merged, k)
  BY CountFromSame
<1>0. \A k \in DOMAIN merged : merged[k].from = s => merged[k].value = all[CountFrom(s, merged, k)]
  BY Zenon DEF IsSplit
<1>1. n \in 0..Len(all) /\ rest = SubSeq(all, n + 1, Len(all))
  BY CountFromType DEF IsSplit
<1>2. n + 1 <= Len(all) /\ Head(rest) = all[n + 1] /\ Tail(rest) = SubSeq(all, n + 2, Len(all))
  BY <1>1, RestNext
<1>3. Len(more) = Len(merged) + 1 /\ CountFrom(s, more, Len(more)) = n + 1
  BY CountFromAppend
<1>4. ASSUME NEW k \in DOMAIN more, more[k].from = s
      PROVE  more[k].value = all[CountFrom(s, more, k)]
  <2>1. CASE k = Len(merged) + 1
    BY <1>2, <1>3, <2>1
  <2>2. CASE k # Len(merged) + 1
    <3>1. k \in DOMAIN merged /\ k \in 0..Len(merged) /\ more[k] = merged[k]
      BY <2>2
    <3>2. CountFrom(s, more, k) = CountFrom(s, merged, k)
      BY <1>a, <3>1, Zenon
    <3>3. merged[k].value = all[CountFrom(s, merged, k)]
      BY <1>0, <1>4, <3>1
    <3> QED
      BY <3>1, <3>2, <3>3
  <2> QED
    BY <2>1, <2>2
<1>5. (n + 1) + 1 = n + 2
  BY <1>1
<1> HIDE DEF more, n
<1> QED
  BY <1>2, <1>3, <1>4, <1>5 DEF IsSplit, more

\* A value of another source is merged.
LEMMA SplitOther ==
  ASSUME NEW s, NEW D, NEW all \in Seq(D), NEW E, NEW merged \in Seq(E), NEW rest, NEW e \in E,
         IsSplit(all, s, merged, rest), e.from # s
  PROVE  IsSplit(all, s, Append(merged, e), rest)
<1> DEFINE more == Append(merged, e)
<1>a. \A k \in 0..Len(merged) : CountFrom(s, more, k) = CountFrom(s, merged, k)
  BY CountFromSame
<1>0. \A k \in DOMAIN merged : merged[k].from = s => merged[k].value = all[CountFrom(s, merged, k)]
  BY Zenon DEF IsSplit
<1>1. Len(more) = Len(merged) + 1
  OBVIOUS
<1>2. CountFrom(s, more, Len(more)) = CountFrom(s, merged, Len(merged))
  BY <1>1, CountFromAppend, CountFromType
<1>3. ASSUME NEW k \in DOMAIN more, more[k].from = s
      PROVE  more[k].value = all[CountFrom(s, more, k)]
  <2>1. k \in DOMAIN merged /\ k \in 0..Len(merged) /\ more[k] = merged[k]
    BY <1>3
  <2>2. CountFrom(s, more, k) = CountFrom(s, merged, k)
    BY <1>a, <2>1, Zenon
  <2>3. merged[k].value = all[CountFrom(s, merged, k)]
    BY <1>0, <1>3, <2>1
  <2> QED
    BY <2>1, <2>2, <2>3
<1> QED
  BY <1>2, <1>3 DEF IsSplit

(***************************************************************************)
(* MergeChannels and MergeChannelsOrCancel.                                *)
(***************************************************************************)
Tagged == [from : Sources, value : Int]

MergeTypes ==
  /\ unsent \in [Sources -> Seq(Int)] /\ buffer \in [Sources -> Seq(Int)]
  /\ closed \in [Sources -> BOOLEAN] /\ isNil \in [Sources -> BOOLEAN]
  /\ mPc = "send" => mVal \in Tagged
  /\ outCap \in Nat /\ out \in Seq(Tagged) /\ Len(out) <= outCap
  /\ received \in Seq(Tagged)

\* What the goroutine has received of either source, passed on or not.
Merged == received \o out \o InFlight

\* Every source is split between what was merged, its channel and its producer.
SourcesSplit == \A s \in Sources : IsSplit(Input[s], s, Merged, buffer[s] \o unsent[s])

\* A channel is closed when all was sent, and set to nil when it is also empty;
\* nil is returned when both are.
EndsSeen ==
  /\ \A s \in Sources : /\ closed[s] => unsent[s] = <<>>
                        /\ isNil[s] => closed[s] /\ buffer[s] = <<>>
  /\ err = "nil" => mPc = "returned" /\ \A s \in Sources : isNil[s]

MergeInv == MergeTypes /\ SourcesSplit /\ EndsSeen

\* What was merged is a sequence of tagged data.
LEMMA MergedType == MergeTypes => Merged \in Seq(Tagged)
  BY DEF MergeTypes, Merged, InFlight

\* MergeInv holds initially.
LEMMA MergeInitInv == MergeInit => MergeInv
<1> SUFFICES ASSUME MergeInit PROVE MergeInv
  OBVIOUS
<1>1. MergeTypes
  BY MergeAssumption DEF MergeInit, MergeTypes
<1>2. ASSUME NEW s \in Sources PROVE IsSplit(Input[s], s, Merged, buffer[s] \o unsent[s])
  <2>1. Merged = <<>>
    BY DEF MergeInit, Merged, InFlight
  <2>2. Input[s] \in Seq(Int) /\ buffer[s] \o unsent[s] = Input[s]
    BY MergeAssumption DEF MergeInit
  <2> QED
    BY <2>1, <2>2, SplitNone
<1>3. EndsSeen
  BY DEF MergeInit, EndsSeen
<1> QED
  BY <1>1, <1>2, <1>3 DEF MergeInv, SourcesSplit

\* A step after which the same values are merged and the same are left.
LEMMA SplitsKept ==
  ASSUME SourcesSplit, Merged' = Merged,
         \A s \in Sources : buffer'[s] \o unsent'[s] = buffer[s] \o unsent[s]
  PROVE  SourcesSplit'
  BY DEF SourcesSplit

\* Produce keeps MergeInv.
LEMMA ProduceMerges == ASSUME MergeInv, NEW s \in Sources, Produce(s) PROVE MergeInv'
<1> USE DEF MergeInv
<1>1. /\ unsent[s] # <<>>
      /\ unsent' = [unsent EXCEPT ![s] = Tail(@)]
      /\ buffer' = [buffer EXCEPT ![s] = Append(@, Head(unsent[s]))]
      /\ UNCHANGED <<outCap, closed, isNil, mPc, mVal, out, received, err>>
  BY DEF Produce
<1>2. unsent[s] \in Seq(Int) /\ buffer[s] \in Seq(Int) /\ Head(unsent[s]) \in Int
  BY <1>1 DEF MergeTypes
<1>3. MergeTypes'
  BY <1>1, <1>2 DEF MergeTypes
<1>4. ASSUME NEW t \in Sources PROVE buffer'[t] \o unsent'[t] = buffer[t] \o unsent[t]
  <2>1. CASE t = s
    <3>1. buffer'[s] = Append(buffer[s], Head(unsent[s])) /\ unsent'[s] = Tail(unsent[s])
      BY <1>1 DEF MergeTypes
    <3>2. Append(buffer[s], Head(unsent[s])) \o Tail(unsent[s]) = buffer[s] \o unsent[s]
      BY <1>1, <1>2, MoveHead, Zenon
    <3> QED
      BY <2>1, <3>1, <3>2, Zenon
  <2>2. CASE t # s
    BY <1>1, <2>2 DEF MergeTypes
  <2> QED
    BY <2>1, <2>2
<1>5. Merged' = Merged
  BY <1>1 DEF Merged, InFlight
<1>6. EndsSeen'
  BY <1>1 DEF EndsSeen, MergeTypes
<1> QED
  BY <1>3, <1>4, <1>5, <1>6, SplitsKept

\* CloseInput keeps MergeInv.
LEMMA CloseInputMerges == ASSUME MergeInv, NEW s \in Sources, CloseInput(s) PROVE MergeInv'
<1> USE DEF MergeInv
<1>1. /\ unsent[s] = <<>> /\ closed' = [closed EXCEPT ![s] = TRUE]
      /\ UNCHANGED <<outCap, unsent, buffer, isNil, mPc, mVal, out, received, err>>
  BY DEF CloseInput
<1>2. MergeTypes'
  BY <1>1 DEF MergeTypes
<1>3. SourcesSplit'
  BY <1>1, SplitsKept DEF Merged, InFlight
<1>4. EndsSeen'
  BY <1>1 DEF EndsSeen, MergeTypes
<1> QED
  BY <1>2, <1>3, <1>4

\* Consume keeps MergeInv.
LEMMA ConsumeMerges == ASSUME MergeInv, Consume PROVE MergeInv'
<1> USE DEF MergeInv
<1>1. /\ out # <<>> /\ received' = Append(received, Head(out)) /\ out' = Tail(out)
      /\ UNCHANGED <<outCap, unsent, buffer, closed, isNil, mPc, mVal, err>>
  BY DEF Consume, channels
<1>2. MergeTypes'
  BY <1>1 DEF MergeTypes
<1>3. received' \o out' = received \o out
  BY <1>1, MoveHead DEF MergeTypes
<1>4. SourcesSplit'
  BY <1>1, <1>3, SplitsKept DEF Merged, InFlight
<1>5. EndsSeen'
  BY <1>1 DEF EndsSeen
<1> QED
  BY <1>2, <1>4, <1>5

\* The goroutine takes the next value of a source, and none of the other.
LEMMA ReceiveMerges == ASSUME MergeInv, NEW s \in Sources, Receive(s) PROVE MergeInv'
<1> USE DEF MergeInv
<1> DEFINE e == [from |-> s, value |-> Head(buffer[s])]
<1>1. /\ mPc = "select" /\ mPc' = "send" /\ ~isNil[s] /\ buffer[s] # <<>> /\ mVal' = e
      /\ buffer' = [buffer EXCEPT ![s] = Tail(@)]
      /\ UNCHANGED <<outCap, unsent, closed, isNil, out, received, err>>
  BY DEF Receive
<1>2. /\ buffer[s] \in Seq(Int) /\ unsent[s] \in Seq(Int) /\ e \in Tagged
      /\ buffer'[s] = Tail(buffer[s]) /\ \A t \in Sources \ {s} : buffer'[t] = buffer[t]
  BY <1>1 DEF MergeTypes, Tagged
<1>3. MergeTypes'
  BY <1>1, <1>2 DEF MergeTypes
<1>4. Merged \in Seq(Tagged) /\ Merged' = Append(Merged, e)
  <2>1. received \o out \in Seq(Tagged)
    BY DEF MergeTypes
  <2>2. Merged = received \o out
    BY <1>1, <2>1, ConcatEmpty DEF Merged, InFlight
  <2>3. Merged' = (received \o out) \o <<e>>
    BY <1>1 DEF Merged, InFlight
  <2> HIDE DEF e
  <2> QED
    BY <1>2, <2>1, <2>2, <2>3, ConcatOne
<1>5. ASSUME NEW t \in Sources
      PROVE  IsSplit(Input[t], t, Merged', buffer'[t] \o unsent'[t])
  <2>1. IsSplit(Input[t], t, Merged, buffer[t] \o unsent[t]) /\ Input[t] \in Seq(Int)
    BY MergeAssumption DEF SourcesSplit
  <2>2. CASE t = s
    <3>0. buffer[t] \in Seq(Int) /\ unsent[t] \in Seq(Int) /\ buffer[t] # <<>>
      BY <1>1, <1>2, <2>2
    <3>1. /\ buffer[t] \o unsent[t] # <<>> /\ Head(buffer[t] \o unsent[t]) = Head(buffer[t])
          /\ Tail(buffer[t] \o unsent[t]) = Tail(buffer[t]) \o unsent[t]
      BY <3>0, ConcatParts, Zenon
    <3>2. e.from = t /\ e.value = Head(buffer[t] \o unsent[t])
      BY <2>2, <3>1
    <3>3. buffer'[t] \o unsent'[t] = Tail(buffer[t] \o unsent[t])
      BY <1>1, <1>2, <2>2, <3>1
    <3> HIDE DEF e
    <3>4. IsSplit(Input[t], t, Append(Merged, e), Tail(buffer[t] \o unsent[t]))
      BY <1>2, <1>4, <2>1, <3>1, <3>2, SplitNext, Zenon
    <3> QED
      BY <1>4, <3>3, <3>4, Zenon
  <2>3. CASE t # s
    <3>1. e.from # t /\ buffer'[t] \o unsent'[t] = buffer[t] \o unsent[t]
      BY <1>1, <1>2, <2>3
    <3> HIDE DEF e
    <3> QED
      BY <1>2, <1>4, <2>1, <3>1, SplitOther
  <2> QED
    BY <2>2, <2>3
<1>6. EndsSeen'
  BY <1>1, <1>2 DEF EndsSeen
<1> QED
  BY <1>3, <1>5, <1>6 DEF SourcesSplit

\* Exhausted keeps MergeInv.
LEMMA ExhaustedMerges == ASSUME MergeInv, NEW s \in Sources, Exhausted(s) PROVE MergeInv'
<1> USE DEF MergeInv
<1>1. /\ mPc = "select" /\ buffer[s] = <<>> /\ closed[s]
      /\ isNil' = [isNil EXCEPT ![s] = TRUE]
      /\ UNCHANGED <<outCap, unsent, buffer, closed, mVal, out, received>>
      /\ \/ mPc' = "returned" /\ err' = "nil" /\ \A t \in Sources : isNil'[t]
         \/ mPc' = "select" /\ err' = err
  BY DEF Exhausted, ReturnIf, AfterSelect, channels
<1>2. MergeTypes'
  BY <1>1 DEF MergeTypes
<1>3. SourcesSplit'
  BY <1>1, SplitsKept DEF Merged, InFlight
<1>4. EndsSeen'
  BY <1>1 DEF EndsSeen, MergeTypes
<1> QED
  BY <1>2, <1>3, <1>4

\* ContextDone keeps MergeInv.
LEMMA ContextDoneMerges == ASSUME MergeInv, ContextDone PROVE MergeInv'
<1> USE DEF MergeInv
<1>1. /\ mPc = "select" /\ mPc' = "returned" /\ err' = "ctx.Err()"
      /\ UNCHANGED <<outCap, unsent, buffer, closed, isNil, mVal, out, received>>
  BY DEF ContextDone, ReturnIf, channels
<1>2. MergeTypes'
  BY <1>1 DEF MergeTypes
<1>3. SourcesSplit'
  BY <1>1, SplitsKept DEF Merged, InFlight
<1>4. EndsSeen'
  BY <1>1 DEF EndsSeen
<1> QED
  BY <1>2, <1>3, <1>4

\* The value in hand goes to out, or past it to the consumer.
LEMMA SendMerges == ASSUME MergeInv, Send PROVE MergeInv'
<1> USE DEF MergeInv
<1>1. /\ mPc = "send"
      /\ \/ Len(out) < outCap /\ out' = Append(out, mVal) /\ received' = received
         \/ outCap = 0 /\ received' = Append(received, mVal) /\ out' = out
      /\ UNCHANGED <<outCap, unsent, buffer, closed, isNil>>
      /\ \/ mPc' = "returned" /\ err' = "nil" /\ \A t \in Sources : isNil[t]
         \/ mPc' = "select" /\ err' = err
  BY DEF Send, ReturnIf, AfterSelect, channels
<1>2. mVal \in Tagged /\ received \in Seq(Tagged) /\ out \in Seq(Tagged)
  BY <1>1 DEF MergeTypes
<1>3. MergeTypes'
  <2>1. received' \in Seq(Tagged) /\ out' \in Seq(Tagged) /\ Len(out') <= outCap
    <3>1. CASE Len(out) < outCap /\ out' = Append(out, mVal) /\ received' = received
      BY <1>2, <3>1 DEF MergeTypes
    <3>2. CASE outCap = 0 /\ received' = Append(received, mVal) /\ out' = out
      BY <1>2, <3>2 DEF MergeTypes
    <3> QED
      BY <1>1, <3>1, <3>2
  <2> QED
    BY <1>1, <2>1 DEF MergeTypes
<1>4. Merged' = Merged
  <2>1. InFlight' = <<>> /\ InFlight = <<mVal>>
    BY <1>1 DEF InFlight
  <2>2. received \o out \in Seq(Tagged) /\ received' \o out' \in Seq(Tagged)
    BY <1>2, <1>3 DEF MergeTypes
  <2>3. Merged' = received' \o out' /\ Merged = Append(received \o out, mVal)
    BY <1>2, <2>1, <2>2, ConcatEmpty, ConcatOne DEF Merged
  <2>4. CASE out' = Append(out, mVal) /\ received' = received
    BY <1>2, <2>3, <2>4, ConcatAppend
  <2>5. CASE outCap = 0 /\ received' = Append(received, mVal) /\ out' = out
    <3>1. out = <<>> /\ out' = <<>>
      BY <1>2, <2>5 DEF MergeTypes
    <3>2. received' \in Seq(Tagged)
      BY <1>3 DEF MergeTypes
    <3> QED
      BY <1>2, <2>3, <2>5, <3>1, <3>2, ConcatEmpty
  <2> QED
    BY <1>1, <2>4, <2>5
<1>5. SourcesSplit'
  BY <1>1, <1>4, SplitsKept
<1>6. EndsSeen'
  BY <1>1 DEF EndsSeen
<1> QED
  BY <1>3, <1>5, <1>6

\* Every step keeps MergeInv.
LEMMA MergeStepInv == MergeInv /\ [MergeNext]_mergeVars => MergeInv'
<1> SUFFICES ASSUME MergeInv, [MergeNext]_mergeVars PROVE MergeInv'
  OBVIOUS
<1>1. CASE UNCHANGED mergeVars \/ StopReading \/ CancelMerge
  <2>1. UNCHANGED <<outCap, unsent, buffer, closed, isNil, mPc, mVal, out, received, err>>
    BY <1>1 DEF mergeVars, channels, StopReading, CancelMerge
  <2>2. SourcesSplit'
    BY <2>1, SplitsKept DEF MergeInv, Merged, InFlight
  <2> QED
    BY <2>1, <2>2 DEF MergeInv, MergeTypes, EndsSeen
<1>2. CASE MergeNext
  BY <1>1, <1>2, ProduceMerges, CloseInputMerges, ConsumeMerges, ReceiveMerges, ExhaustedMerges,
     ContextDoneMerges, SendMerges DEF MergeNext, Merge
<1> QED
  BY <1>1, <1>2

\* At every moment each value of both inputs of a merge (MergeChannels and
\* MergeChannelsOrCancel, merge_channels.go:23-89) is read, in out, in hand, in its
\* channel or unsent, in order and once, and nil is returned only when all of them
\* have been passed on: for any inputs and any capacities of the channels.
THEOREM MergesLoseNothing == MergeSpec => []NothingLost
<1>1. ASSUME MergeInv PROVE NothingLost
  <2> USE <1>1 DEF MergeInv
  <2>1. ASSUME err = "nil", NEW s \in Sources PROVE IsSplit(Input[s], s, received \o out, <<>>)
    <3>1. mPc = "returned" /\ buffer[s] = <<>> /\ unsent[s] = <<>>
      BY <2>1 DEF EndsSeen
    <3>2. Merged = received \o out
      BY <3>1, ConcatEmpty DEF Merged, InFlight, MergeTypes
    <3>3. buffer[s] \o unsent[s] = <<>>
      BY <3>1
    <3> QED
      BY <3>2, <3>3 DEF SourcesSplit
  <2> QED
    BY <2>1 DEF NothingLost, SourcesSplit, Merged
<1> QED
  BY <1>1, MergeInitInv, MergeStepInv, PTL DEF MergeSpec

(***************************************************************************)
(* MergeFetches.                                                           *)
(***************************************************************************)
TaggedData == [from : Fetchers, value : Int]

FetchesTypes ==
  /\ fetched \in [Fetchers -> Nat]
  /\ worker \in [Fetchers -> {"unborn", "fetch", "send", "Done", "exited"}]
  /\ wg \in Int /\ main \in {"idle", "Add", "go", "Wait", "close", "returned"}
  /\ fOut \in Seq(TaggedData) /\ fReceived \in Seq(TaggedData)

\* A worker has fetched at most what there is, and stops when it has fetched all.
Fetched(f) ==
  /\ fetched[f] <= Len(Data[f])
  /\ worker[f] = "send" => fetched[f] > 0
  /\ worker[f] \in {"Done", "exited"} => fetched[f] = Len(Data[f])

\* It has sent all it has fetched, except for what it is sending.
Sent(f) == IF worker[f] = "send" THEN fetched[f] - 1 ELSE fetched[f]

SentSplit(f) ==
  IsSplit(Data[f], f, fReceived \o fOut, SubSeq(Data[f], Sent(f) + 1, Len(Data[f])))

\* The WaitGroup counts the workers that have not exited, from the Add on; main
\* gets past Wait when both have, and has closed out when it returned.
Working(f) == IF worker[f] = "exited" THEN 0 ELSE 1

GroupCounts ==
  /\ main \in {"idle", "Add"} => wg = 0 /\ \A f \in Fetchers : worker[f] = "unborn"
  /\ main \in {"go", "Wait", "close", "returned"} => wg = Working("a") + Working("b")
  /\ main \in {"close", "returned"} => wg = 0
  /\ fClosed => main = "returned"
  /\ ~panicked

FetchesInv ==
  FetchesTypes /\ (\A f \in Fetchers : Fetched(f) /\ SentSplit(f)) /\ GroupCounts

\* FetchesInv holds initially.
LEMMA FetchesInitInv == FetchesInit => FetchesInv
<1> SUFFICES ASSUME FetchesInit PROVE FetchesInv
  OBVIOUS
<1>1. FetchesTypes /\ GroupCounts
  BY DEF FetchesInit, FetchesTypes, GroupCounts
<1>2. ASSUME NEW f \in Fetchers PROVE Fetched(f) /\ SentSplit(f)
  <2>1. Data[f] \in Seq(Int) /\ fetched[f] = 0 /\ worker[f] = "unborn"
    BY FetchesAssumption DEF FetchesInit
  <2>2. Fetched(f)
    BY <2>1 DEF Fetched
  <2>3. fReceived \o fOut = <<>> /\ SubSeq(Data[f], Sent(f) + 1, Len(Data[f])) = Data[f]
    BY <2>1, RestAll DEF FetchesInit, Sent
  <2> QED
    BY <2>1, <2>2, <2>3, SplitNone DEF SentSplit
<1> QED
  BY <1>1, <1>2 DEF FetchesInv

\* The caller's steps, and those of a worker that sends nothing.
LEMMA CallerInv ==
  ASSUME FetchesInv, CallMergeFetches \/ Add \/ WaitForWorkers \/ Close
  PROVE  FetchesInv'
<1> USE DEF FetchesInv
<1>1. UNCHANGED <<fetched, worker, fOut, fReceived, panicked>>
  BY DEF CallMergeFetches, Add, WaitForWorkers, Close
<1>2. FetchesTypes'
  BY <1>1 DEF FetchesTypes, CallMergeFetches, Add, WaitForWorkers, Close
<1>3. \A f \in Fetchers : Fetched(f)' /\ SentSplit(f)'
  BY <1>1 DEF Fetched, SentSplit, Sent
<1>4. GroupCounts'
  <2> USE DEF GroupCounts, Working, Fetchers
  <2>1. CASE CallMergeFetches
    BY <1>1, <2>1 DEF CallMergeFetches
  <2>2. CASE Add
    BY <1>1, <2>2 DEF Add
  <2>3. CASE WaitForWorkers
    BY <1>1, <2>3 DEF WaitForWorkers
  <2>4. CASE Close
    BY <1>1, <2>4 DEF Close
  <2> QED
    BY <2>1, <2>2, <2>3, <2>4
<1> QED
  BY <1>2, <1>3, <1>4

\* A worker that has not exited is one that main has started and waits for.
LEMMA WorkerIsAwaited ==
  ASSUME FetchesInv, NEW f \in Fetchers, worker[f] \notin {"unborn", "exited"}
  PROVE  main \in {"go", "Wait"} /\ wg = Working("a") + Working("b") /\ wg > 0 /\ ~fClosed
<1>1. main \notin {"idle", "Add"}
  BY DEF FetchesInv, GroupCounts
<1>2. Working(f) = 1 /\ Working("a") \in {0, 1} /\ Working("b") \in {0, 1}
  BY DEF Working
<1>3. main \in {"go", "Wait", "close", "returned"}
  BY <1>1 DEF FetchesInv, FetchesTypes
<1>4. wg = Working("a") + Working("b") /\ wg > 0
  BY <1>2, <1>3 DEF FetchesInv, GroupCounts, Fetchers
<1> QED
  BY <1>3, <1>4 DEF FetchesInv, GroupCounts

\* A step of one worker that sends nothing and has sent as much as before.
LEMMA SplitsUnsent ==
  ASSUME FetchesInv, NEW f \in Fetchers, UNCHANGED <<fOut, fReceived>>, Sent(f)' = Sent(f),
         \A g \in Fetchers \ {f} : worker'[g] = worker[g] /\ fetched'[g] = fetched[g]
  PROVE  \A g \in Fetchers : SentSplit(g)'
<1>1. \A g \in Fetchers : Sent(g)' = Sent(g)
  BY DEF Sent
<1> QED
  BY <1>1 DEF FetchesInv, SentSplit

\* Go keeps FetchesInv.
LEMMA GoInv == ASSUME FetchesInv, NEW f \in Fetchers, Go(f) PROVE FetchesInv'
<1> USE DEF FetchesInv
<1>1. /\ main = "go" /\ main' \in {"go", "Wait"} /\ worker[f] = "unborn"
      /\ worker' = [worker EXCEPT ![f] = "fetch"]
      /\ UNCHANGED <<fetched, wg, fOut, fClosed, fReceived, panicked>>
  BY DEF Go
<1>2. worker'[f] = "fetch" /\ \A g \in Fetchers \ {f} : worker'[g] = worker[g]
  BY <1>1 DEF FetchesTypes
<1>3. FetchesTypes'
  BY <1>1 DEF FetchesTypes
<1>4. \A g \in Fetchers : Fetched(g)'
  BY <1>1, <1>2 DEF Fetched
<1>5. \A g \in Fetchers : SentSplit(g)'
  BY <1>1, <1>2, SplitsUnsent DEF Sent
<1>6. \A g \in Fetchers : Working(g)' = Working(g)
  BY <1>1, <1>2 DEF Working
<1>7. GroupCounts'
  BY <1>1, <1>6 DEF GroupCounts, Fetchers
<1> QED
  BY <1>3, <1>4, <1>5, <1>7

\* Fetch keeps FetchesInv.
LEMMA FetchInv == ASSUME FetchesInv, NEW f \in Fetchers, Fetch(f) PROVE FetchesInv'
<1> USE DEF FetchesInv
<1>1. /\ worker[f] = "fetch"
      /\ \/ /\ fetched[f] < Len(Data[f]) /\ fetched' = [fetched EXCEPT ![f] = @ + 1]
            /\ worker' = [worker EXCEPT ![f] = "send"]
         \/ /\ fetched[f] = Len(Data[f]) /\ fetched' = fetched
            /\ worker' = [worker EXCEPT ![f] = "Done"]
      /\ UNCHANGED <<wg, main, fOut, fClosed, fReceived, panicked>>
  BY DEF Fetch
<1>2. /\ \/ worker'[f] = "send" /\ fetched[f] < Len(Data[f]) /\ fetched'[f] = fetched[f] + 1
         \/ worker'[f] = "Done" /\ fetched'[f] = fetched[f] /\ fetched[f] = Len(Data[f])
      /\ \A g \in Fetchers \ {f} : worker'[g] = worker[g] /\ fetched'[g] = fetched[g]
      /\ fetched[f] \in Nat /\ Len(Data[f]) \in Nat
  BY <1>1, FetchesAssumption DEF FetchesTypes
<1>3. FetchesTypes'
  <2>1. worker' \in [Fetchers -> {"unborn", "fetch", "send", "Done", "exited"}]
    BY <1>1 DEF FetchesTypes
  <2>2. fetched' \in [Fetchers -> Nat]
    BY <1>1, <1>2 DEF FetchesTypes
  <2> QED
    BY <1>1, <2>1, <2>2 DEF FetchesTypes
<1>4. \A g \in Fetchers : Fetched(g)'
  BY <1>2 DEF Fetched
<1>5. Sent(f)' = Sent(f)
  BY <1>1, <1>2 DEF Sent
<1>6. \A g \in Fetchers : SentSplit(g)'
  BY <1>1, <1>2, <1>5, SplitsUnsent
<1>7. \A g \in Fetchers : Working(g)' = Working(g)
  BY <1>1, <1>2 DEF Working
<1>8. main \in {"go", "Wait"}
  BY <1>1, WorkerIsAwaited
<1>9. GroupCounts'
  BY <1>1, <1>7, <1>8 DEF GroupCounts, Fetchers
<1> QED
  BY <1>3, <1>4, <1>6, <1>9

\* SendFetched keeps FetchesInv.
LEMMA SendFetchedInv == ASSUME FetchesInv, NEW f \in Fetchers, SendFetched(f) PROVE FetchesInv'
<1> USE DEF FetchesInv
<1> DEFINE e == [from |-> f, value |-> Data[f][fetched[f]]]
<1>1. worker[f] = "send" /\ ~fClosed /\ main \in {"go", "Wait"}
  BY WorkerIsAwaited DEF SendFetched
<1>2. /\ fOut' = Append(fOut, e) /\ worker' = [worker EXCEPT ![f] = "fetch"] /\ panicked' = fClosed
      /\ UNCHANGED <<fetched, wg, main, fClosed, fReceived>>
  BY <1>1 DEF SendFetched
<1>3. /\ worker'[f] = "fetch" /\ \A g \in Fetchers \ {f} : worker'[g] = worker[g]
      /\ Data[f] \in Seq(Int) /\ fetched[f] \in 1..Len(Data[f]) /\ e \in TaggedData
  <2>1. worker'[f] = "fetch" /\ \A g \in Fetchers \ {f} : worker'[g] = worker[g]
    BY <1>2 DEF FetchesTypes
  <2>2. Data[f] \in Seq(Int) /\ Fetched(f) /\ fetched[f] \in Nat
    BY FetchesAssumption DEF FetchesTypes
  <2>3. fetched[f] \in 1..Len(Data[f])
    BY <1>1, <2>2 DEF Fetched
  <2>4. Data[f][fetched[f]] \in Int
    BY <2>2, <2>3
  <2> QED
    BY <2>1, <2>2, <2>3, <2>4 DEF TaggedData
<1>4. FetchesTypes'
  BY <1>2, <1>3 DEF FetchesTypes
<1>5. \A g \in Fetchers : Fetched(g)'
  BY <1>1, <1>2, <1>3 DEF Fetched
<1>6. /\ fReceived \o fOut \in Seq(TaggedData)
      /\ (fReceived \o fOut)' = Append(fReceived \o fOut, e)
  BY <1>2, <1>3, ConcatAppend DEF FetchesTypes
<1>7. SentSplit(f)'
  <2> DEFINE n == fetched[f] - 1
             rest == SubSeq(Data[f], n + 1, Len(Data[f]))
  <2>1. n \in 0..Len(Data[f]) /\ n < Len(Data[f]) /\ n + 1 = fetched[f] /\ n + 2 = fetched[f] + 1
    BY <1>3
  <2>2. Sent(f) = n /\ Sent(f)' = fetched[f]
    BY <1>1, <1>2, <1>3 DEF Sent
  <2>3. IsSplit(Data[f], f, fReceived \o fOut, rest)
    BY <2>2 DEF SentSplit
  <2>4. rest # <<>> /\ Head(rest) = Data[f][n + 1] /\ Tail(rest) = SubSeq(Data[f], n + 2, Len(Data[f]))
    BY <1>3, <2>1, RestNotEmpty, RestNext
  <2>5. e.from = f /\ e.value = Head(rest)
    BY <2>1, <2>4
  <2> HIDE DEF e, rest, n
  <2>6. IsSplit(Data[f], f, Append(fReceived \o fOut, e), Tail(rest))
    BY <1>3, <1>6, <2>3, <2>4, <2>5, SplitNext, Zenon
  <2> QED
    BY <1>6, <2>1, <2>2, <2>4, <2>6 DEF SentSplit
<1>8. ASSUME NEW g \in Fetchers \ {f} PROVE SentSplit(g)'
  <2>1. SentSplit(g) /\ Sent(g)' = Sent(g) /\ e.from # g /\ Data[g] \in Seq(Int)
    BY <1>2, <1>3, FetchesAssumption DEF Sent
  <2> HIDE DEF e
  <2>2. IsSplit(Data[g], g, Append(fReceived \o fOut, e), SubSeq(Data[g], Sent(g) + 1, Len(Data[g])))
    BY <1>3, <1>6, <2>1, SplitOther, Zenon DEF SentSplit
  <2> QED
    BY <1>6, <2>1, <2>2 DEF SentSplit
<1>9. \A g \in Fetchers : Working(g)' = Working(g)
  BY <1>1, <1>3 DEF Working
<1>10. GroupCounts'
  BY <1>1, <1>2, <1>9 DEF GroupCounts, Fetchers
<1> QED
  BY <1>4, <1>5, <1>7, <1>8, <1>10

\* Done keeps FetchesInv.
LEMMA DoneInv == ASSUME FetchesInv, NEW f \in Fetchers, Done(f) PROVE FetchesInv'
<1> USE DEF FetchesInv
<1>1. /\ worker[f] = "Done" /\ wg' = wg - 1 /\ panicked' = (panicked \/ wg = 0)
      /\ worker' = [worker EXCEPT ![f] = "exited"]
      /\ UNCHANGED <<fetched, main, fOut, fClosed, fReceived>>
  BY DEF Done
<1>2. worker'[f] = "exited" /\ \A g \in Fetchers \ {f} : worker'[g] = worker[g]
  BY <1>1 DEF FetchesTypes
<1>3. FetchesTypes'
  BY <1>1 DEF FetchesTypes
<1>4. \A g \in Fetchers : Fetched(g)'
  BY <1>1, <1>2 DEF Fetched
<1>5. \A g \in Fetchers : SentSplit(g)'
  BY <1>1, <1>2, SplitsUnsent DEF Sent
<1>6. main \in {"go", "Wait"} /\ wg = Working("a") + Working("b") /\ wg > 0 /\ ~fClosed
  BY <1>1, WorkerIsAwaited
<1>7. /\ Working(f) = 1 /\ Working(f)' = 0 /\ \A g \in Fetchers \ {f} : Working(g)' = Working(g)
      /\ \A g \in Fetchers : Working(g) \in Int
  BY <1>1, <1>2 DEF Working
<1>8. wg' = Working("a")' + Working("b")'
  BY <1>1, <1>6, <1>7 DEF Fetchers
<1>9. ~panicked'
  <2>1. wg # 0 /\ ~panicked
    BY <1>6 DEF GroupCounts
  <2> QED
    BY <1>1, <2>1, Zenon
<1>10. GroupCounts'
  BY <1>1, <1>6, <1>8, <1>9 DEF GroupCounts
<1> QED
  BY <1>3, <1>4, <1>5, <1>10

\* ConsumeFetched keeps FetchesInv.
LEMMA ConsumeFetchedInv == ASSUME FetchesInv, ConsumeFetched PROVE FetchesInv'
<1> USE DEF FetchesInv
<1>1. /\ fOut # <<>> /\ fReceived' = Append(fReceived, Head(fOut)) /\ fOut' = Tail(fOut)
      /\ UNCHANGED <<fetched, worker, wg, main, fClosed, panicked>>
  BY DEF ConsumeFetched
<1>2. FetchesTypes'
  BY <1>1 DEF FetchesTypes
<1>3. fReceived' \o fOut' = fReceived \o fOut
  BY <1>1, MoveHead DEF FetchesTypes
<1>4. \A f \in Fetchers : Fetched(f)' /\ SentSplit(f)'
  BY <1>1, <1>3 DEF Fetched, SentSplit, Sent
<1>5. GroupCounts'
  BY <1>1 DEF GroupCounts, Working
<1> QED
  BY <1>2, <1>4, <1>5

\* Every step keeps FetchesInv.
LEMMA FetchesStepInv == FetchesInv /\ [FetchesNext]_fetchesVars => FetchesInv'
<1> SUFFICES ASSUME FetchesInv, [FetchesNext]_fetchesVars PROVE FetchesInv'
  OBVIOUS
<1>1. CASE UNCHANGED fetchesVars
  BY <1>1 DEF fetchesVars, FetchesInv, FetchesTypes, Fetched, SentSplit, Sent, GroupCounts, Working
<1>2. CASE FetchesNext
  BY <1>2, CallerInv, GoInv, FetchInv, SendFetchedInv, DoneInv, ConsumeFetchedInv DEF FetchesNext
<1> QED
  BY <1>1, <1>2

\* When MergeFetches has closed out (merge_channels.go:133-153), everything that
\* both Fetchers returned was sent, in order and once, and neither a send on the
\* closed channel nor a negative WaitGroup panics: for any data and any capacity.
THEOREM ClosedAfterMerging == FetchesSpec => []ClosedMeansMerged
<1>1. ASSUME FetchesInv PROVE ClosedMeansMerged
  <2> USE <1>1 DEF FetchesInv
  <2>1. ASSUME fClosed, NEW f \in Fetchers PROVE IsSplit(Data[f], f, fReceived \o fOut, <<>>)
    <3>1. worker[f] = "exited"
      BY <2>1 DEF GroupCounts, Working, Fetchers
    <3>2. Data[f] \in Seq(Int) /\ Sent(f) = Len(Data[f])
      BY <3>1, FetchesAssumption DEF Fetched, Sent
    <3>3. SubSeq(Data[f], Sent(f) + 1, Len(Data[f])) = <<>>
      BY <3>2, RestAll
    <3> QED
      BY <3>3 DEF SentSplit
  <2> QED
    BY <2>1 DEF ClosedMeansMerged, GroupCounts
<1> QED
  BY <1>1, FetchesInitInv, FetchesStepInv, PTL DEF FetchesSpec
=============================================================================
