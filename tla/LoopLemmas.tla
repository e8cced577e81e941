----------------------------- MODULE LoopLemmas -----------------------------
(***************************************************************************)
(* Induction for the other proofs.  The provers cannot be given a          *)
(* predicate to induct on, so it is given here as the set of the numbers   *)
(* that satisfy it.  What the loops of IdLists compute follows, and what a *)
(* sum over a finite set is.                                               *)
(***************************************************************************)
EXTENDS IdLists, SequencesExt, FiniteSetTheorems, WellFoundedInduction, TLAPS

\* A nonempty set of natural numbers has a least element.
LEMMA LeastNat ==
  ASSUME NEW T, T \subseteq Nat, T # {}
  PROVE  \E x \in T : \A y \in T : x <= y
<1> DEFINE R == OpToRel(<, Nat)
<1>1. IsWellFoundedOn(R, Nat)
  BY NatLessThanWellFounded
<1>2. \A x, y \in Nat : y < x => <<y, x>> \in R
  BY DEF OpToRel
<1> HIDE DEF R
<1>3. PICK x \in T : \A y \in T : ~ (<<y, x>> \in R)
  BY <1>1, WFMin
<1>4. ASSUME NEW y \in T PROVE x <= y
  <2>1. x \in Nat /\ y \in Nat /\ ~(y < x)
    BY <1>2, <1>3
  <2> QED
    BY <2>1
<1> QED
  BY <1>4

\* Induction, for a property given as the set of the numbers that have it.
LEMMA SetInduction ==
  ASSUME NEW P, 0 \in P, \A n \in Nat : n \in P => n + 1 \in P
  PROVE  \A n \in Nat : n \in P
<1> SUFFICES ASSUME NEW m \in Nat, m \notin P PROVE FALSE
  OBVIOUS
<1> DEFINE T == {n \in Nat : n \notin P}
<1>1. T \subseteq Nat /\ T # {}
  OBVIOUS
<1>2. PICK x \in T : \A y \in T : x <= y
  BY <1>1, LeastNat
<1>3. x \in Nat /\ x # 0 /\ x - 1 \in Nat /\ ~(x <= x - 1)
  BY <1>2
<1>4. x - 1 \in P
  BY <1>2, <1>3
<1>5. x - 1 + 1 \in P /\ x - 1 + 1 = x
  BY <1>3, <1>4
<1> QED
  BY <1>2, <1>5

\* The same for the rounds of a loop.
LEMMA RoundInduction ==
  ASSUME NEW N \in Nat, NEW P, 0 \in P, \A n \in 1..N : n - 1 \in P => n \in P
  PROVE  \A n \in 0..N : n \in P
<1> DEFINE Q == {n \in Nat : n <= N => n \in P}
<1>1. 0 \in Q
  OBVIOUS
<1>2. ASSUME NEW n \in Nat, n \in Q PROVE n + 1 \in Q
  <2> SUFFICES ASSUME n + 1 <= N PROVE n + 1 \in P
    OBVIOUS
  <2>1. n \in P /\ n + 1 \in 1..N /\ (n + 1) - 1 = n
    BY <1>2
  <2> QED
    BY <2>1
<1> HIDE DEF Q
<1>3. \A n \in Nat : n \in Q
  BY <1>1, <1>2, SetInduction
<1> QED
  BY <1>3 DEF Q

\* A loop of N rounds that starts with a and whose n-th round turns x into
\* step[n][x] computes something.
IsStep(N, S, step) == step \in [1..N -> [S -> S]]

IsRun(N, S, a, step, f) ==
  f \in [0..N -> S] /\ f[0] = a /\ \A n \in 1..N : f[n] = step[n][f[n - 1]]

\* A loop over a finite range has a run: its recursive definition has a solution.
LEMMA LoopExists ==
  ASSUME NEW N \in Nat, NEW S, NEW a \in S, NEW step, IsStep(N, S, step)
  PROVE  \E f : IsRun(N, S, a, step, f)
<1> USE DEF IsStep, IsRun
<1> DEFINE Runs(m) == {f \in [0..m -> S] : f[0] = a /\ \A n \in 1..m : f[n] = step[n][f[n - 1]]}
           P == {m \in 0..N : Runs(m) # {}}
<1>1. 0 \in P
  <2>1. [n \in 0..0 |-> a] \in Runs(0)
    OBVIOUS
  <2> QED
    BY <2>1
<1>2. ASSUME NEW m \in 1..N, m - 1 \in P PROVE m \in P
  <2>1. PICK f \in [0..(m - 1) -> S] : f[0] = a /\ \A n \in 1..(m - 1) : f[n] = step[n][f[n - 1]]
    BY <1>2
  <2> DEFINE v == step[m][f[m - 1]]
             g == [n \in 0..m |-> IF n = m THEN v ELSE f[n]]
  <2>2. m - 1 \in 0..(m - 1) /\ f[m - 1] \in S /\ v \in S
    BY <2>1
  <2>3. g \in [0..m -> S]
    BY <2>1, <2>2
  <2>4. g[0] = a
    BY <2>1
  <2>5. ASSUME NEW n \in 1..m PROVE g[n] = step[n][g[n - 1]]
    <3>1. n - 1 \in 0..m /\ n - 1 # m /\ n \in 0..m
      OBVIOUS
    <3>2. g[n - 1] = f[n - 1]
      BY <3>1
    <3>3. CASE n = m
      BY <3>1, <3>2, <3>3
    <3>4. CASE n # m
      <4>1. n \in 1..(m - 1)
        BY <3>4
      <4>2. g[n] = f[n]
        BY <3>1, <3>4
      <4> QED
        BY <2>1, <3>2, <4>1, <4>2
    <3> QED
      BY <3>3, <3>4
  <2>6. g \in Runs(m)
    <3> HIDE DEF g
    <3> QED
      BY <2>3, <2>4, <2>5
  <2> QED
    BY <2>6
<1> HIDE DEF P
<1>3. \A m \in 0..N : m \in P
  BY <1>1, <1>2, RoundInduction
<1>4. N \in P
  BY <1>3
<1> QED
  BY <1>4 DEF P
-----------------------------------------------------------------------------
\* A loop over ids that appends those at the positions in keep to its result.
KeepLoop(ids, keep, f) ==
  [n \in 0..Len(ids) |-> IF n = 0 THEN <<>>
                         ELSE IF n \in keep THEN Append(f[n - 1], ids[n]) ELSE f[n - 1]]

\* The loop of IdLists, as CHOOSE sees it, has a solution.
LEMMA KeepLoopExists ==
  ASSUME NEW S, NEW ids \in Seq(S), NEW keep
  PROVE  \E f : f = KeepLoop(ids, keep, f)
<1> DEFINE N == Len(ids)
           L == Seq(S)
           e == <<>>
           step == [n \in 1..N |-> [s \in L |-> IF n \in keep THEN Append(s, ids[n]) ELSE s]]
<1>1. N \in Nat /\ e \in L /\ \A n \in 1..N : ids[n] \in S
  OBVIOUS
<1>2. IsStep(N, L, step)
  BY <1>1 DEF IsStep
<1>3. \E f : IsRun(N, L, e, step, f)
  <2> HIDE DEF N, L, e, step
  <2> QED
    BY <1>1, <1>2, LoopExists
<1>4. PICK f \in [0..N -> L] : f[0] = e /\ \A n \in 1..N : f[n] = step[n][f[n - 1]]
  <2> HIDE DEF N, L, e, step
  <2> QED
    BY <1>3 DEF IsRun
<1>5. ASSUME NEW n \in 1..N PROVE f[n] = IF n \in keep THEN Append(f[n - 1], ids[n]) ELSE f[n - 1]
  <2>1. f[n - 1] \in L
    BY <1>1
  <2>2. f[n] = step[n][f[n - 1]]
    BY <1>4
  <2> QED
    BY <2>1, <2>2
<1>6. ASSUME NEW n \in 0..N
      PROVE  f[n] = IF n = 0 THEN <<>>
                    ELSE IF n \in keep THEN Append(f[n - 1], ids[n]) ELSE f[n - 1]
  <2>1. n = 0 \/ n \in 1..N
    BY <1>1
  <2> QED
    BY <1>4, <1>5, <2>1
<1>7. f = KeepLoop(ids, keep, f)
  BY <1>6 DEF KeepLoop
<1> QED
  BY <1>7

\* What it has after n rounds: the ids at those positions and no others; if they
\* are distinct there, then also here.
Kept(S, ids, keep, n, s) ==
  /\ s \in Seq(S)
  /\ \A i \in 1..Len(s) : \E k \in 1..n : k \in keep /\ s[i] = ids[k]
  /\ \A k \in 1..n : k \in keep => \E i \in 1..Len(s) : s[i] = ids[k]
  /\ (\A i, k \in 1..Len(ids) : i \in keep /\ k \in keep /\ ids[i] = ids[k] => i = k)
       => \A i, k \in 1..Len(s) : s[i] = s[k] => i = k
  /\ (\A k \in 1..Len(ids) : k \in keep) => Len(s) = n

\* Any solution of the loop ends with the ids it keeps.
LEMMA KeepLoopResult ==
  ASSUME NEW S, NEW ids \in Seq(S), NEW keep, NEW f, f = KeepLoop(ids, keep, f)
  PROVE  Kept(S, ids, keep, Len(ids), f[Len(ids)])
<1> DEFINE N == Len(ids)
           Distinct == \A i, k \in 1..N : i \in keep /\ k \in keep /\ ids[i] = ids[k] => i = k
           Good(n, s) == Kept(S, ids, keep, n, s)
           P == {n \in 0..N : Good(n, f[n])}
<1>1. N \in Nat /\ \A n \in 1..N : ids[n] \in S
  OBVIOUS
<1>2. f[0] = <<>> /\ \A n \in 1..N : f[n] = IF n \in keep THEN Append(f[n - 1], ids[n]) ELSE f[n - 1]
  <2> DEFINE val(n) == IF n = 0 THEN <<>> ELSE IF n \in keep THEN Append(f[n - 1], ids[n]) ELSE f[n - 1]
  <2>1. f = [n \in 0..N |-> val(n)]
    BY DEF KeepLoop
  <2>2. \A n \in 0..N : f[n] = val(n)
    <3> HIDE DEF val
    <3> QED
      BY <2>1
  <2> QED
    BY <1>1, <2>2
<1>3. 0 \in P
  <2>1. Good(0, <<>>)
    BY <1>1 DEF Kept
  <2>2. 0 \in 0..N
    BY <1>1
  <2> HIDE DEF Good
  <2> QED
    BY <1>2, <2>1, <2>2
<1>4. ASSUME NEW n \in 1..N, n - 1 \in P PROVE n \in P
  <2> DEFINE s == f[n - 1]
             t == f[n]
  <2>1. Good(n - 1, s)
    BY <1>4
  <2>2. t = IF n \in keep THEN Append(s, ids[n]) ELSE s
    BY <1>2
  <2> HIDE DEF s, t
  <2> USE DEF Kept
  <2>3. \A k \in 1..n : k \in 1..(n - 1) \/ k = n
    OBVIOUS
  <2>4. CASE n \notin keep
    <3>1. 1..(n - 1) \subseteq 1..n
      OBVIOUS
    <3>2. ~(\A k \in 1..N : k \in keep)
      BY <2>4
    <3>3. Good(n, s)
      BY <2>1, <2>3, <2>4, <3>1, <3>2
    <3>4. Good(n, t)
      BY <2>2, <2>4, <3>3
    <3> QED
      BY <1>1, <3>4 DEF t
  <2>5. CASE n \in keep
    <3>1. t = Append(s, ids[n]) /\ s \in Seq(S) /\ ids[n] \in S
      BY <1>1, <2>1, <2>2, <2>5
    <3>2. t \in Seq(S) /\ Len(t) = Len(s) + 1 /\ Len(s) \in Nat /\ t[Len(s) + 1] = ids[n]
          /\ \A i \in 1..Len(s) : t[i] = s[i]
      BY <3>1
    <3>3. \A i \in 1..Len(t) : i \in 1..Len(s) \/ i = Len(s) + 1
      BY <3>2
    <3>4. ASSUME Distinct, NEW i \in 1..Len(t), NEW k \in 1..Len(t), t[i] = t[k] PROVE i = k
      <4>1. ASSUME NEW j \in 1..Len(s) PROVE s[j] # ids[n]
        <5>1. PICK m \in 1..(n - 1) : m \in keep /\ s[j] = ids[m]
          BY <2>1
        <5>2. m \in 1..N /\ n \in 1..N /\ m # n
          BY <1>1
        <5> QED
          BY <2>5, <3>4, <5>1, <5>2
      <4> QED
        BY <2>1, <3>2, <3>3, <3>4, <4>1
    <3>5. \A i \in 1..Len(t) : \E k \in 1..n : k \in keep /\ t[i] = ids[k]
      <4> SUFFICES ASSUME NEW i \in 1..Len(t) PROVE \E k \in 1..n : k \in keep /\ t[i] = ids[k]
        OBVIOUS
      <4>1. CASE i \in 1..Len(s)
        <5>1. PICK k \in 1..(n - 1) : k \in keep /\ s[i] = ids[k]
          BY <2>1, <4>1
        <5>2. k \in 1..n
          OBVIOUS
        <5> QED
          BY <3>2, <4>1, <5>1, <5>2
      <4>2. CASE i = Len(s) + 1
        BY <2>5, <3>2, <4>2
      <4> QED
        BY <3>3, <4>1, <4>2
    <3>6. \A k \in 1..n : k \in keep => \E i \in 1..Len(t) : t[i] = ids[k]
      <4> SUFFICES ASSUME NEW k \in 1..n, k \in keep PROVE \E i \in 1..Len(t) : t[i] = ids[k]
        OBVIOUS
      <4>1. CASE k = n
        BY <3>2, <4>1
      <4>2. CASE k # n
        <5>1. PICK i \in 1..Len(s) : s[i] = ids[k]
          BY <2>1, <4>2
        <5>2. i \in 1..Len(t)
          BY <3>2
        <5> QED
          BY <3>2, <5>1, <5>2
      <4> QED
        BY <4>1, <4>2
    <3>7. (\A k \in 1..N : k \in keep) => Len(t) = n
      BY <2>1, <3>2
    <3>8. Good(n, t)
      BY <3>2, <3>4, <3>5, <3>6, <3>7
    <3> QED
      BY <1>1, <3>8 DEF t
  <2> QED
    BY <2>4, <2>5
<1>5. \A n \in 0..N : n \in P
  <2> HIDE DEF P, N
  <2> QED
    BY <1>1, <1>3, <1>4, RoundInduction
<1>6. Good(N, f[N])
  <2>0. N \in 0..N
    BY <1>1
  <2>1. N \in P
    <3> HIDE DEF P, N
    <3> QED
      BY <1>5, <2>0
  <2> HIDE DEF Good
  <2> QED
    BY <2>1
<1> QED
  BY <1>6 DEF N

\* deduplicateIds keeps every id, once.  A list without duplicates keeps its
\* length.
LEMMA DeduplicateIds ==
  ASSUME NEW S, NEW ids \in Seq(S)
  PROVE  LET kept == deduplicateIds(ids) IN
         /\ kept \in Seq(S)
         /\ \A i, k \in DOMAIN kept : kept[i] = kept[k] => i = k
         /\ {kept[i] : i \in DOMAIN kept} = {ids[i] : i \in DOMAIN ids}
         /\ (\A i, k \in DOMAIN ids : ids[i] = ids[k] => i = k) => Len(kept) = Len(ids)
<1> DEFINE N == Len(ids)
           keep == {n \in 1..N : ~\E k \in 1..(n - 1) : ids[k] = ids[n]}
           Body(f) == [n \in 0..N |-> IF n = 0 THEN <<>>
                                      ELSE IF \E k \in 1..(n - 1) : ids[k] = ids[n] THEN f[n - 1]
                                           ELSE Append(f[n - 1], ids[n])]
           F == CHOOSE f : f = Body(f)
           s == F[N]
<1>1. deduplicateIds(ids) = F[N]
  BY Zenon DEF deduplicateIds
<1>2. N \in Nat /\ DOMAIN ids = 1..N
  OBVIOUS
<1>3. ASSUME NEW f PROVE Body(f) = KeepLoop(ids, keep, f)
  <2>1. \A n \in 0..N : n # 0 => (n \in keep <=> ~\E k \in 1..(n - 1) : ids[k] = ids[n])
    BY <1>2
  <2> HIDE DEF keep
  <2> QED
    BY <2>1 DEF KeepLoop
<1>4. F = Body(F)
  <2> HIDE DEF Body, keep
  <2>1. PICK f : f = Body(f)
    BY <1>3, KeepLoopExists
  <2> QED
    BY <2>1
<1>5. F = KeepLoop(ids, keep, F)
  BY <1>3, <1>4
<1> HIDE DEF F
<1>6. Kept(S, ids, keep, N, s)
  <2> HIDE DEF keep
  <2> QED
    BY <1>5, KeepLoopResult
<1> HIDE DEF s
<1>7. ASSUME NEW i \in 1..N, NEW k \in 1..N, i \in keep, k \in keep, ids[i] = ids[k] PROVE i = k
  <2>1. i < k => i \in 1..(k - 1)
    OBVIOUS
  <2>2. k < i => k \in 1..(i - 1)
    OBVIOUS
  <2> QED
    BY <1>7, <2>1, <2>2
<1>8. ASSUME NEW k \in 1..N PROVE \E i \in 1..Len(s) : s[i] = ids[k]
  <2> DEFINE T == {m \in 1..N : ids[m] = ids[k]}
  <2>1. T \subseteq Nat /\ T # {}
    OBVIOUS
  <2>2. PICK m \in T : \A y \in T : m <= y
    BY <2>1, LeastNat
  <2>3. m \in 1..N /\ ids[m] = ids[k]
    BY <2>2
  <2>4. ASSUME NEW j \in 1..(m - 1) PROVE ids[j] # ids[m]
    <3>1. j \in 1..N /\ ~(m <= j)
      BY <1>2, <2>3
    <3> QED
      BY <2>2, <2>3, <3>1
  <2>5. m \in keep
    BY <2>3, <2>4
  <2> QED
    BY <1>6, <2>3, <2>5 DEF Kept
<1>9. (\A i, k \in 1..N : ids[i] = ids[k] => i = k) => \A k \in 1..N : k \in keep
  <2> SUFFICES ASSUME \A i, k \in 1..N : ids[i] = ids[k] => i = k, NEW k \in 1..N
               PROVE  ~\E m \in 1..(k - 1) : ids[m] = ids[k]
    OBVIOUS
  <2>1. \A m \in 1..(k - 1) : m \in 1..N /\ m # k
    BY <1>2
  <2> QED
    BY <2>1
<1> HIDE DEF keep
<1>10. s \in Seq(S) /\ DOMAIN s = 1..Len(s)
  BY <1>6 DEF Kept
<1>11. \A i \in 1..Len(s) : \E k \in 1..N : s[i] = ids[k]
  BY <1>6 DEF Kept
<1>12. {s[i] : i \in 1..Len(s)} = {ids[i] : i \in 1..N}
  <2>1. ASSUME NEW i \in 1..Len(s) PROVE s[i] \in {ids[k] : k \in 1..N}
    BY <1>11
  <2>2. ASSUME NEW k \in 1..N PROVE ids[k] \in {s[i] : i \in 1..Len(s)}
    BY <1>8
  <2> QED
    BY <2>1, <2>2
<1>13. \A i, k \in 1..Len(s) : s[i] = s[k] => i = k
  BY <1>6, <1>7 DEF Kept
<1>14. (\A i, k \in 1..N : ids[i] = ids[k] => i = k) => Len(s) = N
  BY <1>6, <1>9 DEF Kept
<1>15. deduplicateIds(ids) = s
  BY <1>1 DEF s
<1>16. /\ s \in Seq(S)
       /\ \A i, k \in DOMAIN s : s[i] = s[k] => i = k
       /\ {s[i] : i \in DOMAIN s} = {ids[i] : i \in DOMAIN ids}
       /\ (\A i, k \in DOMAIN ids : ids[i] = ids[k] => i = k) => Len(s) = Len(ids)
  BY <1>2, <1>10, <1>12, <1>13, <1>14
<1> QED
  BY <1>15, <1>16, Zenon

\* What makeRandomUser's loop keeps are ids of others.
LEMMA SkipSelfKeeps ==
  ASSUME NEW S, NEW ids \in Seq(S), NEW self
  PROVE  SkipSelf(ids, self) \in Seq(S \ {self})
<1> DEFINE N == Len(ids)
           keep == {n \in 1..N : ids[n] # self}
           Body(f) == [n \in 0..N |-> IF n = 0 THEN <<>>
                                      ELSE IF ids[n] = self THEN f[n - 1] ELSE Append(f[n - 1], ids[n])]
           F == CHOOSE f : f = Body(f)
           s == F[N]
<1>1. SkipSelf(ids, self) = F[N]
  BY Zenon DEF SkipSelf
<1>2. N \in Nat /\ DOMAIN ids = 1..N
  OBVIOUS
<1>3. ASSUME NEW f PROVE Body(f) = KeepLoop(ids, keep, f)
  <2>1. \A n \in 0..N : n # 0 => (n \in keep <=> ids[n] # self)
    BY <1>2
  <2> HIDE DEF keep
  <2> QED
    BY <2>1 DEF KeepLoop
<1>4. F = Body(F)
  <2> HIDE DEF Body, keep
  <2>1. PICK f : f = Body(f)
    BY <1>3, KeepLoopExists
  <2> QED
    BY <2>1
<1>5. F = KeepLoop(ids, keep, F)
  BY <1>3, <1>4
<1> HIDE DEF F
<1>6. Kept(S, ids, keep, N, s)
  <2> HIDE DEF keep
  <2> QED
    BY <1>5, KeepLoopResult
<1> HIDE DEF s
<1>7. s \in Seq(S) /\ DOMAIN s = 1..Len(s)
  BY <1>6 DEF Kept
<1>8. SkipSelf(ids, self) = s
  BY <1>1 DEF s
<1>9. ASSUME NEW i \in DOMAIN s PROVE s[i] \in S \ {self}
  <2>1. PICK k \in 1..N : k \in keep /\ s[i] = ids[k]
    <3> HIDE DEF keep, N
    <3> QED
      BY <1>6, <1>7 DEF Kept
  <2>2. ids[k] \in S /\ ids[k] # self
    BY <1>2, <2>1
  <2> QED
    BY <2>1, <2>2
<1>10. s \in Seq(S \ {self})
  BY <1>7, <1>9
<1> QED
  BY <1>8, <1>10

-----------------------------------------------------------------------------
\* g gives the sum of the weights of a subset of S, adding up in the order in which
\* CHOOSE takes the elements.
IsSum(S, w, g) ==
  /\ g \in [SUBSET S -> Nat] /\ g[{}] = 0
  /\ \A T \in SUBSET S : T # {} =>
       g[T] = w[CHOOSE x \in T : TRUE] + g[T \ {CHOOSE x \in T : TRUE}]

\* Sums over the subsets of a finite set exist.
LEMMA SumExists ==
  ASSUME NEW S, IsFiniteSet(S), NEW w \in [S -> Nat]
  PROVE  \E g : IsSum(S, w, g)
<1> DEFINE pick(T) == CHOOSE x \in T : TRUE
           Sums(n) == {g \in [SUBSET S -> Nat] : g[{}] = 0 /\ \A T \in SUBSET S :
                         T # {} /\ Cardinality(T) <= n => g[T] = w[pick(T)] + g[T \ {pick(T)}]}
           P == {n \in Nat : Sums(n) # {}}
<1>1. \A T \in SUBSET S : IsFiniteSet(T) /\ Cardinality(T) \in Nat /\ (Cardinality(T) = 0 <=> T = {})
  BY FS_Subset, FS_CardinalityType, FS_EmptySet
<1>2. ASSUME NEW T \in SUBSET S, T # {}
      PROVE  pick(T) \in T /\ pick(T) \in S /\ T \ {pick(T)} \in SUBSET S
             /\ Cardinality(T \ {pick(T)}) = Cardinality(T) - 1
  <2>1. pick(T) \in T
    BY <1>2
  <2> HIDE DEF pick
  <2> QED
    BY <1>1, <2>1, FS_RemoveElement
<1> HIDE DEF pick
<1>3. 0 \in P
  <2> DEFINE g == [T \in SUBSET S |-> 0]
  <2>1. g \in Sums(0)
    <3>1. \A T \in SUBSET S : ~(T # {} /\ Cardinality(T) <= 0)
      BY <1>1
    <3> QED
      BY <3>1
  <2> QED
    BY <2>1
<1>4. ASSUME NEW n \in Nat, n \in P PROVE n + 1 \in P
  <2>1. PICK g \in [SUBSET S -> Nat] : g[{}] = 0 /\ \A T \in SUBSET S :
          T # {} /\ Cardinality(T) <= n => g[T] = w[pick(T)] + g[T \ {pick(T)}]
    BY <1>4
  <2> DEFINE h == [T \in SUBSET S |-> IF Cardinality(T) <= n THEN g[T]
                                      ELSE w[pick(T)] + g[T \ {pick(T)}]]
  <2>2. h[{}] = 0
    BY <1>1, <2>1
  <2>3. h \in [SUBSET S -> Nat]
    <3> SUFFICES ASSUME NEW T \in SUBSET S PROVE h[T] \in Nat
      OBVIOUS
    <3>1. Cardinality(T) <= n \/ T # {}
      BY <1>1
    <3> QED
      BY <1>2, <3>1
  <2>4. ASSUME NEW T \in SUBSET S, T # {}, Cardinality(T) <= n + 1
        PROVE  h[T] = w[pick(T)] + h[T \ {pick(T)}]
    <3>1. T \ {pick(T)} \in SUBSET S /\ Cardinality(T \ {pick(T)}) <= n /\ Cardinality(T) \in Nat
      BY <1>1, <1>2, <2>4
    <3>2. h[T \ {pick(T)}] = g[T \ {pick(T)}]
      BY <3>1
    <3>3. CASE Cardinality(T) <= n
      BY <2>1, <2>4, <3>2, <3>3
    <3>4. CASE ~(Cardinality(T) <= n)
      BY <3>2, <3>4
    <3> QED
      BY <3>3, <3>4
  <2> HIDE DEF h
  <2>5. h \in Sums(n + 1)
    BY <2>2, <2>3, <2>4
  <2> QED
    BY <2>5
<1>5. \A n \in Nat : n \in P
  <2> HIDE DEF P
  <2> QED
    BY <1>3, <1>4, SetInduction
<1>6. Cardinality(S) \in Nat /\ \A T \in SUBSET S : Cardinality(T) <= Cardinality(S)
  BY FS_Subset, FS_CardinalityType
<1>7. PICK g \in [SUBSET S -> Nat] : g[{}] = 0 /\ \A T \in SUBSET S :
        T # {} /\ Cardinality(T) <= Cardinality(S) => g[T] = w[pick(T)] + g[T \ {pick(T)}]
  <2>1. Cardinality(S) \in P
    BY <1>5, <1>6
  <2> QED
    BY <2>1
<1>8. \A T \in SUBSET S : T # {} => g[T] = w[pick(T)] + g[T \ {pick(T)}]
  BY <1>6, <1>7
<1> QED
  BY <1>7, <1>8 DEF IsSum, pick

\* The order does not matter: one more element adds its weight.
LEMMA SumAdd ==
  ASSUME NEW S, IsFiniteSet(S), NEW w \in [S -> Nat], NEW g, IsSum(S, w, g),
         NEW T \in SUBSET S, NEW x \in S, x \notin T
  PROVE  g[T \cup {x}] = g[T] + w[x]
<1> DEFINE pick(U) == CHOOSE y \in U : TRUE
           P == {n \in Nat : \A U \in SUBSET S, y \in S :
                               Cardinality(U) = n /\ y \notin U => g[U \cup {y}] = g[U] + w[y]}
<1>1. \A U \in SUBSET S : IsFiniteSet(U) /\ Cardinality(U) \in Nat /\ (Cardinality(U) = 0 <=> U = {})
  BY FS_Subset, FS_CardinalityType, FS_EmptySet
<1>2. \A U \in SUBSET S : g[U] \in Nat /\ (U # {} => g[U] = w[pick(U)] + g[U \ {pick(U)}])
  BY DEF IsSum
<1>3. \A U : U # {} => pick(U) \in U
  OBVIOUS
<1> HIDE DEF pick
<1>4. ASSUME NEW U \in SUBSET S, NEW y \in S, y \notin U,
             \A V \in SUBSET S, z \in S : V \subseteq U /\ V # U /\ z \notin V => g[V \cup {z}] = g[V] + w[z]
      PROVE  g[U \cup {y}] = g[U] + w[y]
  <2> DEFINE W == U \cup {y}
             z == pick(W)
             V == U \ {z}
  <2>1. W \in SUBSET S /\ W # {} /\ z \in W /\ g[W] = w[z] + g[W \ {z}]
    BY <1>2, <1>3
  <2>2. w[z] \in Nat /\ w[y] \in Nat
    BY <2>1
  <2> HIDE DEF z
  <2>3. CASE z = y
    <3>1. W \ {z} = U
      BY <1>4, <2>3
    <3>2. g[U] \in Nat
      BY <1>2
    <3> HIDE DEF W
    <3>3. g[W] = g[U] + w[y]
      BY <2>1, <2>2, <2>3, <3>1, <3>2
    <3> QED
      BY <3>3 DEF W
  <2>4. CASE z # y
    <3>1. z \in U /\ z \in S /\ V \in SUBSET S /\ V \subseteq U /\ V # U /\ z \notin V /\ y \notin V
      BY <1>4, <2>1, <2>4
    <3>2. W \ {z} = V \cup {y} /\ U = V \cup {z}
      BY <2>4, <3>1
    <3> HIDE DEF V, W
    <3>3. g[V \cup {y}] = g[V] + w[y]
      BY <1>4, <3>1
    <3>4. g[U] = g[V] + w[z]
      BY <1>4, <3>1, <3>2
    <3>5. g[V] \in Nat
      BY <1>2, <3>1
    <3>6. g[W] = w[z] + (g[V] + w[y])
      BY <2>1, <3>2, <3>3
    <3>7. g[W] = g[U] + w[y]
      BY <2>2, <3>4, <3>5, <3>6
    <3> QED
      BY <3>7 DEF W
  <2> QED
    BY <2>3, <2>4
<1>5. ASSUME NEW n \in Nat, \A m \in 0..(n - 1) : m \in P PROVE n \in P
  <2> SUFFICES ASSUME NEW U \in SUBSET S, NEW y \in S, Cardinality(U) = n, y \notin U
               PROVE  g[U \cup {y}] = g[U] + w[y]
    OBVIOUS
  <2>1. ASSUME NEW V \in SUBSET S, NEW z \in S, V \subseteq U, V # U, z \notin V
        PROVE  g[V \cup {z}] = g[V] + w[z]
    <3>1. Cardinality(V) \in Nat /\ Cardinality(V) < n
      BY <1>1, <2>1, FS_Subset
    <3>2. Cardinality(V) \in P
      BY <1>5, <3>1
    <3> QED
      BY <2>1, <3>2
  <2> QED
    BY <1>4, <2>1
<1> DEFINE Q == {n \in Nat : \A m \in 0..n : m \in P}
<1>6. \A n \in Nat : n \in Q
  <2> HIDE DEF P
  <2>1. 0 \in P
    BY <1>5
  <2>2. 0 \in Q
    BY <2>1
  <2>3. ASSUME NEW n \in Nat, n \in Q PROVE n + 1 \in Q
    <3>1. \A m \in 0..n : m \in P
      BY <2>3
    <3>2. n + 1 \in P
      BY <1>5, <3>1
    <3> QED
      BY <3>1, <3>2
  <2> HIDE DEF Q
  <2> QED
    BY <2>2, <2>3, SetInduction
<1>7. Cardinality(T) \in Nat
  BY <1>1
<1>8. Cardinality(T) \in P
  <2>1. Cardinality(T) \in Q
    BY <1>6, <1>7
  <2> HIDE DEF P
  <2> QED
    BY <1>7, <2>1
<1> QED
  BY <1>8

\* A recursive definition of the sum computes it.
SumLoop(S, w, h) ==
  [T \in SUBSET S |-> IF T = {} THEN 0
                      ELSE w[CHOOSE x \in T : TRUE] + h[T \ {CHOOSE x \in T : TRUE}]]

\* The recursive definition of MapThenSumSet has a solution.
LEMMA SumLoopExists ==
  ASSUME NEW S, IsFiniteSet(S), NEW w \in [S -> Nat]
  PROVE  \E h : h = SumLoop(S, w, h)
<1>1. PICK g : IsSum(S, w, g)
  BY SumExists
<1>2. g \in [SUBSET S -> Nat] /\ \A T \in SUBSET S :
        g[T] = IF T = {} THEN 0 ELSE w[CHOOSE x \in T : TRUE] + g[T \ {CHOOSE x \in T : TRUE}]
  BY <1>1 DEF IsSum
<1>3. g = SumLoop(S, w, g)
  BY <1>2 DEF SumLoop
<1> QED
  BY <1>3

\* Any solution of it is the sum.
LEMMA SumLoopResult ==
  ASSUME NEW S, IsFiniteSet(S), NEW w \in [S -> Nat], NEW g, IsSum(S, w, g),
         NEW h, h = SumLoop(S, w, h)
  PROVE  h[S] = g[S]
<1> DEFINE pick(T) == CHOOSE x \in T : TRUE
           P == {n \in Nat : \A T \in SUBSET S : Cardinality(T) = n => h[T] = g[T]}
<1>1. \A T \in SUBSET S : IsFiniteSet(T) /\ Cardinality(T) \in Nat /\ (Cardinality(T) = 0 <=> T = {})
  BY FS_Subset, FS_CardinalityType, FS_EmptySet
<1>2. ASSUME NEW T \in SUBSET S, T # {}
      PROVE  pick(T) \in S /\ T \ {pick(T)} \in SUBSET S
             /\ Cardinality(T \ {pick(T)}) = Cardinality(T) - 1
  <2>1. pick(T) \in T
    BY <1>2
  <2> HIDE DEF pick
  <2> QED
    BY <1>1, <2>1, FS_RemoveElement
<1>3. \A T \in SUBSET S : T # {} => g[T] = w[pick(T)] + g[T \ {pick(T)}]
  BY DEF IsSum
<1>4. \A T \in SUBSET S : h[T] = IF T = {} THEN 0 ELSE w[pick(T)] + h[T \ {pick(T)}]
  <2> DEFINE val(T) == IF T = {} THEN 0 ELSE w[pick(T)] + h[T \ {pick(T)}]
  <2>1. h = [T \in SUBSET S |-> val(T)]
    BY DEF SumLoop
  <2> HIDE DEF val
  <2>2. \A T \in SUBSET S : h[T] = val(T)
    BY <2>1
  <2> QED
    BY <2>2 DEF val
<1> HIDE DEF pick
<1>5. 0 \in P
  <2>1. h[{}] = 0 /\ g[{}] = 0
    BY <1>4 DEF IsSum
  <2> QED
    BY <1>1, <2>1
<1>6. ASSUME NEW n \in Nat, n \in P PROVE n + 1 \in P
  <2> SUFFICES ASSUME NEW T \in SUBSET S, Cardinality(T) = n + 1 PROVE h[T] = g[T]
    OBVIOUS
  <2>1. T # {}
    BY <1>1
  <2>2. T \ {pick(T)} \in SUBSET S /\ Cardinality(T \ {pick(T)}) = n
    BY <1>1, <1>2, <2>1
  <2>3. h[T \ {pick(T)}] = g[T \ {pick(T)}]
    BY <1>6, <2>2
  <2> QED
    BY <1>3, <1>4, <2>1, <2>3
<1>7. \A n \in Nat : n \in P
  <2> HIDE DEF P
  <2> QED
    BY <1>5, <1>6, SetInduction
<1>8. Cardinality(S) \in P
  <2>1. Cardinality(S) \in Nat
    BY <1>1
  <2> HIDE DEF P
  <2> QED
    BY <1>7, <2>1
<1> QED
  BY <1>8

\* A remainder is the only one.
LEMMA RemainderUnique ==
  ASSUME NEW m \in Nat \ {0}, NEW i \in Int, NEW k \in Int,
         NEW r \in 0..(m - 1), NEW s \in 0..(m - 1), m * i + r = m * k + s
  PROVE  r = s
<1>1. m * (i - k) = s - r /\ i - k \in Int
  <2>1. m * (i - k) = m * i - m * k /\ m * i \in Int /\ m * k \in Int
    OBVIOUS
  <2> QED
    BY <2>1
<1>2. ~(i - k >= 1)
  <2>1. i - k >= 1 => m * (i - k) >= m
    BY <1>1
  <2> QED
    BY <1>1, <2>1
<1>3. ~(i - k <= -1)
  <2>1. i - k <= -1 => m * (i - k) <= -m
    BY <1>1
  <2> QED
    BY <1>1, <2>1
<1>4. i - k = 0
  BY <1>1, <1>2, <1>3
<1> QED
  BY <1>1, <1>4

\* Wrapping after every addition or once at the end is the same.
LEMMA WrapSum ==
  ASSUME NEW a \in Nat, NEW b \in Nat, NEW m \in Nat \ {0}
  PROVE  ((a % m) + b) % m = (a + b) % m
<1>0. ASSUME NEW x \in Nat
      PROVE  x \div m \in Int /\ x % m \in 0..(m - 1) /\ x = m * (x \div m) + (x % m)
  OBVIOUS
<1>1. PICK q \in Int, r \in 0..(m - 1) : a = m * q + r /\ r = a % m
  BY <1>0
<1>2. PICK p \in Int, s \in 0..(m - 1) : r + b = m * p + s /\ s = (r + b) % m
  <2>1. r + b \in Nat
    OBVIOUS
  <2> QED
    BY <1>0, <2>1
<1>3. PICK t \in Int, u \in 0..(m - 1) : a + b = m * t + u /\ u = (a + b) % m
  <2>1. a + b \in Nat
    OBVIOUS
  <2> QED
    BY <1>0, <2>1
<1>4. m * (q + p) + s = m * t + u
  <2>1. PICK x \in Int, y \in Int, z \in Int : x = m * q /\ y = m * p /\ z = m * t
    OBVIOUS
  <2>2. m * (q + p) = x + y
    BY <2>1
  <2>3. a = x + r /\ r + b = y + s /\ a + b = z + u
    BY <1>1, <1>2, <1>3, <2>1
  <2>4. x + y + s = z + u
    BY <2>3
  <2> QED
    BY <2>1, <2>2, <2>4
<1>5. s = u
  <2>1. q + p \in Int
    OBVIOUS
  <2> QED
    BY <1>4, <2>1, RemainderUnique
<1> QED
  BY <1>1, <1>2, <1>3, <1>5

\* A list without duplicates has as many ids as it holds.
LEMMA DistinctCount ==
  ASSUME NEW S, NEW s \in Seq(S), IsInjective(s)
  PROVE  IsFiniteSet(ToSet(s)) /\ Cardinality(ToSet(s)) = Len(s)
<1>1. Len(s) \in Nat /\ DOMAIN s = 1..Len(s) /\ s \in [1..Len(s) -> ToSet(s)]
  BY DEF ToSet
<1>2. s \in Bijection(1..Len(s), ToSet(s))
  BY <1>1 DEF Bijection, Injection, Surjection, ToSet, IsInjective
<1>3. ExistsBijection(1..Len(s), ToSet(s))
  BY <1>2 DEF ExistsBijection
<1>4. IsFiniteSet(1..Len(s)) /\ Cardinality(1..Len(s)) = Len(s)
  BY <1>1, FS_Interval
<1> QED
  BY <1>3, <1>4, FS_Bijection
=============================================================================
