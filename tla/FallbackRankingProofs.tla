----------------------- MODULE FallbackRankingProofs ------------------------
(***************************************************************************)
(* A fallback handler that has its array to itself sorts it and answers    *)
(* with the best of it, for any handlers, users, limits, scores and        *)
(* trending videos, and for any number of refreshes; and every response    *)
(* comes from one refresh, whoever shares its array.                       *)
(***************************************************************************)
EXTENDS FallbackRanking, LoopLemmas, FiniteSetTheorems, TLAPS

(***************************************************************************)
(* Sorted sequences, position x out of order, and what a swap does.        *)
(***************************************************************************)
Permuted(s, t) == IsInjective(s) /\ ToSet(s) = ToSet(t)

Sorted(s, rank, n) == \A p, q \in 1..n : p < q => rank[s[p]] >= rank[s[q]]

\* The first n are sorted, except that the one at x may belong further left.
SortedBut(s, rank, n, x) == \A p, q \in 1..n : p < q /\ q # x => rank[s[p]] >= rank[s[q]]

\* A swap of neighbours leaves the same videos.
LEMMA SwapPermuted ==
  ASSUME NEW S, NEW s \in Seq(S), NEW t, Permuted(s, t), NEW x \in 1..Len(s) - 1
  PROVE  Permuted([[s EXCEPT ![x + 1] = s[x]] EXCEPT ![x] = s[x + 1]], t)
<1> DEFINE u == [[s EXCEPT ![x + 1] = s[x]] EXCEPT ![x] = s[x + 1]]
           other(m) == IF m = x THEN x + 1 ELSE IF m = x + 1 THEN x ELSE m
<1>1. Len(s) \in Nat /\ DOMAIN s = 1..Len(s) /\ x \in 1..Len(s) /\ x + 1 \in 1..Len(s) /\ x # x + 1
  OBVIOUS
<1>2. DOMAIN u = 1..Len(s) /\ \A m \in 1..Len(s) : u[m] = s[other(m)] /\ other(m) \in 1..Len(s)
  BY <1>1
<1>3. \A m \in 1..Len(s) : other(other(m)) = m
  BY <1>1
<1> HIDE DEF u, other
<1>4. IsInjective(u)
  BY <1>1, <1>2, <1>3 DEF Permuted, IsInjective
<1>5. ToSet(u) = ToSet(s)
  BY <1>1, <1>2, <1>3 DEF ToSet
<1>6. Permuted(u, t)
  BY <1>4, <1>5 DEF Permuted
<1> QED
  BY <1>6 DEF u

\* Swapping a neighbour out of order moves the place that may be out of order.
LEMMA SwapSorted ==
  ASSUME NEW S, NEW s \in Seq(S), NEW rank \in [S -> Nat], NEW n \in 0..Len(s),
         NEW x \in 1..n - 1, SortedBut(s, rank, n, x + 1), rank[s[x + 1]] >= rank[s[x]]
  PROVE  SortedBut([[s EXCEPT ![x + 1] = s[x]] EXCEPT ![x] = s[x + 1]], rank, n, x)
<1> DEFINE u == [[s EXCEPT ![x + 1] = s[x]] EXCEPT ![x] = s[x + 1]]
           r(m) == rank[s[m]]
<1>1. Len(s) \in Nat /\ DOMAIN s = 1..Len(s) /\ x \in 1..Len(s) /\ x + 1 \in 1..Len(s) /\ x # x + 1
  OBVIOUS
<1>2. \A m \in 1..n : u[m] = IF m = x THEN s[x + 1] ELSE IF m = x + 1 THEN s[x] ELSE s[m]
  BY <1>1
<1>3. \A p, q \in 1..n : p < q /\ q # x + 1 => r(p) >= r(q)
  BY DEF SortedBut
<1>4. r(x + 1) >= r(x) /\ \A m \in 1..n : r(m) \in Nat
  BY <1>1
<1> HIDE DEF u, r
<1>5. \A m \in 1..n : rank[u[m]] = IF m = x THEN r(x + 1) ELSE IF m = x + 1 THEN r(x) ELSE r(m)
  BY <1>2 DEF r
<1>6. ASSUME NEW p \in 1..n, NEW q \in 1..n, p < q, q # x PROVE rank[u[p]] >= rank[u[q]]
  <2>1. x \in 1..n /\ x + 1 \in 1..n /\ n \in Nat
    BY <1>1
  <2>2. CASE q = x + 1
    <3>1. rank[u[q]] = r(x) /\ (p = x \/ p < x)
      BY <1>1, <1>5, <2>1, <2>2, <1>6
    <3>2. CASE p = x
      BY <1>4, <1>5, <3>1, <3>2
    <3>3. CASE p < x
      <4>1. rank[u[p]] = r(p) /\ r(p) >= r(x)
        BY <1>3, <1>5, <2>1, <3>3
      <4> QED
        BY <3>1, <4>1
    <3> QED
      BY <3>1, <3>2, <3>3
  <2>3. CASE q # x + 1
    <3>1. rank[u[q]] = r(q)
      BY <1>5, <1>6, <2>3
    <3>2. CASE p = x
      <4>1. x + 1 < q
        BY <1>6, <2>3, <3>2
      <4> QED
        BY <1>3, <1>5, <2>1, <2>3, <3>1, <3>2, <4>1
    <3>3. CASE p = x + 1
      <4>1. x < q
        BY <1>6, <3>3
      <4> QED
        BY <1>1, <1>3, <1>5, <2>1, <2>3, <3>1, <3>3, <4>1
    <3>4. CASE p # x /\ p # x + 1
      BY <1>3, <1>5, <1>6, <2>3, <3>1, <3>4
    <3> QED
      BY <3>2, <3>3, <3>4
  <2> QED
    BY <2>2, <2>3
<1>7. SortedBut(u, rank, n, x)
  BY <1>6 DEF SortedBut
<1> QED
  BY <1>7 DEF u

\* An element in order with its left neighbour is in order.
LEMMA InsertionOver ==
  ASSUME NEW S, NEW s \in Seq(S), NEW rank \in [S -> Nat], NEW n \in 0..Len(s),
         NEW x \in 1..n - 1, SortedBut(s, rank, n, x + 1), rank[s[x]] >= rank[s[x + 1]]
  PROVE  Sorted(s, rank, n)
<1>1. \A m \in 1..n : rank[s[m]] \in Nat
  OBVIOUS
<1>2. ASSUME NEW p \in 1..n, NEW q \in 1..n, p < q PROVE rank[s[p]] >= rank[s[q]]
  <2>1. CASE q # x + 1
    BY <1>2, <2>1 DEF SortedBut
  <2>2. CASE q = x + 1 /\ p = x
    BY <2>2
  <2>3. CASE q = x + 1 /\ p < x
    <3>1. rank[s[p]] >= rank[s[x]] /\ x \in 1..n
      BY <2>3 DEF SortedBut
    <3> QED
      BY <1>1, <2>3, <3>1
  <2> QED
    BY <1>2, <2>1, <2>2, <2>3
<1> QED
  BY <1>2 DEF Sorted

\* The response v has the best lim of the videos o, best first, each once.
Best(v, o, rank, lim) ==
  /\ IsInjective(v)
  /\ ToSet(v) \subseteq ToSet(o)
  /\ Len(v) = IF lim = 0 \/ lim > Cardinality(ToSet(o)) THEN Cardinality(ToSet(o)) ELSE lim
  /\ \A m, n \in DOMAIN v : m < n => rank[v[m]] >= rank[v[n]]
  /\ \A kept \in ToSet(v), cut \in ToSet(o) \ ToSet(v) : rank[kept] >= rank[cut]

\* The array s has the videos o, sorted.
Ranked(s, o, rank) ==
  /\ s \in Seq(Cached) /\ o \in Seq(Cached) /\ rank \in [Cached -> Nat]
  /\ IsInjective(o) /\ Len(s) = Len(o) /\ Permuted(s, o) /\ Sorted(s, rank, Len(s))

\* v is s up to the limit.
Cut(v, s, lim) ==
  /\ v \in Seq(Cached) /\ lim \in Nat
  /\ Len(v) = IF lim # 0 /\ lim < Len(s) THEN lim ELSE Len(s)
  /\ \A m \in 1..Len(v) : v[m] = s[m]

\* A sorted array up to the limit is the response wanted.
LEMMA PrefixIsBest ==
  ASSUME NEW s, NEW o, NEW rank, NEW v, NEW lim, Ranked(s, o, rank), Cut(v, s, lim)
  PROVE  Best(v, o, rank, lim)
<1> USE DEF Ranked, Cut
<1>1. /\ Len(s) \in Nat /\ Len(v) \in Nat /\ Len(v) <= Len(s)
      /\ DOMAIN s = 1..Len(s) /\ DOMAIN v = 1..Len(v) /\ 1..Len(v) \subseteq 1..Len(s)
  OBVIOUS
<1>2. IsInjective(v)
  BY <1>1 DEF IsInjective, Permuted
<1>3. ToSet(v) \subseteq ToSet(o)
  BY <1>1 DEF ToSet, Permuted
<1>4. Cardinality(ToSet(o)) = Len(s)
  BY DistinctCount
<1>5. Len(v) = IF lim = 0 \/ lim > Cardinality(ToSet(o)) THEN Cardinality(ToSet(o)) ELSE lim
  <2>1. lim \in Nat /\ Len(s) \in Nat
        /\ Len(v) = (IF lim # 0 /\ lim < Len(s) THEN lim ELSE Len(s))
    BY <1>1
  <2>2. Len(v) = IF lim = 0 \/ lim > Len(s) THEN Len(s) ELSE lim
    BY <2>1
  <2> QED
    BY <1>4, <2>2
<1>6. \A m, n \in DOMAIN v : m < n => rank[v[m]] >= rank[v[n]]
  <2> SUFFICES ASSUME NEW m \in 1..Len(v), NEW n \in 1..Len(v), m < n
               PROVE  rank[v[m]] >= rank[v[n]]
    BY <1>1
  <2>1. m \in 1..Len(s) /\ n \in 1..Len(s) /\ v[m] = s[m] /\ v[n] = s[n]
    BY <1>1
  <2> QED
    BY <2>1 DEF Sorted
<1>7. ASSUME NEW kept \in ToSet(v), NEW cut \in ToSet(o) \ ToSet(v)
      PROVE  rank[kept] >= rank[cut]
  <2>1. PICK p \in 1..Len(v) : v[p] = kept
    BY <1>1 DEF ToSet
  <2>2. PICK q \in 1..Len(s) : s[q] = cut
    BY <1>1 DEF ToSet, Permuted
  <2>3. q \notin 1..Len(v)
    BY <1>1, <1>7, <2>2 DEF ToSet
  <2>4. \A x, y \in Nat : \A f \in 1..x, g \in 1..y :
          x <= y /\ g \notin 1..x => f < g /\ f \in 1..y
    OBVIOUS
  <2>5. p < q /\ p \in 1..Len(s)
    BY <1>1, <2>3, <2>4
  <2> QED
    BY <2>1, <2>2, <2>5 DEF Sorted
<1> QED
  BY <1>2, <1>3, <1>5, <1>6, <1>7 DEF Best

(***************************************************************************)
(* The inductive invariant.                                                *)
(***************************************************************************)
ArrayTypes ==
  /\ original \in Seq(Trending) /\ arrays \in Seq(Seq(Cached))
  /\ Len(arrays) = Len(original)
  /\ \A k \in 1..Len(arrays) : Len(arrays[k]) = Len(original[k])
  /\ topVideos \in 0..Len(arrays)

HandlerTypes ==
  /\ pc \in [Handlers -> Steps \cup {"idle", "done"}]
  /\ user \in [Handlers -> Users] /\ limit \in [Handlers -> Nat]
  /\ held \in [Handlers -> Nat]
  /\ rankMap \in [Handlers -> SUBSET Cached]
  /\ i \in [Handlers -> Nat] /\ j \in [Handlers -> Nat]
  /\ a \in [Handlers -> Cached \cup {NoVideo}] /\ b \in [Handlers -> Cached \cup {NoVideo}]
  /\ videos \in [Handlers -> Seq(Cached)]

\* Where the loops of a handler are, whoever else writes to its array.
Placed(h) ==
  /\ pc[h] # "idle" => held[h] \in 1..Len(arrays)
  /\ pc[h] = "rank" => i[h] <= Length(h)
  /\ pc[h] = "outer" => i[h] \in 1..Length(h)
  /\ pc[h] \in {"left", "right", "load1", "load2", "store1", "store2"} =>
       i[h] \in 1..Length(h) - 1 /\ j[h] \in 0..i[h]
  /\ pc[h] \in {"right", "load1", "load2", "store1", "store2"} => j[h] > 0
  /\ pc[h] \in {"right", "load2", "store1", "store2"} => a[h] \in Cached
  /\ pc[h] \in {"store1", "store2"} => b[h] \in Cached
  /\ pc[h] = "marshal" => i[h] <= Truncate(h)
  /\ pc[h] \in (Steps \ {"marshal"}) \cup {"idle"} => videos[h] = <<>>

\* How far a handler has sorted the array t, filled with the videos o, by rank.
Sorting(h, t, o, rank) ==
  /\ pc[h] # "store2" => Permuted(t, o)
  /\ pc[h] = "rank" => \A m \in 1..i[h] : t[m] \in rankMap[h]
  /\ pc[h] # "rank" => ToSet(o) \subseteq rankMap[h]
  /\ pc[h] = "outer" => Sorted(t, rank, i[h])
  /\ pc[h] \in {"left", "right", "load1", "load2", "store1"} =>
       SortedBut(t, rank, i[h] + 1, j[h] + 1)
  /\ pc[h] = "right" => a[h] = t[j[h] + 1]
  /\ pc[h] \in {"load1", "load2", "store1"} => rank[t[j[h] + 1]] >= rank[t[j[h]]]
  /\ pc[h] \in {"load2", "store1"} => a[h] = t[j[h]]
  /\ pc[h] = "store1" => b[h] = t[j[h] + 1]
  /\ pc[h] = "store2" => /\ Permuted([t EXCEPT ![j[h]] = b[h]], o)
                         /\ SortedBut([t EXCEPT ![j[h]] = b[h]], rank, i[h] + 1, j[h])
  /\ pc[h] = "marshal" => /\ Sorted(t, rank, Len(t))
                          /\ Len(videos[h]) = i[h]
                          /\ \A m \in 1..i[h] : videos[h][m] = t[m]

\* A handler that has its array to itself makes progress with it.
Progress(h) ==
  pc[h] \in Steps /\ held[h] \notin contended =>
    Sorting(h, arrays[held[h]], original[held[h]], Score[user[h]])

Answered(h) == pc[h] = "done" /\ held[h] \notin contended => Correct(h)

\* Two handlers that work on one array know of it.
Sole ==
  \A g, h \in Handlers :
    g # h /\ pc[g] \in Steps /\ pc[h] \in Steps /\ held[g] = held[h] => held[g] \in contended

\* An array nobody works on and nobody fought over holds what it was filled with.
Untouched(k) ==
  k \notin contended /\ (\A h \in InFlight : held[h] # k) => Permuted(arrays[k], original[k])

SortingInv ==
  /\ ArrayTypes /\ HandlerTypes
  /\ \A h \in Handlers : Placed(h) /\ Progress(h) /\ Answered(h)
  /\ Sole
  /\ \A k \in 1..Len(arrays) : Untouched(k)

\* A step that does not concern handler g.
Same(g) ==
  /\ pc'[g] = pc[g] /\ user'[g] = user[g] /\ limit'[g] = limit[g] /\ held'[g] = held[g]
  /\ rankMap'[g] = rankMap[g] /\ i'[g] = i[g] /\ j'[g] = j[g] /\ a'[g] = a[g] /\ b'[g] = b[g]
  /\ videos'[g] = videos[g]

\* What a step of handler h leaves alone.
Alone(h) ==
  /\ UNCHANGED <<original, contended, topVideos, user, limit, held>>
  /\ \A g \in Handlers \ {h} : Same(g)
  /\ arrays' \in Seq(Seq(Cached)) /\ Len(arrays') = Len(arrays)
  /\ \A k \in 1..Len(arrays) : /\ Len(arrays'[k]) = Len(arrays[k])
                               /\ k # held[h] => arrays'[k] = arrays[k]

\* The place of a handler depends on the length of its array only.
LEMMA PlacedFrame ==
  ASSUME NEW g \in Handlers, Placed(g), Same(g), Len(arrays) \in Nat, Len(arrays') \in Nat,
         Len(arrays) <= Len(arrays'),
         pc[g] # "idle" => Len(arrays'[held[g]]) = Len(arrays[held[g]])
  PROVE  Placed(g)'
<1>1. pc[g] # "idle" => Length(g)' = Length(g) /\ Truncate(g)' = Truncate(g)
  BY DEF Same, Length, Truncate
<1>2. pc[g] # "idle" => held'[g] \in 1..Len(arrays')
  BY DEF Placed, Same
<1> QED
  BY <1>1, <1>2 DEF Placed, Same

\* Its progress depends on its array.
LEMMA ProgressFrame ==
  ASSUME NEW g \in Handlers, Progress(g), Same(g), contended \subseteq contended',
         pc[g] \in Steps /\ held[g] \notin contended' =>
           arrays'[held[g]] = arrays[held[g]] /\ original'[held[g]] = original[held[g]]
  PROVE  Progress(g)'
<1> SUFFICES ASSUME pc[g] \in Steps, held[g] \notin contended'
             PROVE  Sorting(g, arrays[held[g]], original[held[g]], Score[user[g]])'
  BY DEF Progress, Same, Steps
<1> DEFINE t == arrays[held[g]]
           o == original[held[g]]
           rank == Score[user[g]]
<1>1. t' = t /\ o' = o /\ rank' = rank
  BY DEF Same
<1>2. Sorting(g, t, o, rank)
  BY DEF Progress
<1> HIDE DEF t, o, rank
<1>3. Sorting(g, t, o, rank)'
  BY <1>1, <1>2 DEF Sorting, Same
<1> QED
  BY <1>3 DEF t, o, rank

\* A response that was sent stays as it is.
LEMMA AnsweredFrame ==
  ASSUME NEW g \in Handlers, Answered(g), Same(g), contended \subseteq contended',
         pc[g] = "done" => original'[held[g]] = original[held[g]]
  PROVE  Answered(g)'
<1> SUFFICES ASSUME pc[g] = "done", held[g] \notin contended' PROVE Correct(g)'
  BY DEF Answered, Same
<1>1. Correct(g)
  BY DEF Answered
<1> QED
  BY <1>1 DEF Correct, Same

\* What is known of a handler that works on its array.
LEMMA AtWork ==
  ASSUME SortingInv, NEW h \in Handlers, pc[h] \in Steps
  PROVE  /\ held[h] \in 1..Len(arrays) /\ Len(arrays) \in Nat
         /\ arrays[held[h]] \in Seq(Cached) /\ original[held[h]] \in Seq(Cached)
         /\ Len(arrays[held[h]]) \in Nat \ {0}
         /\ Len(original[held[h]]) = Len(arrays[held[h]])
         /\ IsInjective(original[held[h]])
         /\ Score[user[h]] \in [Cached -> Nat]
         /\ i[h] \in Nat /\ j[h] \in Nat /\ limit[h] \in Nat /\ user[h] \in Users
         /\ Length(h) = Len(arrays[held[h]])
         /\ Placed(h)
         /\ held[h] \notin contended =>
              Sorting(h, arrays[held[h]], original[held[h]], Score[user[h]])
<1>1. ArrayTypes /\ HandlerTypes /\ Placed(h) /\ Progress(h)
  BY DEF SortingInv
<1>2. held[h] \in 1..Len(arrays) /\ Len(arrays) \in Nat
  BY <1>1 DEF Placed, Steps, ArrayTypes
<1>3. arrays[held[h]] \in Seq(Cached) /\ original[held[h]] \in Trending
      /\ Len(arrays[held[h]]) = Len(original[held[h]])
  BY <1>1, <1>2 DEF ArrayTypes
<1>4. /\ original[held[h]] \in Seq(Cached) /\ original[held[h]] # <<>>
      /\ IsInjective(original[held[h]])
  BY <1>3, RankingAssumption
<1>5. Len(original[held[h]]) \in Nat \ {0}
  BY <1>4
<1>6. user[h] \in Users /\ i[h] \in Nat /\ j[h] \in Nat /\ limit[h] \in Nat
  BY <1>1 DEF HandlerTypes
<1>7. Score[user[h]] \in [Cached -> Nat]
  BY <1>6, RankingAssumption
<1> QED
  BY <1>1, <1>2, <1>3, <1>4, <1>5, <1>6, <1>7 DEF Progress, Length

\* A step of h keeps the invariant if it keeps what the invariant says of h.
LEMMA AloneStep ==
  ASSUME SortingInv, NEW h \in Handlers, pc[h] \in Steps, Alone(h),
         HandlerTypes', Placed(h)', Progress(h)', Answered(h)',
         pc'[h] \in Steps \/ (held[h] \notin contended =>
                                Permuted(arrays'[held[h]], original[held[h]]))
  PROVE  SortingInv'
<1>1. ArrayTypes /\ Len(arrays) \in Nat /\ Len(arrays') \in Nat
  BY DEF SortingInv, ArrayTypes, Alone
<1>2. ArrayTypes'
  <2>1. original' = original /\ topVideos' = topVideos /\ Len(arrays') = Len(arrays)
        /\ arrays' \in Seq(Seq(Cached))
    BY DEF Alone
  <2>2. \A k \in 1..Len(arrays) : Len(arrays'[k]) = Len(original'[k])
    BY <1>1, <2>1 DEF Alone, ArrayTypes
  <2> QED
    BY <1>1, <2>1, <2>2 DEF ArrayTypes
<1>3. ASSUME NEW g \in Handlers PROVE Placed(g)' /\ Progress(g)' /\ Answered(g)'
  <2>1. CASE g = h
    BY <2>1
  <2>2. CASE g # h
    <3>1. Same(g) /\ contended' = contended /\ original' = original
      BY <2>2 DEF Alone
    <3>2. Placed(g) /\ Progress(g) /\ Answered(g)
      BY DEF SortingInv
    <3>3. pc[g] # "idle" => held[g] \in 1..Len(arrays)
      BY <3>2 DEF Placed
    <3>4. pc[g] # "idle" => Len(arrays'[held[g]]) = Len(arrays[held[g]])
      BY <3>3 DEF Alone
    <3>5. pc[g] \in Steps /\ held[g] \notin contended => held[g] # held[h]
      BY <2>2 DEF SortingInv, Sole
    <3>6. pc[g] \in Steps /\ held[g] \notin contended => arrays'[held[g]] = arrays[held[g]]
      BY <3>3, <3>5 DEF Alone, Steps
    <3>7. Len(arrays) <= Len(arrays')
      BY <1>1 DEF Alone
    <3>8. Placed(g)'
      BY <1>1, <3>1, <3>2, <3>4, <3>7, PlacedFrame
    <3>9. Progress(g)'
      BY <3>1, <3>2, <3>6, ProgressFrame
    <3>10. Answered(g)'
      BY <3>1, <3>2, AnsweredFrame
    <3> QED
      BY <3>8, <3>9, <3>10
  <2> QED
    BY <2>1, <2>2
<1>4. \A g \in Handlers : pc'[g] \in Steps => pc[g] \in Steps
  BY DEF Alone, Same
<1>5. Sole'
  <2> SUFFICES ASSUME NEW g \in Handlers, NEW f \in Handlers, g # f, pc'[g] \in Steps,
                      pc'[f] \in Steps, held'[g] = held'[f]
               PROVE  held'[g] \in contended'
    BY DEF Sole, Steps
  <2>1. pc[g] \in Steps /\ pc[f] \in Steps /\ held[g] = held[f]
    BY <1>4 DEF Alone
  <2>2. held[g] \in contended
    BY <2>1 DEF SortingInv, Sole
  <2> QED
    BY <2>2 DEF Alone
<1>6. ASSUME NEW k \in 1..Len(arrays') PROVE Untouched(k)'
  <2> SUFFICES ASSUME k \notin contended, \A g \in Handlers : pc'[g] \in Steps => held[g] # k
               PROVE  Permuted(arrays'[k], original[k])
    <3>1. contended' = contended /\ original' = original /\ held' = held
      BY DEF Alone
    <3>2. InFlight' = {g \in Handlers : pc'[g] \in Steps}
      BY DEF InFlight, Steps
    <3> QED
      BY <3>1, <3>2 DEF Untouched, Permuted
  <2>1. CASE k = held[h]
    BY <2>1
  <2>2. CASE k # held[h]
    <3>1. arrays'[k] = arrays[k] /\ k \in 1..Len(arrays)
      BY <2>2 DEF Alone
    <3>2. \A g \in InFlight : held[g] # k
      BY <2>2 DEF InFlight, Alone, Same
    <3>3. Untouched(k)
      BY <3>1 DEF SortingInv
    <3> QED
      BY <3>1, <3>2, <3>3 DEF Untouched
  <2> QED
    BY <2>1, <2>2
<1> QED
  BY <1>2, <1>3, <1>5, <1>6 DEF SortingInv

\* A step that only reads the cache.
LEMMA ReadingAlone ==
  ASSUME SortingInv, NEW h \in Handlers, UNCHANGED <<cache, user, limit, held>>,
         \A g \in Handlers \ {h} :
           /\ pc'[g] = pc[g] /\ rankMap'[g] = rankMap[g] /\ i'[g] = i[g] /\ j'[g] = j[g]
           /\ a'[g] = a[g] /\ b'[g] = b[g] /\ videos'[g] = videos[g]
  PROVE  Alone(h)
<1>1. arrays \in Seq(Seq(Cached))
  BY DEF SortingInv, ArrayTypes
<1>2. UNCHANGED <<arrays, original, contended, topVideos, user, limit, held>>
  BY DEF cache
<1> QED
  BY <1>1, <1>2 DEF Alone, Same

(***************************************************************************)
(* Every step of a handler keeps the invariant.                            *)
(***************************************************************************)
\* Initially nothing is cached and nobody works.
LEMMA SortingInit == ASSUME Init PROVE SortingInv
<1>1. ArrayTypes
  BY DEF Init, ArrayTypes
<1>2. HandlerTypes
  <2>1. limit \in [Handlers -> Nat]
    BY RankingAssumption DEF Init
  <2> QED
    BY <2>1 DEF Init, HandlerTypes, NoVideo
<1>3. \A h \in Handlers : pc[h] = "idle" /\ videos[h] = <<>>
  BY DEF Init
<1>4. \A h \in Handlers : Placed(h) /\ Progress(h) /\ Answered(h)
  BY <1>3 DEF Placed, Progress, Answered, Steps
<1>5. Sole
  BY <1>3 DEF Sole, Steps
<1>6. \A k \in 1..Len(arrays) : Untouched(k)
  BY DEF Init
<1> QED
  BY <1>1, <1>2, <1>4, <1>5, <1>6 DEF SortingInv

\* getVideoRanks ranks the elements one by one.
LEMMA SortingRankNext == ASSUME SortingInv, NEW h \in Handlers, RankNext(h) PROVE SortingInv'
<1> DEFINE t == arrays[held[h]]
           o == original[held[h]]
           rank == Score[user[h]]
<1>1. pc[h] = "rank" /\ pc[h] \in Steps
  BY DEF RankNext, Steps
<1>2. /\ held[h] \in 1..Len(arrays) /\ t \in Seq(Cached) /\ o \in Seq(Cached)
      /\ Len(t) \in Nat \ {0} /\ i[h] \in Nat /\ j[h] \in Nat /\ Length(h) = Len(t) /\ Placed(h)
      /\ held[h] \notin contended => Sorting(h, t, o, rank)
  BY <1>1, AtWork
<1>3. UNCHANGED <<cache, user, limit, held, j, a, b, videos>>
  BY DEF RankNext
<1>4. HandlerTypes /\ HandlerTypes'
  <2>1. HandlerTypes
    BY DEF SortingInv
  <2>2. i[h] < Len(t) => Element(h, i[h]) \in Cached
    BY <1>2 DEF Element
  <2>3. pc' \in [Handlers -> Steps \cup {"idle", "done"}]
    BY <2>1 DEF HandlerTypes, RankNext, Goto, Steps
  <2>4. rankMap' \in [Handlers -> SUBSET Cached]
    <3>1. \/ rankMap' = rankMap
          \/ /\ rankMap' = [rankMap EXCEPT ![h] = rankMap[h] \cup {Element(h, i[h])}]
             /\ i[h] < Length(h)
      BY DEF RankNext
    <3>2. rankMap \in [Handlers -> SUBSET Cached]
      BY <2>1 DEF HandlerTypes
    <3>3. i[h] < Length(h) => rankMap[h] \cup {Element(h, i[h])} \in SUBSET Cached
      BY <1>2, <2>2, <3>2
    <3> QED
      BY <3>1, <3>2, <3>3
  <2>5. i' \in [Handlers -> Nat]
    BY <1>2, <2>1 DEF HandlerTypes, RankNext
  <2> QED
    BY <1>3, <2>1, <2>3, <2>4, <2>5 DEF HandlerTypes
<1>5. Alone(h)
  <2>1. \A g \in Handlers \ {h} : pc'[g] = pc[g] /\ rankMap'[g] = rankMap[g] /\ i'[g] = i[g]
    BY <1>4 DEF RankNext, Goto, HandlerTypes
  <2> QED
    BY <1>3, <2>1, ReadingAlone
<1>6. t' = t /\ o' = o /\ rank' = rank /\ Length(h)' = Length(h) /\ Len(arrays') = Len(arrays)
  BY <1>3 DEF cache, Length
<1>7. i[h] <= Len(t) /\ videos[h] = <<>>
  BY <1>1, <1>2 DEF Placed, Steps
<1>8. CASE i[h] < Len(t)
  <2>1. /\ pc'[h] = "rank" /\ i'[h] = i[h] + 1 /\ videos'[h] = <<>> /\ held'[h] = held[h]
        /\ rankMap'[h] = rankMap[h] \cup {t[i[h] + 1]}
    BY <1>1, <1>2, <1>3, <1>4, <1>7, <1>8 DEF RankNext, HandlerTypes, Element
  <2>2. Placed(h)'
    BY <1>2, <1>6, <1>8, <2>1 DEF Placed
  <2>3. Progress(h)'
    <3> SUFFICES ASSUME held[h] \notin contended PROVE Sorting(h, t, o, rank)'
      BY <1>3 DEF Progress, cache
    <3>1. Permuted(t, o) /\ \A m \in 1..i[h] : t[m] \in rankMap[h]
      BY <1>1, <1>2 DEF Sorting
    <3> HIDE DEF t, o, rank
    <3>2. \A m \in 1..i[h] + 1 : t[m] \in rankMap'[h]
      BY <1>2, <2>1, <3>1
    <3> QED
      BY <1>6, <2>1, <3>1, <3>2 DEF Sorting
  <2> QED
    BY <1>1, <1>4, <1>5, <2>1, <2>2, <2>3, AloneStep DEF Answered, Steps
<1>9. CASE i[h] = Len(t)
  <2>1. /\ pc'[h] = "outer" /\ i'[h] = 1 /\ videos'[h] = <<>> /\ held'[h] = held[h]
        /\ rankMap'[h] = rankMap[h]
    BY <1>1, <1>2, <1>3, <1>4, <1>7, <1>9 DEF RankNext, HandlerTypes, Goto
  <2>2. Placed(h)'
    BY <1>2, <1>6, <2>1 DEF Placed
  <2>3. Progress(h)'
    <3> SUFFICES ASSUME held[h] \notin contended PROVE Sorting(h, t, o, rank)'
      BY <1>3 DEF Progress, cache
    <3>1. Permuted(t, o) /\ \A m \in 1..i[h] : t[m] \in rankMap[h]
      BY <1>1, <1>2 DEF Sorting
    <3>2. ToSet(o) \subseteq rankMap[h]
      <4>1. ToSet(t) = ToSet(o) /\ DOMAIN t = 1..Len(t)
        BY <1>2, <3>1 DEF Permuted
      <4> HIDE DEF t, o
      <4>2. ToSet(t) \subseteq rankMap[h]
        BY <1>9, <3>1, <4>1 DEF ToSet
      <4> QED
        BY <4>1, <4>2
    <3> HIDE DEF t, o, rank
    <3>3. Sorted(t, rank, 1)
      BY DEF Sorted
    <3> QED
      BY <1>6, <2>1, <3>1, <3>2, <3>3 DEF Sorting
  <2> QED
    BY <1>1, <1>4, <1>5, <2>1, <2>2, <2>3, AloneStep DEF Answered, Steps
<1> QED
  BY <1>2, <1>7, <1>8, <1>9

\* The outer loop takes up the next element, or the sort is over.
LEMMA SortingOuter == ASSUME SortingInv, NEW h \in Handlers, Outer(h) PROVE SortingInv'
<1> DEFINE t == arrays[held[h]]
           o == original[held[h]]
           rank == Score[user[h]]
<1>1. pc[h] = "outer" /\ pc[h] \in Steps
  BY DEF Outer, Steps
<1>2. /\ held[h] \in 1..Len(arrays) /\ t \in Seq(Cached) /\ o \in Seq(Cached)
      /\ Len(t) \in Nat \ {0} /\ i[h] \in Nat /\ j[h] \in Nat /\ limit[h] \in Nat
      /\ Length(h) = Len(t) /\ Placed(h)
      /\ held[h] \notin contended => Sorting(h, t, o, rank)
  BY <1>1, AtWork
<1>3. UNCHANGED <<cache, user, limit, held, rankMap, a, b, videos>>
  BY DEF Outer
<1>4. HandlerTypes /\ HandlerTypes'
  <2>1. HandlerTypes
    BY DEF SortingInv
  <2>2. pc' \in [Handlers -> Steps \cup {"idle", "done"}]
    BY <2>1 DEF HandlerTypes, Outer, Goto, Steps
  <2>3. i' \in [Handlers -> Nat] /\ j' \in [Handlers -> Nat]
    <3>1. /\ i' = i \/ i' = [i EXCEPT ![h] = 0]
          /\ j' = j \/ j' = [j EXCEPT ![h] = i[h]]
      BY DEF Outer
    <3>2. i \in [Handlers -> Nat] /\ j \in [Handlers -> Nat] /\ i[h] \in Nat
      BY <2>1 DEF HandlerTypes
    <3> QED
      BY <3>1, <3>2
  <2> QED
    BY <1>3, <2>1, <2>2, <2>3 DEF HandlerTypes
<1>5. Alone(h)
  <2>1. \A g \in Handlers \ {h} : pc'[g] = pc[g] /\ j'[g] = j[g] /\ i'[g] = i[g]
    BY <1>4 DEF Outer, Goto, HandlerTypes
  <2> QED
    BY <1>3, <2>1, ReadingAlone
<1>6. /\ t' = t /\ o' = o /\ rank' = rank /\ Length(h)' = Length(h) /\ Len(arrays') = Len(arrays)
      /\ Truncate(h)' = Truncate(h)
  BY <1>3 DEF cache, Length, Truncate
<1>7. i[h] \in 1..Len(t) /\ videos[h] = <<>>
  BY <1>1, <1>2 DEF Placed, Steps
<1>8. held[h] \notin contended =>
        Permuted(t, o) /\ ToSet(o) \subseteq rankMap[h] /\ Sorted(t, rank, i[h])
  BY <1>1, <1>2 DEF Sorting
<1>9. CASE i[h] < Len(t)
  <2>1. /\ pc'[h] = "left" /\ i'[h] = i[h] /\ j'[h] = i[h] /\ videos'[h] = <<>>
        /\ held'[h] = held[h] /\ rankMap'[h] = rankMap[h]
    BY <1>1, <1>2, <1>3, <1>4, <1>7, <1>9 DEF Outer, HandlerTypes, Goto
  <2>2. Placed(h)'
    BY <1>2, <1>6, <1>7, <1>9, <2>1 DEF Placed
  <2>3. Progress(h)'
    <3> SUFFICES ASSUME held[h] \notin contended PROVE Sorting(h, t, o, rank)'
      BY <1>3 DEF Progress, cache
    <3> HIDE DEF t, o, rank
    <3>1. SortedBut(t, rank, i[h] + 1, i[h] + 1)
      BY <1>2, <1>7, <1>8 DEF Sorted, SortedBut
    <3> QED
      BY <1>6, <1>8, <2>1, <3>1 DEF Sorting
  <2> QED
    BY <1>1, <1>4, <1>5, <2>1, <2>2, <2>3, AloneStep DEF Answered, Steps
<1>10. CASE i[h] = Len(t)
  <2>1. /\ pc'[h] = "marshal" /\ i'[h] = 0 /\ videos'[h] = <<>> /\ held'[h] = held[h]
        /\ rankMap'[h] = rankMap[h]
    BY <1>1, <1>2, <1>3, <1>4, <1>7, <1>10 DEF Outer, HandlerTypes, Goto
  <2>2. 0 <= Truncate(h)
    BY <1>2 DEF Truncate
  <2>3. Placed(h)'
    BY <1>2, <1>6, <2>1, <2>2 DEF Placed
  <2>4. Progress(h)'
    <3> SUFFICES ASSUME held[h] \notin contended PROVE Sorting(h, t, o, rank)'
      BY <1>3 DEF Progress, cache
    <3> HIDE DEF t, o, rank
    <3>1. Len(videos'[h]) = 0 /\ \A m \in 1..0 : videos'[h][m] = t[m]
      BY <2>1
    <3> QED
      BY <1>6, <1>8, <1>10, <2>1, <3>1 DEF Sorting
  <2> QED
    BY <1>1, <1>4, <1>5, <2>1, <2>3, <2>4, AloneStep DEF Answered, Steps
<1> QED
  BY <1>2, <1>7, <1>9, <1>10

\* The inner loop looks at the element it moves, or has it in front.
LEMMA SortingLeft == ASSUME SortingInv, NEW h \in Handlers, Left(h) PROVE SortingInv'
<1> DEFINE t == arrays[held[h]]
           o == original[held[h]]
           rank == Score[user[h]]
<1>1. pc[h] = "left" /\ pc[h] \in Steps
  BY DEF Left, Steps
<1>2. /\ held[h] \in 1..Len(arrays) /\ t \in Seq(Cached) /\ o \in Seq(Cached)
      /\ Len(t) \in Nat \ {0} /\ i[h] \in Nat /\ j[h] \in Nat /\ Length(h) = Len(t) /\ Placed(h)
      /\ held[h] \notin contended => Sorting(h, t, o, rank)
  BY <1>1, AtWork
<1>3. UNCHANGED <<cache, user, limit, held, rankMap, j, b, videos>>
  BY DEF Left
<1>4. i[h] \in 1..Len(t) - 1 /\ j[h] \in 0..i[h] /\ videos[h] = <<>>
  BY <1>1, <1>2 DEF Placed, Steps
<1>5. Element(h, j[h]) = t[j[h] + 1] /\ t[j[h] + 1] \in Cached
  BY <1>2, <1>4 DEF Element
<1>6. HandlerTypes /\ HandlerTypes'
  <2>1. HandlerTypes
    BY DEF SortingInv
  <2>2. pc' \in [Handlers -> Steps \cup {"idle", "done"}]
    BY <2>1 DEF HandlerTypes, Left, Goto, Steps
  <2>3. i' \in [Handlers -> Nat]
    <3>1. i' = i \/ i' = [i EXCEPT ![h] = i[h] + 1]
      BY DEF Left
    <3>2. i \in [Handlers -> Nat] /\ i[h] + 1 \in Nat
      BY <2>1 DEF HandlerTypes
    <3> QED
      BY <3>1, <3>2
  <2>4. a' \in [Handlers -> Cached \cup {NoVideo}]
    BY <1>5, <2>1 DEF HandlerTypes, Left
  <2> QED
    BY <1>3, <2>1, <2>2, <2>3, <2>4 DEF HandlerTypes
<1>7. Alone(h)
  <2>1. \A g \in Handlers \ {h} : pc'[g] = pc[g] /\ a'[g] = a[g] /\ i'[g] = i[g]
    BY <1>6 DEF Left, Goto, HandlerTypes
  <2> QED
    BY <1>3, <2>1, ReadingAlone
<1>8. t' = t /\ o' = o /\ rank' = rank /\ Length(h)' = Length(h) /\ Len(arrays') = Len(arrays)
  BY <1>3 DEF cache, Length
<1>9. held[h] \notin contended =>
        /\ Permuted(t, o) /\ ToSet(o) \subseteq rankMap[h]
        /\ SortedBut(t, rank, i[h] + 1, j[h] + 1)
  BY <1>1, <1>2 DEF Sorting
<1>10. CASE j[h] > 0
  <2>1. /\ pc'[h] = "right" /\ i'[h] = i[h] /\ j'[h] = j[h] /\ videos'[h] = <<>>
        /\ held'[h] = held[h] /\ rankMap'[h] = rankMap[h] /\ a'[h] = t[j[h] + 1]
    BY <1>1, <1>2, <1>3, <1>4, <1>5, <1>6, <1>10 DEF Left, HandlerTypes, Goto
  <2>2. Placed(h)'
    BY <1>2, <1>4, <1>5, <1>8, <1>10, <2>1 DEF Placed
  <2>3. Progress(h)'
    <3> SUFFICES ASSUME held[h] \notin contended PROVE Sorting(h, t, o, rank)'
      BY <1>3 DEF Progress, cache
    <3> HIDE DEF t, o, rank
    <3> QED
      BY <1>8, <1>9, <2>1 DEF Sorting
  <2> QED
    BY <1>1, <1>6, <1>7, <2>1, <2>2, <2>3, AloneStep DEF Answered, Steps
<1>11. CASE j[h] = 0
  <2>1. /\ pc'[h] = "outer" /\ i'[h] = i[h] + 1 /\ videos'[h] = <<>>
        /\ held'[h] = held[h] /\ rankMap'[h] = rankMap[h]
    BY <1>1, <1>2, <1>3, <1>4, <1>6, <1>11 DEF Left, HandlerTypes, Goto
  <2>2. Placed(h)'
    BY <1>2, <1>4, <1>8, <2>1 DEF Placed
  <2>3. Progress(h)'
    <3> SUFFICES ASSUME held[h] \notin contended PROVE Sorting(h, t, o, rank)'
      BY <1>3 DEF Progress, cache
    <3> HIDE DEF t, o, rank
    <3>1. SortedBut(t, rank, i[h] + 1, 1)
      BY <1>9, <1>11
    <3>2. Sorted(t, rank, i[h] + 1)
      BY <1>2, <3>1 DEF Sorted, SortedBut
    <3> QED
      BY <1>8, <1>9, <2>1, <3>2 DEF Sorting
  <2> QED
    BY <1>1, <1>6, <1>7, <2>1, <2>2, <2>3, AloneStep DEF Answered, Steps
<1> QED
  BY <1>2, <1>10, <1>11

\* The comparison with the left neighbour: a swap, or the element is in place.
LEMMA SortingRight == ASSUME SortingInv, NEW h \in Handlers, Right(h) PROVE SortingInv'
<1> DEFINE t == arrays[held[h]]
           o == original[held[h]]
           rank == Score[user[h]]
<1>1. pc[h] = "right" /\ pc[h] \in Steps
  BY DEF Right, Steps
<1>2. /\ held[h] \in 1..Len(arrays) /\ t \in Seq(Cached) /\ o \in Seq(Cached)
      /\ Len(t) \in Nat \ {0} /\ i[h] \in Nat /\ j[h] \in Nat /\ Length(h) = Len(t) /\ Placed(h)
      /\ rank \in [Cached -> Nat]
      /\ held[h] \notin contended => Sorting(h, t, o, rank)
  BY <1>1, AtWork
<1>3. UNCHANGED <<cache, user, limit, held, rankMap, j, videos>>
  BY DEF Right
<1>4. i[h] \in 1..Len(t) - 1 /\ j[h] \in 1..i[h] /\ videos[h] = <<>>
  BY <1>1, <1>2 DEF Placed, Steps
<1>5. Element(h, j[h] - 1) = t[j[h]]
  <2>1. (j[h] - 1) + 1 = j[h]
    BY <1>2
  <2> QED
    BY <2>1 DEF Element
<1>6. HandlerTypes /\ HandlerTypes'
  <2>1. HandlerTypes
    BY DEF SortingInv
  <2>2. pc' \in [Handlers -> Steps \cup {"idle", "done"}]
    BY <2>1 DEF HandlerTypes, Right, Goto, Steps
  <2>3. i' \in [Handlers -> Nat]
    <3>1. i' = i \/ i' = [i EXCEPT ![h] = i[h] + 1]
      BY DEF Right
    <3>2. i \in [Handlers -> Nat] /\ i[h] + 1 \in Nat
      BY <2>1 DEF HandlerTypes
    <3> QED
      BY <3>1, <3>2
  <2>4. a' \in [Handlers -> Cached \cup {NoVideo}] /\ b' \in [Handlers -> Cached \cup {NoVideo}]
    BY <2>1 DEF HandlerTypes, Right, Forget
  <2> QED
    BY <1>3, <2>1, <2>2, <2>3, <2>4 DEF HandlerTypes
<1>7. Alone(h)
  <2>1. \A g \in Handlers \ {h} : pc'[g] = pc[g] /\ a'[g] = a[g] /\ b'[g] = b[g] /\ i'[g] = i[g]
    BY <1>6 DEF Right, Forget, Goto, HandlerTypes
  <2> QED
    BY <1>3, <2>1, ReadingAlone
<1>8. t' = t /\ o' = o /\ rank' = rank /\ Length(h)' = Length(h) /\ Len(arrays') = Len(arrays)
  BY <1>3 DEF cache, Length
<1>9. held[h] \notin contended =>
        /\ Permuted(t, o) /\ ToSet(o) \subseteq rankMap[h]
        /\ SortedBut(t, rank, i[h] + 1, j[h] + 1) /\ a[h] = t[j[h] + 1]
  BY <1>1, <1>2 DEF Sorting
<1>10. t[j[h]] \in Cached /\ t[j[h] + 1] \in Cached
  <2>1. j[h] \in 1..Len(t) /\ j[h] + 1 \in 1..Len(t)
    BY <1>2, <1>4
  <2> QED
    BY <1>2, <2>1
<1>11. held[h] \notin contended =>
         (Before(h, a[h], Element(h, j[h] - 1)) <=> rank[t[j[h] + 1]] > rank[t[j[h]]])
  <2> SUFFICES ASSUME held[h] \notin contended
               PROVE  Before(h, t[j[h] + 1], t[j[h]]) <=> rank[t[j[h] + 1]] > rank[t[j[h]]]
    BY <1>5, <1>9
  <2>1. DOMAIN t = 1..Len(t) /\ j[h] \in 1..Len(t) /\ j[h] + 1 \in 1..Len(t)
    BY <1>2, <1>4
  <2>2. t[j[h]] \in ToSet(t) /\ t[j[h] + 1] \in ToSet(t)
    BY <2>1 DEF ToSet
  <2>3. t[j[h]] \in rankMap[h] /\ t[j[h] + 1] \in rankMap[h]
    BY <1>9, <2>2 DEF Permuted
  <2> QED
    BY <2>3 DEF Before, RankOf
<1>12. CASE Before(h, a[h], Element(h, j[h] - 1))
  <2>1. /\ pc'[h] = "load1" /\ i'[h] = i[h] /\ j'[h] = j[h] /\ videos'[h] = <<>>
        /\ held'[h] = held[h] /\ rankMap'[h] = rankMap[h]
    BY <1>1, <1>3, <1>4, <1>6, <1>12 DEF Right, HandlerTypes, Goto
  <2>2. Placed(h)'
    BY <1>2, <1>4, <1>8, <2>1 DEF Placed
  <2>3. Progress(h)'
    <3> SUFFICES ASSUME held[h] \notin contended PROVE Sorting(h, t, o, rank)'
      BY <1>3 DEF Progress, cache
    <3>1. rank[t[j[h]]] \in Nat /\ rank[t[j[h] + 1]] \in Nat
      BY <1>2, <1>10
    <3> HIDE DEF t, o, rank
    <3>2. rank[t[j[h] + 1]] >= rank[t[j[h]]]
      BY <1>11, <1>12, <3>1
    <3> QED
      BY <1>8, <1>9, <2>1, <3>2 DEF Sorting
  <2> QED
    BY <1>1, <1>6, <1>7, <2>1, <2>2, <2>3, AloneStep DEF Answered, Steps
<1>13. CASE ~Before(h, a[h], Element(h, j[h] - 1))
  <2>1. /\ pc'[h] = "outer" /\ i'[h] = i[h] + 1 /\ videos'[h] = <<>>
        /\ held'[h] = held[h] /\ rankMap'[h] = rankMap[h]
    BY <1>1, <1>3, <1>4, <1>6, <1>13 DEF Right, HandlerTypes, Goto
  <2>2. Placed(h)'
    BY <1>2, <1>4, <1>8, <2>1 DEF Placed
  <2>3. Progress(h)'
    <3> SUFFICES ASSUME held[h] \notin contended PROVE Sorting(h, t, o, rank)'
      BY <1>3 DEF Progress, cache
    <3>1. rank[t[j[h]]] \in Nat /\ rank[t[j[h] + 1]] \in Nat
      BY <1>2, <1>10
    <3> HIDE DEF t, o, rank
    <3>2. rank[t[j[h]]] >= rank[t[j[h] + 1]]
      BY <1>11, <1>13, <3>1
    <3>3. i[h] + 1 \in 0..Len(t) /\ j[h] \in 1..(i[h] + 1) - 1
      <4>1. Len(t) \in Nat /\ i[h] \in Nat /\ j[h] \in Nat
        BY <1>2
      <4> QED
        BY <1>4, <4>1
    <3>4. Sorted(t, rank, i[h] + 1)
      BY <1>2, <1>9, <3>2, <3>3, InsertionOver
    <3> QED
      BY <1>8, <1>9, <2>1, <3>4 DEF Sorting
  <2> QED
    BY <1>1, <1>6, <1>7, <2>1, <2>2, <2>3, AloneStep DEF Answered, Steps
<1> QED
  BY <1>12, <1>13

\* The swap loads the left element.
LEMMA SortingLoad1 == ASSUME SortingInv, NEW h \in Handlers, Load1(h) PROVE SortingInv'
<1> DEFINE t == arrays[held[h]]
           o == original[held[h]]
           rank == Score[user[h]]
<1>1. pc[h] = "load1" /\ pc[h] \in Steps
  BY DEF Load1, Steps
<1>2. /\ held[h] \in 1..Len(arrays) /\ t \in Seq(Cached)
      /\ Len(t) \in Nat \ {0} /\ i[h] \in Nat /\ j[h] \in Nat /\ Length(h) = Len(t) /\ Placed(h)
      /\ held[h] \notin contended => Sorting(h, t, o, rank)
  BY <1>1, AtWork
<1>3. UNCHANGED <<cache, user, limit, held, rankMap, i, j, b, videos>>
  BY DEF Load1
<1>4. i[h] \in 1..Len(t) - 1 /\ j[h] \in 1..i[h] /\ videos[h] = <<>>
  BY <1>1, <1>2 DEF Placed, Steps
<1>5. Element(h, j[h] - 1) = t[j[h]] /\ t[j[h]] \in Cached
  <2>1. (j[h] - 1) + 1 = j[h] /\ j[h] \in 1..Len(t)
    BY <1>2, <1>4
  <2> QED
    BY <1>2, <2>1 DEF Element
<1>6. HandlerTypes /\ HandlerTypes'
  <2>1. HandlerTypes
    BY DEF SortingInv
  <2>2. pc' \in [Handlers -> Steps \cup {"idle", "done"}]
    BY <2>1 DEF HandlerTypes, Load1, Goto, Steps
  <2>3. a' \in [Handlers -> Cached \cup {NoVideo}]
    BY <1>5, <2>1 DEF HandlerTypes, Load1
  <2> QED
    BY <1>3, <2>1, <2>2, <2>3 DEF HandlerTypes
<1>7. Alone(h)
  <2>1. \A g \in Handlers \ {h} : pc'[g] = pc[g] /\ a'[g] = a[g]
    BY <1>6 DEF Load1, Goto, HandlerTypes
  <2> QED
    BY <1>3, <2>1, ReadingAlone
<1>8. t' = t /\ o' = o /\ rank' = rank /\ Length(h)' = Length(h) /\ Len(arrays') = Len(arrays)
  BY <1>3 DEF cache, Length
<1>9. /\ pc'[h] = "load2" /\ i'[h] = i[h] /\ j'[h] = j[h] /\ videos'[h] = <<>>
      /\ held'[h] = held[h] /\ rankMap'[h] = rankMap[h] /\ a'[h] = t[j[h]]
  BY <1>1, <1>3, <1>4, <1>5, <1>6 DEF Load1, HandlerTypes, Goto
<1>10. Placed(h)'
  BY <1>2, <1>4, <1>5, <1>8, <1>9 DEF Placed
<1>11. Progress(h)'
  <2> SUFFICES ASSUME held[h] \notin contended PROVE Sorting(h, t, o, rank)'
    BY <1>3 DEF Progress, cache
  <2> HIDE DEF t, o, rank
  <2>1. /\ Permuted(t, o) /\ ToSet(o) \subseteq rankMap[h]
        /\ SortedBut(t, rank, i[h] + 1, j[h] + 1) /\ rank[t[j[h] + 1]] >= rank[t[j[h]]]
    BY <1>1, <1>2 DEF Sorting
  <2> QED
    BY <1>8, <1>9, <2>1 DEF Sorting
<1> QED
  BY <1>1, <1>6, <1>7, <1>9, <1>10, <1>11, AloneStep DEF Answered, Steps

\* The swap loads the right element.
LEMMA SortingLoad2 == ASSUME SortingInv, NEW h \in Handlers, Load2(h) PROVE SortingInv'
<1> DEFINE t == arrays[held[h]]
           o == original[held[h]]
           rank == Score[user[h]]
<1>1. pc[h] = "load2" /\ pc[h] \in Steps
  BY DEF Load2, Steps
<1>2. /\ held[h] \in 1..Len(arrays) /\ t \in Seq(Cached)
      /\ Len(t) \in Nat \ {0} /\ i[h] \in Nat /\ j[h] \in Nat /\ Length(h) = Len(t) /\ Placed(h)
      /\ held[h] \notin contended => Sorting(h, t, o, rank)
  BY <1>1, AtWork
<1>3. UNCHANGED <<cache, user, limit, held, rankMap, i, j, a, videos>>
  BY DEF Load2
<1>4. i[h] \in 1..Len(t) - 1 /\ j[h] \in 1..i[h] /\ videos[h] = <<>> /\ a[h] \in Cached
  BY <1>1, <1>2 DEF Placed, Steps
<1>5. Element(h, j[h]) = t[j[h] + 1] /\ t[j[h] + 1] \in Cached
  <2>1. j[h] + 1 \in 1..Len(t)
    BY <1>2, <1>4
  <2> QED
    BY <1>2, <2>1 DEF Element
<1>6. HandlerTypes /\ HandlerTypes'
  <2>1. HandlerTypes
    BY DEF SortingInv
  <2>2. pc' \in [Handlers -> Steps \cup {"idle", "done"}]
    BY <2>1 DEF HandlerTypes, Load2, Goto, Steps
  <2>3. b' \in [Handlers -> Cached \cup {NoVideo}]
    BY <1>5, <2>1 DEF HandlerTypes, Load2
  <2> QED
    BY <1>3, <2>1, <2>2, <2>3 DEF HandlerTypes
<1>7. Alone(h)
  <2>1. \A g \in Handlers \ {h} : pc'[g] = pc[g] /\ b'[g] = b[g]
    BY <1>6 DEF Load2, Goto, HandlerTypes
  <2> QED
    BY <1>3, <2>1, ReadingAlone
<1>8. t' = t /\ o' = o /\ rank' = rank /\ Length(h)' = Length(h) /\ Len(arrays') = Len(arrays)
  BY <1>3 DEF cache, Length
<1>9. /\ pc'[h] = "store1" /\ i'[h] = i[h] /\ j'[h] = j[h] /\ videos'[h] = <<>>
      /\ held'[h] = held[h] /\ rankMap'[h] = rankMap[h] /\ a'[h] = a[h] /\ b'[h] = t[j[h] + 1]
  BY <1>1, <1>3, <1>4, <1>5, <1>6 DEF Load2, HandlerTypes, Goto
<1>10. Placed(h)'
  BY <1>2, <1>4, <1>5, <1>8, <1>9 DEF Placed
<1>11. Progress(h)'
  <2> SUFFICES ASSUME held[h] \notin contended PROVE Sorting(h, t, o, rank)'
    BY <1>3 DEF Progress, cache
  <2> HIDE DEF t, o, rank
  <2>1. /\ Permuted(t, o) /\ ToSet(o) \subseteq rankMap[h] /\ a[h] = t[j[h]]
        /\ SortedBut(t, rank, i[h] + 1, j[h] + 1) /\ rank[t[j[h] + 1]] >= rank[t[j[h]]]
    BY <1>1, <1>2 DEF Sorting
  <2> QED
    BY <1>8, <1>9, <2>1 DEF Sorting
<1> QED
  BY <1>1, <1>6, <1>7, <1>9, <1>10, <1>11, AloneStep DEF Answered, Steps

\* A store changes one element of the array of the handler.
LEMMA StoreWrites ==
  ASSUME SortingInv, NEW h \in Handlers, pc[h] \in Steps, NEW n \in Nat, NEW v \in Cached,
         n < Len(arrays[held[h]]), Store(h, n, v)
  PROVE  /\ arrays' \in Seq(Seq(Cached)) /\ Len(arrays') = Len(arrays)
         /\ arrays'[held[h]] = [arrays[held[h]] EXCEPT ![n + 1] = v]
         /\ \A k \in 1..Len(arrays) : /\ Len(arrays'[k]) = Len(arrays[k])
                                      /\ k # held[h] => arrays'[k] = arrays[k]
<1> DEFINE k0 == held[h]
           t == arrays[k0]
           u == [t EXCEPT ![n + 1] = v]
<1>1. k0 \in 1..Len(arrays) /\ Len(arrays) \in Nat /\ t \in Seq(Cached) /\ Len(t) \in Nat
  BY AtWork
<1>2. arrays \in Seq(Seq(Cached))
  BY DEF SortingInv, ArrayTypes
<1>3. arrays' = [arrays EXCEPT ![k0] = u]
  BY DEF Store
<1>4. n + 1 \in 1..Len(t)
  BY <1>1
<1> HIDE DEF t, k0
<1>5. u \in Seq(Cached) /\ Len(u) = Len(t)
  BY <1>1, <1>4
<1> HIDE DEF u
<1>6. arrays' \in Seq(Seq(Cached)) /\ Len(arrays') = Len(arrays)
  BY <1>1, <1>2, <1>3, <1>5
<1>7. \A k \in 1..Len(arrays) : arrays'[k] = IF k = k0 THEN u ELSE arrays[k]
  BY <1>1, <1>2, <1>3
<1> QED
  BY <1>1, <1>5, <1>6, <1>7 DEF k0, t, u

\* The first store of the swap leaves the left element twice.
LEMMA SortingStore1 == ASSUME SortingInv, NEW h \in Handlers, Store1(h) PROVE SortingInv'
<1> DEFINE t == arrays[held[h]]
           o == original[held[h]]
           rank == Score[user[h]]
           u == [t EXCEPT ![j[h] + 1] = a[h]]
<1>1. pc[h] = "store1" /\ pc[h] \in Steps
  BY DEF Store1, Steps
<1>2. /\ held[h] \in 1..Len(arrays) /\ t \in Seq(Cached) /\ rank \in [Cached -> Nat]
      /\ Len(t) \in Nat \ {0} /\ i[h] \in Nat /\ j[h] \in Nat /\ Length(h) = Len(t) /\ Placed(h)
      /\ held[h] \notin contended => Sorting(h, t, o, rank)
  BY <1>1, AtWork
<1>3. UNCHANGED <<original, contended, topVideos, user, limit, held, rankMap, i, j, a, b, videos>>
  BY DEF Store1
<1>4. /\ i[h] \in 1..Len(t) - 1 /\ j[h] \in 1..i[h] /\ videos[h] = <<>>
      /\ a[h] \in Cached /\ b[h] \in Cached
  BY <1>1, <1>2 DEF Placed, Steps
<1>5. HandlerTypes /\ HandlerTypes'
  <2>1. HandlerTypes
    BY DEF SortingInv
  <2>2. pc' \in [Handlers -> Steps \cup {"idle", "done"}]
    BY <2>1 DEF HandlerTypes, Store1, Goto, Steps
  <2> QED
    BY <1>3, <2>1, <2>2 DEF HandlerTypes
<1>6. /\ arrays' \in Seq(Seq(Cached)) /\ Len(arrays') = Len(arrays)
      /\ arrays'[held[h]] = u
      /\ \A k \in 1..Len(arrays) : /\ Len(arrays'[k]) = Len(arrays[k])
                                   /\ k # held[h] => arrays'[k] = arrays[k]
  <2>1. Store(h, j[h], a[h])
    BY DEF Store1
  <2>2. j[h] < Len(t)
    BY <1>2, <1>4
  <2> QED
    BY <1>1, <1>2, <1>4, <2>1, <2>2, StoreWrites
<1>7. Alone(h)
  <2>1. \A g \in Handlers \ {h} : pc'[g] = pc[g]
    BY <1>5 DEF Store1, Goto, HandlerTypes
  <2> QED
    BY <1>3, <1>6, <2>1 DEF Alone, Same
<1>8. /\ t' = u /\ o' = o /\ rank' = rank /\ Length(h)' = Length(h) /\ Len(arrays') = Len(arrays)
  BY <1>2, <1>3, <1>6 DEF Length
<1>9. /\ pc'[h] = "store2" /\ i'[h] = i[h] /\ j'[h] = j[h] /\ videos'[h] = <<>>
      /\ held'[h] = held[h] /\ rankMap'[h] = rankMap[h] /\ a'[h] = a[h] /\ b'[h] = b[h]
  BY <1>1, <1>3, <1>4, <1>5 DEF Store1, HandlerTypes, Goto
<1>10. Placed(h)'
  BY <1>2, <1>4, <1>8, <1>9 DEF Placed
<1>11. Progress(h)'
  <2> SUFFICES ASSUME held[h] \notin contended PROVE Sorting(h, t, o, rank)'
    BY <1>3 DEF Progress
  <2>1. /\ Permuted(t, o) /\ ToSet(o) \subseteq rankMap[h]
        /\ a[h] = t[j[h]] /\ b[h] = t[j[h] + 1]
        /\ SortedBut(t, rank, i[h] + 1, j[h] + 1) /\ rank[t[j[h] + 1]] >= rank[t[j[h]]]
    BY <1>1, <1>2 DEF Sorting
  <2>2. [u EXCEPT ![j[h]] = b[h]] = [[t EXCEPT ![j[h] + 1] = t[j[h]]] EXCEPT ![j[h]] = t[j[h] + 1]]
    BY <2>1
  <2>3. i[h] + 1 \in 0..Len(t) /\ j[h] \in 1..(i[h] + 1) - 1 /\ j[h] \in 1..Len(t) - 1
    <3>1. Len(t) \in Nat /\ i[h] \in Nat /\ j[h] \in Nat
      BY <1>2
    <3> HIDE DEF t
    <3> QED
      BY <1>4, <3>1
  <2> HIDE DEF t, o, rank, u
  <2>4. Permuted([u EXCEPT ![j[h]] = b[h]], o)
    BY <1>2, <2>1, <2>2, <2>3, SwapPermuted
  <2>5. SortedBut([u EXCEPT ![j[h]] = b[h]], rank, i[h] + 1, j[h])
    BY <1>2, <2>1, <2>2, <2>3, SwapSorted
  <2> QED
    BY <1>8, <1>9, <2>1, <2>4, <2>5 DEF Sorting
<1> QED
  BY <1>1, <1>5, <1>7, <1>9, <1>10, <1>11, AloneStep DEF Answered, Steps

\* The second store completes the swap.
LEMMA SortingStore2 == ASSUME SortingInv, NEW h \in Handlers, Store2(h) PROVE SortingInv'
<1> DEFINE t == arrays[held[h]]
           o == original[held[h]]
           rank == Score[user[h]]
           u == [t EXCEPT ![j[h]] = b[h]]
<1>1. pc[h] = "store2" /\ pc[h] \in Steps
  BY DEF Store2, Steps
<1>2. /\ held[h] \in 1..Len(arrays) /\ t \in Seq(Cached)
      /\ Len(t) \in Nat \ {0} /\ i[h] \in Nat /\ j[h] \in Nat /\ Length(h) = Len(t) /\ Placed(h)
      /\ held[h] \notin contended => Sorting(h, t, o, rank)
  BY <1>1, AtWork
<1>3. UNCHANGED <<original, contended, topVideos, user, limit, held, rankMap, i, videos>>
  BY DEF Store2
<1>4. /\ i[h] \in 1..Len(t) - 1 /\ j[h] \in 1..i[h] /\ videos[h] = <<>> /\ b[h] \in Cached
      /\ j[h] - 1 \in Nat /\ (j[h] - 1) + 1 = j[h] /\ j[h] - 1 < Len(t) /\ j[h] - 1 \in 0..i[h]
  <2>1. i[h] \in 1..Len(t) - 1 /\ j[h] \in 1..i[h] /\ videos[h] = <<>> /\ b[h] \in Cached
    BY <1>1, <1>2 DEF Placed, Steps
  <2>2. Len(t) \in Nat /\ i[h] \in Nat /\ j[h] \in Nat
    BY <1>2
  <2> HIDE DEF t
  <2> QED
    BY <2>1, <2>2
<1>5. HandlerTypes /\ HandlerTypes'
  <2>1. HandlerTypes
    BY DEF SortingInv
  <2>2. pc' \in [Handlers -> Steps \cup {"idle", "done"}]
    BY <2>1 DEF HandlerTypes, Store2, Goto, Steps
  <2>3. j' \in [Handlers -> Nat]
    BY <1>4, <2>1 DEF HandlerTypes, Store2
  <2>4. a' \in [Handlers -> Cached \cup {NoVideo}] /\ b' \in [Handlers -> Cached \cup {NoVideo}]
    BY <2>1 DEF HandlerTypes, Store2, Forget
  <2> QED
    BY <1>3, <2>1, <2>2, <2>3, <2>4 DEF HandlerTypes
<1>6. /\ arrays' \in Seq(Seq(Cached)) /\ Len(arrays') = Len(arrays)
      /\ arrays'[held[h]] = u
      /\ \A k \in 1..Len(arrays) : /\ Len(arrays'[k]) = Len(arrays[k])
                                   /\ k # held[h] => arrays'[k] = arrays[k]
  <2>1. Store(h, j[h] - 1, b[h])
    BY DEF Store2
  <2>2. arrays'[held[h]] = [t EXCEPT ![(j[h] - 1) + 1] = b[h]]
    BY <1>1, <1>4, <2>1, StoreWrites
  <2> QED
    BY <1>1, <1>4, <2>1, <2>2, StoreWrites
<1>7. Alone(h)
  <2>1. \A g \in Handlers \ {h} : pc'[g] = pc[g] /\ j'[g] = j[g] /\ a'[g] = a[g] /\ b'[g] = b[g]
    BY <1>5 DEF Store2, Goto, Forget, HandlerTypes
  <2> QED
    BY <1>3, <1>6, <2>1 DEF Alone, Same
<1>8. /\ t' = u /\ o' = o /\ rank' = rank /\ Length(h)' = Length(h) /\ Len(arrays') = Len(arrays)
  BY <1>2, <1>3, <1>6 DEF Length
<1>9. /\ pc'[h] = "left" /\ i'[h] = i[h] /\ j'[h] = j[h] - 1 /\ videos'[h] = <<>>
      /\ held'[h] = held[h] /\ rankMap'[h] = rankMap[h]
  BY <1>1, <1>3, <1>4, <1>5 DEF Store2, HandlerTypes, Goto
<1>10. Placed(h)'
  BY <1>2, <1>4, <1>8, <1>9 DEF Placed
<1>11. Progress(h)'
  <2> SUFFICES ASSUME held[h] \notin contended PROVE Sorting(h, t, o, rank)'
    BY <1>3 DEF Progress
  <2>1. /\ Permuted(u, o) /\ ToSet(o) \subseteq rankMap[h]
        /\ SortedBut(u, rank, i[h] + 1, j[h])
    BY <1>1, <1>2 DEF Sorting
  <2> HIDE DEF t, o, rank, u
  <2>2. SortedBut(u, rank, i[h] + 1, (j[h] - 1) + 1)
    BY <1>4, <2>1
  <2> QED
    BY <1>8, <1>9, <2>1, <2>2 DEF Sorting
<1> QED
  BY <1>1, <1>5, <1>7, <1>9, <1>10, <1>11, AloneStep DEF Answered, Steps

\* gRPC marshals the elements up to the limit: the response is complete then.
LEMMA SortingMarshal == ASSUME SortingInv, NEW h \in Handlers, Marshal(h) PROVE SortingInv'
<1> DEFINE t == arrays[held[h]]
           o == original[held[h]]
           rank == Score[user[h]]
<1>1. pc[h] = "marshal" /\ pc[h] \in Steps
  BY DEF Marshal, Steps
<1>2. /\ held[h] \in 1..Len(arrays) /\ t \in Seq(Cached) /\ o \in Seq(Cached) /\ IsInjective(o)
      /\ Len(t) \in Nat \ {0} /\ Len(o) = Len(t) /\ i[h] \in Nat /\ limit[h] \in Nat
      /\ Length(h) = Len(t) /\ Placed(h) /\ rank \in [Cached -> Nat]
      /\ held[h] \notin contended => Sorting(h, t, o, rank)
  BY <1>1, AtWork
<1>3. UNCHANGED <<cache, user, limit, held, rankMap, j, a, b>>
  BY DEF Marshal
<1>4. /\ i[h] <= Truncate(h) /\ Truncate(h) \in Nat /\ Truncate(h) <= Len(t)
      /\ Truncate(h) = IF limit[h] # 0 /\ limit[h] < Len(t) THEN limit[h] ELSE Len(t)
  BY <1>1, <1>2 DEF Placed, Truncate
<1>5. HandlerTypes
  BY DEF SortingInv
<1>6. videos[h] \in Seq(Cached)
  BY <1>5 DEF HandlerTypes
<1>7. /\ t' = t /\ o' = o /\ rank' = rank /\ Length(h)' = Length(h) /\ Len(arrays') = Len(arrays)
      /\ Truncate(h)' = Truncate(h) /\ limit' = limit /\ held' = held /\ contended' = contended
  BY <1>3 DEF cache, Length, Truncate
<1>8. held[h] \notin contended =>
        /\ Permuted(t, o) /\ ToSet(o) \subseteq rankMap[h] /\ Sorted(t, rank, Len(t))
        /\ Len(videos[h]) = i[h] /\ \A m \in 1..i[h] : videos[h][m] = t[m]
  BY <1>1, <1>2 DEF Sorting
<1>9. CASE i[h] < Truncate(h)
  <2>1. /\ Element(h, i[h]) = t[i[h] + 1] /\ t[i[h] + 1] \in Cached
    <3>1. i[h] + 1 \in 1..Len(t)
      BY <1>2, <1>4, <1>9
    <3> QED
      BY <1>2, <3>1 DEF Element
  <2>2. /\ pc' = pc /\ i' = [i EXCEPT ![h] = i[h] + 1]
        /\ videos' = [videos EXCEPT ![h] = Append(videos[h], t[i[h] + 1])]
    <3>1. i[h] # Truncate(h)
      BY <1>2, <1>4, <1>9
    <3> QED
      BY <2>1, <3>1 DEF Marshal
  <2>3. Append(videos[h], t[i[h] + 1]) \in Seq(Cached)
    BY <1>6, <2>1
  <2>4. HandlerTypes'
    <3>1. i' \in [Handlers -> Nat] /\ videos' \in [Handlers -> Seq(Cached)]
      BY <1>2, <1>5, <2>2, <2>3 DEF HandlerTypes
    <3> QED
      BY <1>3, <1>5, <2>2, <3>1 DEF HandlerTypes
  <2>5. Alone(h)
    <3>1. \A g \in Handlers \ {h} : pc'[g] = pc[g] /\ i'[g] = i[g] /\ videos'[g] = videos[g]
      BY <1>5, <2>2 DEF HandlerTypes
    <3> QED
      BY <1>3, <3>1, ReadingAlone
  <2>6. /\ pc'[h] = "marshal" /\ i'[h] = i[h] + 1 /\ held'[h] = held[h]
        /\ videos'[h] = Append(videos[h], t[i[h] + 1]) /\ rankMap'[h] = rankMap[h]
    BY <1>1, <1>3, <1>5, <2>2 DEF HandlerTypes
  <2>7. Placed(h)'
    BY <1>2, <1>4, <1>7, <1>9, <2>6 DEF Placed, Steps
  <2>8. Progress(h)'
    <3> SUFFICES ASSUME held[h] \notin contended PROVE Sorting(h, t, o, rank)'
      BY <1>7 DEF Progress
    <3> HIDE DEF t, o, rank
    <3>1. Len(videos'[h]) = i[h] + 1 /\ \A m \in 1..i[h] + 1 : videos'[h][m] = t[m]
      <4>1. Len(videos[h]) = i[h] /\ \A m \in 1..i[h] : videos[h][m] = t[m]
        BY <1>8
      <4> QED
        <5>1. /\ Len(videos'[h]) = Len(videos[h]) + 1
              /\ videos'[h][Len(videos[h]) + 1] = t[i[h] + 1]
              /\ \A m \in 1..Len(videos[h]) : videos'[h][m] = videos[h][m]
          BY <1>6, <2>1, <2>6
        <5>2. \A m \in 1..i[h] + 1 : m \in 1..i[h] \/ m = i[h] + 1
          BY <1>2
        <5> QED
          BY <4>1, <5>1, <5>2
    <3> QED
      BY <1>7, <1>8, <2>6, <3>1 DEF Sorting
  <2> QED
    BY <1>1, <2>4, <2>5, <2>6, <2>7, <2>8, AloneStep DEF Answered, Steps
<1>10. CASE i[h] = Truncate(h)
  <2>1. pc' = [pc EXCEPT ![h] = "done"] /\ i' = i /\ videos' = videos
    <3>1. ~(i[h] < Truncate(h))
      BY <1>2, <1>4, <1>10
    <3> QED
      BY <3>1 DEF Marshal, Goto
  <2>2. HandlerTypes'
    <3>1. pc' \in [Handlers -> Steps \cup {"idle", "done"}]
      BY <1>5, <2>1 DEF HandlerTypes, Steps
    <3> QED
      BY <1>3, <1>5, <2>1, <3>1 DEF HandlerTypes
  <2>3. Alone(h)
    <3>1. \A g \in Handlers \ {h} : pc'[g] = pc[g]
      BY <1>5, <2>1 DEF HandlerTypes
    <3> QED
      BY <1>3, <2>1, <3>1, ReadingAlone
  <2>4. pc'[h] = "done"
    BY <1>5, <2>1 DEF HandlerTypes
  <2>5. Placed(h)' /\ Progress(h)'
    BY <1>2, <1>7, <2>4 DEF Placed, Progress, Steps
  <2>6. Answered(h)'
    <3> SUFFICES ASSUME held[h] \notin contended PROVE Correct(h)'
      BY <1>7 DEF Answered
    <3> DEFINE v == videos[h]
               lim == limit[h]
    <3>1. v' = v /\ lim' = lim
      BY <1>7, <2>1
    <3>2. /\ v \in Seq(Cached) /\ lim \in Nat
          /\ Len(v) = IF lim # 0 /\ lim < Len(t) THEN lim ELSE Len(t)
          /\ \A m \in 1..Len(v) : v[m] = t[m]
      BY <1>2, <1>4, <1>6, <1>8, <1>10
    <3> HIDE DEF t, o, rank, v, lim
    <3>3. Ranked(t, o, rank)
      <4>1. Permuted(t, o) /\ Sorted(t, rank, Len(t))
        BY <1>8
      <4>2. Len(t) = Len(o) /\ t \in Seq(Cached) /\ o \in Seq(Cached)
            /\ IsInjective(o) /\ rank \in [Cached -> Nat]
        BY <1>2
      <4> QED
        BY <4>1, <4>2, Zenon DEF Ranked
    <3>4. Cut(v, t, lim)
      BY <3>2 DEF Cut
    <3>5. Best(v, o, rank, lim)
      BY <3>3, <3>4, PrefixIsBest
    <3>6. Best(v', o', rank', lim')
      BY <1>7, <3>1, <3>5
    <3> QED
      BY <3>6, Zenon DEF Best, Correct, t, o, rank, v, lim
  <2>7. held[h] \notin contended => Permuted(arrays'[held[h]], original[held[h]])
    BY <1>3, <1>8 DEF cache
  <2> QED
    BY <1>1, <2>2, <2>3, <2>5, <2>6, <2>7, AloneStep
<1> QED
  BY <1>2, <1>4, <1>9, <1>10

\* A handler that loads server.topVideos finds the array as it was filled, or
\* as others fought over it.
LEMMA SortingLoad == ASSUME SortingInv, NEW h \in Handlers, Load(h) PROVE SortingInv'
<1>1. /\ pc[h] = "idle" /\ topVideos # 0
      /\ UNCHANGED <<arrays, original, topVideos, user, limit, rankMap, j, a, b, videos>>
      /\ pc' = [pc EXCEPT ![h] = "rank"] /\ held' = [held EXCEPT ![h] = topVideos]
      /\ i' = [i EXCEPT ![h] = 0]
      /\ contended' = IF \E g \in InFlight : held[g] = topVideos
                      THEN contended \cup {topVideos} ELSE contended
  BY DEF Load, Goto
<1>2. ArrayTypes /\ HandlerTypes /\ Sole
  BY DEF SortingInv
<1>3. /\ topVideos \in 1..Len(arrays) /\ Len(arrays) \in Nat /\ topVideos \in Nat
      /\ arrays[topVideos] \in Seq(Cached)
  BY <1>1, <1>2 DEF ArrayTypes
<1>4. ArrayTypes'
  BY <1>1, <1>2 DEF ArrayTypes
<1>5. HandlerTypes'
  <2>1. pc' \in [Handlers -> Steps \cup {"idle", "done"}]
    BY <1>1, <1>2 DEF HandlerTypes, Steps
  <2>2. held' \in [Handlers -> Nat] /\ i' \in [Handlers -> Nat]
    BY <1>1, <1>2, <1>3 DEF HandlerTypes
  <2> QED
    BY <1>1, <1>2, <2>1, <2>2 DEF HandlerTypes
<1>6. \A g \in Handlers \ {h} : Same(g)
  BY <1>1, <1>2 DEF HandlerTypes, Same
<1>7. pc'[h] = "rank" /\ held'[h] = topVideos /\ i'[h] = 0 /\ contended \subseteq contended'
  BY <1>1, <1>2 DEF HandlerTypes
<1>8. topVideos \notin contended' => \A g \in InFlight : held[g] # topVideos
  BY <1>1
<1>9. \A k : k # topVideos => (k \in contended' <=> k \in contended)
  BY <1>1
<1>10. ASSUME NEW g \in Handlers PROVE Placed(g)' /\ Progress(g)' /\ Answered(g)'
  <2>1. CASE g = h
    <3>1. Placed(h)
      BY DEF SortingInv
    <3>2. videos'[h] = <<>> /\ Length(h)' = Len(arrays[topVideos]) /\ Len(arrays[topVideos]) \in Nat
      BY <1>1, <1>3, <1>7, <3>1 DEF Placed, Length
    <3>3. Placed(h)'
      BY <1>1, <1>3, <1>7, <3>2 DEF Placed
    <3>4. Progress(h)'
      <4> SUFFICES ASSUME topVideos \notin contended'
                   PROVE  Sorting(h, arrays[held[h]], original[held[h]], Score[user[h]])'
        BY <1>7 DEF Progress
      <4>1. Untouched(topVideos) /\ topVideos \notin contended
        BY <1>3, <1>7 DEF SortingInv
      <4>2. Permuted(arrays[topVideos], original[topVideos])
        BY <1>8, <4>1 DEF Untouched
      <4>3. Permuted(arrays[held[h]], original[held[h]])'
        BY <1>1, <1>7, <4>2 DEF Permuted
      <4>4. \A m \in 1..i'[h] : arrays'[held'[h]][m] \in rankMap'[h]
        BY <1>7
      <4> QED
        BY <1>7, <4>3, <4>4 DEF Sorting
    <3> QED
      BY <1>7, <2>1, <3>3, <3>4 DEF Answered
  <2>2. CASE g # h
    <3>1. Same(g) /\ arrays' = arrays /\ original' = original
      BY <1>1, <1>6, <2>2
    <3>2. Placed(g) /\ Progress(g) /\ Answered(g)
      BY DEF SortingInv
    <3>3. Placed(g)'
      BY <1>3, <3>1, <3>2, PlacedFrame
    <3>4. Progress(g)'
      BY <1>7, <3>1, <3>2, ProgressFrame
    <3>5. Answered(g)'
      BY <1>7, <3>1, <3>2, AnsweredFrame
    <3> QED
      BY <3>3, <3>4, <3>5
  <2> QED
    BY <2>1, <2>2
<1>11. Sole'
  <2> SUFFICES ASSUME NEW g \in Handlers, NEW f \in Handlers, g # f, pc'[g] \in Steps,
                      pc'[f] \in Steps, held'[g] = held'[f]
               PROVE  held'[g] \in contended'
    BY DEF Sole, Steps
  <2>1. CASE g # h /\ f # h
    BY <1>2, <1>6, <1>7, <2>1 DEF Sole, Same
  <2>2. CASE g = h /\ f # h
    <3>1. f \in InFlight /\ held[f] = topVideos
      BY <1>6, <1>7, <2>2 DEF InFlight, Same
    <3> QED
      BY <1>7, <1>8, <2>2, <3>1
  <2>3. CASE f = h /\ g # h
    <3>1. g \in InFlight /\ held[g] = topVideos
      BY <1>6, <1>7, <2>3 DEF InFlight, Same
    <3> QED
      BY <1>7, <1>8, <2>3, <3>1
  <2> QED
    BY <2>1, <2>2, <2>3
<1>12. ASSUME NEW k \in 1..Len(arrays') PROVE Untouched(k)'
  <2> SUFFICES ASSUME k \notin contended', \A g \in Handlers : pc'[g] \in Steps => held'[g] # k
               PROVE  Permuted(arrays[k], original[k])
    <3>1. InFlight' = {g \in Handlers : pc'[g] \in Steps}
      BY DEF InFlight, Steps
    <3>2. arrays' = arrays /\ original' = original
      BY <1>1
    <3> QED
      BY <3>1, <3>2 DEF Untouched, Permuted
  <2>1. \A g \in InFlight : held[g] # k
    BY <1>1, <1>6 DEF InFlight, Same, Steps
  <2>2. Untouched(k) /\ k \notin contended
    BY <1>1, <1>7 DEF SortingInv
  <2> QED
    BY <2>1, <2>2 DEF Untouched
<1> QED
  BY <1>4, <1>5, <1>10, <1>11, <1>12 DEF SortingInv

\* A refresh publishes a new array and leaves the others alone.
LEMMA SortingRefresh == ASSUME SortingInv, Refresh PROVE SortingInv'
<1>1. PICK t \in Trending : arrays' = Append(arrays, t) /\ original' = Append(original, t)
  BY DEF Refresh
<1>2. topVideos' = Len(arrays) + 1 /\ contended' = contended /\ UNCHANGED handler
  BY DEF Refresh
<1>3. ArrayTypes /\ HandlerTypes
  BY DEF SortingInv
<1>4. /\ original \in Seq(Trending) /\ arrays \in Seq(Seq(Cached)) /\ Len(arrays) = Len(original)
      /\ Len(arrays) \in Nat /\ t \in Seq(Cached) /\ IsInjective(t)
  BY <1>3, RankingAssumption DEF ArrayTypes
<1>5. /\ arrays' \in Seq(Seq(Cached)) /\ original' \in Seq(Trending)
      /\ Len(arrays') = Len(arrays) + 1 /\ Len(original') = Len(arrays) + 1
      /\ arrays'[Len(arrays) + 1] = t /\ original'[Len(arrays) + 1] = t
      /\ \A k \in 1..Len(arrays) : arrays'[k] = arrays[k] /\ original'[k] = original[k]
  BY <1>1, <1>4
<1>6. ArrayTypes'
  <2>1. \A k \in 1..Len(arrays) : Len(arrays'[k]) = Len(original'[k])
    BY <1>3, <1>5 DEF ArrayTypes
  <2>2. \A k \in 1..Len(arrays') : k \in 1..Len(arrays) \/ k = Len(arrays) + 1
    BY <1>4, <1>5
  <2>3. \A k \in 1..Len(arrays') : Len(arrays'[k]) = Len(original'[k])
    BY <1>5, <2>1, <2>2
  <2>4. topVideos' \in 0..Len(arrays')
    BY <1>2, <1>4, <1>5
  <2> QED
    BY <1>5, <2>3, <2>4 DEF ArrayTypes
<1>7. UNCHANGED <<pc, user, limit, held, rankMap, i, j, a, b, videos>>
  BY <1>2 DEF handler
<1>8. HandlerTypes'
  BY <1>3, <1>7 DEF HandlerTypes
<1>9. ASSUME NEW g \in Handlers PROVE Placed(g)' /\ Progress(g)' /\ Answered(g)'
  <2>1. Placed(g) /\ Progress(g) /\ Answered(g) /\ Same(g)
    BY <1>7 DEF SortingInv, Same
  <2>2. pc[g] # "idle" => held[g] \in 1..Len(arrays)
    BY <2>1 DEF Placed
  <2>3. pc[g] # "idle" => arrays'[held[g]] = arrays[held[g]] /\ original'[held[g]] = original[held[g]]
    BY <1>5, <2>2
  <2>4. Len(arrays) <= Len(arrays') /\ Len(arrays') \in Nat
    BY <1>4, <1>5
  <2>5. Placed(g)'
    BY <1>4, <2>1, <2>3, <2>4, PlacedFrame
  <2>6. Progress(g)'
    BY <1>2, <2>1, <2>3, ProgressFrame DEF Steps
  <2>7. Answered(g)'
    BY <1>2, <2>1, <2>3, AnsweredFrame
  <2> QED
    BY <2>5, <2>6, <2>7
<1>10. Sole'
  BY <1>2, <1>7 DEF SortingInv, Sole, Steps
<1>11. ASSUME NEW k \in 1..Len(arrays') PROVE Untouched(k)'
  <2>1. CASE k \in 1..Len(arrays)
    <3>1. Untouched(k) /\ arrays'[k] = arrays[k] /\ original'[k] = original[k]
      BY <1>5, <2>1 DEF SortingInv
    <3>2. InFlight' = InFlight
      BY <1>7 DEF InFlight, Steps
    <3> QED
      BY <1>2, <1>7, <3>1, <3>2 DEF Untouched, Permuted
  <2>2. CASE k = Len(arrays) + 1
    BY <1>4, <1>5, <2>2 DEF Untouched, Permuted
  <2> QED
    BY <1>4, <1>5, <2>1, <2>2
<1> QED
  BY <1>6, <1>8, <1>9, <1>10, <1>11 DEF SortingInv

\* Every step keeps the invariant.
LEMMA SortingNext == ASSUME SortingInv, [Next]_vars PROVE SortingInv'
<1>1. CASE Refresh
  BY <1>1, SortingRefresh
<1>2. ASSUME NEW h \in Handlers, Load(h) \/ HandlerStep(h) PROVE SortingInv'
  BY <1>2, SortingLoad, SortingRankNext, SortingOuter, SortingLeft, SortingRight, SortingLoad1,
     SortingLoad2, SortingStore1, SortingStore2, SortingMarshal DEF HandlerStep
<1>3. CASE UNCHANGED vars
  <2>1. /\ UNCHANGED <<arrays, original, contended, topVideos>>
        /\ UNCHANGED <<pc, user, limit, held, rankMap, i, j, a, b, videos>>
    BY <1>3 DEF vars, cache, handler
  <2>2. ArrayTypes' /\ HandlerTypes' /\ Sole'
    BY <2>1 DEF SortingInv, ArrayTypes, HandlerTypes, Sole, Steps
  <2>3. ASSUME NEW h \in Handlers PROVE Placed(h)' /\ Progress(h)' /\ Answered(h)'
    <3>1. Placed(h) /\ Progress(h) /\ Answered(h) /\ Same(h) /\ Len(arrays) \in Nat
      BY <2>1 DEF SortingInv, Same, ArrayTypes
    <3>2. Placed(h)'
      BY <2>1, <3>1, PlacedFrame
    <3> QED
      BY <2>1, <3>1, <3>2, ProgressFrame, AnsweredFrame
  <2>4. ASSUME NEW k \in 1..Len(arrays') PROVE Untouched(k)'
    <3>1. InFlight' = InFlight
      BY <2>1 DEF InFlight, Steps
    <3> QED
      BY <2>1, <3>1 DEF SortingInv, Untouched, Permuted
  <2> QED
    BY <2>2, <2>3, <2>4 DEF SortingInv
<1> QED
  BY <1>1, <1>2, <1>3 DEF Next, Finished

\* The invariant of the racing sorts: however refreshes and fallback handlers
\* interleave, the loops of every handler stay within its array, and a handler
\* that shares its array with nobody keeps the cached videos in it and the part
\* it has inserted in order (server_lib.go:263-305).
THEOREM SortingInvariant == Spec => []SortingInv
<1>1. Init => SortingInv
  BY SortingInit
<1>2. SortingInv /\ [Next]_vars => SortingInv'
  BY SortingNext
<1> QED
  BY <1>1, <1>2, PTL DEF Spec

\* A fallback handler that never shared its array answers with the best `limit`
\* videos that were cached, best first, whatever refreshes and other handlers do,
\* and leaves the cache as it was filled.
THEOREM UncontendedResponsesAreCorrect == Spec => []UncontendedResponsesCorrect
<1>1. SortingInv => UncontendedResponsesCorrect
  <2> SUFFICES ASSUME SortingInv PROVE UncontendedResponsesCorrect
    OBVIOUS
  <2>1. \A h \in Handlers : pc[h] = "done" /\ held[h] \notin contended => Correct(h)
    BY DEF SortingInv, Answered
  <2>2. ASSUME InFlight = {}, topVideos # 0, topVideos \notin contended
        PROVE  ToSet(arrays[topVideos]) = ToSet(original[topVideos])
    <3>1. topVideos \in 1..Len(arrays)
      BY <2>2 DEF SortingInv, ArrayTypes
    <3>2. Untouched(topVideos)
      BY <3>1 DEF SortingInv
    <3> QED
      BY <2>2, <3>2 DEF Untouched, Permuted
  <2> QED
    BY <2>1, <2>2 DEF UncontendedResponsesCorrect
<1> QED
  BY <1>1, SortingInvariant, PTL

(***************************************************************************)
(* Whoever shares the array: what a handler loads, stores and marshals is  *)
(* a video of the list that it took.                                       *)
(***************************************************************************)
FromList(k) == \A m \in 1..Len(arrays[k]) : arrays[k][m] \in ToSet(original[k])

OneList(h) ==
  /\ pc[h] \in {"load2", "store1", "store2"} => a[h] \in ToSet(original[held[h]])
  /\ pc[h] \in {"store1", "store2"} => b[h] \in ToSet(original[held[h]])
  /\ pc[h] \in {"marshal", "done"} =>
       \A m \in 1..Len(videos[h]) : videos[h][m] \in ToSet(original[held[h]])
  /\ pc[h] = "marshal" => Len(videos[h]) = i[h]
  /\ pc[h] = "done" => Len(videos[h]) = Truncate(h)

OriginInv ==
  /\ \A k \in 1..Len(arrays) : FromList(k)
  /\ \A h \in Handlers : OneList(h)

\* What is known of a handler's videos depends on the list that it took.
LEMMA OneListFrame ==
  ASSUME NEW g \in Handlers, OneList(g), Same(g),
         pc[g] # "idle" => original'[held[g]] = original[held[g]]
                           /\ Len(arrays'[held[g]]) = Len(arrays[held[g]])
  PROVE  OneList(g)'
<1>1. pc[g] # "idle" => Truncate(g)' = Truncate(g)
  BY DEF Same, Length, Truncate
<1> QED
  BY <1>1 DEF OneList, Same

\* A step of h that keeps what is known of its videos and of the arrays.
LEMMA OriginStep ==
  ASSUME SortingInv, OriginInv, NEW h \in Handlers, OneList(h)',
         original' = original, Len(arrays') = Len(arrays),
         \A g \in Handlers \ {h} : Same(g),
         \A k \in 1..Len(arrays) : Len(arrays'[k]) = Len(arrays[k]) /\ FromList(k)'
  PROVE  OriginInv'
<1>1. ASSUME NEW g \in Handlers PROVE OneList(g)'
  <2>1. CASE g # h
    <3>1. OneList(g) /\ Same(g) /\ Placed(g)
      BY <2>1 DEF OriginInv, SortingInv
    <3>2. pc[g] # "idle" => Len(arrays'[held[g]]) = Len(arrays[held[g]])
      BY <3>1 DEF Placed
    <3> QED
      BY <3>1, <3>2, OneListFrame
  <2> QED
    BY <2>1
<1>2. \A k \in 1..Len(arrays') : FromList(k)'
  OBVIOUS
<1> QED
  BY <1>1, <1>2 DEF OriginInv

\* An element that a handler loads is a video of its list.
LEMMA LoadsFromList ==
  ASSUME SortingInv, OriginInv, NEW h \in Handlers, pc[h] \in Steps, NEW n \in Nat, n < Length(h)
  PROVE  Element(h, n) \in ToSet(original[held[h]])
<1>1. /\ held[h] \in 1..Len(arrays) /\ Length(h) = Len(arrays[held[h]])
      /\ Len(arrays[held[h]]) \in Nat
  BY AtWork
<1>2. FromList(held[h]) /\ n + 1 \in 1..Len(arrays[held[h]])
  BY <1>1 DEF OriginInv
<1> QED
  BY <1>2 DEF FromList, Element

\* The steps that only read the array keep what is known of every array.
LEMMA ReadingKeepsLists ==
  ASSUME OriginInv, UNCHANGED cache
  PROVE  /\ original' = original /\ Len(arrays') = Len(arrays)
         /\ \A k \in 1..Len(arrays) : Len(arrays'[k]) = Len(arrays[k]) /\ FromList(k)'
BY DEF OriginInv, cache, FromList

\* The steps of ranking and comparing load elements that they do not keep.
LEMMA OriginCompare ==
  ASSUME SortingInv, OriginInv, NEW h \in Handlers, RankNext(h) \/ Outer(h) \/ Left(h) \/ Right(h)
  PROVE  OriginInv'
<1>1. UNCHANGED cache /\ videos' = videos /\ pc[h] \in {"rank", "outer", "left", "right"}
  BY DEF RankNext, Outer, Left, Right
<1>2. HandlerTypes /\ Placed(h)
  BY DEF SortingInv
<1>3. videos[h] = <<>>
  BY <1>1, <1>2 DEF Placed, Steps
<1>4. \A g \in Handlers \ {h} : Same(g)
  <2>1. CASE RankNext(h)
    BY <1>2, <2>1 DEF HandlerTypes, RankNext, Goto, Same
  <2>2. CASE Outer(h)
    BY <1>2, <2>2 DEF HandlerTypes, Outer, Goto, Same
  <2>3. CASE Left(h)
    BY <1>2, <2>3 DEF HandlerTypes, Left, Goto, Same
  <2>4. CASE Right(h)
    BY <1>2, <2>4 DEF HandlerTypes, Right, Forget, Goto, Same
  <2> QED
    BY <2>1, <2>2, <2>3, <2>4
<1>5. /\ pc'[h] \in {"rank", "outer", "left", "right", "load1", "marshal"}
      /\ pc'[h] = "marshal" => i'[h] = 0
  <2>1. CASE RankNext(h)
    BY <1>2, <2>1 DEF HandlerTypes, RankNext, Goto
  <2>2. CASE Outer(h)
    BY <1>2, <2>2 DEF HandlerTypes, Outer, Goto
  <2>3. CASE Left(h)
    BY <1>2, <2>3 DEF HandlerTypes, Left, Goto
  <2>4. CASE Right(h)
    BY <1>2, <2>4 DEF HandlerTypes, Right, Goto
  <2> QED
    BY <2>1, <2>2, <2>3, <2>4
<1>6. OneList(h)'
  <2>1. videos'[h] = <<>> /\ Len(videos'[h]) = 0
    BY <1>1, <1>3
  <2> QED
    BY <1>5, <2>1 DEF OneList
<1>7. /\ original' = original /\ Len(arrays') = Len(arrays)
      /\ \A k \in 1..Len(arrays) : Len(arrays'[k]) = Len(arrays[k]) /\ FromList(k)'
  BY <1>1, ReadingKeepsLists
<1> QED
  BY <1>4, <1>6, <1>7, OriginStep

\* The loads of a swap load videos of the list.
LEMMA OriginLoads ==
  ASSUME SortingInv, OriginInv, NEW h \in Handlers, Load1(h) \/ Load2(h)
  PROVE  OriginInv'
<1>1. UNCHANGED <<cache, held>> /\ pc[h] \in {"load1", "load2"} /\ pc[h] \in Steps
  BY DEF Load1, Load2, Steps
<1>2. HandlerTypes /\ Placed(h) /\ OneList(h)
  BY DEF SortingInv, OriginInv
<1>3. \A g \in Handlers \ {h} : Same(g)
  <2>1. CASE Load1(h)
    BY <1>2, <2>1 DEF HandlerTypes, Load1, Goto, Same
  <2>2. CASE Load2(h)
    BY <1>2, <2>2 DEF HandlerTypes, Load2, Goto, Same
  <2> QED
    BY <2>1, <2>2
<1>4. /\ Element(h, j[h] - 1) \in ToSet(original[held[h]])
      /\ Element(h, j[h]) \in ToSet(original[held[h]])
  <2>1. Length(h) \in Nat /\ i[h] \in 1..Length(h) - 1 /\ j[h] \in 0..i[h] /\ j[h] > 0
    <3>1. Length(h) \in Nat
      BY <1>1, AtWork
    <3> QED
      BY <1>1, <1>2, <3>1 DEF Placed
  <2>2. j[h] - 1 \in Nat /\ j[h] \in Nat /\ j[h] < Length(h) /\ j[h] - 1 < Length(h)
    BY <2>1
  <2> QED
    BY <1>1, <2>2, LoadsFromList
<1>5. OneList(h)'
  <2>1. original'[held'[h]] = original[held[h]]
    BY <1>1 DEF cache
  <2>2. CASE Load1(h)
    <3>1. pc'[h] = "load2" /\ a'[h] = Element(h, j[h] - 1)
      BY <1>2, <2>2 DEF HandlerTypes, Load1, Goto
    <3> QED
      BY <1>4, <2>1, <3>1 DEF OneList
  <2>3. CASE Load2(h)
    <3>1. pc'[h] = "store1" /\ pc[h] = "load2" /\ a'[h] = a[h] /\ b'[h] = Element(h, j[h])
      BY <1>2, <2>3 DEF HandlerTypes, Load2, Goto
    <3> QED
      BY <1>2, <1>4, <2>1, <3>1 DEF OneList
  <2> QED
    BY <2>2, <2>3
<1>6. /\ original' = original /\ Len(arrays') = Len(arrays)
      /\ \A k \in 1..Len(arrays) : Len(arrays'[k]) = Len(arrays[k]) /\ FromList(k)'
  BY <1>1, ReadingKeepsLists
<1> QED
  BY <1>3, <1>5, <1>6, OriginStep

\* The stores of a swap, torn or not, store videos of the list.
LEMMA OriginStores ==
  ASSUME SortingInv, OriginInv, NEW h \in Handlers, Store1(h) \/ Store2(h)
  PROVE  OriginInv'
<1> DEFINE t == arrays[held[h]]
           n == IF pc[h] = "store1" THEN j[h] ELSE j[h] - 1
           v == IF pc[h] = "store1" THEN a[h] ELSE b[h]
<1>1. /\ UNCHANGED <<original, held, videos>> /\ pc[h] \in {"store1", "store2"} /\ pc[h] \in Steps
      /\ Store(h, n, v)
  BY DEF Store1, Store2, Steps
<1>2. HandlerTypes /\ Placed(h) /\ OneList(h)
  BY DEF SortingInv, OriginInv
<1>3. \A g \in Handlers \ {h} : Same(g)
  <2>1. CASE Store1(h)
    BY <1>2, <2>1 DEF HandlerTypes, Store1, Goto, Same
  <2>2. CASE Store2(h)
    BY <1>2, <2>2 DEF HandlerTypes, Store2, Goto, Forget, Same
  <2> QED
    BY <2>1, <2>2
<1>4. /\ v \in ToSet(original[held[h]]) /\ v \in Cached
      /\ n \in Nat /\ n < Len(t) /\ t \in Seq(Cached) /\ held[h] \in 1..Len(arrays)
  <2>1. /\ Length(h) = Len(t) /\ Len(t) \in Nat /\ i[h] \in 1..Length(h) - 1
        /\ j[h] \in 0..i[h] /\ j[h] > 0 /\ t \in Seq(Cached) /\ held[h] \in 1..Len(arrays)
    <3>1. /\ Length(h) = Len(t) /\ Len(t) \in Nat /\ t \in Seq(Cached)
          /\ held[h] \in 1..Len(arrays)
      BY <1>1, AtWork
    <3> QED
      BY <1>1, <1>2, <3>1 DEF Placed
  <2>2. n \in Nat /\ n < Len(t)
    <3> HIDE DEF t
    <3> QED
      BY <2>1
  <2>3. v \in ToSet(original[held[h]]) /\ v \in Cached
    BY <1>1, <1>2 DEF OneList, Placed
  <2> QED
    BY <2>1, <2>2, <2>3
<1>5. /\ Len(arrays') = Len(arrays)
      /\ arrays'[held[h]] = [t EXCEPT ![n + 1] = v]
      /\ \A k \in 1..Len(arrays) : Len(arrays'[k]) = Len(arrays[k])
                                   /\ (k # held[h] => arrays'[k] = arrays[k])
  <2>1. /\ pc[h] \in Steps /\ n \in Nat /\ v \in Cached
        /\ n < Len(arrays[held[h]]) /\ Store(h, n, v)
    BY <1>1, <1>4
  <2> HIDE DEF t, n, v
  <2>2. /\ Len(arrays') = Len(arrays)
        /\ arrays'[held[h]] = [arrays[held[h]] EXCEPT ![n + 1] = v]
        /\ \A k \in 1..Len(arrays) : Len(arrays'[k]) = Len(arrays[k])
                                     /\ (k # held[h] => arrays'[k] = arrays[k])
    BY <2>1, StoreWrites
  <2> QED
    BY <2>2 DEF t
<1>6. ASSUME NEW k \in 1..Len(arrays) PROVE FromList(k)'
  <2>1. FromList(k)
    BY DEF OriginInv
  <2>2. CASE k # held[h]
    BY <1>1, <1>5, <2>1, <2>2 DEF FromList
  <2>3. CASE k = held[h]
    <3> HIDE DEF n, v
    <3>1. ASSUME NEW m \in 1..Len(t) PROVE [t EXCEPT ![n + 1] = v][m] \in ToSet(original[k])
      <4>1. t[m] \in ToSet(original[k])
        BY <2>1, <2>3 DEF FromList
      <4>2. [t EXCEPT ![n + 1] = v][m] = IF m = n + 1 THEN v ELSE t[m]
        BY <1>4
      <4> QED
        BY <1>4, <2>3, <4>1, <4>2
    <3>2. arrays'[k] = [t EXCEPT ![n + 1] = v] /\ Len(arrays'[k]) = Len(t) /\ original' = original
      BY <1>1, <1>5, <2>3
    <3> QED
      BY <3>1, <3>2 DEF FromList
  <2> QED
    BY <2>2, <2>3
<1>7. OneList(h)'
  <2>1. original'[held'[h]] = original[held[h]]
    BY <1>1
  <2>2. CASE Store1(h)
    <3>1. pc'[h] = "store2" /\ pc[h] = "store1" /\ a'[h] = a[h] /\ b'[h] = b[h]
      BY <1>2, <2>2 DEF HandlerTypes, Store1, Goto
    <3> QED
      BY <1>2, <2>1, <3>1 DEF OneList
  <2>3. CASE Store2(h)
    <3>1. pc'[h] = "left"
      BY <1>2, <2>3 DEF HandlerTypes, Store2, Goto
    <3> QED
      BY <3>1 DEF OneList
  <2> QED
    BY <2>2, <2>3
<1> QED
  BY <1>1, <1>3, <1>5, <1>6, <1>7, OriginStep

\* gRPC marshals videos of the list, as many as the limit lets through.
LEMMA OriginMarshal ==
  ASSUME SortingInv, OriginInv, NEW h \in Handlers, Marshal(h) PROVE OriginInv'
<1>1. UNCHANGED <<cache, limit, held>> /\ pc[h] = "marshal" /\ pc[h] \in Steps
  BY DEF Marshal, Steps
<1>2. HandlerTypes /\ Placed(h) /\ OneList(h)
  BY DEF SortingInv, OriginInv
<1>3. \A g \in Handlers \ {h} : Same(g)
  BY <1>2 DEF HandlerTypes, Marshal, Goto, Same
<1>4. original'[held'[h]] = original[held[h]] /\ Truncate(h)' = Truncate(h)
  BY <1>1 DEF cache, Truncate, Length
<1>5. videos[h] \in Seq(Cached) /\ i[h] \in Nat
  BY <1>2 DEF HandlerTypes
<1>6. Truncate(h) \in Nat /\ Truncate(h) <= Length(h) /\ Length(h) \in Nat
  <2>1. Length(h) \in Nat /\ limit[h] \in Nat
    BY <1>1, AtWork
  <2> QED
    BY <2>1 DEF Truncate
<1>7. OneList(h)'
  <2>1. CASE i[h] < Truncate(h)
    <3> DEFINE e == Element(h, i[h])
    <3>1. i[h] < Length(h)
      BY <1>5, <1>6, <2>1
    <3>2. e \in ToSet(original[held[h]])
      BY <1>1, <1>5, <3>1, LoadsFromList
    <3>3. pc'[h] = "marshal" /\ i'[h] = i[h] + 1 /\ videos'[h] = Append(videos[h], e)
      BY <1>1, <1>2, <1>5, <1>6, <2>1 DEF HandlerTypes, Marshal
    <3> HIDE DEF e
    <3>4. /\ Len(Append(videos[h], e)) = Len(videos[h]) + 1 /\ Len(videos[h]) \in Nat
          /\ \A m \in 1..Len(videos[h]) : Append(videos[h], e)[m] = videos[h][m]
          /\ Append(videos[h], e)[Len(videos[h]) + 1] = e
      BY <1>5
    <3>5. \A m \in 1..Len(videos[h]) + 1 : m \in 1..Len(videos[h]) \/ m = Len(videos[h]) + 1
      BY <3>4
    <3>6. /\ \A m \in 1..Len(videos[h]) : videos[h][m] \in ToSet(original[held[h]])
          /\ Len(videos[h]) = i[h]
      BY <1>1, <1>2 DEF OneList
    <3>7. \A m \in 1..Len(videos'[h]) : videos'[h][m] \in ToSet(original[held[h]])
      BY <3>2, <3>3, <3>4, <3>5, <3>6
    <3> QED
      BY <1>4, <3>3, <3>4, <3>6, <3>7 DEF OneList
  <2>2. CASE i[h] = Truncate(h)
    <3>1. pc'[h] = "done" /\ videos' = videos
      BY <1>1, <1>2, <1>5, <1>6, <2>2 DEF HandlerTypes, Marshal, Goto
    <3> QED
      BY <1>1, <1>2, <1>4, <2>2, <3>1 DEF OneList
  <2> QED
    BY <2>1, <2>2 DEF Marshal
<1>8. /\ original' = original /\ Len(arrays') = Len(arrays)
      /\ \A k \in 1..Len(arrays) : Len(arrays'[k]) = Len(arrays[k]) /\ FromList(k)'
  BY <1>1, ReadingKeepsLists
<1> QED
  BY <1>3, <1>7, <1>8, OriginStep

\* A handler that takes a list has loaded nothing of it.
LEMMA OriginLoad ==
  ASSUME SortingInv, OriginInv, NEW h \in Handlers, Load(h) PROVE OriginInv'
<1>1. HandlerTypes
  BY DEF SortingInv
<1>2. pc'[h] = "rank" /\ \A g \in Handlers \ {h} : Same(g)
  BY <1>1 DEF HandlerTypes, Load, Goto, Same
<1>3. UNCHANGED <<arrays, original>>
  BY DEF Load
<1>4. \A k \in 1..Len(arrays) : Len(arrays'[k]) = Len(arrays[k]) /\ FromList(k)'
  BY <1>3 DEF OriginInv, FromList
<1> QED
  BY <1>2, <1>3, <1>4, OriginStep DEF OneList

\* A refresh fills a new array and touches no other.
LEMMA OriginRefresh == ASSUME SortingInv, OriginInv, Refresh PROVE OriginInv'
<1>1. PICK t \in Trending : arrays' = Append(arrays, t) /\ original' = Append(original, t)
  BY DEF Refresh
<1>2. UNCHANGED <<pc, user, limit, held, rankMap, i, j, a, b, videos>>
  BY DEF Refresh, handler
<1>3. /\ original \in Seq(Trending) /\ arrays \in Seq(Seq(Cached)) /\ Len(arrays) = Len(original)
      /\ Len(arrays) \in Nat /\ t \in Seq(Cached)
  BY RankingAssumption DEF SortingInv, ArrayTypes
<1>4. /\ Len(arrays') = Len(arrays) + 1
      /\ arrays'[Len(arrays) + 1] = t /\ original'[Len(arrays) + 1] = t
      /\ \A k \in 1..Len(arrays) : arrays'[k] = arrays[k] /\ original'[k] = original[k]
  BY <1>1, <1>3
<1>5. ASSUME NEW k \in 1..Len(arrays') PROVE FromList(k)'
  <2>1. k \in 1..Len(arrays) \/ k = Len(arrays) + 1
    BY <1>3, <1>4
  <2>2. CASE k \in 1..Len(arrays)
    BY <1>4, <2>2 DEF OriginInv, FromList
  <2>3. CASE k = Len(arrays) + 1
    <3>1. \A m \in 1..Len(t) : t[m] \in ToSet(t)
      BY <1>3 DEF ToSet
    <3> QED
      BY <1>4, <2>3, <3>1 DEF FromList
  <2> QED
    BY <2>1, <2>2, <2>3
<1>6. ASSUME NEW g \in Handlers PROVE OneList(g)'
  <2>1. OneList(g) /\ Same(g) /\ Placed(g)
    BY <1>2 DEF OriginInv, SortingInv, Same
  <2>2. pc[g] # "idle" => original'[held[g]] = original[held[g]]
                          /\ Len(arrays'[held[g]]) = Len(arrays[held[g]])
    BY <1>4, <2>1 DEF Placed
  <2> QED
    BY <2>1, <2>2, OneListFrame
<1> QED
  BY <1>5, <1>6 DEF OriginInv

\* Every response comes from one refresh, however the handlers race and however
\* many refreshes are made meanwhile, for any lists, limits and scores: videoInfos
\* keeps the array it was given under the read lock (server_lib.go:267-268).
THEOREM ResponsesComeFromOneRefresh == Spec => []ResponsesFromOneRefresh
<1>1. Init => OriginInv
  BY DEF Init, OriginInv, FromList, OneList
<1>2. SortingInv /\ OriginInv /\ [Next]_vars => OriginInv'
  <2> SUFFICES ASSUME SortingInv, OriginInv, [Next]_vars PROVE OriginInv'
    OBVIOUS
  <2>1. CASE Refresh
    BY <2>1, OriginRefresh
  <2>2. ASSUME NEW h \in Handlers, Load(h) \/ HandlerStep(h) PROVE OriginInv'
    BY <2>2, OriginLoad, OriginCompare, OriginLoads, OriginStores, OriginMarshal DEF HandlerStep
  <2>3. CASE UNCHANGED vars
    BY <2>3 DEF vars, cache, handler, OriginInv, FromList, OneList, Truncate, Length
  <2> QED
    BY <2>1, <2>2, <2>3 DEF Next, Finished
<1>3. SortingInv /\ OriginInv => ResponsesFromOneRefresh
  <2> SUFFICES ASSUME SortingInv, OriginInv, NEW h \in Handlers, pc[h] = "done"
               PROVE  /\ ToSet(videos[h]) \subseteq ToSet(original[held[h]])
                      /\ Len(videos[h]) = IF limit[h] \in 1..Len(original[held[h]])
                                          THEN limit[h] ELSE Len(original[held[h]])
    BY DEF ResponsesFromOneRefresh
  <2>1. OneList(h) /\ Placed(h) /\ HandlerTypes /\ ArrayTypes
    BY DEF OriginInv, SortingInv
  <2>2. ToSet(videos[h]) \subseteq ToSet(original[held[h]])
    <3>1. videos[h] \in Seq(Cached)
      BY <2>1 DEF HandlerTypes
    <3>2. \A m \in 1..Len(videos[h]) : videos[h][m] \in ToSet(original[held[h]])
      BY <2>1 DEF OneList
    <3>3. ToSet(videos[h]) = {videos[h][m] : m \in 1..Len(videos[h])}
      BY <3>1 DEF ToSet
    <3> QED
      BY <3>2, <3>3
  <2>3. /\ Len(arrays[held[h]]) = Len(original[held[h]]) /\ Len(arrays[held[h]]) \in Nat
        /\ limit[h] \in Nat
    <3>1. held[h] \in 1..Len(arrays)
      BY <2>1 DEF Placed
    <3>2. arrays[held[h]] \in Seq(Cached) /\ Len(arrays[held[h]]) = Len(original[held[h]])
      BY <2>1, <3>1 DEF ArrayTypes
    <3> QED
      BY <2>1, <3>2 DEF HandlerTypes
  <2>4. Len(videos[h]) = IF limit[h] # 0 /\ limit[h] < Len(arrays[held[h]])
                         THEN limit[h] ELSE Len(arrays[held[h]])
    BY <2>1 DEF OneList, Truncate, Length
  <2>5. \A x, y \in Nat : (IF x # 0 /\ x < y THEN x ELSE y) = (IF x \in 1..y THEN x ELSE y)
    OBVIOUS
  <2> QED
    BY <2>2, <2>3, <2>4, <2>5
<1> QED
  BY <1>1, <1>2, <1>3, SortingInvariant, PTL DEF Spec
=============================================================================
