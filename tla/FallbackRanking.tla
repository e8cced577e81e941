-------------------------- MODULE FallbackRanking --------------------------
(***************************************************************************)
(* What fallback handlers of VideoRecService do to the cached trending     *)
(* videos.  A handler copies the slice header server.topVideos under the   *)
(* read lock and then, without the lock, ranks the elements, sorts them in *)
(* place, truncates the slice and returns it to gRPC, which marshals it.   *)
(* All handlers that loaded the header from one refresh work on the same   *)
(* array.  The refresh goroutine publishes a new array and never writes to *)
(* an old one.                                                             *)
(*                                                                         *)
(* Every load and store of an array element is a step of its own: elements *)
(* are pointers, so a racing load returns some value that was stored.      *)
(*                                                                         *)
(* slices.SortFunc is modelled by the insertion sort it uses for at most   *)
(* 12 elements (a VideoService picks 10 to 19 trending videos).            *)
(***************************************************************************)
EXTENDS Naturals, Sequences, SequencesExt, FiniteSets

CONSTANTS
  Handlers,      \* GetTopVideos handlers that fall back
  Users,         \* users they serve
  Limits,        \* limits of their requests
  Score,         \* Rank: user -> video -> score
  Trending,      \* sequences of videos a refresh may fetch
  MaxRefreshes   \* bound on refreshes

\* The videos that may be cached.
Cached == UNION {ToSet(t) : t \in Trending}

ASSUME RankingAssumption ==
  /\ Limits \subseteq Nat
  /\ \A t \in Trending : t \in Seq(Cached) /\ t # <<>> /\ IsInjective(t)
  /\ Score \in [Users -> [Cached -> Nat]]
  /\ MaxRefreshes \in Nat \ {0}

VARIABLES
  arrays,      \* every array published so far, oldest first
  original,    \* the contents each of them was published with (history)
  contended,   \* those that two handlers held at the same time (history)
  topVideos,   \* index of the array of server.topVideos, 0 when nil
  pc,          \* what the handler does next
  user, limit, \* its request
  held,        \* index of the array of its videoInfos
  rankMap,     \* videos it has ranked
  i, j,        \* loop variables, of range loops and of the sort
  a, b,        \* elements it has loaded
  videos       \* the response, as marshalled so far

cache   == <<arrays, original, contended, topVideos>>
handler == <<pc, user, limit, held, rankMap, i, j, a, b, videos>>
vars    == <<cache, handler>>

NoVideo == 0

Steps == {"rank", "outer", "left", "right", "load1", "load2", "store1", "store2", "marshal"}

InFlight == {h \in Handlers : pc[h] \in Steps}

-----------------------------------------------------------------------------
Init ==
  /\ arrays = <<>> /\ original = <<>> /\ contended = {} /\ topVideos = 0
  /\ pc = [h \in Handlers |-> "idle"]
  /\ user \in [Handlers -> Users]
  /\ limit \in [Handlers -> Limits]
  /\ held = [h \in Handlers |-> 0]
  /\ rankMap = [h \in Handlers |-> {}]
  /\ i = [h \in Handlers |-> 0] /\ j = [h \in Handlers |-> 0]
  /\ a = [h \in Handlers |-> NoVideo] /\ b = [h \in Handlers |-> NoVideo]
  /\ videos = [h \in Handlers |-> <<>>]

\* Mutant of Refresh: the new videos are copied into the array in use.
RefreshInPlace ==
  /\ Len(arrays) < MaxRefreshes
  /\ \E t \in Trending :
       IF topVideos = 0
       THEN arrays' = Append(arrays, t) /\ original' = Append(original, t) /\ topVideos' = 1
       ELSE arrays' = [arrays EXCEPT ![topVideos] = t] /\ UNCHANGED <<original, topVideos>>
  /\ UNCHANGED <<contended, handler>>

\* The refresh goroutine: topVideos = topVideoInfo under the write lock.
Refresh ==
  /\ Len(arrays) < MaxRefreshes
  /\ \E t \in Trending :
       /\ arrays' = Append(arrays, t)
       /\ original' = Append(original, t)
  /\ topVideos' = Len(arrays) + 1
  /\ UNCHANGED <<contended, handler>>

\* Element n (from 0) of the array the handler works on.
Element(h, n) == arrays[held[h]][n + 1]
Length(h)     == Len(arrays[held[h]])

Store(h, n, v) == arrays' = [arrays EXCEPT ![held[h]][n + 1] = v]

Goto(h, step) == pc' = [pc EXCEPT ![h] = step]

\* The length of videoInfos[:limit].
Truncate(h) == IF limit[h] # 0 /\ limit[h] < Length(h) THEN limit[h] ELSE Length(h)

\* videoInfos = server.topVideos, under the read lock; a handler that finds
\* the cache empty fails its request instead.
Load(h) ==
  /\ pc[h] = "idle"
  /\ topVideos # 0
  /\ held' = [held EXCEPT ![h] = topVideos]
  /\ contended' = IF \E g \in InFlight : held[g] = topVideos
                  THEN contended \cup {topVideos} ELSE contended
  /\ i' = [i EXCEPT ![h] = 0]
  /\ Goto(h, "rank")
  /\ UNCHANGED <<arrays, original, topVideos, user, limit, rankMap, j, a, b, videos>>

\* getVideoRanks: one iteration of its range loop.
RankNext(h) ==
  /\ pc[h] = "rank"
  /\ \/ /\ i[h] < Length(h)
        /\ rankMap' = [rankMap EXCEPT ![h] = @ \cup {Element(h, i[h])}]
        /\ i' = [i EXCEPT ![h] = @ + 1]
        /\ UNCHANGED pc
     \/ /\ i[h] = Length(h)
        /\ i' = [i EXCEPT ![h] = 1]
        /\ Goto(h, "outer")
        /\ UNCHANGED rankMap
  /\ UNCHANGED <<cache, user, limit, held, j, a, b, videos>>

\* rankMap[v]: a map gives 0 for a key it does not have.
RankOf(h, v) == IF v \in rankMap[h] THEN Score[user[h]][v] ELSE 0

\* for i := 1; i < n; i++ { for j := i; ...
Outer(h) ==
  /\ pc[h] = "outer"
  /\ \/ i[h] < Length(h) /\ j' = [j EXCEPT ![h] = i[h]] /\ Goto(h, "left") /\ UNCHANGED i
     \/ i[h] >= Length(h) /\ i' = [i EXCEPT ![h] = 0] /\ Goto(h, "marshal") /\ UNCHANGED j
  /\ UNCHANGED <<cache, user, limit, held, rankMap, a, b, videos>>

\* ... j > 0 && cmp(data[j], ...
Left(h) ==
  /\ pc[h] = "left"
  /\ \/ j[h] > 0 /\ a' = [a EXCEPT ![h] = Element(h, j[h])] /\ Goto(h, "right") /\ UNCHANGED i
     \/ j[h] = 0 /\ i' = [i EXCEPT ![h] = @ + 1] /\ Goto(h, "outer") /\ UNCHANGED a
  /\ UNCHANGED <<cache, user, limit, held, rankMap, j, b, videos>>

\* a and b are dead once the comparison or the swap they serve is over.
Forget(h) == a' = [a EXCEPT ![h] = NoVideo] /\ b' = [b EXCEPT ![h] = NoVideo]

\* Whether the comparison puts video v before video w.
Before(h, v, w) == RankOf(h, v) > RankOf(h, w)

\* ... data[j-1]) < 0; j-- {
Right(h) ==
  /\ pc[h] = "right"
  /\ \/ Before(h, a[h], Element(h, j[h] - 1)) /\ Goto(h, "load1") /\ UNCHANGED i
     \/ /\ ~Before(h, a[h], Element(h, j[h] - 1))
        /\ i' = [i EXCEPT ![h] = @ + 1]
        /\ Goto(h, "outer")
  /\ Forget(h)
  /\ UNCHANGED <<cache, user, limit, held, rankMap, j, videos>>

\* data[j], data[j-1] = data[j-1], data[j]: two loads, then two stores.
Load1(h) ==
  /\ pc[h] = "load1"
  /\ a' = [a EXCEPT ![h] = Element(h, j[h] - 1)]
  /\ Goto(h, "load2")
  /\ UNCHANGED <<cache, user, limit, held, rankMap, i, j, b, videos>>

Load2(h) ==
  /\ pc[h] = "load2"
  /\ b' = [b EXCEPT ![h] = Element(h, j[h])]
  /\ Goto(h, "store1")
  /\ UNCHANGED <<cache, user, limit, held, rankMap, i, j, a, videos>>

Store1(h) ==
  /\ pc[h] = "store1"
  /\ Store(h, j[h], a[h])
  /\ Goto(h, "store2")
  /\ UNCHANGED <<original, contended, topVideos, user, limit, held, rankMap, i,
                 j, a, b, videos>>

Store2(h) ==
  /\ pc[h] = "store2"
  /\ Store(h, j[h] - 1, b[h])
  /\ j' = [j EXCEPT ![h] = @ - 1]
  /\ Goto(h, "left")
  /\ Forget(h)
  /\ UNCHANGED <<original, contended, topVideos, user, limit, held, rankMap, i,
                 videos>>

\* Mutant of Marshal: the handler returns the videos cached when it is done.
MarshalLatest(h) ==
  /\ pc[h] = "marshal"
  /\ LET latest == arrays[topVideos]
     IN  videos' = [videos EXCEPT ![h] =
           IF limit[h] \in 1..Len(latest) THEN SubSeq(latest, 1, limit[h]) ELSE latest]
  /\ Goto(h, "done")
  /\ UNCHANGED <<cache, user, limit, held, rankMap, i, j, a, b>>

\* The handler has returned videoInfos[:limit]; gRPC marshals its elements.
Marshal(h) ==
  /\ pc[h] = "marshal"
  /\ \/ /\ i[h] < Truncate(h)
        /\ videos' = [videos EXCEPT ![h] = Append(@, Element(h, i[h]))]
        /\ i' = [i EXCEPT ![h] = @ + 1]
        /\ UNCHANGED pc
     \/ /\ i[h] = Truncate(h)
        /\ Goto(h, "done")
        /\ UNCHANGED <<videos, i>>
  /\ UNCHANGED <<cache, user, limit, held, rankMap, j, a, b>>

HandlerStep(h) ==
  \/ RankNext(h) \/ Outer(h) \/ Left(h) \/ Right(h)
  \/ Load1(h) \/ Load2(h) \/ Store1(h) \/ Store2(h) \/ Marshal(h)

\* All requests of the instance are answered and all refreshes made.
Finished == UNCHANGED vars /\ \A h \in Handlers : pc[h] = "done"

Next ==
  \/ Refresh
  \/ \E h \in Handlers : Load(h) \/ HandlerStep(h)
  \/ Finished

Spec == Init /\ [][Next]_vars

-----------------------------------------------------------------------------
\* The response of h is the best `limit` of the videos that were cached, best
\* first, each once.
Correct(h) ==
  LET cached == ToSet(original[held[h]])
      rank   == Score[user[h]]
  IN  /\ IsInjective(videos[h])
      /\ ToSet(videos[h]) \subseteq cached
      /\ Len(videos[h]) = IF limit[h] = 0 \/ limit[h] > Cardinality(cached)
                          THEN Cardinality(cached) ELSE limit[h]
      /\ \A m, n \in DOMAIN videos[h] : m < n => rank[videos[h][m]] >= rank[videos[h][n]]
      /\ \A kept \in ToSet(videos[h]), cut \in cached \ ToSet(videos[h]) :
           rank[kept] >= rank[cut]

\* A handler that never shared its array with another one answers correctly,
\* whatever happens meanwhile to other arrays and to server.topVideos: a
\* refresh cannot disturb the handlers that are running, because it publishes
\* a new array (server_lib.go:367-369).  Between requests such an array still has
\* exactly the videos it was filled with, however many handlers sorted it one
\* after the other (lab1.md:314, "Store state about trending videos in a
\* thread-safe way").
UncontendedResponsesCorrect ==
  /\ \A h \in Handlers : pc[h] = "done" /\ held[h] \notin contended => Correct(h)
  /\ InFlight = {} /\ topVideos # 0 /\ topVideos \notin contended =>
       ToSet(arrays[topVideos]) = ToSet(original[topVideos])

\* Every response, contended or not, comes from one refresh: however handlers tear
\* each other's swaps and whatever is published meanwhile, longer or shorter, it
\* holds videos of the list that the handler took under the read lock, and as many
\* of them as that list and the limit give (server_lib.go:267-268, 300-305).
ResponsesFromOneRefresh ==
  \A h \in Handlers : pc[h] = "done" =>
    LET list == original[held[h]]
    IN  /\ ToSet(videos[h]) \subseteq ToSet(list)
        /\ Len(videos[h]) = IF limit[h] \in 1..Len(list) THEN limit[h] ELSE Len(list)

(***************************************************************************)
(* What the documentation says and the code does not do.                   *)
(***************************************************************************)

\* No fallback response holds a video twice (lab1.md:153).
NoDuplicateVideos == \A h \in Handlers : pc[h] = "done" => IsInjective(videos[h])
=============================================================================
