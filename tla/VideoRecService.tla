-------------------------- MODULE VideoRecService --------------------------
(***************************************************************************)
(* The video recommendation server: concurrent GetTopVideos handlers, the  *)
(* ContinuallyRefreshCache goroutine and the state they share (statistics, *)
(* client pools, cached trending videos).                                  *)
(*                                                                         *)
(* A step of a handler is one attempt of one RPC together with everything  *)
(* the handler does up to its next RPC.  The counters are atomic and the   *)
(* handlers never read them, so the additions a step makes are one action. *)
(*                                                                         *)
(* Video records are abstracted to their ids, and the cache to the ids it  *)
(* was published with.  Fallback handlers rank the cached slice in place;  *)
(* what that does to its order and contents is module FallbackRanking.     *)
(***************************************************************************)
EXTENDS Backends, Integers, FiniteSets

CONSTANTS
  Requests,          \* the GetTopVideos calls of a behaviour
  RequestUsers,      \* user ids the clients ask for, known or not
  Limits,            \* limits the clients ask for
  Score,             \* Rank: user -> video -> score, opaque
  MaxBatchSize,      \* options.MaxBatchSize
  ClientPoolSize,    \* options.ClientPoolSize
  OptionSets,        \* the fallback and retry switches it may be started with
  FiConfigs,         \* injection configurations an operator may set
  UnreliableNetwork  \* whether the network may fail an RPC

ASSUME OptionsAssumption ==
  /\ MaxBatchSize \in Nat \ {0}
  /\ ClientPoolSize \in Nat \ {0}
  /\ OptionSets \subseteq [DisableFallback : BOOLEAN, DisableRetry : BOOLEAN]
  /\ UnreliableNetwork \in BOOLEAN

ASSUME ClientAssumption ==
  /\ IsFiniteSet(Requests)
  /\ Limits \subseteq Int
  /\ FiConfigs \subseteq FiConfigType
  /\ NoFailures \in FiConfigs

VARIABLES
  \* shared by all goroutines of the server
  totalRequests, totalErrors, activeRequests,
  userServiceErrors, videoServiceErrors, staleResponses,
  userServiceIdx,    \* next entry of userServiceClientPool
  videoServiceIdx,   \* next entry of videoServiceClientPool
  topVideos,         \* the cached trending videos
  \* one per GetTopVideos handler
  pc,                \* the RPC the handler is at
  req,               \* its request
  ctxDone,           \* whether the deadline of its context has passed
  userClient,        \* pool entry it took for UserService
  attempt,           \* 1, or 2 while it retries
  hung,              \* its RPC is one whose response is omitted
  offset,            \* i of the batch loops
  videosToRank, videoInfos, isStaleResponse,
  response,          \* what it returned
  \* the refresh goroutine
  refreshPc, topVideoIds,
  \* failure injectors of the two services
  userFi, videoFi,
  options            \* the switches the server was started with

stats   == <<totalRequests, totalErrors, activeRequests,
             userServiceErrors, videoServiceErrors, staleResponses>>
pools   == <<userServiceIdx, videoServiceIdx>>
handler == <<pc, req, ctxDone, userClient, attempt, hung, offset,
             videosToRank, videoInfos, isStaleResponse, response>>
refresh == <<refreshPc, topVideoIds>>
fis     == <<userFi, videoFi, options>>
vars    == <<stats, pools, topVideos, handler, refresh, fis>>

DisableFallback == options.DisableFallback
DisableRetry    == options.DisableRetry

-----------------------------------------------------------------------------
(***************************************************************************)
(* Helpers.                                                                *)
(***************************************************************************)
\* Mutant of Batch: an end index one too small for a full batch.
BatchDropsLast(ids, i) ==
  SubSeq(ids, i + 1, IF i + MaxBatchSize > Len(ids) THEN Len(ids) ELSE i + MaxBatchSize - 1)

\* Mutant of Batch: a batch one larger than the limit.
BatchTooLong(ids, i) ==
  SubSeq(ids, i + 1, IF i + MaxBatchSize >= Len(ids) THEN Len(ids) ELSE i + MaxBatchSize + 1)

\* ids[i:end] with end the smaller of i + MaxBatchSize and len(ids).
Batch(ids, i) ==
  SubSeq(ids, i + 1, IF i + MaxBatchSize > Len(ids) THEN Len(ids) ELSE i + MaxBatchSize)

\* The videos liked by the users of a batch, in order, duplicates kept.
LikedBy(userIds) == FlattenSeq([k \in DOMAIN userIds |-> LikedVideos[userIds[k]]])

IsDescending(videos, rank) ==
  \A a, b \in DOMAIN videos : a < b => rank[videos[a]] >= rank[videos[b]]

\* slices.SortFunc by descending rank; it is not stable, so videos of equal
\* rank come in any order.
SortedByRank(videos, rank) ==
  {s \in {[k \in DOMAIN videos |-> videos[p[k]]] :
            p \in Bijection(DOMAIN videos, DOMAIN videos)} : IsDescending(s, rank)}

Truncate(videos, limit) ==
  IF limit # 0 /\ limit < Len(videos) THEN SubSeq(videos, 1, limit) ELSE videos

\* Round robin over a client pool.
NextIdx(idx) == (idx + 1) % ClientPoolSize

NoRequest  == [UserId |-> 0, Limit |-> 0]
NoResponse == [cause |-> "none", code |-> "none", stale |-> FALSE, videos |-> <<>>]

\* cause stands for the error message: which check or which query failed.
Error(cause, code) == [cause |-> cause, code |-> code, stale |-> FALSE, videos |-> <<>>]

\* A fallback response carries the cached slice; its contents are not
\* tracked here (module FallbackRanking).
Success(stale, videos) == [cause |-> "ok", code |-> "OK", stale |-> stale, videos |-> videos]

subscribedTo(r) == SubscribedTo[req[r].UserId]

InHandler == {"user", "subscribed", "video", "ranking"}

-----------------------------------------------------------------------------
Init ==
  /\ totalRequests = 0 /\ totalErrors = 0 /\ activeRequests = 0
  /\ userServiceErrors = 0 /\ videoServiceErrors = 0 /\ staleResponses = 0
  /\ userServiceIdx = 0 /\ videoServiceIdx = 0
  /\ topVideos = <<>>
  /\ pc = [r \in Requests |-> "idle"]
  /\ req = [r \in Requests |-> NoRequest]
  /\ ctxDone = [r \in Requests |-> FALSE]
  /\ userClient = [r \in Requests |-> -1]
  /\ attempt = [r \in Requests |-> 1]
  /\ hung = [r \in Requests |-> FALSE]
  /\ offset = [r \in Requests |-> 0]
  /\ videosToRank = [r \in Requests |-> <<>>]
  /\ videoInfos = [r \in Requests |-> <<>>]
  /\ isStaleResponse = [r \in Requests |-> FALSE]
  /\ response = [r \in Requests |-> NoResponse]
  /\ options \in OptionSets
  /\ refreshPc = IF DisableFallback THEN "off" ELSE "trending"
  /\ topVideoIds = <<>>
  /\ userFi \in FiConfigs /\ videoFi \in FiConfigs

(***************************************************************************)
(* GetTopVideos.                                                           *)
(***************************************************************************)

\* The handler returns; the deferred calls run.
Return(r, resp) ==
  /\ pc' = [pc EXCEPT ![r] = "done"]
  /\ response' = [response EXCEPT ![r] = resp]
  /\ activeRequests' = activeRequests - 1

\* Mutant of RejectRequest: the rejection returns before the deferred decrement
\* of activeRequests is registered.
RejectRequestLeaks(r) ==
  /\ pc[r] = "idle"
  /\ \E u \in RequestUsers, l \in Limits :
       /\ l < 0
       /\ req' = [req EXCEPT ![r] = [UserId |-> u, Limit |-> l]]
  /\ totalRequests' = totalRequests + 1
  /\ activeRequests' = activeRequests + 1
  /\ pc' = [pc EXCEPT ![r] = "done"]
  /\ response' = [response EXCEPT ![r] = Error("limit", "InvalidArgument")]
  /\ UNCHANGED <<totalErrors, userServiceErrors, videoServiceErrors,
                 staleResponses, pools, topVideos, ctxDone, userClient, attempt,
                 hung, offset, videosToRank, videoInfos, isStaleResponse,
                 refresh, fis>>

\* A request with a negative limit is rejected at once.
RejectRequest(r) ==
  /\ pc[r] = "idle"
  /\ \E u \in RequestUsers, l \in Limits :
       /\ l < 0
       /\ req' = [req EXCEPT ![r] = [UserId |-> u, Limit |-> l]]
  /\ totalRequests' = totalRequests + 1
  /\ pc' = [pc EXCEPT ![r] = "done"]
  /\ response' = [response EXCEPT ![r] = Error("limit", "InvalidArgument")]
  /\ UNCHANGED <<totalErrors, activeRequests, userServiceErrors,
                 videoServiceErrors, staleResponses, pools, topVideos, ctxDone,
                 userClient, attempt, hung, offset, videosToRank, videoInfos,
                 isStaleResponse, refresh, fis>>

\* Mutant of getNextUserClient: the index is read and not advanced.
getNextUserClientStuck(r) ==
  /\ userClient' = [userClient EXCEPT ![r] = userServiceIdx]
  /\ UNCHANGED userServiceIdx

\* getNextUserClient: the entry the index points at, and the index moves on.
getNextUserClient(r) ==
  /\ userClient' = [userClient EXCEPT ![r] = userServiceIdx]
  /\ userServiceIdx' = NextIdx(userServiceIdx)

BeginRequest(r) ==
  /\ pc[r] = "idle"
  /\ \E u \in RequestUsers, l \in Limits :
       /\ l >= 0
       /\ req' = [req EXCEPT ![r] = [UserId |-> u, Limit |-> l]]
  /\ totalRequests' = totalRequests + 1
  /\ activeRequests' = activeRequests + 1
  /\ getNextUserClient(r)
  /\ pc' = [pc EXCEPT ![r] = "user"]
  /\ UNCHANGED <<totalErrors, userServiceErrors, videoServiceErrors,
                 staleResponses, videoServiceIdx, topVideos, ctxDone, attempt,
                 hung, offset, videosToRank, videoInfos, isStaleResponse,
                 response, refresh, fis>>

\* What an RPC attempt of r can come back with, given the service's answers.
CallOutcomes(r, answers) ==
  IF ctxDone[r] THEN {"DeadlineExceeded"}
  ELSE answers \cup (IF UnreliableNetwork THEN {"Unavailable"} ELSE {})

\* Mutant of AtCall: the RPC is made with context.Background().
AtCallNoContext(r, p) == pc[r] = p /\ ~hung[r]

\* The handler is at RPC p and not waiting for an omitted response; an RPC
\* whose response is omitted ends when the context does.
AtCall(r, p) == pc[r] = p /\ (hung[r] => ctxDone[r])

Failed(code) == code \notin {"OK", "Hang"}

Hang(r, code) ==
  /\ code = "Hang"
  /\ hung' = [hung EXCEPT ![r] = TRUE]
  /\ UNCHANGED <<stats, pools, topVideos, pc, req, ctxDone, userClient, attempt,
                 offset, videosToRank, videoInfos, isStaleResponse, response,
                 refresh, fis>>

\* One retry, after a 10 ms sleep, where the handler allows it.
Retry(r, code, allowed) ==
  /\ Failed(code) /\ allowed /\ attempt[r] = 1
  /\ attempt' = [attempt EXCEPT ![r] = 2]
  /\ hung' = [hung EXCEPT ![r] = FALSE]
  /\ UNCHANGED <<stats, pools, topVideos, pc, req, ctxDone, userClient, offset,
                 videosToRank, videoInfos, isStaleResponse, response, refresh, fis>>

GivesUp(r, code, allowed) == Failed(code) /\ ~(allowed /\ attempt[r] = 1)

\* The next RPC starts with a first attempt.
NextCall(r) ==
  /\ attempt' = [attempt EXCEPT ![r] = 1]
  /\ hung' = [hung EXCEPT ![r] = FALSE]

\* A UserService query failed for good: the request fails, there is no
\* fallback for it.
UserFailure(r, cause, code) ==
  /\ totalErrors' = totalErrors + 1
  /\ userServiceErrors' = userServiceErrors + 1
  /\ Return(r, Error(cause, code))
  /\ NextCall(r)
  /\ UNCHANGED <<totalRequests, videoServiceErrors, staleResponses, pools,
                 topVideos, req, ctxDone, userClient, offset, videosToRank,
                 videoInfos, isStaleResponse, refresh, fis>>

\* The initial query, for the user of the request.
RetryInitial == ~DisableRetry

QueryUser(r) ==
  /\ AtCall(r, "user")
  /\ \E code \in CallOutcomes(r, GetUser(userFi, <<req[r].UserId>>)) :
       \/ Hang(r, code)
       \/ Retry(r, code, RetryInitial)
       \/ GivesUp(r, code, RetryInitial) /\ UserFailure(r, "user", code)
       \/ /\ code = "OK"
          /\ pc' = [pc EXCEPT ![r] = "subscribed"]
          /\ NextCall(r)
          /\ UNCHANGED <<stats, pools, topVideos, req, ctxDone, userClient,
                         offset, videosToRank, videoInfos, isStaleResponse,
                         response, refresh, fis>>

\* The batched queries for the users it is subscribed to: these are retried
\* whatever DisableRetry says.
RetrySubscribed == TRUE

QuerySubscribed(r) ==
  /\ AtCall(r, "subscribed")
  /\ offset[r] < Len(subscribedTo(r))
  /\ LET userIds == Batch(subscribedTo(r), offset[r]) IN
     \E code \in CallOutcomes(r, GetUser(userFi, userIds)) :
       \/ Hang(r, code)
       \/ Retry(r, code, RetrySubscribed)
       \/ GivesUp(r, code, RetrySubscribed) /\ UserFailure(r, "subscribed", code)
       \/ /\ code = "OK"
          /\ videosToRank' = [videosToRank EXCEPT ![r] = @ \o LikedBy(userIds)]
          /\ offset' = [offset EXCEPT ![r] = @ + MaxBatchSize]
          /\ NextCall(r)
          /\ UNCHANGED <<stats, pools, topVideos, pc, req, ctxDone, userClient,
                         videoInfos, isStaleResponse, response, refresh, fis>>

\* After the last batch: deduplicate, take a VideoService client.
StartVideos(r) ==
  /\ pc[r] = "subscribed"
  /\ offset[r] >= Len(subscribedTo(r))
  /\ videosToRank' = [videosToRank EXCEPT ![r] = deduplicateIds(@)]
  /\ videoServiceIdx' = NextIdx(videoServiceIdx)
  /\ offset' = [offset EXCEPT ![r] = 0]
  /\ pc' = [pc EXCEPT ![r] = "video"]
  /\ UNCHANGED <<stats, userServiceIdx, topVideos, req, ctxDone, userClient,
                 attempt, hung, videoInfos, isStaleResponse, response, refresh, fis>>

\* A VideoService query failed for good and there is no fallback.
VideoFailure(r, code) ==
  /\ DisableFallback
  /\ totalErrors' = totalErrors + 1
  /\ videoServiceErrors' = videoServiceErrors + 1
  /\ Return(r, Error("video", code))
  /\ NextCall(r)
  /\ UNCHANGED <<totalRequests, userServiceErrors, staleResponses, pools,
                 topVideos, req, ctxDone, userClient, offset, videosToRank,
                 videoInfos, isStaleResponse, refresh, fis>>

\* The same, with fallback: videoInfos becomes the cached slice, and the
\* videos fetched so far are dropped.  An empty cache fails the request.
Fallback(r, code) ==
  /\ ~DisableFallback
  /\ totalErrors' = totalErrors + 1
  /\ videoServiceErrors' = videoServiceErrors + 1
  /\ staleResponses' = staleResponses + 1
  /\ isStaleResponse' = [isStaleResponse EXCEPT ![r] = TRUE]
  /\ videoInfos' = [videoInfos EXCEPT ![r] = topVideos]
  /\ \/ /\ topVideos = <<>>
        /\ Return(r, Error("nocache", code))
     \/ /\ topVideos # <<>>
        /\ pc' = [pc EXCEPT ![r] = "ranking"]
        /\ UNCHANGED <<response, activeRequests>>
  /\ NextCall(r)
  /\ UNCHANGED <<totalRequests, userServiceErrors, pools, topVideos, req,
                 ctxDone, userClient, offset, videosToRank, refresh, fis>>

RetryVideo == ~DisableRetry

\* The batched queries for the videos to rank.
QueryVideos(r) ==
  /\ AtCall(r, "video")
  /\ offset[r] < Len(videosToRank[r])
  /\ LET videoIds == Batch(videosToRank[r], offset[r]) IN
     \E code \in CallOutcomes(r, GetVideo(videoFi, videoIds)) :
       \/ Hang(r, code)
       \/ Retry(r, code, RetryVideo)
       \/ GivesUp(r, code, RetryVideo) /\ VideoFailure(r, code)
       \/ GivesUp(r, code, RetryVideo) /\ Fallback(r, code)
       \/ /\ code = "OK"
          /\ videoInfos' = [videoInfos EXCEPT ![r] = @ \o videoIds]
          /\ offset' = [offset EXCEPT ![r] = @ + MaxBatchSize]
          /\ NextCall(r)
          /\ UNCHANGED <<stats, pools, topVideos, pc, req, ctxDone, userClient,
                         videosToRank, isStaleResponse, response, refresh, fis>>

\* After the last batch: rank, sort, truncate, return.
RankAndReturn(r) ==
  /\ pc[r] = "video"
  /\ offset[r] >= Len(videosToRank[r])
  /\ \E sorted \in SortedByRank(videoInfos[r], Score[req[r].UserId]) :
       Return(r, Success(FALSE, Truncate(sorted, req[r].Limit)))
  /\ UNCHANGED <<totalRequests, totalErrors, userServiceErrors,
                 videoServiceErrors, staleResponses, pools, topVideos, req,
                 ctxDone, userClient, attempt, hung, offset, videosToRank,
                 videoInfos, isStaleResponse, refresh, fis>>

\* The same for a fallback response.
RankCachedAndReturn(r) ==
  /\ pc[r] = "ranking"
  /\ Return(r, Success(TRUE, <<>>))
  /\ UNCHANGED <<totalRequests, totalErrors, userServiceErrors,
                 videoServiceErrors, staleResponses, pools, topVideos, req,
                 ctxDone, userClient, attempt, hung, offset, videosToRank,
                 videoInfos, isStaleResponse, refresh, fis>>

\* The client's deadline passes while the handler runs.
Deadline(r) ==
  /\ pc[r] \in InHandler /\ ~ctxDone[r]
  /\ ctxDone' = [ctxDone EXCEPT ![r] = TRUE]
  /\ UNCHANGED <<stats, pools, topVideos, pc, req, userClient, attempt, hung,
                 offset, videosToRank, videoInfos, isStaleResponse, response,
                 refresh, fis>>

(***************************************************************************)
(* ContinuallyRefreshCache.  Its RPCs carry context.Background(), so one   *)
(* whose response is omitted never returns ("hung").                       *)
(***************************************************************************)
RefreshOutcomes(answers) ==
  answers \cup (IF UnreliableNetwork THEN {"Unavailable"} ELSE {})

\* Mutant of RefreshTrending: a failed query empties the cache.
RefreshTrendingClears ==
  /\ refreshPc = "trending"
  /\ videoServiceIdx' = NextIdx(videoServiceIdx)
  /\ \E code \in RefreshOutcomes(GetTrendingVideos(videoFi)) :
       \/ code = "Hang" /\ refreshPc' = "hung" /\ UNCHANGED <<topVideoIds, topVideos>>
       \/ Failed(code) /\ refreshPc' = "backoff" /\ topVideos' = <<>> /\ UNCHANGED topVideoIds
       \/ code = "OK" /\ refreshPc' = "infos" /\ topVideoIds' = TrendingVideos /\ UNCHANGED topVideos
  /\ UNCHANGED <<stats, userServiceIdx, handler, fis>>

\* Mutant of RefreshTrending: a failed query ends the goroutine.
RefreshTrendingStops ==
  /\ refreshPc = "trending"
  /\ videoServiceIdx' = NextIdx(videoServiceIdx)
  /\ \E code \in RefreshOutcomes(GetTrendingVideos(videoFi)) :
       \/ code = "Hang" /\ refreshPc' = "hung" /\ UNCHANGED topVideoIds
       \/ Failed(code) /\ refreshPc' = "off" /\ UNCHANGED topVideoIds
       \/ code = "OK" /\ refreshPc' = "infos" /\ topVideoIds' = TrendingVideos
  /\ UNCHANGED <<stats, userServiceIdx, topVideos, handler, fis>>

RefreshTrending ==
  /\ refreshPc = "trending"
  /\ videoServiceIdx' = NextIdx(videoServiceIdx)
  /\ \E code \in RefreshOutcomes(GetTrendingVideos(videoFi)) :
       \/ code = "Hang" /\ refreshPc' = "hung" /\ UNCHANGED topVideoIds
       \/ Failed(code) /\ refreshPc' = "backoff" /\ UNCHANGED topVideoIds
       \/ code = "OK" /\ refreshPc' = "infos" /\ topVideoIds' = TrendingVideos
  /\ UNCHANGED <<stats, userServiceIdx, topVideos, handler, fis>>

\* All trending ids go in one GetVideo request; the cache is replaced as a
\* whole under topVideosLock.
RefreshInfos ==
  /\ refreshPc = "infos"
  /\ \E code \in RefreshOutcomes(GetVideo(videoFi, topVideoIds)) :
       \/ code = "Hang" /\ refreshPc' = "hung" /\ UNCHANGED topVideos
       \/ Failed(code) /\ refreshPc' = "backoff" /\ UNCHANGED topVideos
       \/ code = "OK" /\ refreshPc' = "sleep" /\ topVideos' = topVideoIds
  /\ UNCHANGED <<stats, pools, handler, topVideoIds, fis>>

\* The expiration time, or the end of the 10 s back-off, is reached.
RefreshWake ==
  /\ refreshPc \in {"backoff", "sleep"}
  /\ refreshPc' = "trending"
  /\ UNCHANGED <<stats, pools, topVideos, handler, topVideoIds, fis>>

(***************************************************************************)
(* SetInjectionConfig of the two services.                                 *)
(***************************************************************************)
SetUserInjectionConfig ==
  /\ \E config \in FiConfigs : userFi' = config
  /\ UNCHANGED <<stats, pools, topVideos, handler, refresh, videoFi, options>>

SetVideoInjectionConfig ==
  /\ \E config \in FiConfigs : videoFi' = config
  /\ UNCHANGED <<stats, pools, topVideos, handler, refresh, userFi, options>>

-----------------------------------------------------------------------------
HandlerStep(r) ==
  \/ QueryUser(r) \/ QuerySubscribed(r) \/ StartVideos(r) \/ QueryVideos(r)
  \/ RankAndReturn(r) \/ RankCachedAndReturn(r)

RefreshStep == RefreshTrending \/ RefreshInfos \/ RefreshWake

Next ==
  \/ \E r \in Requests : RejectRequest(r) \/ BeginRequest(r) \/ HandlerStep(r) \/ Deadline(r)
  \/ RefreshStep
  \/ SetUserInjectionConfig \/ SetVideoInjectionConfig

Spec == Init /\ [][Next]_vars

(***************************************************************************)
(* Fairness: a goroutine that can run does, clients put a timeout on their *)
(* context, and time passes.  Nobody has to send a request or to change an *)
(* injection configuration.                                                *)
(***************************************************************************)
Fairness ==
  /\ \A r \in Requests : WF_vars(HandlerStep(r)) /\ WF_vars(Deadline(r))
  /\ WF_vars(RefreshStep)

FairSpec == Spec /\ Fairness

-----------------------------------------------------------------------------
(***************************************************************************)
(* Properties.                                                             *)
(***************************************************************************)
\* Types of the shared state and of the handlers' control state.
ControlTypeOK ==
  /\ totalRequests \in Nat /\ totalErrors \in Nat /\ activeRequests \in Nat
  /\ userServiceErrors \in Nat /\ videoServiceErrors \in Nat /\ staleResponses \in Nat
  /\ userServiceIdx \in 0..(ClientPoolSize - 1)
  /\ videoServiceIdx \in 0..(ClientPoolSize - 1)
  /\ pc \in [Requests -> InHandler \cup {"idle", "done"}]
  /\ req \in [Requests -> [UserId : RequestUsers, Limit : Limits] \cup {NoRequest}]
  /\ ctxDone \in [Requests -> BOOLEAN]
  /\ userClient \in [Requests -> -1..(ClientPoolSize - 1)]
  /\ attempt \in [Requests -> {1, 2}]
  /\ hung \in [Requests -> BOOLEAN]
  /\ offset \in [Requests -> Nat]
  /\ isStaleResponse \in [Requests -> BOOLEAN]
  /\ refreshPc \in {"off", "trending", "infos", "backoff", "sleep", "hung"}
  /\ userFi \in FiConfigs /\ videoFi \in FiConfigs
  /\ options \in OptionSets

\* The videos a user should be recommended from: all videos liked by anyone
\* the user is subscribed to.
CandidateVideos(u) == UNION {ToSet(LikedVideos[s]) : s \in ToSet(SubscribedTo[u])}

\* A personalised response is exactly the best `limit` candidates (all of them
\* for limit 0) in descending rank, without duplicates: splitting users and
\* videos into batches and retrying batches neither loses, repeats nor invents
\* a video (GetTopVideos, server_lib.go:192-305).
FreshResponsesExact ==
  \A r \in Requests :
    response[r].cause = "ok" /\ ~response[r].stale =>
      LET videos == response[r].videos
          limit  == req[r].Limit
          rank   == Score[req[r].UserId]
          all    == CandidateVideos(req[r].UserId)
      IN  /\ IsInjective(videos)
          /\ ToSet(videos) \subseteq all
          /\ Len(videos) = IF limit = 0 \/ limit > Cardinality(all)
                           THEN Cardinality(all) ELSE limit
          /\ IsDescending(videos, rank)
          /\ \A kept \in ToSet(videos), cut \in all \ ToSet(videos) :
               rank[kept] >= rank[cut]

\* The requests that each counter should count.
Started   == {r \in Requests : pc[r] # "idle"}
Running   == {r \in Requests : pc[r] \in InHandler}
UserLost  == {r \in Requests : response[r].cause \in {"user", "subscribed"}}
Stale     == {r \in Requests : isStaleResponse[r]}
VideoLost == {r \in Requests : isStaleResponse[r] \/ response[r].cause = "video"}

\* What the counters GetStats reports really count: started handlers, handlers
\* still running, handlers that gave up on UserService, handlers that gave up
\* on VideoService, those of them that turned to the cache, and the total of
\* the two kinds of giving up (server_lib.go:152-154, 180-181, 213-214,
\* 252-253, 264).  lab1.md describes three of them differently: see
\* SomeCounterAsDocumented.
CountersExact ==
  /\ totalRequests = Cardinality(Started)
  /\ activeRequests = Cardinality(Running)
  /\ userServiceErrors = Cardinality(UserLost)
  /\ videoServiceErrors = Cardinality(VideoLost)
  /\ staleResponses = Cardinality(Stale)
  /\ totalErrors = userServiceErrors + videoServiceErrors

Lost            == UserLost \cup VideoLost
RetriedAndLost  == {r \in Lost : ~DisableRetry \/ response[r].cause = "subscribed"}
ReturnedAnError == {r \in Requests : pc[r] = "done" /\ response[r].code # "OK"}

\* lab1.md's description of GetStats, for a server between requests: total_errors
\* is the number of requests "which returned an error" (245), the two services'
\* errors are those "returned in attempts" (247), two for a query that was retried
\* and lost, and stale_responses is the number of requests "that returned a
\* fallback response" (323).  At least one of the three is so; a behaviour that
\* violates this refutes them all (server_lib.go:152-166, 251-274).
SomeCounterAsDocumented ==
  Running = {} =>
    \/ totalErrors = Cardinality(ReturnedAnError)
    \/ userServiceErrors + videoServiceErrors >= Cardinality(Lost) + Cardinality(RetriedAndLost)
    \/ staleResponses = Cardinality({r \in Requests : response[r].stale})

\* The requests that took connection c of the UserService pool.
Using(c) == {r \in Requests : userClient[r] = c}

\* The UserService pool is used evenly whatever the interleaving of the
\* handlers: no connection serves two requests more than another
\* (getNextUserClient, server_lib.go:404-412).
UserPoolBalanced ==
  \A c, d \in 0..(ClientPoolSize - 1) : Cardinality(Using(c)) <= Cardinality(Using(d)) + 1

\* The server never sends a backend a request the backend has to reject
\* (empty, oversized or with duplicate videos) while serving GetTopVideos: an
\* InvalidArgument only ever reaches a client that sent a negative limit.
NeverRejectedByBackend ==
  \A r \in Requests : response[r].code = "InvalidArgument" => response[r].cause = "limit"

\* Every request that enters its handler is answered, whatever the backends
\* do: fail, stop answering, or change their minds.
RequestsReturn ==
  \A r \in Requests : (pc[r] \in InHandler) ~> (pc[r] = "done")

\* Unless fallback is disabled: once trending videos have been cached, a request
\* that got as far as querying VideoService is answered without an error, however
\* VideoService and the refresh goroutine fare from then on (lab1.md: "prefer to
\* return expired responses over an error if you can cache at least one
\* successful set").
FallbackAnswers ==
  \A r \in Requests :
    (pc[r] = "video" /\ topVideos # <<>> /\ ~DisableFallback) ~> (response[r].cause = "ok")

\* If VideoService ends up healthy, and no response to the refresh goroutine was
\* omitted before, the cache is refreshed again and again: no sequence of failed
\* queries leaves the refresh loop stuck (ContinuallyRefreshCache,
\* server_lib.go:317-372).
CacheKeepsRefreshing ==
  ~DisableFallback /\ <>[](videoFi = NoFailures) /\ [](refreshPc # "hung")
    => []<>(refreshPc = "sleep")

(***************************************************************************)
(* What the documentation says and the code does not do.                   *)
(***************************************************************************)

\* If VideoService ends up healthy the cache is refreshed again and again,
\* whatever happened before (lab1.md:316, "Periodically refetch and update the
\* trending videos so they are not stale").
CacheRefreshesForever ==
  ~DisableFallback /\ <>[](videoFi = NoFailures) => []<>(refreshPc = "sleep")
=============================================================================
