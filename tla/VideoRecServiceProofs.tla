----------------------- MODULE VideoRecServiceProofs -----------------------
(***************************************************************************)
(* Proofs about VideoRecService for every set of requests, database,       *)
(* option and injection configuration: the types of the control state, the *)
(* exact meaning of the statistics, the balance of the client pool, what   *)
(* is in a response that is not stale, and that no backend rejects what it *)
(* is asked.                                                               *)
(***************************************************************************)
EXTENDS VideoRecService, LoopLemmas, FiniteSetTheorems, TLAPS

(***************************************************************************)
(* Arithmetic of the round robin.                                          *)
(***************************************************************************)

\* NextIdx steps to the following entry and wraps at the end of the pool.
LEMMA NextIdxValue ==
  ASSUME NEW idx \in 0..(ClientPoolSize - 1)
  PROVE  /\ NextIdx(idx) = IF idx + 1 = ClientPoolSize THEN 0 ELSE idx + 1
         /\ NextIdx(idx) \in 0..(ClientPoolSize - 1)
  BY OptionsAssumption DEF NextIdx

(***************************************************************************)
(* Sets of requests that grow or shrink by one.                            *)
(***************************************************************************)

\* Adding one request to a set of requests makes it larger by one.
LEMMA OneMore ==
  ASSUME NEW S \in SUBSET Requests, NEW r \in Requests, r \notin S
  PROVE  /\ Cardinality(S) \in Nat
         /\ Cardinality(S \cup {r}) = Cardinality(S) + 1
  <1>1. IsFiniteSet(S)
    BY ClientAssumption, FS_Subset
  <1> QED
    BY <1>1, FS_AddElement, FS_CardinalityType

\* Removing one request from a set of requests makes it smaller by one.
LEMMA OneLess ==
  ASSUME NEW S \in SUBSET Requests, NEW r \in S
  PROVE  /\ Cardinality(S) \in Nat \ {0}
         /\ Cardinality(S \ {r}) = Cardinality(S) - 1
  <1>1. IsFiniteSet(S)
    BY ClientAssumption, FS_Subset
  <1> QED
    BY <1>1, FS_RemoveElement, FS_CardinalityType, FS_EmptySet

-----------------------------------------------------------------------------
(***************************************************************************)
(* The inductive invariant.  A handler that has not returned has no        *)
(* response, one that has not fallen back is not stale, and one that has   *)
(* not started holds no client: that is what makes every addition to a     *)
(* counter the first one for its request.                                  *)
(***************************************************************************)
Phases ==
  /\ response = [r \in Requests |-> response[r]]
  /\ \A r \in Requests :
       /\ pc[r] # "done" => response[r].cause = "none"
       /\ pc[r] \in {"idle", "user", "subscribed", "video"} => ~isStaleResponse[r]
       /\ pc[r] = "idle" => userClient[r] = -1

CountersInv == ControlTypeOK /\ Phases /\ CountersExact

USE DEF InHandler

\* The initial state satisfies the invariant: no request has started.
LEMMA CountersInit == Init => CountersInv
  <1> SUFFICES ASSUME Init PROVE CountersInv
    OBVIOUS
  <1>1. ControlTypeOK
    BY OptionsAssumption, ClientAssumption DEF Init, ControlTypeOK, NoRequest
  <1>2. Phases
    BY DEF Init, Phases, NoResponse
  <1>3. /\ Started = {} /\ Running = {} /\ UserLost = {}
        /\ VideoLost = {} /\ Stale = {}
    BY DEF Init, Started, Running, UserLost, VideoLost, Stale, NoResponse
  <1>4. CountersExact
    BY <1>3, FS_EmptySet DEF Init, CountersExact
  <1> QED
    BY <1>1, <1>2, <1>4 DEF CountersInv

\* A step that touches no counter and none of what the counted sets are
\* defined from keeps the counts exact.
LEMMA QuietStep ==
  ASSUME CountersInv, UNCHANGED <<stats, pc, response, isStaleResponse, userClient>>
  PROVE  Phases' /\ CountersExact'
  BY DEF CountersInv, Phases, CountersExact, stats, Started, Running, UserLost,
         VideoLost, Stale

\* A handler that moves on to its next RPC keeps the counts exact.
LEMMA AdvanceStep ==
  ASSUME CountersInv, NEW r \in Requests, NEW p \in {"subscribed", "video"},
         pc[r] \in {"user", "subscribed"},
         pc' = [pc EXCEPT ![r] = p],
         UNCHANGED <<stats, response, isStaleResponse, userClient>>
  PROVE  Phases' /\ CountersExact'
  <1>1. Phases'
    BY DEF CountersInv, Phases, ControlTypeOK
  <1>2. /\ Started' = Started /\ Running' = Running /\ UserLost' = UserLost
        /\ VideoLost' = VideoLost /\ Stale' = Stale
    BY DEF CountersInv, ControlTypeOK, Started, Running, UserLost, VideoLost, Stale
  <1> QED
    BY <1>1, <1>2 DEF CountersInv, CountersExact, stats

\* What a step does to the counted sets is enough to know what it has to do to
\* the counters: sets d of at most one new request each.
LEMMA CountedSets ==
  /\ Started \in SUBSET Requests /\ Running \in SUBSET Requests
  /\ UserLost \in SUBSET Requests /\ VideoLost \in SUBSET Requests
  /\ Stale \in SUBSET Requests
  BY DEF Started, Running, UserLost, VideoLost, Stale

-----------------------------------------------------------------------------
(***************************************************************************)
(* One lemma per kind of step.                                             *)
(***************************************************************************)

\* A rejected request is counted as a request and never as an active one.
LEMMA RejectStep ==
  ASSUME CountersInv, NEW r \in Requests, RejectRequest(r)
  PROVE  CountersInv'
  <1> USE DEF RejectRequest, Error
  <1>1. ControlTypeOK'
    BY DEF CountersInv, ControlTypeOK, pools, fis, refresh
  <1>2. Phases'
    BY DEF CountersInv, ControlTypeOK, Phases
  <1>3. /\ Started' = Started \cup {r} /\ r \notin Started
        /\ Running' = Running /\ UserLost' = UserLost
        /\ VideoLost' = VideoLost /\ Stale' = Stale
    BY DEF CountersInv, ControlTypeOK, Phases, Started, Running, UserLost,
           VideoLost, Stale
  <1>4. Cardinality(Started') = Cardinality(Started) + 1
    BY <1>3, OneMore, CountedSets
  <1> QED
    BY <1>1, <1>2, <1>3, <1>4 DEF CountersInv, CountersExact

\* A request that enters its handler is counted as a request and as active.
LEMMA BeginStep ==
  ASSUME CountersInv, NEW r \in Requests, BeginRequest(r)
  PROVE  CountersInv'
  <1> USE DEF BeginRequest, getNextUserClient
  <1>0. NextIdx(userServiceIdx) \in 0..(ClientPoolSize - 1)
    BY NextIdxValue DEF CountersInv, ControlTypeOK
  <1>1. ControlTypeOK'
    BY <1>0, OptionsAssumption DEF CountersInv, ControlTypeOK, fis, refresh
  <1>2. Phases'
    BY DEF CountersInv, ControlTypeOK, Phases
  <1>3. /\ Started' = Started \cup {r} /\ r \notin Started
        /\ Running' = Running \cup {r} /\ r \notin Running
        /\ UserLost' = UserLost /\ VideoLost' = VideoLost /\ Stale' = Stale
    BY DEF CountersInv, ControlTypeOK, Started, Running, UserLost, VideoLost, Stale
  <1>4. /\ Cardinality(Started') = Cardinality(Started) + 1
        /\ Cardinality(Running') = Cardinality(Running) + 1
    BY <1>3, OneMore, CountedSets
  <1> QED
    BY <1>1, <1>2, <1>3, <1>4 DEF CountersInv, CountersExact

\* The requests whose handlers return leave the active ones.
LEMMA ReturnStep ==
  ASSUME CountersInv, NEW r \in Requests, NEW resp, Return(r, resp),
         pc[r] \in {"user", "subscribed", "video", "ranking"}
  PROVE  /\ activeRequests' \in Nat
         /\ activeRequests' = Cardinality(Running')
         /\ Started' = Started
  <1>1. r \in Running /\ Running' = Running \ {r}
    BY DEF CountersInv, ControlTypeOK, Running, Return
  <1>2. Cardinality(Running') = Cardinality(Running) - 1 /\ Cardinality(Running) \in Nat \ {0}
    BY <1>1, OneLess, CountedSets
  <1>3. Started' = Started
    BY DEF CountersInv, ControlTypeOK, Started, Return
  <1> QED
    BY <1>2, <1>3 DEF CountersInv, CountersExact, Return

\* Giving up on UserService is counted once, as a UserService error.
LEMMA UserFailureStep ==
  ASSUME CountersInv, NEW r \in Requests, NEW cause \in {"user", "subscribed"},
         NEW code, UserFailure(r, cause, code), pc[r] \in {"user", "subscribed"}
  PROVE  CountersInv'
  <1> USE DEF UserFailure, NextCall, Error
  <1>0. /\ activeRequests' \in Nat
        /\ activeRequests' = Cardinality(Running')
        /\ Started' = Started
    BY ReturnStep
  <1> USE DEF Return
  <1>1. ControlTypeOK'
    BY <1>0 DEF CountersInv, ControlTypeOK, pools, fis, refresh
  <1>2. Phases'
    BY DEF CountersInv, ControlTypeOK, Phases
  <1>3. /\ UserLost' = UserLost \cup {r} /\ r \notin UserLost
        /\ VideoLost' = VideoLost /\ Stale' = Stale
    BY DEF CountersInv, ControlTypeOK, Phases, UserLost, VideoLost, Stale
  <1>4. Cardinality(UserLost') = Cardinality(UserLost) + 1
    BY <1>3, OneMore, CountedSets
  <1>5. CountersExact'
    BY <1>0, <1>3, <1>4 DEF CountersInv, CountersExact, ControlTypeOK
  <1> QED
    BY <1>1, <1>2, <1>5 DEF CountersInv

\* Giving up on VideoService without fallback is counted once, as a
\* VideoService error.
LEMMA VideoFailureStep ==
  ASSUME CountersInv, NEW r \in Requests, NEW code, VideoFailure(r, code),
         pc[r] = "video"
  PROVE  CountersInv'
  <1> USE DEF VideoFailure, NextCall, Error
  <1>0. /\ activeRequests' \in Nat
        /\ activeRequests' = Cardinality(Running')
        /\ Started' = Started
    BY ReturnStep
  <1> USE DEF Return
  <1>1. ControlTypeOK'
    BY <1>0 DEF CountersInv, ControlTypeOK, pools, fis, refresh
  <1>2. Phases'
    BY DEF CountersInv, ControlTypeOK, Phases
  <1>3. /\ VideoLost' = VideoLost \cup {r} /\ r \notin VideoLost
        /\ UserLost' = UserLost /\ Stale' = Stale
    BY DEF CountersInv, ControlTypeOK, Phases, UserLost, VideoLost, Stale
  <1>4. Cardinality(VideoLost') = Cardinality(VideoLost) + 1
    BY <1>3, OneMore, CountedSets
  <1>5. CountersExact'
    BY <1>0, <1>3, <1>4 DEF CountersInv, CountersExact, ControlTypeOK
  <1> QED
    BY <1>1, <1>2, <1>5 DEF CountersInv

\* Falling back is counted once as a VideoService error and once as a stale
\* response, whether or not there is a cache to answer from.
LEMMA FallbackStep ==
  ASSUME CountersInv, NEW r \in Requests, NEW code, Fallback(r, code),
         pc[r] = "video"
  PROVE  CountersInv'
  <1> USE DEF Fallback, NextCall, Error
  <1>0. /\ activeRequests' \in Nat
        /\ activeRequests' = Cardinality(Running')
        /\ Started' = Started
    <2>1. CASE Return(r, Error("nocache", code))
      BY <2>1, ReturnStep
    <2>2. CASE /\ pc' = [pc EXCEPT ![r] = "ranking"]
               /\ UNCHANGED <<response, activeRequests>>
      <3>1. Running' = Running /\ Started' = Started
        BY <2>2 DEF CountersInv, ControlTypeOK, Running, Started
      <3> QED
        BY <2>2, <3>1 DEF CountersInv, ControlTypeOK, CountersExact
    <2> QED
      BY <2>1, <2>2
  <1>1. PICK p \in {"done", "ranking"} :
          /\ pc' = [pc EXCEPT ![r] = p]
          /\ p = "ranking" => response' = response
          /\ p = "done" => response' = [response EXCEPT ![r] = Error("nocache", code)]
    BY DEF Return
  <1>2. ControlTypeOK'
    BY <1>0, <1>1 DEF CountersInv, ControlTypeOK, pools, fis, refresh
  <1>3. Phases'
    <2>1. CASE p = "ranking"
      BY <1>1, <2>1 DEF CountersInv, ControlTypeOK, Phases
    <2>2. CASE p = "done"
      BY <1>1, <2>2 DEF CountersInv, ControlTypeOK, Phases
    <2> QED
      BY <2>1, <2>2
  <1>4. /\ VideoLost' = VideoLost \cup {r} /\ r \notin VideoLost
        /\ Stale' = Stale \cup {r} /\ r \notin Stale
        /\ UserLost' = UserLost
    <2>1. \A q \in Requests : q # r => isStaleResponse'[q] = isStaleResponse[q]
      BY DEF CountersInv, ControlTypeOK
    <2>2. isStaleResponse'[r] /\ ~isStaleResponse[r] /\ response[r].cause = "none"
      BY DEF CountersInv, ControlTypeOK, Phases
    <2>3. /\ \A q \in Requests : q # r => response'[q] = response[q]
          /\ response'[r].cause \in {"none", "nocache"}
      BY <1>1, <2>2 DEF CountersInv, Phases
    <2> HIDE DEF Fallback
    <2> QED
      BY <2>1, <2>2, <2>3 DEF UserLost, VideoLost, Stale
  <1>5. /\ Cardinality(VideoLost') = Cardinality(VideoLost) + 1
        /\ Cardinality(Stale') = Cardinality(Stale) + 1
    BY <1>4, OneMore, CountedSets
  <1>6. CountersExact'
    BY <1>0, <1>4, <1>5 DEF CountersInv, CountersExact, ControlTypeOK
  <1> QED
    BY <1>2, <1>3, <1>6 DEF CountersInv

\* A successful return leaves every error counter alone.
LEMMA SuccessStep ==
  ASSUME CountersInv, NEW r \in Requests, NEW stale, NEW videos,
         Return(r, Success(stale, videos)), pc[r] \in {"video", "ranking"},
         UNCHANGED <<totalRequests, totalErrors, userServiceErrors,
                     videoServiceErrors, staleResponses, pools, req, ctxDone,
                     userClient, attempt, hung, offset, isStaleResponse,
                     refresh, fis>>
  PROVE  CountersInv'
  <1>0. /\ activeRequests' \in Nat
        /\ activeRequests' = Cardinality(Running')
        /\ Started' = Started
    BY ReturnStep
  <1> USE DEF Return, Success
  <1>1. ControlTypeOK'
    BY <1>0 DEF CountersInv, ControlTypeOK, pools, fis, refresh
  <1>2. Phases'
    BY DEF CountersInv, ControlTypeOK, Phases
  <1>3. UserLost' = UserLost /\ VideoLost' = VideoLost /\ Stale' = Stale
    BY DEF CountersInv, ControlTypeOK, Phases, UserLost, VideoLost, Stale
  <1>5. CountersExact'
    BY <1>0, <1>3 DEF CountersInv, CountersExact, ControlTypeOK
  <1> QED
    BY <1>1, <1>2, <1>5 DEF CountersInv

\* Waiting for an omitted response and retrying change no counter.
LEMMA HangRetryStep ==
  ASSUME CountersInv, NEW r \in Requests, NEW code, NEW allowed,
         Hang(r, code) \/ Retry(r, code, allowed)
  PROVE  CountersInv'
  <1>1. ControlTypeOK'
    BY DEF CountersInv, ControlTypeOK, Hang, Retry, stats, pools, fis, refresh
  <1>2. UNCHANGED <<stats, pc, response, isStaleResponse, userClient>>
    BY DEF Hang, Retry
  <1> QED
    BY <1>1, <1>2, QuietStep DEF CountersInv

-----------------------------------------------------------------------------
(***************************************************************************)
(* One lemma per action.                                                   *)
(***************************************************************************)

\* The initial user query preserves the invariant, whatever it answers.
LEMMA QueryUserStep ==
  ASSUME CountersInv, NEW r \in Requests, QueryUser(r)
  PROVE  CountersInv'
  <1>0. pc[r] = "user"
    BY DEF QueryUser, AtCall
  <1>1. PICK code \in CallOutcomes(r, GetUser(userFi, <<req[r].UserId>>)) :
          \/ Hang(r, code)
          \/ Retry(r, code, RetryInitial)
          \/ GivesUp(r, code, RetryInitial) /\ UserFailure(r, "user", code)
          \/ /\ code = "OK"
             /\ pc' = [pc EXCEPT ![r] = "subscribed"]
             /\ NextCall(r)
             /\ UNCHANGED <<stats, pools, topVideos, req, ctxDone, userClient,
                            offset, videosToRank, videoInfos, isStaleResponse,
                            response, refresh, fis>>
    BY Zenon DEF QueryUser
  <1>2. CASE Hang(r, code) \/ Retry(r, code, RetryInitial)
    BY <1>2, HangRetryStep
  <1>3. CASE UserFailure(r, "user", code)
    BY <1>0, <1>3, UserFailureStep
  <1>4. CASE /\ pc' = [pc EXCEPT ![r] = "subscribed"]
             /\ NextCall(r)
             /\ UNCHANGED <<stats, pools, topVideos, req, ctxDone, userClient,
                            offset, videosToRank, videoInfos, isStaleResponse,
                            response, refresh, fis>>
    <2>1. ControlTypeOK'
      BY <1>4 DEF CountersInv, ControlTypeOK, NextCall, stats, pools, fis, refresh
    <2>2. Phases' /\ CountersExact'
      BY <1>0, <1>4, AdvanceStep
    <2> QED
      BY <2>1, <2>2 DEF CountersInv
  <1> QED
    BY <1>1, <1>2, <1>3, <1>4

\* So does a query for a batch of subscribed-to users.
LEMMA QuerySubscribedStep ==
  ASSUME CountersInv, NEW r \in Requests, QuerySubscribed(r)
  PROVE  CountersInv'
  <1>0. pc[r] = "subscribed"
    BY DEF QuerySubscribed, AtCall
  <1> DEFINE userIds == Batch(subscribedTo(r), offset[r])
  <1>1. PICK code \in CallOutcomes(r, GetUser(userFi, userIds)) :
          \/ Hang(r, code)
          \/ Retry(r, code, RetrySubscribed)
          \/ GivesUp(r, code, RetrySubscribed) /\ UserFailure(r, "subscribed", code)
          \/ /\ code = "OK"
             /\ videosToRank' = [videosToRank EXCEPT ![r] = @ \o LikedBy(userIds)]
             /\ offset' = [offset EXCEPT ![r] = @ + MaxBatchSize]
             /\ NextCall(r)
             /\ UNCHANGED <<stats, pools, topVideos, pc, req, ctxDone, userClient,
                            videoInfos, isStaleResponse, response, refresh, fis>>
    BY Zenon DEF QuerySubscribed
  <1>2. CASE Hang(r, code) \/ Retry(r, code, RetrySubscribed)
    BY <1>2, HangRetryStep
  <1>3. CASE UserFailure(r, "subscribed", code)
    BY <1>0, <1>3, UserFailureStep
  <1>4. CASE /\ offset' = [offset EXCEPT ![r] = @ + MaxBatchSize]
             /\ NextCall(r)
             /\ UNCHANGED <<stats, pools, topVideos, pc, req, ctxDone, userClient,
                            videoInfos, isStaleResponse, response, refresh, fis>>
    <2>1. ControlTypeOK'
      BY <1>4, OptionsAssumption DEF CountersInv, ControlTypeOK, NextCall, stats, pools, fis, refresh
    <2>2. Phases' /\ CountersExact'
      BY <1>4, QuietStep
    <2> QED
      BY <2>1, <2>2 DEF CountersInv
  <1> QED
    BY <1>1, <1>2, <1>3, <1>4

\* Moving on to VideoService preserves the invariant.
LEMMA StartVideosStep ==
  ASSUME CountersInv, NEW r \in Requests, StartVideos(r)
  PROVE  CountersInv'
  <1>0. NextIdx(videoServiceIdx) \in 0..(ClientPoolSize - 1)
    BY NextIdxValue DEF CountersInv, ControlTypeOK
  <1>1. ControlTypeOK'
    BY <1>0 DEF StartVideos, CountersInv, ControlTypeOK, stats, fis, refresh
  <1>2. Phases' /\ CountersExact'
    BY AdvanceStep DEF StartVideos
  <1> QED
    BY <1>1, <1>2 DEF CountersInv

\* So does a query for a batch of videos, with its two ways of giving up.
LEMMA QueryVideosStep ==
  ASSUME CountersInv, NEW r \in Requests, QueryVideos(r)
  PROVE  CountersInv'
  <1>0. pc[r] = "video"
    BY DEF QueryVideos, AtCall
  <1> DEFINE videoIds == Batch(videosToRank[r], offset[r])
  <1>1. PICK code \in CallOutcomes(r, GetVideo(videoFi, videoIds)) :
          \/ Hang(r, code)
          \/ Retry(r, code, RetryVideo)
          \/ GivesUp(r, code, RetryVideo) /\ VideoFailure(r, code)
          \/ GivesUp(r, code, RetryVideo) /\ Fallback(r, code)
          \/ /\ code = "OK"
             /\ videoInfos' = [videoInfos EXCEPT ![r] = @ \o videoIds]
             /\ offset' = [offset EXCEPT ![r] = @ + MaxBatchSize]
             /\ NextCall(r)
             /\ UNCHANGED <<stats, pools, topVideos, pc, req, ctxDone, userClient,
                            videosToRank, isStaleResponse, response, refresh, fis>>
    BY Zenon DEF QueryVideos
  <1>2. CASE Hang(r, code) \/ Retry(r, code, RetryVideo)
    BY <1>2, HangRetryStep
  <1>3. CASE VideoFailure(r, code)
    BY <1>0, <1>3, VideoFailureStep
  <1>4. CASE Fallback(r, code)
    BY <1>0, <1>4, FallbackStep
  <1>5. CASE /\ offset' = [offset EXCEPT ![r] = @ + MaxBatchSize]
             /\ NextCall(r)
             /\ UNCHANGED <<stats, pools, topVideos, pc, req, ctxDone, userClient,
                            videosToRank, isStaleResponse, response, refresh, fis>>
    <2>1. ControlTypeOK'
      BY <1>5, OptionsAssumption DEF CountersInv, ControlTypeOK, NextCall, stats, pools, fis, refresh
    <2>2. Phases' /\ CountersExact'
      BY <1>5, QuietStep
    <2> QED
      BY <2>1, <2>2 DEF CountersInv
  <1> QED
    BY <1>1, <1>2, <1>3, <1>4, <1>5

\* Returning a ranked list, fresh or cached, preserves the invariant.
LEMMA RankStep ==
  ASSUME CountersInv, NEW r \in Requests, RankAndReturn(r) \/ RankCachedAndReturn(r)
  PROVE  CountersInv'
  <1>1. CASE RankAndReturn(r)
    <2>1. PICK sorted \in SortedByRank(videoInfos[r], Score[req[r].UserId]) :
            Return(r, Success(FALSE, Truncate(sorted, req[r].Limit)))
      BY <1>1 DEF RankAndReturn
    <2> QED
      BY <1>1, <2>1, SuccessStep DEF RankAndReturn
  <1>2. CASE RankCachedAndReturn(r)
    BY <1>2, SuccessStep DEF RankCachedAndReturn
  <1> QED
    BY <1>1, <1>2

\* The passing of a deadline, the refresh goroutine and the operators of the
\* failure injectors touch neither the counters nor the handlers' phases.
LEMMA EnvironmentStep ==
  ASSUME CountersInv,
         \/ \E r \in Requests : Deadline(r)
         \/ RefreshStep
         \/ SetUserInjectionConfig \/ SetVideoInjectionConfig
         \/ UNCHANGED vars
  PROVE  CountersInv'
  <1>0. NextIdx(videoServiceIdx) \in 0..(ClientPoolSize - 1)
    BY NextIdxValue DEF CountersInv, ControlTypeOK
  <1>1. ControlTypeOK'
    <2> USE DEF CountersInv, ControlTypeOK, stats, pools, fis, refresh, handler
    <2>1. ASSUME NEW r \in Requests, Deadline(r) PROVE ControlTypeOK'
      BY <2>1 DEF Deadline
    <2>2. CASE RefreshTrending
      BY <1>0, <2>2 DEF RefreshTrending
    <2>3. CASE RefreshInfos \/ RefreshWake
      BY <2>3 DEF RefreshInfos, RefreshWake
    <2>4. CASE SetUserInjectionConfig \/ SetVideoInjectionConfig
      BY <2>4 DEF SetUserInjectionConfig, SetVideoInjectionConfig
    <2>5. CASE UNCHANGED vars
      BY <2>5 DEF vars
    <2> QED
      BY <2>1, <2>2, <2>3, <2>4, <2>5 DEF RefreshStep
  <1>2. UNCHANGED <<stats, pc, response, isStaleResponse, userClient>>
    BY DEF Deadline, RefreshStep, RefreshTrending, RefreshInfos, RefreshWake,
           SetUserInjectionConfig, SetVideoInjectionConfig, vars, handler
  <1> QED
    BY <1>1, <1>2, QuietStep DEF CountersInv

\* Every step preserves the invariant.
LEMMA CountersNext == CountersInv /\ [Next]_vars => CountersInv'
  <1> SUFFICES ASSUME CountersInv, [Next]_vars PROVE CountersInv'
    OBVIOUS
  <1>1. ASSUME NEW r \in Requests, RejectRequest(r) \/ BeginRequest(r) \/ HandlerStep(r)
        PROVE  CountersInv'
    BY <1>1, RejectStep, BeginStep, QueryUserStep, QuerySubscribedStep,
       StartVideosStep, QueryVideosStep, RankStep DEF HandlerStep
  <1> QED
    BY <1>1, EnvironmentStep DEF Next

-----------------------------------------------------------------------------
(***************************************************************************)
(* The theorems.                                                           *)
(***************************************************************************)

\* The invariant holds in every reachable state.
THEOREM CountersInvariant == Spec => []CountersInv
  BY CountersInit, CountersNext, PTL DEF Spec

\* The control state of the server keeps its type: pool indices stay inside the
\* pools, counters never go below zero (no uint64 wrap-around of
\* activeRequests, server_lib.go:154).
THEOREM ControlTypesCorrect == Spec => []ControlTypeOK
  <1>1. CountersInv => ControlTypeOK
    BY DEF CountersInv
  <1> QED
    BY <1>1, CountersInvariant, PTL

\* The counters GetStats reports count exactly the requests CountersExact says
\* they count, for any number of concurrent requests and any failures.
THEOREM CountersAreExact == Spec => []CountersExact
  <1>1. CountersInv => CountersExact
    BY DEF CountersInv
  <1> QED
    BY <1>1, CountersInvariant, PTL

-----------------------------------------------------------------------------
(***************************************************************************)
(* Balance of the UserService pool.  The inductive form says more than the *)
(* property: the entries before the index are one request ahead of the     *)
(* others, which are all even.                                             *)
(***************************************************************************)
Even(n) ==
  \A c \in 0..(ClientPoolSize - 1) :
    Cardinality(Using(c)) = IF c < userServiceIdx THEN n + 1 ELSE n

PoolInv == \E n \in Nat : Even(n)

\* Only a request that enters its handler takes a client.
LEMMA OnlyBeginTakesClient ==
  ASSUME [Next]_vars
  PROVE  \/ UNCHANGED <<userClient, userServiceIdx>>
         \/ \E r \in Requests : BeginRequest(r)
  <1>1. ASSUME NEW r \in Requests, HandlerStep(r)
        PROVE  UNCHANGED <<userClient, userServiceIdx>>
    <2>1. CASE QueryUser(r)
      BY <2>1 DEF QueryUser, Hang, Retry, UserFailure, pools
    <2>2. CASE QuerySubscribed(r)
      BY <2>2 DEF QuerySubscribed, Hang, Retry, UserFailure, pools
    <2>3. CASE StartVideos(r) \/ RankAndReturn(r) \/ RankCachedAndReturn(r)
      BY <2>3 DEF StartVideos, RankAndReturn, RankCachedAndReturn, pools
    <2>4. CASE QueryVideos(r)
      BY <2>4 DEF QueryVideos, Hang, Retry, VideoFailure, Fallback, pools
    <2> QED
      BY <1>1, <2>1, <2>2, <2>3, <2>4 DEF HandlerStep
  <1>2. ASSUME NEW r \in Requests, RejectRequest(r) \/ Deadline(r)
        PROVE  UNCHANGED <<userClient, userServiceIdx>>
    BY <1>2 DEF RejectRequest, Deadline, pools
  <1>3. ASSUME \/ RefreshStep \/ SetUserInjectionConfig \/ SetVideoInjectionConfig
               \/ UNCHANGED vars
        PROVE  UNCHANGED <<userClient, userServiceIdx>>
    BY <1>3 DEF RefreshStep, RefreshTrending, RefreshInfos, RefreshWake,
                SetUserInjectionConfig, SetVideoInjectionConfig, vars, pools, handler
  <1> QED
    BY <1>1, <1>2, <1>3 DEF Next

\* The client taken is the first of those that are behind.
LEMMA PoolBegin ==
  ASSUME CountersInv, PoolInv, NEW r \in Requests, BeginRequest(r)
  PROVE  PoolInv'
  <1> USE OptionsAssumption
  <1>1. PICK n \in Nat : Even(n)
    BY DEF PoolInv
  <1>2. userServiceIdx \in 0..(ClientPoolSize - 1)
    BY DEF CountersInv, ControlTypeOK
  <1>3. userServiceIdx' = IF userServiceIdx + 1 = ClientPoolSize THEN 0 ELSE userServiceIdx + 1
    BY <1>2, NextIdxValue DEF BeginRequest, getNextUserClient
  <1>4. ASSUME NEW c \in 0..(ClientPoolSize - 1)
        PROVE  Cardinality(Using(c)') = Cardinality(Using(c)) + IF c = userServiceIdx THEN 1 ELSE 0
    <2>1. userClient[r] = -1 /\ userClient \in [Requests -> -1..(ClientPoolSize - 1)]
      BY DEF CountersInv, ControlTypeOK, Phases, BeginRequest
    <2>2. userClient' = [userClient EXCEPT ![r] = userServiceIdx]
      BY DEF BeginRequest, getNextUserClient
    <2>3. CASE c = userServiceIdx
      <3>1. r \notin Using(c) /\ Using(c)' = Using(c) \cup {r}
        BY <1>2, <2>1, <2>2, <2>3 DEF Using
      <3> QED
        BY <2>3, <3>1, OneMore DEF Using
    <2>4. CASE c # userServiceIdx
      <3>1. Using(c)' = Using(c)
        BY <2>1, <2>2, <2>4 DEF Using
      <3>2. Cardinality(Using(c)) \in Nat
        BY ClientAssumption, FS_Subset, FS_CardinalityType DEF Using
      <3> QED
        BY <2>4, <3>1, <3>2
    <2> QED
      BY <2>3, <2>4
  <1>5. CASE userServiceIdx + 1 = ClientPoolSize
    <2>1. Even(n + 1)'
      BY <1>1, <1>2, <1>3, <1>4, <1>5 DEF Even
    <2> QED
      BY <2>1 DEF PoolInv
  <1>6. CASE userServiceIdx + 1 # ClientPoolSize
    <2>1. Even(n)'
      BY <1>1, <1>2, <1>3, <1>4, <1>6 DEF Even
    <2> QED
      BY <2>1 DEF PoolInv
  <1> QED
    BY <1>5, <1>6

\* Connections of the UserService pool are used evenly: at no time has one
\* served two requests more than another, whatever the pool size.
THEOREM UserPoolIsBalanced == Spec => []UserPoolBalanced
  <1>1. Init => PoolInv
    <2> SUFFICES ASSUME Init PROVE PoolInv
      OBVIOUS
    <2>1. \A c \in 0..(ClientPoolSize - 1) : Using(c) = {}
      BY OptionsAssumption DEF Init, Using
    <2>2. userServiceIdx = 0 /\ Cardinality({}) = 0
      BY FS_EmptySet DEF Init
    <2>3. Even(0)
      BY <2>1, <2>2 DEF Even
    <2> QED
      BY <2>3 DEF PoolInv
  <1>2. CountersInv /\ PoolInv /\ [Next]_vars => PoolInv'
    <2> SUFFICES ASSUME CountersInv, PoolInv, [Next]_vars PROVE PoolInv'
      OBVIOUS
    <2>1. CASE UNCHANGED <<userClient, userServiceIdx>>
      BY <2>1 DEF PoolInv, Even, Using
    <2>2. CASE \E r \in Requests : BeginRequest(r)
      BY <2>2, PoolBegin
    <2> QED
      BY <2>1, <2>2, OnlyBeginTakesClient
  <1>3. CountersInv /\ PoolInv => UserPoolBalanced
    BY OptionsAssumption DEF CountersInv, ControlTypeOK, PoolInv, Even, UserPoolBalanced
  <1> QED
    BY <1>1, <1>2, <1>3, CountersInvariant, PTL DEF Spec
-----------------------------------------------------------------------------
(***************************************************************************)
(* What GetTopVideos computes from the lists it is given.                  *)
(***************************************************************************)

\* Concatenated lists hold what the lists hold.
LEMMA ConcatHolds ==
  ASSUME NEW S, NEW s \in Seq(S), NEW t \in Seq(S)
  PROVE  s \o t \in Seq(S) /\ ToSet(s \o t) = ToSet(s) \cup ToSet(t)
  <1> DEFINE u == s \o t
  <1>1. /\ u \in Seq(S) /\ Len(u) = Len(s) + Len(t) /\ Len(s) \in Nat /\ Len(t) \in Nat
        /\ \A i \in 1..Len(s) : u[i] = s[i]
        /\ \A i \in 1..Len(t) : u[Len(s) + i] = t[i]
        /\ DOMAIN u = 1..Len(u) /\ DOMAIN s = 1..Len(s) /\ DOMAIN t = 1..Len(t)
    OBVIOUS
  <1> HIDE DEF u
  <1>2. ASSUME NEW i \in 1..Len(u) PROVE u[i] \in ToSet(s) \cup ToSet(t)
    <2>1. CASE i \in 1..Len(s)
      BY <1>1, <2>1 DEF ToSet
    <2>2. CASE i \notin 1..Len(s)
      <3>1. i - Len(s) \in 1..Len(t) /\ i = Len(s) + (i - Len(s))
        BY <1>1, <2>2
      <3>2. u[i] = t[i - Len(s)]
        BY <1>1, <3>1
      <3> QED
        BY <1>1, <3>1, <3>2 DEF ToSet
    <2> QED
      BY <2>1, <2>2
  <1>3. ASSUME NEW i \in 1..Len(s) PROVE s[i] \in ToSet(u)
    <2>1. i \in 1..Len(u)
      BY <1>1
    <2> QED
      BY <1>1, <2>1 DEF ToSet
  <1>4. ASSUME NEW i \in 1..Len(t) PROVE t[i] \in ToSet(u)
    <2>1. Len(s) + i \in 1..Len(u)
      BY <1>1
    <2> QED
      BY <1>1, <2>1 DEF ToSet
  <1>5. ToSet(u) \subseteq ToSet(s) \cup ToSet(t)
    BY <1>1, <1>2 DEF ToSet
  <1>6. ToSet(s) \subseteq ToSet(u) /\ ToSet(t) \subseteq ToSet(u)
    BY <1>1, <1>3, <1>4 DEF ToSet
  <1> QED
    BY <1>1, <1>5, <1>6 DEF u

\* What the first n of the lists hold.
HeldBy(lists, n) == UNION {ToSet(lists[i]) : i \in 1..n}

\* Appending lists one after the other to an empty one collects what they hold.
LEMMA FlattenHolds ==
  ASSUME NEW S, NEW lists \in Seq(Seq(S))
  PROVE  FlattenSeq(lists) \in Seq(S) /\ ToSet(FlattenSeq(lists)) = HeldBy(lists, Len(lists))
  <1> DEFINE N == Len(lists)
             Body(f) == [i \in 1..N |-> IF i = 1 THEN lists[i] ELSE f[i - 1] \o lists[i]]
             F == CHOOSE f : f = Body(f)
             L == Seq(S)
             e == <<>>
             step == [n \in 1..N |-> [s \in L |-> s \o lists[n]]]
  <1>1. N \in Nat /\ e \in L /\ ToSet(e) = {} /\ \A n \in 1..N : lists[n] \in L
    BY DEF ToSet
  <1>2. IsStep(N, L, step)
    BY <1>1 DEF IsStep
  <1>3. \E f : IsRun(N, L, e, step, f)
    <2> HIDE DEF N, L, e, step
    <2> QED
      BY <1>1, <1>2, LoopExists
  <1>4. PICK run \in [0..N -> L] : run[0] = e /\ \A n \in 1..N : run[n] = step[n][run[n - 1]]
    <2> HIDE DEF N, L, e, step
    <2> QED
      BY <1>3 DEF IsRun
  <1>5. ASSUME NEW n \in 1..N PROVE run[n] = run[n - 1] \o lists[n] /\ run[n - 1] \in L
    <2>1. run[n - 1] \in L /\ lists[n] \in L
      <3>1. n - 1 \in 0..N
        BY <1>1
      <3> HIDE DEF L, N
      <3> QED
        BY <1>1, <3>1
    <2>2. run[n] = step[n][run[n - 1]]
      BY <1>4
    <2> QED
      BY <2>1, <2>2
  <1>6. CASE N = 0
    <2>1. FlattenSeq(lists) = lists /\ lists = <<>>
      BY <1>6 DEF FlattenSeq
    <2>2. 1..Len(lists) = {}
      BY <1>6
    <2>3. HeldBy(lists, Len(lists)) = {}
      BY <2>2 DEF HeldBy
    <2> QED
      BY <1>1, <2>1, <2>3
  <1>7. CASE N # 0
    <2> DEFINE g == [n \in 1..N |-> run[n]]
    <2>1. run[1] = lists[1]
      <3>1. 1 \in 1..N /\ 1 - 1 = 0
        BY <1>1, <1>7
      <3>2. run[1] = e \o lists[1] /\ lists[1] \in L
        BY <1>1, <1>4, <1>5, <3>1
      <3> QED
        BY <3>2
    <2>2. g = Body(g)
      <3>1. ASSUME NEW i \in 1..N
            PROVE  g[i] = IF i = 1 THEN lists[i] ELSE g[i - 1] \o lists[i]
        <4>1. CASE i = 1
          BY <2>1, <4>1
        <4>2. CASE i # 1
          <5>1. i - 1 \in 1..N
            BY <1>1, <4>2
          <5> QED
            BY <1>5, <4>2, <5>1
        <4> QED
          BY <4>1, <4>2
      <3> DEFINE val(i) == IF i = 1 THEN lists[i] ELSE g[i - 1] \o lists[i]
      <3>2. \A i \in 1..N : g[i] = val(i)
        BY <3>1
      <3>3. g = [i \in 1..N |-> g[i]]
        OBVIOUS
      <3> HIDE DEF g, val
      <3>4. g = [i \in 1..N |-> val(i)]
        BY <3>2, <3>3
      <3> QED
        BY <3>4 DEF val
    <2>3. F = Body(F)
      <3> HIDE DEF Body, g
      <3> QED
        BY <2>2
    <2>4. \A i \in 1..N : F[i] = IF i = 1 THEN lists[i] ELSE F[i - 1] \o lists[i]
      <3> DEFINE val(i) == IF i = 1 THEN lists[i] ELSE F[i - 1] \o lists[i]
      <3>1. F = [i \in 1..N |-> val(i)]
        BY <2>3
      <3> HIDE DEF F, val
      <3>2. \A i \in 1..N : F[i] = val(i)
        BY <3>1
      <3> QED
        BY <3>2 DEF val
    <2>5. FlattenSeq(lists) = F[N]
      BY <1>7, Zenon DEF FlattenSeq
    <2> HIDE DEF F
    <2> DEFINE P == {n \in 0..N : n # 0 => F[n] \in L /\ ToSet(F[n]) = HeldBy(lists, n)}
    <2>6. 0 \in P
      BY <1>1
    <2>7. ASSUME NEW n \in 1..N, n - 1 \in P PROVE n \in P
      <3>1. n \in 0..N /\ lists[n] \in L
        BY <1>1
      <3>2. CASE n = 1
        <4>1. F[1] = lists[1] /\ 1..1 = {1}
          BY <2>4, <3>2
        <4>2. HeldBy(lists, 1) = ToSet(lists[1])
          BY <4>1 DEF HeldBy
        <4> QED
          BY <3>1, <3>2, <4>1, <4>2
      <3>3. CASE n # 1
        <4>0. n - 1 # 0
          BY <3>3
        <4>1. F[n] = F[n - 1] \o lists[n]
          BY <2>4, <3>3, Zenon
        <4>2. F[n - 1] \in L /\ ToSet(F[n - 1]) = HeldBy(lists, n - 1)
          BY <2>7, <4>0
        <4>3. F[n] \in L /\ ToSet(F[n]) = HeldBy(lists, n - 1) \cup ToSet(lists[n])
          BY <3>1, <4>1, <4>2, ConcatHolds
        <4>4. 1..n = 1..(n - 1) \cup {n}
          OBVIOUS
        <4>5. HeldBy(lists, n) = HeldBy(lists, n - 1) \cup ToSet(lists[n])
          BY <4>4 DEF HeldBy
        <4> QED
          BY <3>1, <4>3, <4>5
      <3> QED
        BY <3>2, <3>3
    <2>8. \A n \in 0..N : n \in P
      <3> HIDE DEF P, N
      <3> QED
        BY <1>1, <2>6, <2>7, RoundInduction
    <2>9. N \in 0..N
      BY <1>1
    <2>10. N \in P
      <3> HIDE DEF P, N
      <3> QED
        BY <2>8, <2>9
    <2>11. F[N] \in L /\ ToSet(F[N]) = HeldBy(lists, N)
      BY <1>7, <2>10
    <2> QED
      BY <2>5, <2>11
  <1> QED
    BY <1>6, <1>7

\* A batch is a nonempty part of its list, of at most MaxBatchSize ids.
LEMMA BatchIsPart ==
  ASSUME NEW S, NEW ids \in Seq(S), NEW i \in Nat, i < Len(ids)
  PROVE  /\ Batch(ids, i) \in Seq(S)
         /\ Len(Batch(ids, i)) = IF i + MaxBatchSize > Len(ids) THEN Len(ids) - i ELSE MaxBatchSize
         /\ \A k \in 1..Len(Batch(ids, i)) : Batch(ids, i)[k] = ids[i + k]
  <1> DEFINE end == IF i + MaxBatchSize > Len(ids) THEN Len(ids) ELSE i + MaxBatchSize
             b == SubSeq(ids, i + 1, end)
  <1>1. end \in (i + 1)..Len(ids) /\ Len(ids) \in Nat
    BY OptionsAssumption
  <1>2. b = Batch(ids, i)
    BY DEF Batch
  <1> HIDE DEF end
  <1>3. b \in Seq(S) /\ Len(b) = end - i /\ \A k \in 1..(end - i) : b[k] = ids[i + k]
    <2>1. i + 1 \in 1..Len(ids) /\ end \in 1..Len(ids)
      BY <1>1
    <2> QED
      BY <1>1, <2>1
  <1>4. Len(b) = IF i + MaxBatchSize > Len(ids) THEN Len(ids) - i ELSE MaxBatchSize
    BY <1>1, <1>3, OptionsAssumption DEF end
  <1> HIDE DEF b
  <1> QED
    BY <1>2, <1>3, <1>4

\* A backend answers OK, or rejects a request, only if its handler does.
LEMMA AnswersOf ==
  ASSUME NEW config, NEW code, NEW answer \in Answers(config, code)
  PROVE  answer = code \/ answer \in {"Hang", "Internal"}
  BY DEF Answers

\* What an RPC of a handler comes back with is the backend's answer or an error
\* of its own making.
LEMMA OutcomesOf ==
  ASSUME NEW r, NEW answers, NEW code \in CallOutcomes(r, answers)
  PROVE  code \in answers \/ code \in {"DeadlineExceeded", "Unavailable"}
  BY DEF CallOutcomes

\* VideoService finds no duplicates in a list that has none.
LEMMA NoDuplicates ==
  ASSUME NEW S, NEW ids \in Seq(S), IsInjective(ids)
  PROVE  ~HasDuplicates(ids)
  <1>1. \A i, k \in DOMAIN ids : ids[i] = ids[k] => i = k
    BY DEF IsInjective
  <1>2. Len(deduplicateIds(ids)) = Len(ids)
    BY <1>1, DeduplicateIds, Zenon
  <1> QED
    BY <1>2 DEF HasDuplicates

\* deduplicateIds, in the terms of SequencesExt.
LEMMA DeduplicatedHolds ==
  ASSUME NEW S, NEW ids \in Seq(S)
  PROVE  /\ deduplicateIds(ids) \in Seq(S)
         /\ IsInjective(deduplicateIds(ids))
         /\ ToSet(deduplicateIds(ids)) = ToSet(ids)
  <1> DEFINE kept == deduplicateIds(ids)
  <1>1. /\ kept \in Seq(S)
        /\ \A i, k \in DOMAIN kept : kept[i] = kept[k] => i = k
        /\ {kept[i] : i \in DOMAIN kept} = {ids[i] : i \in DOMAIN ids}
    BY DeduplicateIds, Zenon
  <1> HIDE DEF kept
  <1>2. IsInjective(kept) /\ ToSet(kept) = ToSet(ids)
    BY <1>1, Zenon DEF IsInjective, ToSet
  <1> QED
    BY <1>1, <1>2 DEF kept

\* The videos liked by the users of a list.
LEMMA LikedByHolds ==
  ASSUME NEW userIds \in Seq(Users)
  PROVE  /\ LikedBy(userIds) \in Seq(Videos)
         /\ ToSet(LikedBy(userIds)) = UNION {ToSet(LikedVideos[userIds[k]]) : k \in 1..Len(userIds)}
  <1> DEFINE lists == [k \in DOMAIN userIds |-> LikedVideos[userIds[k]]]
  <1>1. LikedBy(userIds) = FlattenSeq(lists)
    BY DEF LikedBy
  <1>2. \A k \in 1..Len(userIds) : LikedVideos[userIds[k]] \in Seq(Videos)
    BY BackendsAssumption
  <1>3. lists \in Seq(Seq(Videos)) /\ Len(lists) = Len(userIds)
        /\ \A k \in 1..Len(userIds) : lists[k] = LikedVideos[userIds[k]]
    BY <1>2
  <1> HIDE DEF lists
  <1>4. HeldBy(lists, Len(lists)) = UNION {ToSet(LikedVideos[userIds[k]]) : k \in 1..Len(userIds)}
    BY <1>3 DEF HeldBy
  <1> QED
    BY <1>1, <1>3, <1>4, FlattenHolds

-----------------------------------------------------------------------------
(***************************************************************************)
(* What a handler has gathered so far, as a property of one handler's      *)
(* variables: before VideoService is asked, the liked videos of the        *)
(* subscribed-to users up to its offset; then the candidates, each once,   *)
(* of which those before its offset are fetched.                           *)
(***************************************************************************)

\* The videos liked by the first n users that u is subscribed to.
LikedUpTo(u, n) ==
  UNION {ToSet(LikedVideos[SubscribedTo[u][i]]) : i \in {k \in DOMAIN SubscribedTo[u] : k <= n}}

\* got is the part of ids before offset o.
Fetched(ids, o, got) ==
  /\ got \in Seq(Videos) /\ Len(got) = IF o < Len(ids) THEN o ELSE Len(ids)
  /\ \A i \in 1..Len(got) : got[i] = ids[i]

\* What FreshResponsesExact says of one response.
Exact(request, videos) ==
  LET limit == request.Limit
      rank  == Score[request.UserId]
      all   == CandidateVideos(request.UserId)
  IN  /\ IsInjective(videos)
      /\ ToSet(videos) \subseteq all
      /\ Len(videos) = IF limit = 0 \/ limit > Cardinality(all) THEN Cardinality(all) ELSE limit
      /\ IsDescending(videos, rank)
      /\ \A kept \in ToSet(videos), cut \in all \ ToSet(videos) : rank[kept] >= rank[cut]

Gathered(p, request, o, ids, got, resp) ==
  /\ p \in InHandler => request.Limit \in Nat
  /\ p \in {"idle", "user"} => o = 0 /\ ids = <<>>
  /\ p \in {"idle", "user", "subscribed"} => got = <<>>
  /\ p \in {"subscribed", "video"} => request.UserId \in Users /\ ids \in Seq(Videos)
  /\ p = "subscribed" => ToSet(ids) = LikedUpTo(request.UserId, o)
  /\ p = "video" => /\ IsInjective(ids) /\ ToSet(ids) = CandidateVideos(request.UserId)
                    /\ Fetched(ids, o, got)
  /\ resp.cause = "ok" /\ ~resp.stale => Exact(request, resp.videos)

GatherInv ==
  /\ videosToRank = [r \in Requests |-> videosToRank[r]]
  /\ videoInfos = [r \in Requests |-> videoInfos[r]]
  /\ \A r \in Requests :
       Gathered(pc[r], req[r], offset[r], videosToRank[r], videoInfos[r], response[r])

\* Only handler r changes.
OnlyHandler(r) ==
  /\ videosToRank' = [q \in Requests |-> videosToRank'[q]]
  /\ videoInfos' = [q \in Requests |-> videoInfos'[q]]
  /\ \A q \in Requests \ {r} :
       /\ pc'[q] = pc[q] /\ req'[q] = req[q] /\ offset'[q] = offset[q]
       /\ videosToRank'[q] = videosToRank[q] /\ videoInfos'[q] = videoInfos[q]
       /\ response'[q] = response[q]

\* A step of one handler keeps GatherInv if it keeps the part about that handler.
LEMMA OneHandler ==
  ASSUME GatherInv, NEW r \in Requests, OnlyHandler(r),
         Gathered(pc'[r], req'[r], offset'[r], videosToRank'[r], videoInfos'[r], response'[r])
  PROVE  GatherInv'
  <1>1. ASSUME NEW q \in Requests
        PROVE  Gathered(pc'[q], req'[q], offset'[q], videosToRank'[q], videoInfos'[q], response'[q])
    <2>1. CASE q = r
      BY <2>1
    <2>2. CASE q # r
      BY <2>2 DEF OnlyHandler, GatherInv
    <2> QED
      BY <2>1, <2>2
  <1>2. /\ videosToRank' = [q \in Requests |-> videosToRank'[q]]
        /\ videoInfos' = [q \in Requests |-> videoInfos'[q]]
    BY DEF OnlyHandler
  <1> QED
    BY <1>1, <1>2 DEF GatherInv

\* Steps that leave what is gathered alone.
LEMMA GatherQuiet ==
  ASSUME GatherInv, UNCHANGED <<pc, req, offset, videosToRank, videoInfos, response>>
  PROVE  GatherInv'
  BY DEF GatherInv

\* GatherInv holds initially.
LEMMA GatherInit == Init => GatherInv
  <1> SUFFICES ASSUME Init PROVE GatherInv
    OBVIOUS
  <1>1. ASSUME NEW r \in Requests
        PROVE  Gathered(pc[r], req[r], offset[r], videosToRank[r], videoInfos[r], response[r])
    <2>1. /\ pc[r] = "idle" /\ offset[r] = 0 /\ videosToRank[r] = <<>> /\ videoInfos[r] = <<>>
          /\ response[r] = NoResponse
      BY DEF Init
    <2>2. response[r].cause = "none"
      BY <2>1 DEF NoResponse
    <2> QED
      BY <2>1, <2>2 DEF Gathered
  <1>2. /\ videosToRank = [r \in Requests |-> videosToRank[r]]
        /\ videoInfos = [r \in Requests |-> videoInfos[r]]
    BY DEF Init
  <1> QED
    BY <1>1, <1>2 DEF GatherInv

\* A handler that returns with an error, or with a stale response.
LEMMA GatherReturn ==
  ASSUME CountersInv, GatherInv, NEW r \in Requests, NEW resp,
         pc' = [pc EXCEPT ![r] = "done"], response' = [response EXCEPT ![r] = resp],
         req' = req \/ (\E new : req' = [req EXCEPT ![r] = new]),
         videoInfos' = videoInfos \/ (\E new : videoInfos' = [videoInfos EXCEPT ![r] = new]),
         UNCHANGED <<offset, videosToRank>>,
         resp.cause # "ok" \/ resp.stale
  PROVE  GatherInv'
  <1>1. pc'[r] = "done" /\ response'[r] = resp
    BY DEF CountersInv, ControlTypeOK, Phases
  <1>2. Gathered(pc'[r], req'[r], offset'[r], videosToRank'[r], videoInfos'[r], response'[r])
    BY <1>1 DEF Gathered
  <1>3. ASSUME NEW q \in Requests \ {r}
        PROVE  /\ pc'[q] = pc[q] /\ req'[q] = req[q] /\ offset'[q] = offset[q]
               /\ videosToRank'[q] = videosToRank[q] /\ videoInfos'[q] = videoInfos[q]
               /\ response'[q] = response[q]
    <2>1. pc'[q] = pc[q] /\ response'[q] = response[q] /\ offset'[q] = offset[q] /\ videosToRank'[q] = videosToRank[q]
      BY DEF CountersInv, ControlTypeOK, Phases
    <2>2. req'[q] = req[q]
      BY DEF CountersInv, ControlTypeOK
    <2>3. videoInfos'[q] = videoInfos[q]
      BY DEF GatherInv
    <2> QED
      BY <2>1, <2>2, <2>3
  <1>4. /\ videosToRank' = [q \in Requests |-> videosToRank'[q]]
        /\ videoInfos' = [q \in Requests |-> videoInfos'[q]]
    BY DEF GatherInv
  <1>5. OnlyHandler(r)
    BY <1>3, <1>4 DEF OnlyHandler
  <1> QED
    BY <1>2, <1>5, OneHandler

\* RejectRequest keeps GatherInv.
LEMMA GatherReject ==
  ASSUME CountersInv, GatherInv, NEW r \in Requests, RejectRequest(r)
  PROVE  GatherInv'
  <1> DEFINE resp == Error("limit", "InvalidArgument")
  <1>1. resp.cause # "ok"
    BY DEF Error
  <1>2. \E new : req' = [req EXCEPT ![r] = new]
    BY DEF RejectRequest
  <1>3. /\ pc' = [pc EXCEPT ![r] = "done"] /\ response' = [response EXCEPT ![r] = resp]
        /\ UNCHANGED <<offset, videosToRank, videoInfos>>
    BY DEF RejectRequest
  <1> HIDE DEF resp
  <1> QED
    BY <1>1, <1>2, <1>3, GatherReturn

\* BeginRequest keeps GatherInv.
LEMMA GatherBegin ==
  ASSUME CountersInv, GatherInv, NEW r \in Requests, BeginRequest(r)
  PROVE  GatherInv'
  <1>1. PICK u \in RequestUsers, l \in Limits :
          l >= 0 /\ req' = [req EXCEPT ![r] = [UserId |-> u, Limit |-> l]]
    BY DEF BeginRequest
  <1>2. /\ pc[r] = "idle" /\ pc' = [pc EXCEPT ![r] = "user"]
        /\ UNCHANGED <<offset, videosToRank, videoInfos, response>>
    BY DEF BeginRequest
  <1>3. pc'[r] = "user" /\ req'[r].Limit \in Nat
    BY <1>1, <1>2, ClientAssumption DEF CountersInv, ControlTypeOK
  <1>4. response[r].cause = "none"
    BY <1>2 DEF CountersInv, Phases
  <1>5. Gathered(pc[r], req[r], offset[r], videosToRank[r], videoInfos[r], response[r])
    BY DEF GatherInv
  <1>6. Gathered(pc'[r], req'[r], offset'[r], videosToRank'[r], videoInfos'[r], response'[r])
    BY <1>2, <1>3, <1>4, <1>5 DEF Gathered
  <1>7. \A q \in Requests \ {r} : pc'[q] = pc[q] /\ req'[q] = req[q]
    BY <1>1, <1>2 DEF CountersInv, ControlTypeOK
  <1>8. OnlyHandler(r)
    BY <1>2, <1>7 DEF OnlyHandler, GatherInv
  <1> QED
    BY <1>6, <1>8, OneHandler

\* UserFailure keeps GatherInv.
LEMMA GatherUserFailure ==
  ASSUME CountersInv, GatherInv, NEW r \in Requests, NEW cause \in {"user", "subscribed"},
         NEW code, UserFailure(r, cause, code)
  PROVE  GatherInv'
  <1> DEFINE resp == Error(cause, code)
  <1>1. resp.cause # "ok"
    BY DEF Error
  <1>2. /\ pc' = [pc EXCEPT ![r] = "done"] /\ response' = [response EXCEPT ![r] = resp]
        /\ UNCHANGED <<req, offset, videosToRank, videoInfos>>
    BY DEF UserFailure, Return
  <1> HIDE DEF resp
  <1> QED
    BY <1>1, <1>2, GatherReturn

\* VideoFailure keeps GatherInv.
LEMMA GatherVideoFailure ==
  ASSUME CountersInv, GatherInv, NEW r \in Requests, NEW code, VideoFailure(r, code)
  PROVE  GatherInv'
  <1> DEFINE resp == Error("video", code)
  <1>1. resp.cause # "ok"
    BY DEF Error
  <1>2. /\ pc' = [pc EXCEPT ![r] = "done"] /\ response' = [response EXCEPT ![r] = resp]
        /\ UNCHANGED <<req, offset, videosToRank, videoInfos>>
    BY DEF VideoFailure, Return
  <1> HIDE DEF resp
  <1> QED
    BY <1>1, <1>2, GatherReturn

\* A handler that falls back forgets what it has gathered.
LEMMA GatherFallback ==
  ASSUME CountersInv, GatherInv, NEW r \in Requests, NEW code, Fallback(r, code), pc[r] = "video"
  PROVE  GatherInv'
  <1>1. /\ videoInfos' = [videoInfos EXCEPT ![r] = topVideos]
        /\ UNCHANGED <<req, offset, videosToRank>>
    BY DEF Fallback
  <1>2. CASE Return(r, Error("nocache", code))
    <2> DEFINE resp == Error("nocache", code)
    <2>1. resp.cause # "ok"
      BY DEF Error
    <2>2. pc' = [pc EXCEPT ![r] = "done"] /\ response' = [response EXCEPT ![r] = resp]
      BY <1>2 DEF Return
    <2>3. \E new : videoInfos' = [videoInfos EXCEPT ![r] = new]
      BY <1>1
    <2> HIDE DEF resp
    <2> QED
      BY <1>1, <2>1, <2>2, <2>3, GatherReturn
  <1>3. CASE pc' = [pc EXCEPT ![r] = "ranking"] /\ UNCHANGED response
    <2>1. pc'[r] = "ranking" /\ response[r].cause = "none"
      BY <1>3 DEF CountersInv, ControlTypeOK, Phases
    <2>2. req[r].Limit \in Nat
      BY DEF GatherInv, Gathered
    <2>3. Gathered(pc'[r], req'[r], offset'[r], videosToRank'[r], videoInfos'[r], response'[r])
      BY <1>1, <1>3, <2>1, <2>2 DEF Gathered
    <2>4. \A q \in Requests \ {r} : pc'[q] = pc[q] /\ videoInfos'[q] = videoInfos[q]
      BY <1>1, <1>3 DEF CountersInv, ControlTypeOK, GatherInv
    <2>5. videoInfos' = [q \in Requests |-> videoInfos'[q]]
      BY <1>1 DEF GatherInv
    <2>6. OnlyHandler(r)
      BY <1>1, <1>3, <2>4, <2>5 DEF OnlyHandler, GatherInv
    <2> QED
      BY <2>3, <2>6, OneHandler
  <1> QED
    BY <1>2, <1>3 DEF Fallback

\* A call that hangs and a retry keep GatherInv.
LEMMA GatherHangRetry ==
  ASSUME GatherInv, NEW r \in Requests, NEW code, NEW allowed, Hang(r, code) \/ Retry(r, code, allowed)
  PROVE  GatherInv'
  <1>1. UNCHANGED <<pc, req, offset, videosToRank, videoInfos, response>>
    BY DEF Hang, Retry
  <1> QED
    BY <1>1, GatherQuiet

-----------------------------------------------------------------------------
\* A known user: with nobody's videos gathered, the list is empty.
LEMMA GatherQueryUser ==
  ASSUME CountersInv, GatherInv, NEW r \in Requests, QueryUser(r)
  PROVE  GatherInv'
  <1>0. pc[r] = "user"
    BY DEF QueryUser, AtCall
  <1> DEFINE userIds == <<req[r].UserId>>
  <1>1. PICK code \in CallOutcomes(r, GetUser(userFi, userIds)) :
          \/ Hang(r, code)
          \/ Retry(r, code, RetryInitial)
          \/ GivesUp(r, code, RetryInitial) /\ UserFailure(r, "user", code)
          \/ /\ code = "OK"
             /\ pc' = [pc EXCEPT ![r] = "subscribed"]
             /\ NextCall(r)
             /\ UNCHANGED <<stats, pools, topVideos, req, ctxDone, userClient,
                            offset, videosToRank, videoInfos, isStaleResponse,
                            response, refresh, fis>>
    BY Zenon DEF QueryUser
  <1>2. CASE Hang(r, code) \/ Retry(r, code, RetryInitial)
    BY <1>2, GatherHangRetry
  <1>3. CASE UserFailure(r, "user", code)
    BY <1>3, GatherUserFailure
  <1>4. CASE /\ code = "OK" /\ pc' = [pc EXCEPT ![r] = "subscribed"]
             /\ UNCHANGED <<req, offset, videosToRank, videoInfos, response>>
    <2>1. "OK" \in GetUser(userFi, userIds)
      BY <1>4, OutcomesOf
    <2>2. ToSet(userIds) \subseteq Users
      BY <2>1, AnswersOf DEF GetUser
    <2>3. req[r].UserId \in Users
      BY <2>2 DEF ToSet
    <2>4. /\ offset[r] = 0 /\ videosToRank[r] = <<>> /\ videoInfos[r] = <<>>
          /\ req[r].Limit \in Nat
      BY <1>0 DEF GatherInv, Gathered
    <2>5. ToSet(<<>>) = {} /\ LikedUpTo(req[r].UserId, 0) = {}
      <3>1. {k \in DOMAIN SubscribedTo[req[r].UserId] : k <= 0} = {}
        BY <2>3, BackendsAssumption
      <3> QED
        BY <3>1 DEF ToSet, LikedUpTo
    <2>6. pc'[r] = "subscribed" /\ response[r].cause = "none"
      BY <1>0, <1>4 DEF CountersInv, ControlTypeOK, Phases
    <2>7. <<>> \in Seq(Videos)
      OBVIOUS
    <2>8. Gathered(pc'[r], req'[r], offset'[r], videosToRank'[r], videoInfos'[r], response'[r])
      BY <1>4, <2>3, <2>4, <2>5, <2>6, <2>7 DEF Gathered
    <2>9. \A q \in Requests \ {r} : pc'[q] = pc[q]
      BY <1>4 DEF CountersInv, ControlTypeOK
    <2>10. OnlyHandler(r)
      BY <1>4, <2>9 DEF OnlyHandler, GatherInv
    <2> QED
      BY <2>8, <2>10, OneHandler
  <1> QED
    BY <1>1, <1>2, <1>3, <1>4

\* The users of a batch are the next ones, so that their videos are those that the
\* larger offset adds.
LEMMA LikedBatch ==
  ASSUME NEW u \in Users, NEW o \in Nat, o < Len(SubscribedTo[u])
  PROVE  LET userIds == Batch(SubscribedTo[u], o) IN
         /\ userIds \in Seq(Users)
         /\ LikedUpTo(u, o + MaxBatchSize) = LikedUpTo(u, o) \cup ToSet(LikedBy(userIds))
  <1> DEFINE subs == SubscribedTo[u]
             b == Batch(subs, o)
             m == o + MaxBatchSize
             liked(i) == ToSet(LikedVideos[subs[i]])
             before == {k \in DOMAIN subs : k <= o}
             upto == {k \in DOMAIN subs : k <= m}
  <1>1. subs \in Seq(Users) /\ DOMAIN subs = 1..Len(subs) /\ Len(subs) \in Nat /\ o < Len(subs)
    BY BackendsAssumption
  <1> HIDE DEF subs
  <1>0. MaxBatchSize \in Nat /\ MaxBatchSize >= 1
    BY OptionsAssumption
  <1>2. /\ b \in Seq(Users)
        /\ Len(b) = IF o + MaxBatchSize > Len(subs) THEN Len(subs) - o ELSE MaxBatchSize
        /\ \A k \in 1..Len(b) : b[k] = subs[o + k]
    BY <1>1, BatchIsPart, Zenon
  <1>10. /\ Len(b) \in Nat /\ Len(b) <= MaxBatchSize /\ o + Len(b) <= Len(subs)
         /\ \A i \in 1..Len(subs) : i <= o + MaxBatchSize => i <= o + Len(b)
    <2>1. Len(b) = IF o + MaxBatchSize > Len(subs) THEN Len(subs) - o ELSE MaxBatchSize
      BY <1>2
    <2> HIDE DEF b
    <2>2. CASE o + MaxBatchSize > Len(subs)
      BY <1>0, <1>1, <2>1, <2>2
    <2>3. CASE ~(o + MaxBatchSize > Len(subs))
      BY <1>0, <1>1, <2>1, <2>3
    <2> QED
      BY <2>2, <2>3
  <1> HIDE DEF b, liked
  <1>3. ToSet(LikedBy(b)) = UNION {ToSet(LikedVideos[b[k]]) : k \in 1..Len(b)}
    BY <1>2, LikedByHolds
  <1>4. ASSUME NEW k \in 1..Len(b) PROVE o + k \in upto /\ ToSet(LikedVideos[b[k]]) = liked(o + k)
    <2>1. o + k \in DOMAIN subs /\ o + k <= m
      BY <1>0, <1>1, <1>10
    <2>2. b[k] = subs[o + k]
      BY <1>2
    <2> QED
      BY <2>1, <2>2 DEF liked
  <1>5. ASSUME NEW i \in upto, i \notin before
        PROVE  i - o \in 1..Len(b) /\ ToSet(LikedVideos[b[i - o]]) = liked(i)
    <2>0. i \in 1..Len(subs) /\ i <= m /\ ~(i <= o)
      BY <1>1, <1>5
    <2>1. i - o \in 1..Len(b) /\ o + (i - o) = i
      BY <1>0, <1>1, <1>10, <2>0
    <2>2. b[i - o] = subs[i]
      BY <1>2, <2>1
    <2> QED
      BY <2>1, <2>2 DEF liked
  <1>6. before \subseteq upto
    BY <1>0, <1>1
  <1> HIDE DEF before, upto, m
  <1>7. UNION {liked(i) : i \in upto}
          = (UNION {liked(i) : i \in before}) \cup (UNION {ToSet(LikedVideos[b[k]]) : k \in 1..Len(b)})
    <2>1. ASSUME NEW x, NEW i \in upto, x \in liked(i)
          PROVE  x \in (UNION {liked(j) : j \in before}) \cup (UNION {ToSet(LikedVideos[b[k]]) : k \in 1..Len(b)})
      <3>1. CASE i \in before
        BY <2>1, <3>1
      <3>2. CASE i \notin before
        <4>1. i - o \in 1..Len(b) /\ x \in ToSet(LikedVideos[b[i - o]])
          BY <1>5, <2>1, <3>2
        <4> QED
          BY <4>1
      <3> QED
        BY <3>1, <3>2
    <2>2. ASSUME NEW x, NEW i \in before, x \in liked(i)
          PROVE  x \in UNION {liked(j) : j \in upto}
      BY <1>6, <2>2
    <2>3. ASSUME NEW x, NEW k \in 1..Len(b), x \in ToSet(LikedVideos[b[k]])
          PROVE  x \in UNION {liked(j) : j \in upto}
      BY <1>4, <2>3
    <2> QED
      BY <2>1, <2>2, <2>3
  <1>8. LikedUpTo(u, m) = UNION {liked(i) : i \in upto} /\ LikedUpTo(u, o) = UNION {liked(i) : i \in before}
    BY DEF LikedUpTo, liked, before, upto, subs, m
  <1>9. b \in Seq(Users) /\ LikedUpTo(u, m) = LikedUpTo(u, o) \cup ToSet(LikedBy(b))
    BY <1>2, <1>3, <1>7, <1>8
  <1> QED
    BY <1>9, Zenon DEF b, subs, m

\* QuerySubscribed keeps GatherInv.
LEMMA GatherQuerySubscribed ==
  ASSUME CountersInv, GatherInv, NEW r \in Requests, QuerySubscribed(r)
  PROVE  GatherInv'
  <1>0. pc[r] = "subscribed" /\ offset[r] < Len(subscribedTo(r))
    BY DEF QuerySubscribed, AtCall
  <1> DEFINE userIds == Batch(subscribedTo(r), offset[r])
             v == videosToRank[r] \o LikedBy(userIds)
             o == offset[r] + MaxBatchSize
  <1>1. PICK code \in CallOutcomes(r, GetUser(userFi, userIds)) :
          \/ Hang(r, code)
          \/ Retry(r, code, RetrySubscribed)
          \/ GivesUp(r, code, RetrySubscribed) /\ UserFailure(r, "subscribed", code)
          \/ /\ code = "OK"
             /\ videosToRank' = [videosToRank EXCEPT ![r] = @ \o LikedBy(userIds)]
             /\ offset' = [offset EXCEPT ![r] = @ + MaxBatchSize]
             /\ NextCall(r)
             /\ UNCHANGED <<stats, pools, topVideos, pc, req, ctxDone, userClient,
                            videoInfos, isStaleResponse, response, refresh, fis>>
    BY Zenon DEF QuerySubscribed
  <1>2. CASE Hang(r, code) \/ Retry(r, code, RetrySubscribed)
    BY <1>2, GatherHangRetry
  <1>3. CASE UserFailure(r, "subscribed", code)
    BY <1>3, GatherUserFailure
  <1>4. CASE /\ videosToRank' = [videosToRank EXCEPT ![r] = @ \o LikedBy(userIds)]
             /\ offset' = [offset EXCEPT ![r] = @ + MaxBatchSize]
             /\ UNCHANGED <<pc, req, videoInfos, response>>
    <2>1. /\ videosToRank = [q \in Requests |-> videosToRank[q]]
          /\ offset \in [Requests -> Nat]
      BY DEF GatherInv, CountersInv, ControlTypeOK
    <2>2. videosToRank'[r] = v /\ offset'[r] = o
      BY <1>4, <2>1
    <2>3. /\ req[r].UserId \in Users /\ videosToRank[r] \in Seq(Videos) /\ videoInfos[r] = <<>>
          /\ ToSet(videosToRank[r]) = LikedUpTo(req[r].UserId, offset[r])
          /\ req[r].Limit \in Nat
      BY <1>0 DEF GatherInv, Gathered
    <2>4. offset[r] \in Nat /\ offset[r] < Len(SubscribedTo[req[r].UserId])
      BY <1>0, <2>1 DEF subscribedTo
    <2>5. userIds \in Seq(Users) /\ LikedUpTo(req[r].UserId, o) = LikedUpTo(req[r].UserId, offset[r]) \cup ToSet(LikedBy(userIds))
      <3>1. userIds = Batch(SubscribedTo[req[r].UserId], offset[r])
        BY DEF subscribedTo
      <3> QED
        BY <2>3, <2>4, <3>1, LikedBatch, Zenon
    <2>6. LikedBy(userIds) \in Seq(Videos)
      <3> HIDE DEF userIds
      <3> QED
        BY <2>5, LikedByHolds
    <2>7. v \in Seq(Videos) /\ ToSet(v) = LikedUpTo(req[r].UserId, o)
      <3> HIDE DEF userIds
      <3>0. \A a, b \in Seq(Videos) : a \o b \in Seq(Videos) /\ ToSet(a \o b) = ToSet(a) \cup ToSet(b)
        BY ConcatHolds
      <3>1. v \in Seq(Videos) /\ ToSet(v) = ToSet(videosToRank[r]) \cup ToSet(LikedBy(userIds))
        BY <2>3, <2>6, <3>0, Zenon
      <3> QED
        BY <2>3, <2>5, <3>1, Zenon
    <2>8. response[r].cause = "none"
      BY <1>0 DEF CountersInv, Phases
    <2> HIDE DEF v, o, userIds
    <2>9. Gathered(pc'[r], req'[r], offset'[r], videosToRank'[r], videoInfos'[r], response'[r])
      BY <1>0, <1>4, <2>2, <2>3, <2>7, <2>8 DEF Gathered
    <2>10. \A q \in Requests \ {r} : videosToRank'[q] = videosToRank[q] /\ offset'[q] = offset[q]
      BY <1>4, <2>1
    <2>11. videosToRank' = [q \in Requests |-> videosToRank'[q]]
      BY <1>4, <2>1
    <2>12. OnlyHandler(r)
      BY <1>4, <2>10, <2>11 DEF OnlyHandler, GatherInv
    <2> QED
      BY <2>9, <2>12, OneHandler
  <1> QED
    BY <1>1, <1>2, <1>3, <1>4

\* With all users queried, the list holds all candidates; deduplicated, each once.
LEMMA GatherStartVideos ==
  ASSUME CountersInv, GatherInv, NEW r \in Requests, StartVideos(r)
  PROVE  GatherInv'
  <1> DEFINE u == req[r].UserId
             v == deduplicateIds(videosToRank[r])
  <1>1. /\ pc[r] = "subscribed" /\ offset[r] >= Len(SubscribedTo[u])
        /\ videosToRank' = [videosToRank EXCEPT ![r] = deduplicateIds(@)]
        /\ offset' = [offset EXCEPT ![r] = 0] /\ pc' = [pc EXCEPT ![r] = "video"]
        /\ UNCHANGED <<req, videoInfos, response>>
    BY DEF StartVideos, subscribedTo
  <1>2. /\ videosToRank = [q \in Requests |-> videosToRank[q]]
        /\ offset \in [Requests -> Nat] /\ pc \in [Requests -> InHandler \cup {"idle", "done"}]
    BY DEF GatherInv, CountersInv, ControlTypeOK
  <1>3. /\ u \in Users /\ videosToRank[r] \in Seq(Videos) /\ videoInfos[r] = <<>>
        /\ ToSet(videosToRank[r]) = LikedUpTo(u, offset[r]) /\ req[r].Limit \in Nat
    BY <1>1 DEF GatherInv, Gathered
  <1>4. LikedUpTo(u, offset[r]) = CandidateVideos(u)
    <2>1. DOMAIN SubscribedTo[u] = 1..Len(SubscribedTo[u]) /\ Len(SubscribedTo[u]) \in Nat
      BY <1>3, BackendsAssumption
    <2>2. {k \in DOMAIN SubscribedTo[u] : k <= offset[r]} = DOMAIN SubscribedTo[u]
      BY <1>1, <1>2, <2>1
    <2>3. LikedUpTo(u, offset[r]) = UNION {ToSet(LikedVideos[SubscribedTo[u][i]]) : i \in DOMAIN SubscribedTo[u]}
      BY <2>2 DEF LikedUpTo
    <2> HIDE DEF u
    <2> QED
      BY <2>3 DEF CandidateVideos, ToSet
  <1>5. v \in Seq(Videos) /\ IsInjective(v) /\ ToSet(v) = CandidateVideos(u)
    BY <1>3, <1>4, DeduplicatedHolds, Zenon
  <1>6. pc'[r] = "video" /\ offset'[r] = 0 /\ videosToRank'[r] = v
    BY <1>1, <1>2
  <1>7. Fetched(v, 0, <<>>)
    BY <1>5 DEF Fetched
  <1>8. response[r].cause = "none"
    BY <1>1 DEF CountersInv, Phases
  <1> HIDE DEF v
  <1>9. Gathered(pc'[r], req'[r], offset'[r], videosToRank'[r], videoInfos'[r], response'[r])
    BY <1>1, <1>3, <1>5, <1>6, <1>7, <1>8 DEF Gathered
  <1>10. \A q \in Requests \ {r} :
           videosToRank'[q] = videosToRank[q] /\ offset'[q] = offset[q] /\ pc'[q] = pc[q]
    BY <1>1, <1>2
  <1>11. videosToRank' = [q \in Requests |-> videosToRank'[q]]
    BY <1>1, <1>2
  <1>12. OnlyHandler(r)
    BY <1>1, <1>10, <1>11 DEF OnlyHandler, GatherInv
  <1> QED
    BY <1>9, <1>12, OneHandler

\* A batch of videos is the next part of the list.
LEMMA FetchedBatch ==
  ASSUME NEW ids \in Seq(Videos), NEW o \in Nat, o < Len(ids), NEW got, Fetched(ids, o, got)
  PROVE  Fetched(ids, o + MaxBatchSize, got \o Batch(ids, o))
  <1> DEFINE b == Batch(ids, o)
             all == got \o b
  <1>0. MaxBatchSize \in Nat /\ MaxBatchSize >= 1 /\ Len(ids) \in Nat
    BY OptionsAssumption
  <1>1. got \in Seq(Videos) /\ Len(got) = o /\ \A i \in 1..o : got[i] = ids[i]
    BY DEF Fetched
  <1>2. /\ b \in Seq(Videos)
        /\ Len(b) = IF o + MaxBatchSize > Len(ids) THEN Len(ids) - o ELSE MaxBatchSize
        /\ \A k \in 1..Len(b) : b[k] = ids[o + k]
    BY BatchIsPart, Zenon
  <1> HIDE DEF b
  <1>3. /\ all \in Seq(Videos) /\ Len(all) = o + Len(b) /\ Len(b) \in Nat
        /\ \A i \in 1..o : all[i] = got[i]
        /\ \A i \in 1..Len(b) : all[o + i] = b[i]
    <2>1. got \in Seq(Videos) /\ b \in Seq(Videos) /\ Len(got) = o
      BY <1>1, <1>2
    <2> QED
      BY <2>1
  <1> HIDE DEF all
  <1>4. ASSUME NEW i \in 1..Len(all) PROVE all[i] = ids[i]
    <2>1. CASE i \in 1..o
      BY <1>1, <1>3, <2>1
    <2>2. CASE i \notin 1..o
      <3>1. i - o \in 1..Len(b) /\ o + (i - o) = i
        BY <1>3, <2>2
      <3> QED
        BY <1>2, <1>3, <3>1
    <2> QED
      BY <2>1, <2>2
  <1>5. Len(all) = IF o + MaxBatchSize < Len(ids) THEN o + MaxBatchSize ELSE Len(ids)
    <2>1. Len(b) = IF o + MaxBatchSize > Len(ids) THEN Len(ids) - o ELSE MaxBatchSize
      BY <1>2
    <2>2. Len(all) = o + Len(b)
      BY <1>3
    <2>3. CASE o + MaxBatchSize > Len(ids)
      BY <1>0, <2>1, <2>2, <2>3
    <2>4. CASE ~(o + MaxBatchSize > Len(ids))
      BY <1>0, <2>1, <2>2, <2>4
    <2> QED
      BY <2>3, <2>4
  <1>6. Fetched(ids, o + MaxBatchSize, all)
    BY <1>3, <1>4, <1>5 DEF Fetched
  <1> QED
    BY <1>6 DEF all, b

\* QueryVideos keeps GatherInv.
LEMMA GatherQueryVideos ==
  ASSUME CountersInv, GatherInv, NEW r \in Requests, QueryVideos(r)
  PROVE  GatherInv'
  <1>0. pc[r] = "video" /\ offset[r] < Len(videosToRank[r])
    BY DEF QueryVideos, AtCall
  <1> DEFINE videoIds == Batch(videosToRank[r], offset[r])
             g == videoInfos[r] \o videoIds
             o == offset[r] + MaxBatchSize
  <1>1. PICK code \in CallOutcomes(r, GetVideo(videoFi, videoIds)) :
          \/ Hang(r, code)
          \/ Retry(r, code, RetryVideo)
          \/ GivesUp(r, code, RetryVideo) /\ VideoFailure(r, code)
          \/ GivesUp(r, code, RetryVideo) /\ Fallback(r, code)
          \/ /\ code = "OK"
             /\ videoInfos' = [videoInfos EXCEPT ![r] = @ \o videoIds]
             /\ offset' = [offset EXCEPT ![r] = @ + MaxBatchSize]
             /\ NextCall(r)
             /\ UNCHANGED <<stats, pools, topVideos, pc, req, ctxDone, userClient,
                            videosToRank, isStaleResponse, response, refresh, fis>>
    BY Zenon DEF QueryVideos
  <1>2. CASE Hang(r, code) \/ Retry(r, code, RetryVideo)
    BY <1>2, GatherHangRetry
  <1>3. CASE VideoFailure(r, code)
    BY <1>3, GatherVideoFailure
  <1>4. CASE Fallback(r, code)
    BY <1>0, <1>4, GatherFallback
  <1>5. CASE /\ videoInfos' = [videoInfos EXCEPT ![r] = @ \o videoIds]
             /\ offset' = [offset EXCEPT ![r] = @ + MaxBatchSize]
             /\ UNCHANGED <<pc, req, videosToRank, response>>
    <2>1. /\ videoInfos = [q \in Requests |-> videoInfos[q]]
          /\ offset \in [Requests -> Nat]
      BY DEF GatherInv, CountersInv, ControlTypeOK
    <2>2. videoInfos'[r] = g /\ offset'[r] = o
      BY <1>5, <2>1
    <2>3. /\ req[r].UserId \in Users /\ videosToRank[r] \in Seq(Videos)
          /\ IsInjective(videosToRank[r]) /\ ToSet(videosToRank[r]) = CandidateVideos(req[r].UserId)
          /\ Fetched(videosToRank[r], offset[r], videoInfos[r]) /\ req[r].Limit \in Nat
      BY <1>0 DEF GatherInv, Gathered
    <2>4. Fetched(videosToRank[r], o, g)
      BY <1>0, <2>1, <2>3, FetchedBatch
    <2>5. response[r].cause = "none"
      BY <1>0 DEF CountersInv, Phases
    <2> HIDE DEF g, o, videoIds
    <2>6. Gathered(pc'[r], req'[r], offset'[r], videosToRank'[r], videoInfos'[r], response'[r])
      BY <1>0, <1>5, <2>2, <2>3, <2>4, <2>5 DEF Gathered
    <2>7. \A q \in Requests \ {r} : videoInfos'[q] = videoInfos[q] /\ offset'[q] = offset[q]
      BY <1>5, <2>1
    <2>8. videoInfos' = [q \in Requests |-> videoInfos'[q]]
      BY <1>5, <2>1
    <2>9. OnlyHandler(r)
      BY <1>5, <2>7, <2>8 DEF OnlyHandler, GatherInv
    <2> QED
      BY <2>6, <2>9, OneHandler
  <1> QED
    BY <1>1, <1>2, <1>3, <1>4, <1>5

\* Sorting rearranges; what it gives is in descending rank.
LEMMA SortRearranges ==
  ASSUME NEW S, NEW videos \in Seq(S), IsInjective(videos), NEW rank, NEW s \in SortedByRank(videos, rank)
  PROVE  /\ s \in Seq(S) /\ IsInjective(s) /\ ToSet(s) = ToSet(videos) /\ Len(s) = Len(videos)
         /\ IsDescending(s, rank)
  <1> DEFINE D == DOMAIN videos
  <1>1. D = 1..Len(videos) /\ Len(videos) \in Nat
    OBVIOUS
  <1>2. PICK p \in Bijection(D, D) : s = [k \in D |-> videos[p[k]]]
    BY DEF SortedByRank
  <1>3. IsDescending(s, rank)
    BY DEF SortedByRank
  <1>4. p \in [D -> D] /\ (\A i, k \in D : p[i] = p[k] => i = k) /\ \A k \in D : \E i \in D : p[i] = k
    BY <1>2 DEF Bijection, Injection, Surjection, IsInjective
  <1>5. s \in Seq(S) /\ Len(s) = Len(videos) /\ DOMAIN s = D
    BY <1>1, <1>2, <1>4
  <1>6. \A k \in D : s[k] = videos[p[k]]
    BY <1>2
  <1> HIDE DEF D
  <1>7. IsInjective(s)
    BY <1>4, <1>5, <1>6 DEF IsInjective, D
  <1>8. ASSUME NEW k \in D PROVE \E i \in D : s[i] = videos[k]
    BY <1>4, <1>6
  <1>9. ToSet(s) = ToSet(videos)
    <2>1. ToSet(s) = {s[i] : i \in D} /\ ToSet(videos) = {videos[i] : i \in D}
      BY <1>5 DEF ToSet, D
    <2>2. \A i \in D : s[i] \in {videos[k] : k \in D}
      BY <1>4, <1>6
    <2>3. \A k \in D : videos[k] \in {s[i] : i \in D}
      BY <1>8
    <2> QED
      BY <2>1, <2>2, <2>3
  <1> QED
    BY <1>3, <1>5, <1>7, <1>9

\* The first limit of a list in descending rank are the best ones.
LEMMA TruncatedExact ==
  ASSUME NEW request, request.Limit \in Nat, NEW s \in Seq(Videos), IsInjective(s),
         ToSet(s) = CandidateVideos(request.UserId), IsDescending(s, Score[request.UserId])
  PROVE  Exact(request, Truncate(s, request.Limit))
  <1> DEFINE limit == request.Limit
             rank == Score[request.UserId]
             all == CandidateVideos(request.UserId)
             t == Truncate(s, limit)
             n == Len(t)
  <1>1. Cardinality(all) = Len(s) /\ Len(s) \in Nat /\ DOMAIN s = 1..Len(s)
    BY DistinctCount
  <1>2. /\ t \in Seq(Videos) /\ DOMAIN t = 1..n /\ n \in 0..Len(s) /\ \A i \in 1..n : t[i] = s[i]
        /\ n = IF limit # 0 /\ limit < Len(s) THEN limit ELSE Len(s)
    <2>1. CASE limit # 0 /\ limit < Len(s)
      <3>1. t = SubSeq(s, 1, limit) /\ limit \in 1..Len(s)
        BY <1>1, <2>1 DEF Truncate
      <3> HIDE DEF limit, t
      <3>2. SubSeq(s, 1, limit) \in Seq(Videos) /\ Len(SubSeq(s, 1, limit)) = limit
            /\ \A i \in 1..limit : SubSeq(s, 1, limit)[i] = s[i]
        BY <1>1, <3>1
      <3> QED
        BY <1>1, <2>1, <3>1, <3>2
    <2>2. CASE ~(limit # 0 /\ limit < Len(s))
      <3>1. t = s
        BY <2>2 DEF Truncate
      <3> HIDE DEF t, limit
      <3> QED
        BY <1>1, <2>2, <3>1
    <2> QED
      BY <2>1, <2>2
  <1>3. limit \in Nat
    OBVIOUS
  <1> HIDE DEF limit, rank, t, n
  <1>4. 1..n \subseteq 1..Len(s)
    BY <1>1, <1>2
  <1>5. IsInjective(t)
    BY <1>1, <1>2, <1>4 DEF IsInjective
  <1>6. ToSet(t) = {s[i] : i \in 1..n}
    BY <1>2 DEF ToSet
  <1>7. all = {s[i] : i \in 1..Len(s)}
    BY <1>1 DEF ToSet
  <1>8. ToSet(t) \subseteq all
    BY <1>4, <1>6, <1>7
  <1>9. n = IF limit = 0 \/ limit > Cardinality(all) THEN Cardinality(all) ELSE limit
    BY <1>1, <1>2, <1>3
  <1>10. \A i, k \in 1..Len(s) : i < k => rank[s[i]] >= rank[s[k]]
    BY <1>1 DEF IsDescending, rank
  <1>11. IsDescending(t, rank)
    BY <1>2, <1>4, <1>10 DEF IsDescending
  <1>12. ASSUME NEW kept \in ToSet(t), NEW cut \in all \ ToSet(t) PROVE rank[kept] >= rank[cut]
    <2>1. PICK i \in 1..n : kept = s[i]
      BY <1>6
    <2>2. PICK k \in 1..Len(s) : cut = s[k]
      BY <1>7
    <2>3. k \notin 1..n
      BY <1>6, <2>2
    <2>4. i < k /\ i \in 1..Len(s)
      BY <1>1, <1>2, <2>3
    <2> QED
      BY <1>10, <2>1, <2>2, <2>4
  <1> QED
    BY <1>5, <1>8, <1>9, <1>11, <1>12 DEF Exact, limit, rank, t, n

\* A fresh response is made from all that was fetched.
LEMMA GatherRank ==
  ASSUME CountersInv, GatherInv, NEW r \in Requests, RankAndReturn(r)
  PROVE  GatherInv'
  <1>1. /\ pc[r] = "video" /\ offset[r] >= Len(videosToRank[r])
        /\ UNCHANGED <<req, offset, videosToRank, videoInfos>>
    BY DEF RankAndReturn
  <1>2. PICK sorted \in SortedByRank(videoInfos[r], Score[req[r].UserId]) :
          Return(r, Success(FALSE, Truncate(sorted, req[r].Limit)))
    BY DEF RankAndReturn
  <1> DEFINE got == videoInfos[r]
             ids == videosToRank[r]
             resp == Success(FALSE, Truncate(sorted, req[r].Limit))
  <1>3. /\ req[r].UserId \in Users /\ ids \in Seq(Videos) /\ IsInjective(ids)
        /\ ToSet(ids) = CandidateVideos(req[r].UserId)
        /\ Fetched(ids, offset[r], got) /\ req[r].Limit \in Nat
    BY <1>1 DEF GatherInv, Gathered
  <1>4. offset[r] \in Nat
    BY DEF CountersInv, ControlTypeOK
  <1>5. got = ids /\ got \in Seq(Videos)
    <2>1. Len(ids) \in Nat /\ ~(offset[r] < Len(ids))
      BY <1>1, <1>3, <1>4
    <2>2. got \in Seq(Videos) /\ Len(got) = Len(ids) /\ \A i \in 1..Len(got) : got[i] = ids[i]
      BY <1>3, <2>1 DEF Fetched
    <2> HIDE DEF got, ids
    <2> QED
      BY <1>3, <2>2
  <1>6. /\ sorted \in Seq(Videos) /\ IsInjective(sorted) /\ ToSet(sorted) = CandidateVideos(req[r].UserId)
        /\ IsDescending(sorted, Score[req[r].UserId])
    <2>1. IsInjective(got) /\ ToSet(got) = CandidateVideos(req[r].UserId)
      BY <1>3, <1>5, Zenon
    <2>2. sorted \in SortedByRank(got, Score[req[r].UserId])
      OBVIOUS
    <2> HIDE DEF got, ids, resp
    <2>3. /\ sorted \in Seq(Videos) /\ IsInjective(sorted) /\ ToSet(sorted) = ToSet(got)
          /\ IsDescending(sorted, Score[req[r].UserId])
      BY <1>5, <2>1, <2>2, SortRearranges, Zenon
    <2> QED
      BY <2>1, <2>3, Zenon
  <1>7. Exact(req[r], Truncate(sorted, req[r].Limit))
    BY <1>3, <1>6, TruncatedExact
  <1>8. resp.videos = Truncate(sorted, req[r].Limit)
    BY DEF Success
  <1> HIDE DEF resp
  <1>9. pc' = [pc EXCEPT ![r] = "done"] /\ response' = [response EXCEPT ![r] = resp]
    BY <1>2 DEF Return, resp
  <1>10. pc'[r] = "done" /\ response'[r] = resp
         /\ \A q \in Requests \ {r} : pc'[q] = pc[q] /\ response'[q] = response[q]
    BY <1>9 DEF CountersInv, ControlTypeOK, Phases
  <1>11. Gathered(pc'[r], req'[r], offset'[r], videosToRank'[r], videoInfos'[r], response'[r])
    BY <1>1, <1>7, <1>8, <1>10 DEF Gathered
  <1>12. OnlyHandler(r)
    BY <1>1, <1>10 DEF OnlyHandler, GatherInv
  <1> QED
    BY <1>11, <1>12, OneHandler

\* RankCachedAndReturn keeps GatherInv.
LEMMA GatherRankCached ==
  ASSUME CountersInv, GatherInv, NEW r \in Requests, RankCachedAndReturn(r)
  PROVE  GatherInv'
  <1> DEFINE resp == Success(TRUE, <<>>)
  <1>1. resp.stale
    BY DEF Success
  <1>2. /\ pc' = [pc EXCEPT ![r] = "done"] /\ response' = [response EXCEPT ![r] = resp]
        /\ UNCHANGED <<req, offset, videosToRank, videoInfos>>
    BY DEF RankCachedAndReturn, Return
  <1> HIDE DEF resp
  <1> QED
    BY <1>1, <1>2, GatherReturn

\* Deadlines, refreshes and changes of the injected failures keep GatherInv.
LEMMA GatherEnvironment ==
  ASSUME GatherInv,
         \/ \E r \in Requests : Deadline(r)
         \/ RefreshStep
         \/ SetUserInjectionConfig \/ SetVideoInjectionConfig
         \/ UNCHANGED vars
  PROVE  GatherInv'
  <1>1. UNCHANGED <<pc, req, offset, videosToRank, videoInfos, response>>
    BY DEF Deadline, RefreshStep, RefreshTrending, RefreshInfos, RefreshWake,
           SetUserInjectionConfig, SetVideoInjectionConfig, vars, handler
  <1> QED
    BY <1>1, GatherQuiet

\* Every step keeps GatherInv.
LEMMA GatherNext == CountersInv /\ GatherInv /\ [Next]_vars => GatherInv'
  <1> SUFFICES ASSUME CountersInv, GatherInv, [Next]_vars PROVE GatherInv'
    OBVIOUS
  <1>1. ASSUME NEW r \in Requests, RejectRequest(r) \/ BeginRequest(r) \/ HandlerStep(r)
        PROVE  GatherInv'
    BY <1>1, GatherReject, GatherBegin, GatherQueryUser, GatherQuerySubscribed,
       GatherStartVideos, GatherQueryVideos, GatherRank, GatherRankCached DEF HandlerStep
  <1> QED
    BY <1>1, GatherEnvironment DEF Next

\* What the handlers gather, in every reachable state.
THEOREM GatherInvariant == Spec => []GatherInv
  BY CountersInvariant, GatherInit, GatherNext, PTL DEF Spec

\* Every personalised response is exactly the best candidates in descending rank,
\* for every database, every batch size and every sequence of retries
\* (GetTopVideos, server_lib.go:192-305).
THEOREM FreshResponsesAreExact == Spec => []FreshResponsesExact
  <1>1. GatherInv => FreshResponsesExact
    BY DEF GatherInv, Gathered, Exact, FreshResponsesExact
  <1> QED
    BY <1>1, GatherInvariant, PTL

-----------------------------------------------------------------------------
(***************************************************************************)
(* No request is rejected by a backend, provided that the server's batches *)
(* are not larger than the backends take: nothing in the code enforces it, *)
(* but all three MaxBatchSize options are 50 by default.                   *)
(***************************************************************************)
BatchSizesAgree == MaxBatchSize <= UserServiceBatch /\ MaxBatchSize <= VideoServiceBatch

\* UserService accepts a batch of at most its own limit.
LEMMA UserBatchAccepted ==
  ASSUME NEW r, NEW userIds, Len(userIds) \in 1..UserServiceBatch,
         NEW code \in CallOutcomes(r, GetUser(userFi, userIds))
  PROVE  code # "InvalidArgument"
  <1> DEFINE answer == CASE Len(userIds) \notin 1..UserServiceBatch -> "InvalidArgument"
                         [] ~(ToSet(userIds) \subseteq Users) -> "NotFound"
                         [] OTHER -> "OK"
  <1>1. answer # "InvalidArgument"
    OBVIOUS
  <1>2. GetUser(userFi, userIds) = Answers(userFi, answer)
    BY DEF GetUser
  <1> HIDE DEF answer
  <1>3. \A a \in Answers(userFi, answer) : a = answer \/ a \in {"Hang", "Internal"}
    BY AnswersOf
  <1> QED
    BY <1>1, <1>2, <1>3, OutcomesOf

\* VideoService accepts a batch of at most its own limit that has no duplicates.
LEMMA VideoBatchAccepted ==
  ASSUME NEW r, NEW videoIds, Len(videoIds) \in 1..VideoServiceBatch, ~HasDuplicates(videoIds),
         NEW code \in CallOutcomes(r, GetVideo(videoFi, videoIds))
  PROVE  code # "InvalidArgument"
  <1> DEFINE answer == CASE Len(videoIds) \notin 1..VideoServiceBatch -> "InvalidArgument"
                         [] HasDuplicates(videoIds) -> "InvalidArgument"
                         [] ~(ToSet(videoIds) \subseteq Videos) -> "NotFound"
                         [] OTHER -> "OK"
  <1>1. answer # "InvalidArgument"
    OBVIOUS
  <1>2. GetVideo(videoFi, videoIds) = Answers(videoFi, answer)
    BY DEF GetVideo
  <1> HIDE DEF answer
  <1>3. \A a \in Answers(videoFi, answer) : a = answer \/ a \in {"Hang", "Internal"}
    BY AnswersOf
  <1> QED
    BY <1>1, <1>2, <1>3, OutcomesOf

\* A batch has the length its backend takes.
LEMMA BatchLength ==
  ASSUME NEW S, NEW ids \in Seq(S), NEW i \in Nat, i < Len(ids), NEW max \in Nat, MaxBatchSize <= max
  PROVE  Len(Batch(ids, i)) \in 1..max
  <1> DEFINE n == Len(Batch(ids, i))
  <1>1. n = IF i + MaxBatchSize > Len(ids) THEN Len(ids) - i ELSE MaxBatchSize
    BY BatchIsPart, Zenon
  <1>2. MaxBatchSize \in Nat \ {0} /\ Len(ids) \in Nat
    BY OptionsAssumption
  <1> HIDE DEF n
  <1>3. n \in 1..max
    <2>1. CASE i + MaxBatchSize > Len(ids)
      BY <1>1, <1>2, <2>1
    <2>2. CASE ~(i + MaxBatchSize > Len(ids))
      BY <1>1, <1>2, <2>2
    <2> QED
      BY <2>1, <2>2
  <1> QED
    BY <1>3 DEF n

\* Part of a list without duplicates has none.
LEMMA BatchDistinct ==
  ASSUME NEW S, NEW ids \in Seq(S), IsInjective(ids), NEW i \in Nat, i < Len(ids)
  PROVE  ~HasDuplicates(Batch(ids, i))
  <1> DEFINE b == Batch(ids, i)
  <1>1. /\ b \in Seq(S)
        /\ Len(b) = IF i + MaxBatchSize > Len(ids) THEN Len(ids) - i ELSE MaxBatchSize
        /\ \A k \in 1..Len(b) : b[k] = ids[i + k]
    BY BatchIsPart, Zenon
  <1> HIDE DEF b
  <1>2. Len(b) \in Nat /\ i + Len(b) <= Len(ids) /\ Len(ids) \in Nat /\ DOMAIN ids = 1..Len(ids)
    <2>1. Len(b) = IF i + MaxBatchSize > Len(ids) THEN Len(ids) - i ELSE MaxBatchSize
      BY <1>1
    <2>2. MaxBatchSize \in Nat \ {0} /\ Len(ids) \in Nat
      BY OptionsAssumption
    <2> QED
      BY <2>1, <2>2
  <1>3. ASSUME NEW k \in 1..Len(b), NEW m \in 1..Len(b), b[k] = b[m] PROVE k = m
    <2>1. i + k \in DOMAIN ids /\ i + m \in DOMAIN ids
      BY <1>2
    <2>2. ids[i + k] = ids[i + m]
      BY <1>1, <1>3
    <2>3. i + k = i + m
      BY <2>1, <2>2 DEF IsInjective
    <2> QED
      BY <2>3
  <1>4. IsInjective(b)
    BY <1>1, <1>3 DEF IsInjective
  <1> QED
    BY <1>1, <1>4, NoDuplicates DEF b

\* A return with another code keeps the property.
LEMMA OtherCode ==
  ASSUME CountersInv, NeverRejectedByBackend, NEW r \in Requests, NEW resp,
         response' = [response EXCEPT ![r] = resp], resp.code = "InvalidArgument" => resp.cause = "limit"
  PROVE  NeverRejectedByBackend'
  BY DEF CountersInv, Phases, NeverRejectedByBackend

\* No step makes a backend reject a request.
LEMMA NeverRejectedStep ==
  ASSUME BatchSizesAgree, CountersInv, GatherInv, NeverRejectedByBackend, [Next]_vars
  PROVE  NeverRejectedByBackend'
  <1>0. /\ MaxBatchSize \in Nat \ {0} /\ UserServiceBatch \in Nat /\ VideoServiceBatch \in Nat
        /\ MaxBatchSize <= UserServiceBatch /\ MaxBatchSize <= VideoServiceBatch
    BY OptionsAssumption, BackendsAssumption DEF BatchSizesAgree
  <1>1. CASE UNCHANGED response
    BY <1>1 DEF NeverRejectedByBackend
  <1>2. ASSUME NEW r \in Requests, RejectRequest(r) PROVE NeverRejectedByBackend'
    <2> DEFINE resp == Error("limit", "InvalidArgument")
    <2>1. resp.cause = "limit"
      BY DEF Error
    <2>2. response' = [response EXCEPT ![r] = resp]
      BY <1>2 DEF RejectRequest
    <2> HIDE DEF resp
    <2> QED
      BY <2>1, <2>2, OtherCode
  <1>3. ASSUME NEW r \in Requests, NEW cause, NEW code, code # "InvalidArgument",
               response' = [response EXCEPT ![r] = Error(cause, code)]
        PROVE  NeverRejectedByBackend'
    <2> DEFINE resp == Error(cause, code)
    <2>1. resp.code # "InvalidArgument"
      BY <1>3 DEF Error
    <2> HIDE DEF resp
    <2>2. response' = [response EXCEPT ![r] = resp]
      BY <1>3 DEF resp
    <2> QED
      BY <2>1, <2>2, OtherCode
  <1>4. ASSUME NEW r \in Requests, NEW stale, NEW videos,
               response' = [response EXCEPT ![r] = Success(stale, videos)]
        PROVE  NeverRejectedByBackend'
    <2> DEFINE resp == Success(stale, videos)
    <2>1. resp.code # "InvalidArgument"
      BY DEF Success
    <2> HIDE DEF resp
    <2>2. response' = [response EXCEPT ![r] = resp]
      BY <1>4 DEF resp
    <2> QED
      BY <2>1, <2>2, OtherCode
  <1>5. ASSUME NEW r \in Requests, QueryUser(r) PROVE NeverRejectedByBackend'
    <2> DEFINE userIds == <<req[r].UserId>>
    <2>1. PICK code \in CallOutcomes(r, GetUser(userFi, userIds)) :
            UNCHANGED response \/ UserFailure(r, "user", code)
      BY <1>5 DEF QueryUser, Hang, Retry
    <2>2. Len(userIds) \in 1..UserServiceBatch
      BY <1>0
    <2> HIDE DEF userIds
    <2>3. code # "InvalidArgument"
      BY <2>2, UserBatchAccepted
    <2> QED
      BY <1>1, <1>3, <2>1, <2>3 DEF UserFailure, Return
  <1>6. ASSUME NEW r \in Requests, QuerySubscribed(r) PROVE NeverRejectedByBackend'
    <2> DEFINE userIds == Batch(subscribedTo(r), offset[r])
    <2>1. PICK code \in CallOutcomes(r, GetUser(userFi, userIds)) :
            UNCHANGED response \/ UserFailure(r, "subscribed", code)
      BY <1>6 DEF QuerySubscribed, Hang, Retry
    <2>2. /\ subscribedTo(r) \in Seq(Users) /\ offset[r] \in Nat /\ offset[r] < Len(subscribedTo(r))
      <3>1. pc[r] = "subscribed" /\ offset[r] < Len(subscribedTo(r))
        BY <1>6 DEF QuerySubscribed, AtCall
      <3>2. req[r].UserId \in Users
        BY <3>1 DEF GatherInv, Gathered
      <3>3. subscribedTo(r) \in Seq(Users)
        BY <3>2, BackendsAssumption DEF subscribedTo
      <3>4. offset[r] \in Nat
        BY DEF CountersInv, ControlTypeOK
      <3> QED
        BY <3>1, <3>3, <3>4
    <2>3. Len(userIds) \in 1..UserServiceBatch
      BY <1>0, <2>2, BatchLength, Zenon
    <2> HIDE DEF userIds
    <2>4. code # "InvalidArgument"
      BY <2>3, UserBatchAccepted
    <2> QED
      BY <1>1, <1>3, <2>1, <2>4 DEF UserFailure, Return
  <1>7. ASSUME NEW r \in Requests, QueryVideos(r) PROVE NeverRejectedByBackend'
    <2> DEFINE videoIds == Batch(videosToRank[r], offset[r])
    <2>1. PICK code \in CallOutcomes(r, GetVideo(videoFi, videoIds)) :
            UNCHANGED response \/ VideoFailure(r, code) \/ Fallback(r, code)
      BY <1>7 DEF QueryVideos, Hang, Retry
    <2>2. /\ videosToRank[r] \in Seq(Videos) /\ IsInjective(videosToRank[r])
          /\ offset[r] \in Nat /\ offset[r] < Len(videosToRank[r])
      <3>1. pc[r] = "video" /\ offset[r] < Len(videosToRank[r])
        BY <1>7 DEF QueryVideos, AtCall
      <3>2. offset[r] \in Nat
        BY DEF CountersInv, ControlTypeOK
      <3> QED
        BY <3>1, <3>2 DEF GatherInv, Gathered
    <2>3. Len(videoIds) \in 1..VideoServiceBatch /\ ~HasDuplicates(videoIds)
      BY <1>0, <2>2, BatchLength, BatchDistinct, Zenon
    <2> HIDE DEF videoIds
    <2>4. code # "InvalidArgument"
      BY <2>3, VideoBatchAccepted
    <2>5. CASE VideoFailure(r, code)
      BY <1>3, <2>4, <2>5 DEF VideoFailure, Return
    <2>6. CASE Fallback(r, code)
      <3>1. UNCHANGED response \/ response' = [response EXCEPT ![r] = Error("nocache", code)]
        BY <2>6 DEF Fallback, Return
      <3> QED
        BY <1>1, <1>3, <2>4, <3>1
    <2> QED
      BY <1>1, <2>1, <2>5, <2>6
  <1>8. ASSUME NEW r \in Requests, RankAndReturn(r) \/ RankCachedAndReturn(r)
        PROVE  NeverRejectedByBackend'
    <2>1. \E stale, videos : response' = [response EXCEPT ![r] = Success(stale, videos)]
      BY <1>8 DEF RankAndReturn, RankCachedAndReturn, Return
    <2> QED
      BY <1>4, <2>1
  <1>9. ASSUME NEW r \in Requests, BeginRequest(r) \/ StartVideos(r) \/ Deadline(r)
        PROVE  NeverRejectedByBackend'
    BY <1>1, <1>9 DEF BeginRequest, StartVideos, Deadline
  <1>10. ASSUME \/ RefreshStep \/ SetUserInjectionConfig \/ SetVideoInjectionConfig
                \/ UNCHANGED vars
         PROVE  NeverRejectedByBackend'
    BY <1>1, <1>10 DEF RefreshStep, RefreshTrending, RefreshInfos, RefreshWake,
                       SetUserInjectionConfig, SetVideoInjectionConfig, vars, handler
  <1> QED
    BY <1>2, <1>5, <1>6, <1>7, <1>8, <1>9, <1>10 DEF Next, HandlerStep

\* With batches that the backends take, no request is ever rejected by one of them:
\* however the lists are split, deduplicated and retried, an InvalidArgument only
\* reaches a client that sent a negative limit (server_lib.go:161-167, 198-202, 230).
THEOREM BackendsNeverReject == BatchSizesAgree /\ Spec => []NeverRejectedByBackend
  <1>1. Init => NeverRejectedByBackend
    <2> SUFFICES ASSUME Init, NEW r \in Requests PROVE response[r].code # "InvalidArgument"
      BY DEF NeverRejectedByBackend
    <2>1. response[r] = NoResponse
      BY DEF Init
    <2> QED
      BY <2>1 DEF NoResponse
  <1>2. BatchSizesAgree /\ CountersInv /\ GatherInv /\ NeverRejectedByBackend /\ [Next]_vars
          => NeverRejectedByBackend'
    BY NeverRejectedStep
  <1>3. BatchSizesAgree => BatchSizesAgree'
    BY DEF BatchSizesAgree
  <1> QED
    BY <1>1, <1>2, <1>3, CountersInvariant, GatherInvariant, PTL DEF Spec
=============================================================================
