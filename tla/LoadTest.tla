------------------------------ MODULE LoadTest ------------------------------
(***************************************************************************)
(* The numbers a load test is judged by.  loadgen sends requests to        *)
(* VideoRecService, counts them in atomic counters and prints a report     *)
(* every second (reportStats); the server counts them too, and GetStats,   *)
(* which cmd/stats polls, returns a snapshot.  Each Add and each Load is a *)
(* step, so a report and a snapshot are of no single moment.  Of a request *)
(* only what the counters see is kept: which service failed, and whether   *)
(* the fallback had something to answer with.                              *)
(***************************************************************************)
EXTENDS Integers, Sequences, FiniteSets

CONSTANTS
  Conns,            \* connections of the load generator
  Requests,         \* requests it sends, at most
  UserIdOffset,     \* USER_ID_OFFSET
  MinUserCount,     \* MIN_USER_COUNT
  Elapsed,          \* times in milliseconds that a request may take
  MaxElapsed,       \* the longest of them
  Word              \* 2^64: counters wrap

ASSUME LoadTestAssumption ==
  /\ UserIdOffset \in Nat /\ MinUserCount \in Nat \ {0} 
  /\ MaxElapsed \in Nat /\ Elapsed \subseteq 0..MaxElapsed
  /\ IsFiniteSet(Requests)
  /\ Word \in Nat /\ Word > (1 + MaxElapsed) * Cardinality(Requests)

VARIABLES
  count,      \* every counter, by its name in the source
  userId,     \* the next user of each connection
  client,     \* what the goroutine of a request does next
  handler,    \* what the server's handler of the request does next
  reply,      \* the handler's answer: "error", "stale" or "fresh"
  outcome,    \* what the client saw of it
  reader,     \* who loads counters: "reportStats" or "GetStats"
  loaded,     \* the values it has loaded so far
  overtaken   \* whether a success was counted since its first load (history)

requestVars == <<userId, client, handler, reply, outcome>>
readerVars == <<reader, loaded>>
vars == <<count, requestVars, readerVars, overtaken>>

ClientCounters ==
  {"totalSent", "totalResponses", "totalSuccesses", "totalLatencyMs", "totalStale"}
ServerCounters ==
  {"totalRequests", "activeRequests", "totalErrors", "userServiceErrors",
   "videoServiceErrors", "totalTimeMs", "staleResponses"}

Users == UserIdOffset .. UserIdOffset + MinUserCount - 1

Init ==
  /\ count = [c \in ClientCounters \cup ServerCounters |-> 0]
  /\ userId = [k \in Conns |-> UserIdOffset]
  /\ client = [r \in Requests |-> "unborn"]
  /\ handler = [r \in Requests |-> "none"]
  /\ reply = [r \in Requests |-> "error"]
  /\ outcome = [r \in Requests |-> "error"]
  /\ reader \in {"reportStats", "GetStats"}
  /\ loaded = <<>> /\ overtaken = FALSE

\* atomic.AddUint64(&c, n)
Add(c, n) == count' = [count EXCEPT ![c] = (@ + n) % Word]

-----------------------------------------------------------------------------
(***************************************************************************)
(* The load generator: the loop of a connection, and sendRequest.          *)
(***************************************************************************)

ClientGoes(r, from, to) == client[r] = from /\ client' = [client EXCEPT ![r] = to]

getNextUserId(u) == ((u + 1) % MinUserCount) + UserIdOffset

\* The limiter lets a request pass: go sendRequest(client, userId), which first
\* counts it.
SendRequest(k, r) ==
  /\ ClientGoes(r, "unborn", "call")
  /\ Add("totalSent", 1)
  /\ userId' = [userId EXCEPT ![k] = getNextUserId(@)]
  /\ UNCHANGED <<handler, reply, outcome, readerVars, overtaken>>

\* client.GetTopVideos returns the handler's answer.
Answer(r) ==
  /\ handler[r] = "answered"
  /\ \/ reply[r] = "stale" /\ ClientGoes(r, "call", "stale")
     \/ reply[r] # "stale" /\ ClientGoes(r, "call", "responses")
  /\ outcome' = [outcome EXCEPT ![r] = reply[r]]
  /\ UNCHANGED <<count, userId, handler, reply, readerVars, overtaken>>

\* The call fails by itself, after 10 seconds at the latest; the handler may
\* still be running or yet to start.
Timeout(r) ==
  /\ ClientGoes(r, "call", "responses")
  /\ UNCHANGED <<count, userId, handler, reply, outcome, readerVars, overtaken>>

CountStaleSeen(r) ==
  /\ ClientGoes(r, "stale", "responses")
  /\ Add("totalStale", 1)
  /\ UNCHANGED <<userId, handler, reply, outcome, readerVars, overtaken>>

\* The deferred function, in its order.
CountResponse(r) ==
  /\ ClientGoes(r, "responses", "latency")
  /\ Add("totalResponses", 1)
  /\ UNCHANGED <<userId, handler, reply, outcome, readerVars, overtaken>>

CountLatency(r) ==
  /\ \/ outcome[r] = "error" /\ ClientGoes(r, "latency", "done")
     \/ outcome[r] # "error" /\ ClientGoes(r, "latency", "success")
  /\ \E ms \in Elapsed : Add("totalLatencyMs", ms)
  /\ UNCHANGED <<userId, handler, reply, outcome, readerVars, overtaken>>

CountSuccess(r) ==
  /\ ClientGoes(r, "success", "done")
  /\ Add("totalSuccesses", 1)
  /\ overtaken' = (loaded # <<>>)
  /\ UNCHANGED <<userId, handler, reply, outcome, readerVars>>

\* Mutant of ClientStep: a success is counted before the response.
ClientStepSuccessFirst(r) ==
  \/ Answer(r) \/ Timeout(r) \/ CountStaleSeen(r) \/ CountLatency(r)
  \/ outcome[r] = "error" /\ CountResponse(r)
  \/ /\ outcome[r] # "error"
     /\ \/ /\ ClientGoes(r, "responses", "latency")
           /\ Add("totalSuccesses", 1)
           /\ overtaken' = (loaded # <<>>)
        \/ /\ ClientGoes(r, "success", "done")
           /\ Add("totalResponses", 1)
           /\ UNCHANGED overtaken
     /\ UNCHANGED <<userId, handler, reply, outcome, readerVars>>

ClientStep(r) ==
  \/ Answer(r) \/ Timeout(r) \/ CountStaleSeen(r)
  \/ CountResponse(r) \/ CountLatency(r) \/ CountSuccess(r)

-----------------------------------------------------------------------------
(***************************************************************************)
(* The counters of GetTopVideos.  loadgen's limits are positive, so none   *)
(* of its requests is rejected.                                            *)
(***************************************************************************)

HandlerGoes(r, from, to) == handler[r] = from /\ handler' = [handler EXCEPT ![r] = to]

\* The request arrives, perhaps after its client has given up.
CountRequest(r) ==
  /\ client[r] # "unborn"
  /\ HandlerGoes(r, "none", "active")
  /\ Add("totalRequests", 1)
  /\ UNCHANGED <<userId, client, reply, outcome, readerVars, overtaken>>

CountActive(r) ==
  /\ HandlerGoes(r, "active", "query")
  /\ Add("activeRequests", 1)
  /\ UNCHANGED <<userId, client, reply, outcome, readerVars, overtaken>>

\* UserService or VideoService fails, with the retry.
CountError(r) ==
  /\ HandlerGoes(r, "query", "userError") \/ HandlerGoes(r, "query", "videoError")
  /\ Add("totalErrors", 1)
  /\ UNCHANGED <<userId, client, reply, outcome, readerVars, overtaken>>

CountUserError(r) ==
  /\ HandlerGoes(r, "userError", "elapsed")
  /\ Add("userServiceErrors", 1)
  /\ UNCHANGED <<userId, client, reply, outcome, readerVars, overtaken>>

\* Mutant of CountVideoError: an error that the fallback covers is not counted.
CountVideoErrorUncovered(r) ==
  /\ \/ HandlerGoes(r, "videoError", "elapsed") /\ Add("videoServiceErrors", 1)
     \/ HandlerGoes(r, "videoError", "stale") /\ UNCHANGED count
  /\ UNCHANGED <<userId, client, reply, outcome, readerVars, overtaken>>

\* With DisableFallback the error is the answer.
CountVideoError(r) ==
  /\ HandlerGoes(r, "videoError", "elapsed") \/ HandlerGoes(r, "videoError", "stale")
  /\ Add("videoServiceErrors", 1)
  /\ UNCHANGED <<userId, client, reply, outcome, readerVars, overtaken>>

\* The fallback has something to answer with, or not.
CountStale(r) ==
  /\ HandlerGoes(r, "stale", "elapsed")
  /\ Add("staleResponses", 1)
  /\ \E answer \in {"stale", "error"} : reply' = [reply EXCEPT ![r] = answer]
  /\ UNCHANGED <<userId, client, outcome, readerVars, overtaken>>

Succeed(r) ==
  /\ HandlerGoes(r, "query", "elapsed")
  /\ reply' = [reply EXCEPT ![r] = "fresh"]
  /\ UNCHANGED <<count, userId, client, outcome, readerVars, overtaken>>

\* The deferred calls, the last one first.
CountTime(r) ==
  /\ HandlerGoes(r, "elapsed", "inactive")
  /\ \E ms \in Elapsed : Add("totalTimeMs", ms)
  /\ UNCHANGED <<userId, client, reply, outcome, readerVars, overtaken>>

CountInactive(r) ==
  /\ HandlerGoes(r, "inactive", "answered")
  /\ Add("activeRequests", Word - 1)
  /\ UNCHANGED <<userId, client, reply, outcome, readerVars, overtaken>>

HandlerStep(r) ==
  \/ CountRequest(r) \/ CountActive(r) \/ CountError(r) \/ CountUserError(r)
  \/ CountVideoError(r) \/ CountStale(r) \/ Succeed(r) \/ CountTime(r) \/ CountInactive(r)

-----------------------------------------------------------------------------
(***************************************************************************)
(* The readers.                                                            *)
(***************************************************************************)

ReportLoads ==
  <<"totalResponses", "totalSuccesses", "totalLatencyMs", "totalStale", "totalSent">>

\* Mutant of StatsLoads: the active requests are loaded after the errors by service.
StatsLoadsActiveLate ==
  <<"totalRequests", "totalErrors", "userServiceErrors", "videoServiceErrors",
    "activeRequests", "totalTimeMs", "totalRequests", "staleResponses">>

StatsLoads ==
  <<"totalRequests", "totalErrors", "activeRequests", "userServiceErrors",
    "videoServiceErrors", "totalTimeMs", "totalRequests", "staleResponses">>

Loads == IF reader = "reportStats" THEN ReportLoads ELSE StatsLoads

LoadNext ==
  /\ Len(loaded) < Len(Loads)
  /\ loaded' = Append(loaded, count[Loads[Len(loaded) + 1]])
  /\ UNCHANGED <<count, requestVars, reader, overtaken>>

\* The report is printed, the snapshot returned.
Report ==
  /\ Len(loaded) = Len(Loads)
  /\ loaded' = <<>> /\ overtaken' = FALSE
  /\ UNCHANGED <<count, requestVars, reader>>

Next ==
  \/ LoadNext \/ Report
  \/ \E r \in Requests : ClientStep(r) \/ HandlerStep(r) \/ \E k \in Conns : SendRequest(k, r)

Spec == Init /\ [][Next]_vars

-----------------------------------------------------------------------------
\* The value of the counter c in a finished report; a counter loaded twice
\* (totalRequests) counts with its last load, the divisor of the average.
Finished(who) == reader = who /\ Len(loaded) = Len(Loads)
Loaded(c) ==
  loaded[CHOOSE i \in DOMAIN Loads : Loads[i] = c /\ \A j \in DOMAIN Loads : Loads[j] = c => j <= i]

\* When all is quiet each side's counters agree with what happened there: every
\* request sent has been counted as a response and the errors among them are those
\* the clients saw; no request is active, and every error of the server has its
\* service (loadgen.go:59-66, server_lib.go:180 and 252).  The two sides need not
\* be equal, as clients give up on requests that the server answers or that never
\* reach it, but the server has counted no request that was not sent, no fewer
\* fallbacks than clients saw, and no fewer requests that it can have answered
\* (without an error, or after an error by falling back) than clients got answers.
QuietCountsAgree ==
  (\A r \in Requests : client[r] \in {"unborn", "done"} /\ handler[r] \in {"none", "answered"})
    => /\ count["totalResponses"] = count["totalSent"]
       /\ count["totalResponses"] - count["totalSuccesses"]
            = Cardinality({r \in Requests : client[r] = "done" /\ outcome[r] = "error"})
       /\ count["totalStale"] = Cardinality({r \in Requests : outcome[r] = "stale"})
       /\ count["activeRequests"] = 0
       /\ count["totalErrors"] = count["userServiceErrors"] + count["videoServiceErrors"]
       /\ count["totalRequests"] <= count["totalSent"]
       /\ count["totalStale"] <= count["staleResponses"]
       /\ count["totalSuccesses"] <=
            count["totalRequests"] - count["totalErrors"] + count["staleResponses"]

\* What a report may be relied on for, whatever is counted while it is made.  The
\* unsigned difference total_errors wraps only when a success is counted between
\* its two loads, or during the rest of the report; otherwise it is at most
\* total_responses (loadgen.go:85-86).  Never are there more responses, or more
\* stale ones, than requests sent: total_sent is loaded last (loadgen.go:92).
ReportsConsistent ==
  Finished("reportStats") =>
    /\ ~overtaken =>
         (Loaded("totalResponses") - Loaded("totalSuccesses")) % Word <= Loaded("totalResponses")
    /\ Loaded("totalSent") >= Loaded("totalResponses") /\ Loaded("totalSent") >= Loaded("totalStale")

\* Every error in a snapshot is explained by it: it is in the count of one of the
\* services, or of a request still active, although the handlers and the loads
\* interleave (server_lib.go:314-317 and the order of the Adds, 180-181, 252-253).
\* AverageLatencyMs is never above the longest request, and is a number once a
\* request has finished: the time is loaded before the divisor (server_lib.go:318).
SnapshotsConsistent ==
  Finished("GetStats") =>
    /\ Loaded("totalErrors") <=
         Loaded("userServiceErrors") + Loaded("videoServiceErrors") + Loaded("activeRequests")
    /\ Loaded("totalTimeMs") <= MaxElapsed * Loaded("totalRequests")
=============================================================================
