--------------------------- MODULE LoadTestProofs ---------------------------
(***************************************************************************)
(* Proofs about the counters of a load test, for every set of requests and *)
(* connections: every counter is the size of a set of requests, so it      *)
(* never wraps; what a reader has loaded so far is related to what the     *)
(* counters have become since, although it loads them one by one. Then     *)
(* about the databases, for every seed and draw: their ids lead to         *)
(* records, and a rank does not depend on the order of the features.       *)
(***************************************************************************)
EXTENDS LoadedIds, LoopLemmas, FiniteSetTheorems, TLAPS

(***************************************************************************)
(* The requests that each counter has counted.                             *)
(***************************************************************************)
Sent == {r \in Requests : client[r] # "unborn"}
Responded == {r \in Requests : client[r] \in {"latency", "success", "done"}}
Succeeded == {r \in Requests : client[r] = "done" /\ outcome[r] # "error"}
StaleSeen == {r \in Requests : outcome[r] = "stale" /\ client[r] # "stale"}
Arrived == {r \in Requests : handler[r] # "none"}
Active ==
  {r \in Requests : handler[r] \in {"query", "userError", "videoError", "stale", "elapsed", "inactive"}}
AtError == {r \in Requests : handler[r] \in {"userError", "videoError"}}
Explained ==
  {r \in Requests : \/ handler[r] = "stale"
                    \/ handler[r] \in {"elapsed", "inactive", "answered"} /\ reply[r] # "fresh"}
Timed == {r \in Requests : handler[r] \in {"inactive", "answered"}}

Counters == ClientCounters \cup ServerCounters

Types ==
  /\ count \in [Counters -> Nat]
  /\ client \in [Requests -> {"unborn", "call", "stale", "responses", "latency", "success", "done"}]
  /\ handler \in [Requests -> {"none", "active", "query", "userError", "videoError", "stale",
                               "elapsed", "inactive", "answered"}]
  /\ reply \in [Requests -> {"error", "stale", "fresh"}]
  /\ outcome \in [Requests -> {"error", "stale", "fresh"}]
  /\ reader \in {"reportStats", "GetStats"} /\ loaded \in Seq(Nat)

\* What a client or a handler has not reached it has not decided.
Phases ==
  /\ \A r \in Requests :
       /\ client[r] \in {"unborn", "call"} => outcome[r] = "error"
       /\ client[r] = "stale" => outcome[r] = "stale"
       /\ client[r] = "success" => outcome[r] # "error"
  /\ \A r \in Requests :
       handler[r] \notin {"elapsed", "inactive", "answered"} => reply[r] = "error"

ClientExact ==
  /\ count["totalSent"] = Cardinality(Sent)
  /\ count["totalResponses"] = Cardinality(Responded)
  /\ count["totalSuccesses"] = Cardinality(Succeeded)
  /\ count["totalStale"] = Cardinality(StaleSeen)

\* How the errors divide between the services is not kept, their sum is.
ServerExact ==
  /\ count["totalRequests"] = Cardinality(Arrived)
  /\ count["activeRequests"] = Cardinality(Active)
  /\ count["totalErrors"] = Cardinality(AtError \cup Explained)
  /\ count["userServiceErrors"] + count["videoServiceErrors"] = Cardinality(Explained)
  /\ count["totalTimeMs"] <= MaxElapsed * Cardinality(Timed)

\* What reportStats has loaded, against what is still to be loaded.
ReportSoFar ==
  /\ Len(loaded) <= 5
  /\ Len(loaded) >= 1 =>
       /\ loaded[1] < Word /\ loaded[1] <= count["totalResponses"]
       /\ ~overtaken => count["totalSuccesses"] <= loaded[1]
  /\ Len(loaded) >= 2 => (~overtaken => loaded[2] <= loaded[1])
  /\ Len(loaded) >= 4 => loaded[4] <= count["totalStale"]
  /\ Len(loaded) = 5 => loaded[1] <= loaded[5] /\ loaded[4] <= loaded[5]

\* The same for GetStats: an error already loaded is of a request that is still
\* active, or its service has been loaded with it or is still to be.
SnapshotSoFar ==
  /\ Len(loaded) <= 8
  /\ Len(loaded) = 2 => loaded[2] <= count["totalErrors"]
  /\ Len(loaded) = 3 =>
       loaded[2] <= loaded[3] + count["userServiceErrors"] + count["videoServiceErrors"]
  /\ Len(loaded) = 4 => loaded[2] <= loaded[3] + loaded[4] + count["videoServiceErrors"]
  /\ Len(loaded) >= 5 => loaded[2] <= loaded[3] + loaded[4] + loaded[5]
  /\ Len(loaded) = 6 => loaded[6] <= MaxElapsed * count["totalRequests"]
  /\ Len(loaded) >= 7 => loaded[6] <= MaxElapsed * loaded[7]

ReaderInv ==
  /\ reader = "reportStats" => ReportSoFar
  /\ reader = "GetStats" => SnapshotSoFar

Exact == Types /\ Phases /\ ClientExact /\ ServerExact
LoadInv == Exact /\ ReaderInv

-----------------------------------------------------------------------------
(***************************************************************************)
(* Sets of requests and the counters' width.                               *)
(***************************************************************************)

\* Multiplication is monotonic.
LEMMA TimesMore ==
  ASSUME NEW m \in Nat, NEW a \in Nat, NEW b \in Nat, a <= b
  PROVE  m * a <= m * b
<1>1. b = a + (b - a) /\ b - a \in Nat
  OBVIOUS
<1>2. \A d \in Nat : m * (a + d) = m * a + m * d /\ m * d \in Nat /\ m * a \in Nat
  OBVIOUS
<1>3. m * (a + (b - a)) = m * a + m * (b - a) /\ m * (b - a) \in Nat /\ m * a \in Nat
  BY <1>1, <1>2
<1>4. m * b = m * (a + (b - a))
  BY <1>1
<1> QED
  BY <1>3, <1>4

\* No set of requests fills a word, nor does the time they all take.
LEMMA SizesFit ==
  ASSUME NEW S \in SUBSET Requests
  PROVE  /\ IsFiniteSet(S) /\ Cardinality(S) \in Nat
         /\ Cardinality(S) < Word /\ MaxElapsed * Cardinality(S) < Word
         /\ MaxElapsed * Cardinality(S) \in Nat
<1>1. IsFiniteSet(S) /\ Cardinality(S) \in Nat /\ Cardinality(Requests) \in Nat
      /\ Cardinality(S) <= Cardinality(Requests)
  BY LoadTestAssumption, FS_Subset, FS_CardinalityType
<1>2. MaxElapsed \in Nat /\ Word \in Nat /\ Word > (1 + MaxElapsed) * Cardinality(Requests)
  BY LoadTestAssumption
<1>3. \A c \in Nat : (1 + MaxElapsed) * c = c + MaxElapsed * c /\ MaxElapsed * c \in Nat
  BY <1>2
<1>4. (1 + MaxElapsed) * Cardinality(Requests) = Cardinality(Requests) + MaxElapsed * Cardinality(Requests)
      /\ MaxElapsed * Cardinality(Requests) \in Nat /\ MaxElapsed * Cardinality(S) \in Nat
  BY <1>1, <1>3
<1>5. MaxElapsed * Cardinality(S) <= MaxElapsed * Cardinality(Requests)
  BY <1>1, <1>2, TimesMore
<1> QED
  BY <1>1, <1>2, <1>4, <1>5

\* Counting one more request.
LEMMA OneMore ==
  ASSUME NEW S \in SUBSET Requests, NEW r \in Requests, r \notin S
  PROVE  Cardinality(S \cup {r}) = Cardinality(S) + 1
  BY SizesFit, FS_AddElement

\* Counting one request less.
LEMMA OneLess ==
  ASSUME NEW S \in SUBSET Requests, NEW r \in S
  PROVE  Cardinality(S) >= 1 /\ Cardinality(S \ {r}) = Cardinality(S) - 1
<1>1. IsFiniteSet(S) /\ Cardinality(S) \in Nat
  BY SizesFit
<1>2. Cardinality(S \ {r}) = Cardinality(S) - 1
  BY <1>1, FS_RemoveElement
<1>3. IsFiniteSet(S \ {r}) /\ Cardinality(S \ {r}) \in Nat
  BY SizesFit
<1> QED
  BY <1>1, <1>2, <1>3

\* A smaller set of requests counts less.
LEMMA SizesOrdered ==
  ASSUME NEW S \in SUBSET Requests, NEW T \in SUBSET S
  PROVE  Cardinality(T) <= Cardinality(S)
  BY SizesFit, FS_Subset

\* A value below 2^64 does not wrap.
LEMMA NoWrap == ASSUME NEW x \in Nat, x < Word PROVE x % Word = x
  BY LoadTestAssumption

\* Adding Word - 1 takes one away.
LEMMA WrapDown == ASSUME NEW x \in Nat, x >= 1, x < Word PROVE (x + (Word - 1)) % Word = x - 1
<1>1. Word \in Nat /\ Word > 0 /\ x + (Word - 1) = (x - 1) + Word * 1
  BY LoadTestAssumption
<1>2. ((x - 1) + Word * 1) % Word = x - 1
  BY <1>1
<1> QED
  BY <1>1, <1>2

\* atomic.AddUint64 adds, as long as the sum fits.
LEMMA AddInRange ==
  ASSUME Types, NEW c \in Counters, NEW n \in Nat, count[c] + n < Word, Add(c, n)
  PROVE  /\ count' \in [Counters -> Nat] /\ count'[c] = count[c] + n
         /\ \A d \in Counters : d # c => count'[d] = count[d]
<1>1. count \in [Counters -> Nat] /\ count[c] \in Nat
  BY DEF Types
<1>2. (count[c] + n) % Word = count[c] + n /\ count[c] + n \in Nat
  BY <1>1, NoWrap
<1>3. count' = [count EXCEPT ![c] = (count[c] + n) % Word]
  BY DEF Add
<1> QED
  BY <1>1, <1>2, <1>3

\* atomic.AddUint64 touches one counter, whether it wraps or not.
LEMMA AddAny ==
  ASSUME Types, NEW c \in Counters, NEW n \in Nat, Add(c, n)
  PROVE  count' \in [Counters -> Nat] /\ \A d \in Counters : d # c => count'[d] = count[d]
<1>1. count \in [Counters -> Nat] /\ count[c] \in Nat /\ Word \in Nat /\ Word > 0
  <2>1. Cardinality({}) < Word /\ Cardinality({}) \in Nat
    BY SizesFit
  <2> QED
    BY <2>1, LoadTestAssumption DEF Types
<1>2. (count[c] + n) % Word \in Nat
  BY <1>1
<1> QED
  BY <1>1, <1>2 DEF Add

-----------------------------------------------------------------------------
(***************************************************************************)
(* Steps of requests.  No counter that the properties compare decreases,   *)
(* but activeRequests, and only a success that is counted changes the      *)
(* successes to be loaded.                                                 *)
(***************************************************************************)
Grows ==
  \A c \in Counters :
    c \notin {"activeRequests", "totalLatencyMs", "staleResponses"} => count[c] <= count'[c]
SuccessSeen ==
  \/ overtaken' = overtaken /\ count'["totalSuccesses"] = count["totalSuccesses"]
  \/ loaded # <<>> => overtaken'

\* The counters by name.
LEMMA CountersNamed ==
  /\ "totalSent" \in Counters /\ "totalResponses" \in Counters /\ "totalSuccesses" \in Counters
  /\ "totalLatencyMs" \in Counters /\ "totalStale" \in Counters
  /\ "totalRequests" \in Counters /\ "activeRequests" \in Counters /\ "totalErrors" \in Counters
  /\ "userServiceErrors" \in Counters /\ "videoServiceErrors" \in Counters
  /\ "totalTimeMs" \in Counters /\ "staleResponses" \in Counters
  BY DEF Counters, ClientCounters, ServerCounters

\* What the counters count are sets of requests.
LEMMA CountedSets ==
  /\ Sent \in SUBSET Requests /\ Responded \in SUBSET Requests /\ Succeeded \in SUBSET Requests
  /\ StaleSeen \in SUBSET Requests /\ Arrived \in SUBSET Requests /\ Active \in SUBSET Requests
  /\ AtError \in SUBSET Requests /\ Explained \in SUBSET Requests /\ Timed \in SUBSET Requests
  /\ AtError \cup Explained \in SUBSET Requests
  BY DEF Sent, Responded, Succeeded, StaleSeen, Arrived, Active, AtError, Explained, Timed

\* Counting a request that has not been counted.
LEMMA CountOne ==
  ASSUME Types, NEW c \in Counters, NEW S \in SUBSET Requests, NEW r \in Requests, r \notin S,
         count[c] <= Cardinality(S), Add(c, 1)
  PROVE  /\ count' \in [Counters -> Nat] /\ count'[c] = count[c] + 1
         /\ Cardinality(S \cup {r}) = Cardinality(S) + 1
         /\ \A d \in Counters : d # c => count'[d] = count[d]
         /\ Grows
<1>1. Cardinality(S \cup {r}) = Cardinality(S) + 1 /\ Cardinality(S \cup {r}) < Word
      /\ Cardinality(S) \in Nat
  BY OneMore, SizesFit
<1>2. count[c] \in Nat /\ \A d \in Counters : count[d] \in Nat
  BY DEF Types
<1>3. Word \in Nat
  BY LoadTestAssumption
<1>4. count[c] + 1 < Word
  BY <1>1, <1>2, <1>3
<1>5. /\ count' \in [Counters -> Nat] /\ count'[c] = count[c] + 1
      /\ \A d \in Counters : d # c => count'[d] = count[d]
  BY <1>4, AddInRange
<1>6. Grows
  <2> SUFFICES ASSUME NEW d \in Counters PROVE count[d] <= count'[d]
    BY DEF Grows
  <2>1. CASE d = c
    BY <2>1, <1>2, <1>5
  <2>2. CASE d # c
    BY <2>2, <1>2, <1>5
  <2> QED
    BY <2>1, <2>2
<1> QED
  BY <1>1, <1>5, <1>6

\* What a client does leaves the server's counts alone, and the other way round.
LEMMA ServerApart ==
  ASSUME ServerExact, UNCHANGED <<handler, reply>>,
         \A d \in {"totalRequests", "activeRequests", "totalErrors", "userServiceErrors",
                   "videoServiceErrors", "totalTimeMs"} : count'[d] = count[d]
  PROVE  ServerExact'
<1>1. /\ Arrived' = Arrived /\ Active' = Active /\ AtError' = AtError
      /\ Explained' = Explained /\ Timed' = Timed
  BY DEF Arrived, Active, AtError, Explained, Timed
<1> QED
  BY <1>1 DEF ServerExact

\* A step of the server leaves the counts of the load generator exact.
LEMMA ClientApart ==
  ASSUME ClientExact, UNCHANGED <<client, outcome>>,
         \A d \in {"totalSent", "totalResponses", "totalSuccesses", "totalStale"} : count'[d] = count[d]
  PROVE  ClientExact'
<1>1. Sent' = Sent /\ Responded' = Responded /\ Succeeded' = Succeeded /\ StaleSeen' = StaleSeen
  BY DEF Sent, Responded, Succeeded, StaleSeen
<1> QED
  BY <1>1 DEF ClientExact

\* SendRequest keeps the counters exact.
LEMMA SendRequestStep ==
  ASSUME Exact, NEW k \in Conns, NEW r \in Requests, SendRequest(k, r)
  PROVE  Exact' /\ Grows /\ SuccessSeen
<1>1. /\ client[r] = "unborn" /\ client' = [client EXCEPT ![r] = "call"] /\ Add("totalSent", 1)
      /\ UNCHANGED <<handler, reply, outcome, reader, loaded, overtaken>>
  BY DEF SendRequest, ClientGoes, readerVars
<1>2. Sent' = Sent \cup {r} /\ r \notin Sent
      /\ Responded' = Responded /\ Succeeded' = Succeeded /\ StaleSeen' = StaleSeen
  BY <1>1 DEF Exact, Types, Phases, Sent, Responded, Succeeded, StaleSeen
<1>3. Cardinality(Sent) \in Nat
  BY CountedSets, SizesFit
<1>4. /\ count' \in [Counters -> Nat] /\ count'["totalSent"] = count["totalSent"] + 1
      /\ Cardinality(Sent \cup {r}) = Cardinality(Sent) + 1
      /\ \A d \in Counters : d # "totalSent" => count'[d] = count[d]
      /\ Grows
  BY <1>1, <1>2, <1>3, CountOne, CountedSets, CountersNamed DEF Exact, ClientExact
<1>5. Types' /\ Phases'
  BY <1>1, <1>4 DEF Exact, Types, Phases
<1>6. ClientExact'
  BY <1>2, <1>4, CountersNamed DEF Exact, ClientExact
<1>7. ServerExact'
  BY <1>1, <1>4, CountersNamed, ServerApart DEF Exact
<1> QED
  BY <1>1, <1>4, <1>5, <1>6, <1>7, CountersNamed DEF Exact, SuccessSeen

\* Steps of a client that count nothing.
LEMMA ClientQuietStep ==
  ASSUME Exact, NEW r \in Requests, Answer(r) \/ Timeout(r)
  PROVE  Exact' /\ Grows /\ SuccessSeen
<1>1. /\ client[r] = "call" /\ outcome[r] = "error"
      /\ UNCHANGED <<count, handler, reply, reader, loaded, overtaken>>
  BY DEF Answer, Timeout, ClientGoes, Exact, Phases, readerVars
<1>2. \/ /\ client' = [client EXCEPT ![r] = "stale"] /\ outcome' = [outcome EXCEPT ![r] = "stale"]
      \/ /\ client' = [client EXCEPT ![r] = "responses"]
         /\ \E o \in {"error", "fresh"} : outcome' = [outcome EXCEPT ![r] = o]
  <2>1. CASE Answer(r)
    BY <2>1 DEF Answer, ClientGoes, Exact, Types
  <2>2. CASE Timeout(r)
    <3>1. client' = [client EXCEPT ![r] = "responses"] /\ outcome' = outcome
      BY <2>2 DEF Timeout, ClientGoes
    <3>2. outcome = [outcome EXCEPT ![r] = "error"]
      BY <1>1 DEF Exact, Types
    <3> QED
      BY <3>1, <3>2
  <2> QED
    BY <2>1, <2>2
<1>3. Types'
  BY <1>1, <1>2 DEF Exact, Types
<1>4. Phases'
  BY <1>1, <1>2 DEF Exact, Types, Phases
<1>5. Sent' = Sent /\ Responded' = Responded /\ Succeeded' = Succeeded /\ StaleSeen' = StaleSeen
  BY <1>1, <1>2 DEF Exact, Types, Phases, Sent, Responded, Succeeded, StaleSeen
<1>6. ClientExact' /\ ServerExact'
  BY <1>1, <1>5, ServerApart DEF Exact, ClientExact
<1>7. Grows
  BY <1>1 DEF Grows, Exact, Types
<1> QED
  BY <1>1, <1>3, <1>4, <1>6, <1>7 DEF Exact, SuccessSeen

\* CountStaleSeen keeps the counters exact.
LEMMA CountStaleSeenStep ==
  ASSUME Exact, NEW r \in Requests, CountStaleSeen(r)
  PROVE  Exact' /\ Grows /\ SuccessSeen
<1>1. /\ client[r] = "stale" /\ client' = [client EXCEPT ![r] = "responses"] /\ Add("totalStale", 1)
      /\ UNCHANGED <<handler, reply, outcome, reader, loaded, overtaken>>
  BY DEF CountStaleSeen, ClientGoes, readerVars
<1>2. StaleSeen' = StaleSeen \cup {r} /\ r \notin StaleSeen
      /\ Sent' = Sent /\ Responded' = Responded /\ Succeeded' = Succeeded
  BY <1>1 DEF Exact, Types, Phases, Sent, Responded, Succeeded, StaleSeen
<1>3. Cardinality(StaleSeen) \in Nat
  BY CountedSets, SizesFit
<1>4. /\ count' \in [Counters -> Nat] /\ count'["totalStale"] = count["totalStale"] + 1
      /\ Cardinality(StaleSeen \cup {r}) = Cardinality(StaleSeen) + 1
      /\ \A d \in Counters : d # "totalStale" => count'[d] = count[d]
      /\ Grows
  BY <1>1, <1>2, <1>3, CountOne, CountedSets, CountersNamed DEF Exact, ClientExact
<1>5. Types' /\ Phases'
  BY <1>1, <1>4 DEF Exact, Types, Phases
<1>6. ClientExact'
  BY <1>2, <1>4, CountersNamed DEF Exact, ClientExact
<1>7. ServerExact'
  BY <1>1, <1>4, CountersNamed, ServerApart DEF Exact
<1> QED
  BY <1>1, <1>4, <1>5, <1>6, <1>7, CountersNamed DEF Exact, SuccessSeen

\* CountResponse keeps the counters exact.
LEMMA CountResponseStep ==
  ASSUME Exact, NEW r \in Requests, CountResponse(r)
  PROVE  Exact' /\ Grows /\ SuccessSeen
<1>1. /\ client[r] = "responses" /\ client' = [client EXCEPT ![r] = "latency"] /\ Add("totalResponses", 1)
      /\ UNCHANGED <<handler, reply, outcome, reader, loaded, overtaken>>
  BY DEF CountResponse, ClientGoes, readerVars
<1>2. Responded' = Responded \cup {r} /\ r \notin Responded
      /\ Sent' = Sent /\ StaleSeen' = StaleSeen /\ Succeeded' = Succeeded
  BY <1>1 DEF Exact, Types, Sent, Responded, Succeeded, StaleSeen
<1>3. Cardinality(Responded) \in Nat
  BY CountedSets, SizesFit
<1>4. /\ count' \in [Counters -> Nat] /\ count'["totalResponses"] = count["totalResponses"] + 1
      /\ Cardinality(Responded \cup {r}) = Cardinality(Responded) + 1
      /\ \A d \in Counters : d # "totalResponses" => count'[d] = count[d]
      /\ Grows
  BY <1>1, <1>2, <1>3, CountOne, CountedSets, CountersNamed DEF Exact, ClientExact
<1>5. Types' /\ Phases'
  BY <1>1, <1>4 DEF Exact, Types, Phases
<1>6. ClientExact'
  BY <1>2, <1>4, CountersNamed DEF Exact, ClientExact
<1>7. ServerExact'
  BY <1>1, <1>4, CountersNamed, ServerApart DEF Exact
<1> QED
  BY <1>1, <1>4, <1>5, <1>6, <1>7, CountersNamed DEF Exact, SuccessSeen

\* CountSuccess keeps the counters exact.
LEMMA CountSuccessStep ==
  ASSUME Exact, NEW r \in Requests, CountSuccess(r)
  PROVE  Exact' /\ Grows /\ SuccessSeen
<1>1. /\ client[r] = "success" /\ client' = [client EXCEPT ![r] = "done"] /\ Add("totalSuccesses", 1)
      /\ overtaken' = (loaded # <<>>)
      /\ UNCHANGED <<handler, reply, outcome, reader, loaded>>
  BY DEF CountSuccess, ClientGoes, readerVars
<1>2. Succeeded' = Succeeded \cup {r} /\ r \notin Succeeded
      /\ Sent' = Sent /\ StaleSeen' = StaleSeen /\ Responded' = Responded
  BY <1>1 DEF Exact, Types, Phases, Sent, Responded, Succeeded, StaleSeen
<1>3. Types /\ count["totalSuccesses"] <= Cardinality(Succeeded)
      /\ Succeeded \in SUBSET Requests /\ "totalSuccesses" \in Counters
  <2>1. Cardinality(Succeeded) \in Nat
    BY CountedSets, SizesFit
  <2> QED
    BY <2>1, CountedSets, CountersNamed DEF Exact, ClientExact
<1>4. /\ count' \in [Counters -> Nat] /\ count'["totalSuccesses"] = count["totalSuccesses"] + 1
      /\ Cardinality(Succeeded \cup {r}) = Cardinality(Succeeded) + 1
      /\ \A d \in Counters : d # "totalSuccesses" => count'[d] = count[d]
      /\ Grows
  BY <1>1, <1>2, <1>3, CountOne
<1>5. Types' /\ Phases'
  BY <1>1, <1>4 DEF Exact, Types, Phases
<1>6. ClientExact'
  BY <1>2, <1>4, CountersNamed DEF Exact, ClientExact
<1>7. ServerExact'
  BY <1>1, <1>4, CountersNamed, ServerApart DEF Exact
<1>8. SuccessSeen
  <2>1. overtaken' = (loaded # <<>>)
    BY <1>1
  <2>2. loaded # <<>> => overtaken'
    BY <2>1, Zenon
  <2> QED
    BY <2>2 DEF SuccessSeen
<1> QED
  BY <1>4, <1>5, <1>6, <1>7, <1>8 DEF Exact

\* The latencies' sum may be anything: no property relies on it.
LEMMA CountLatencyStep ==
  ASSUME Exact, NEW r \in Requests, CountLatency(r)
  PROVE  Exact' /\ Grows /\ SuccessSeen
<1>1. /\ client[r] = "latency"
      /\ client' = [client EXCEPT ![r] = IF outcome[r] = "error" THEN "done" ELSE "success"]
      /\ UNCHANGED <<handler, reply, outcome, reader, loaded, overtaken>>
  BY DEF CountLatency, ClientGoes, readerVars
<1>2. PICK ms \in Elapsed : Add("totalLatencyMs", ms)
  BY DEF CountLatency
<1>3. count' \in [Counters -> Nat] /\ \A d \in Counters : d # "totalLatencyMs" => count'[d] = count[d]
  <2>1. ms \in Nat
    BY LoadTestAssumption
  <2> QED
    BY <1>2, <2>1, AddAny, CountersNamed DEF Exact
<1>4. Grows
  BY <1>3 DEF Grows, Exact, Types
<1>5. Types'
  BY <1>1, <1>3 DEF Exact, Types
<1>6. Phases'
  BY <1>1 DEF Exact, Types, Phases
<1>7. Sent' = Sent /\ Responded' = Responded /\ Succeeded' = Succeeded /\ StaleSeen' = StaleSeen
  BY <1>1 DEF Exact, Types, Sent, Responded, Succeeded, StaleSeen
<1>8. ClientExact' /\ ServerExact'
  BY <1>1, <1>3, <1>7, CountersNamed, ServerApart DEF Exact, ClientExact
<1> QED
  BY <1>1, <1>3, <1>4, <1>5, <1>6, <1>8, CountersNamed DEF Exact, SuccessSeen

\* ClientStep keeps the counters exact.
LEMMA ClientStepExact ==
  ASSUME Exact, NEW r \in Requests, ClientStep(r)
  PROVE  Exact' /\ Grows /\ SuccessSeen /\ UNCHANGED readerVars
<1>1. Exact' /\ Grows /\ SuccessSeen
  BY ClientQuietStep, CountStaleSeenStep, CountResponseStep, CountLatencyStep, CountSuccessStep
     DEF ClientStep
<1>2. UNCHANGED readerVars
  BY DEF ClientStep, Answer, Timeout, CountStaleSeen, CountResponse, CountLatency, CountSuccess, readerVars
<1> QED
  BY <1>1, <1>2

\* CountRequest keeps the counters exact.
LEMMA CountRequestStep ==
  ASSUME Exact, NEW r \in Requests, CountRequest(r)
  PROVE  Exact' /\ Grows /\ SuccessSeen
<1>1. /\ handler[r] = "none" /\ handler' = [handler EXCEPT ![r] = "active"]
      /\ Add("totalRequests", 1)
      /\ UNCHANGED <<client, reply, outcome, reader, loaded, overtaken>>
  BY DEF CountRequest, HandlerGoes, readerVars
<1>2. /\ Arrived' = Arrived \cup {r} /\ r \notin Arrived
      /\ Active' = Active /\ AtError' = AtError /\ Explained' = Explained /\ Timed' = Timed
  BY <1>1 DEF Exact, Types, Phases, Arrived, Active, AtError, Explained, Timed
<1>3. Types /\ count["totalRequests"] <= Cardinality(Arrived)
      /\ Arrived \in SUBSET Requests /\ "totalRequests" \in Counters
  <2>1. Cardinality(Arrived) \in Nat
    BY CountedSets, SizesFit
  <2> QED
    BY <2>1, CountedSets, CountersNamed DEF Exact, ServerExact, Types
<1>4. /\ count' \in [Counters -> Nat] /\ count'["totalRequests"] = count["totalRequests"] + 1
      /\ Cardinality(Arrived \cup {r}) = Cardinality(Arrived) + 1
      /\ \A d \in Counters : d # "totalRequests" => count'[d] = count[d]
      /\ Grows
  BY <1>1, <1>2, <1>3, CountOne
<1>5. Types' /\ Phases'
  BY <1>1, <1>4 DEF Exact, Types, Phases
<1>6. ServerExact'
  BY <1>2, <1>4, CountersNamed DEF Exact, Types, ServerExact
<1>7. ClientExact'
  BY <1>1, <1>4, CountersNamed, ClientApart DEF Exact
<1> QED
  BY <1>1, <1>4, <1>5, <1>6, <1>7, CountersNamed DEF Exact, SuccessSeen

\* CountActive keeps the counters exact.
LEMMA CountActiveStep ==
  ASSUME Exact, NEW r \in Requests, CountActive(r)
  PROVE  Exact' /\ Grows /\ SuccessSeen
<1>1. /\ handler[r] = "active" /\ handler' = [handler EXCEPT ![r] = "query"]
      /\ Add("activeRequests", 1)
      /\ UNCHANGED <<client, reply, outcome, reader, loaded, overtaken>>
  BY DEF CountActive, HandlerGoes, readerVars
<1>2. /\ Active' = Active \cup {r} /\ r \notin Active
      /\ Arrived' = Arrived /\ AtError' = AtError /\ Explained' = Explained /\ Timed' = Timed
  BY <1>1 DEF Exact, Types, Phases, Arrived, Active, AtError, Explained, Timed
<1>3. Types /\ count["activeRequests"] <= Cardinality(Active)
      /\ Active \in SUBSET Requests /\ "activeRequests" \in Counters
  <2>1. Cardinality(Active) \in Nat
    BY CountedSets, SizesFit
  <2> QED
    BY <2>1, CountedSets, CountersNamed DEF Exact, ServerExact, Types
<1>4. /\ count' \in [Counters -> Nat] /\ count'["activeRequests"] = count["activeRequests"] + 1
      /\ Cardinality(Active \cup {r}) = Cardinality(Active) + 1
      /\ \A d \in Counters : d # "activeRequests" => count'[d] = count[d]
      /\ Grows
  BY <1>1, <1>2, <1>3, CountOne
<1>5. Types' /\ Phases'
  BY <1>1, <1>4 DEF Exact, Types, Phases
<1>6. ServerExact'
  BY <1>2, <1>4, CountersNamed DEF Exact, Types, ServerExact
<1>7. ClientExact'
  BY <1>1, <1>4, CountersNamed, ClientApart DEF Exact
<1> QED
  BY <1>1, <1>4, <1>5, <1>6, <1>7, CountersNamed DEF Exact, SuccessSeen

\* CountError keeps the counters exact.
LEMMA CountErrorStep ==
  ASSUME Exact, NEW r \in Requests, CountError(r)
  PROVE  Exact' /\ Grows /\ SuccessSeen
<1>1. /\ handler[r] = "query" /\ \E to \in {"userError", "videoError"} : handler' = [handler EXCEPT ![r] = to]
      /\ Add("totalErrors", 1)
      /\ UNCHANGED <<client, reply, outcome, reader, loaded, overtaken>>
  BY DEF CountError, HandlerGoes, readerVars
<1>2. /\ AtError' = AtError \cup {r} /\ Explained' = Explained /\ r \notin AtError \cup Explained
      /\ Arrived' = Arrived /\ Active' = Active /\ Timed' = Timed
  BY <1>1 DEF Exact, Types, Phases, Arrived, Active, AtError, Explained, Timed
<1>3. Types /\ count["totalErrors"] <= Cardinality(AtError \cup Explained)
      /\ AtError \cup Explained \in SUBSET Requests /\ "totalErrors" \in Counters
  <2>1. Cardinality(AtError \cup Explained) \in Nat
    BY CountedSets, SizesFit
  <2> QED
    BY <2>1, CountedSets, CountersNamed DEF Exact, ServerExact, Types
<1>4. /\ count' \in [Counters -> Nat] /\ count'["totalErrors"] = count["totalErrors"] + 1
      /\ Cardinality((AtError \cup Explained) \cup {r}) = Cardinality(AtError \cup Explained) + 1
      /\ \A d \in Counters : d # "totalErrors" => count'[d] = count[d]
      /\ Grows
  BY <1>1, <1>2, <1>3, CountOne
<1>5. Types' /\ Phases'
  BY <1>1, <1>4 DEF Exact, Types, Phases
<1>6. ServerExact'
  BY <1>2, <1>4, CountersNamed DEF Exact, Types, ServerExact
<1>7. ClientExact'
  BY <1>1, <1>4, CountersNamed, ClientApart DEF Exact
<1> QED
  BY <1>1, <1>4, <1>5, <1>6, <1>7, CountersNamed DEF Exact, SuccessSeen

\* An error is explained when its service is counted.
LEMMA CountUserErrorStep ==
  ASSUME Exact, NEW r \in Requests, CountUserError(r)
  PROVE  Exact' /\ Grows /\ SuccessSeen
<1>1. /\ handler[r] = "userError" /\ handler' = [handler EXCEPT ![r] = "elapsed"]
      /\ Add("userServiceErrors", 1)
      /\ UNCHANGED <<client, reply, outcome, reader, loaded, overtaken>>
  BY DEF CountUserError, HandlerGoes, readerVars
<1>2. /\ AtError' \cup Explained' = AtError \cup Explained /\ Explained' = Explained \cup {r}
      /\ r \notin Explained /\ Arrived' = Arrived /\ Active' = Active /\ Timed' = Timed
  BY <1>1 DEF Exact, Types, Phases, Arrived, Active, AtError, Explained, Timed
<1>3. Types /\ count["userServiceErrors"] <= Cardinality(Explained)
      /\ Explained \in SUBSET Requests /\ "userServiceErrors" \in Counters
  <2>1. Cardinality(Explained) \in Nat
    BY CountedSets, SizesFit
  <2> QED
    BY <2>1, CountedSets, CountersNamed DEF Exact, ServerExact, Types
<1>4. /\ count' \in [Counters -> Nat] /\ count'["userServiceErrors"] = count["userServiceErrors"] + 1
      /\ Cardinality(Explained \cup {r}) = Cardinality(Explained) + 1
      /\ \A d \in Counters : d # "userServiceErrors" => count'[d] = count[d]
      /\ Grows
  BY <1>1, <1>2, <1>3, CountOne
<1>5. Types' /\ Phases'
  BY <1>1, <1>4 DEF Exact, Types, Phases
<1>6. ServerExact'
  <2>1. Cardinality(Explained') = Cardinality(Explained) + 1
    BY <1>2, <1>4
  <2>2. Cardinality(AtError' \cup Explained') = Cardinality(AtError \cup Explained)
    BY <1>2
  <2>3. count["userServiceErrors"] \in Nat /\ count["videoServiceErrors"] \in Nat
    BY CountersNamed DEF Exact, Types
  <2>4. count'["userServiceErrors"] + count'["videoServiceErrors"]
          = (count["userServiceErrors"] + count["videoServiceErrors"]) + 1
    BY <1>4, <2>3, CountersNamed
  <2>5. (AtError \cup Explained)' = AtError' \cup Explained'
    OBVIOUS
  <2> QED
    BY <1>2, <1>4, <2>1, <2>2, <2>4, <2>5, CountersNamed DEF Exact, ServerExact
<1>7. ClientExact'
  BY <1>1, <1>4, CountersNamed, ClientApart DEF Exact
<1> QED
  BY <1>1, <1>4, <1>5, <1>6, <1>7, CountersNamed DEF Exact, SuccessSeen

\* CountVideoError keeps the counters exact.
LEMMA CountVideoErrorStep ==
  ASSUME Exact, NEW r \in Requests, CountVideoError(r)
  PROVE  Exact' /\ Grows /\ SuccessSeen
<1>1. /\ handler[r] = "videoError" /\ \E to \in {"elapsed", "stale"} : handler' = [handler EXCEPT ![r] = to]
      /\ Add("videoServiceErrors", 1)
      /\ UNCHANGED <<client, reply, outcome, reader, loaded, overtaken>>
  BY DEF CountVideoError, HandlerGoes, readerVars
<1>2. /\ AtError' \cup Explained' = AtError \cup Explained /\ Explained' = Explained \cup {r}
      /\ r \notin Explained /\ Arrived' = Arrived /\ Active' = Active /\ Timed' = Timed
  BY <1>1 DEF Exact, Types, Phases, Arrived, Active, AtError, Explained, Timed
<1>3. Types /\ count["videoServiceErrors"] <= Cardinality(Explained)
      /\ Explained \in SUBSET Requests /\ "videoServiceErrors" \in Counters
  <2>1. Cardinality(Explained) \in Nat
    BY CountedSets, SizesFit
  <2> QED
    BY <2>1, CountedSets, CountersNamed DEF Exact, ServerExact, Types
<1>4. /\ count' \in [Counters -> Nat] /\ count'["videoServiceErrors"] = count["videoServiceErrors"] + 1
      /\ Cardinality(Explained \cup {r}) = Cardinality(Explained) + 1
      /\ \A d \in Counters : d # "videoServiceErrors" => count'[d] = count[d]
      /\ Grows
  BY <1>1, <1>2, <1>3, CountOne
<1>5. Types' /\ Phases'
  BY <1>1, <1>4 DEF Exact, Types, Phases
<1>6. ServerExact'
  <2>1. Cardinality(Explained') = Cardinality(Explained) + 1
    BY <1>2, <1>4
  <2>2. Cardinality(AtError' \cup Explained') = Cardinality(AtError \cup Explained)
    BY <1>2
  <2>3. count["userServiceErrors"] \in Nat /\ count["videoServiceErrors"] \in Nat
    BY CountersNamed DEF Exact, Types
  <2>4. count'["userServiceErrors"] + count'["videoServiceErrors"]
          = (count["userServiceErrors"] + count["videoServiceErrors"]) + 1
    BY <1>4, <2>3, CountersNamed
  <2>5. (AtError \cup Explained)' = AtError' \cup Explained'
    OBVIOUS
  <2> QED
    BY <1>2, <1>4, <2>1, <2>2, <2>4, <2>5, CountersNamed DEF Exact, ServerExact
<1>7. ClientExact'
  BY <1>1, <1>4, CountersNamed, ClientApart DEF Exact
<1> QED
  BY <1>1, <1>4, <1>5, <1>6, <1>7, CountersNamed DEF Exact, SuccessSeen

\* Steps of a handler that the compared counters do not see.
LEMMA HandlerQuietStep ==
  ASSUME Exact, NEW r \in Requests, CountStale(r) \/ Succeed(r)
  PROVE  Exact' /\ Grows /\ SuccessSeen
<1>1. /\ handler' = [handler EXCEPT ![r] = "elapsed"]
      /\ UNCHANGED <<client, outcome, reader, loaded, overtaken>>
      /\ \/ handler[r] = "stale" /\ \E a \in {"stale", "error"} : reply' = [reply EXCEPT ![r] = a]
         \/ handler[r] = "query" /\ reply' = [reply EXCEPT ![r] = "fresh"]
  BY DEF CountStale, Succeed, HandlerGoes, readerVars
<1>2. count' \in [Counters -> Nat] /\ \A d \in Counters : d # "staleResponses" => count'[d] = count[d]
  BY AddAny, CountersNamed DEF CountStale, Succeed, Exact, Types
<1>3. /\ Arrived' = Arrived /\ Active' = Active /\ AtError' = AtError
      /\ Explained' = Explained /\ Timed' = Timed
  BY <1>1 DEF Exact, Types, Arrived, Active, AtError, Explained, Timed
<1>4. Types'
  BY <1>1, <1>2 DEF Exact, Types
<1>5. Phases'
  BY <1>1 DEF Exact, Types, Phases
<1>6. ServerExact'
  BY <1>2, <1>3, CountersNamed DEF Exact, ServerExact
<1>7. ClientExact'
  BY <1>1, <1>2, CountersNamed, ClientApart DEF Exact
<1>8. Grows
  BY <1>2 DEF Grows, Exact, Types
<1> QED
  BY <1>1, <1>2, <1>4, <1>5, <1>6, <1>7, <1>8, CountersNamed DEF Exact, SuccessSeen

\* CountTime keeps the counters exact.
LEMMA CountTimeStep ==
  ASSUME Exact, NEW r \in Requests, CountTime(r)
  PROVE  Exact' /\ Grows /\ SuccessSeen
<1>1. /\ handler[r] = "elapsed" /\ handler' = [handler EXCEPT ![r] = "inactive"]
      /\ UNCHANGED <<client, reply, outcome, reader, loaded, overtaken>>
  BY DEF CountTime, HandlerGoes, readerVars
<1>2. PICK ms \in Elapsed : Add("totalTimeMs", ms)
  BY DEF CountTime
<1>3. /\ Timed' = Timed \cup {r} /\ r \notin Timed
      /\ Arrived' = Arrived /\ Active' = Active /\ AtError' = AtError /\ Explained' = Explained
  BY <1>1 DEF Exact, Types, Arrived, Active, AtError, Explained, Timed
<1>4. count["totalTimeMs"] \in Nat /\ ms \in Nat /\ ms <= MaxElapsed /\ MaxElapsed \in Nat /\ Word \in Nat
  BY LoadTestAssumption, CountersNamed DEF Exact, Types
<1> DEFINE n == Cardinality(Timed)
<1>5. n \in Nat /\ Cardinality(Timed') = n + 1 /\ MaxElapsed * (n + 1) < Word
  <2>1. Cardinality(Timed \cup {r}) = n + 1 /\ n \in Nat /\ MaxElapsed * Cardinality(Timed \cup {r}) < Word
    BY <1>3, OneMore, SizesFit, CountedSets
  <2> QED
    BY <2>1, <1>3
<1>6. count["totalTimeMs"] <= MaxElapsed * n
  BY DEF Exact, ServerExact
<1>7. count["totalTimeMs"] + ms <= MaxElapsed * (n + 1) /\ count["totalTimeMs"] + ms < Word
  <2> HIDE DEF n
  <2>1. MaxElapsed * (n + 1) = MaxElapsed * n + MaxElapsed /\ MaxElapsed * n \in Nat
    BY <1>4, <1>5
  <2> QED
    BY <2>1, <1>4, <1>5, <1>6
<1>8. /\ count' \in [Counters -> Nat] /\ count'["totalTimeMs"] = count["totalTimeMs"] + ms
      /\ \A d \in Counters : d # "totalTimeMs" => count'[d] = count[d]
  BY <1>2, <1>4, <1>7, AddInRange, CountersNamed DEF Exact
<1>9. Grows
  BY <1>4, <1>8 DEF Grows, Exact, Types
<1>10. Types' /\ Phases'
  BY <1>1, <1>8 DEF Exact, Types, Phases
<1>11. ServerExact'
  BY <1>3, <1>5, <1>7, <1>8, CountersNamed DEF Exact, ServerExact
<1>12. ClientExact'
  BY <1>1, <1>8, CountersNamed, ClientApart DEF Exact
<1> QED
  BY <1>1, <1>8, <1>9, <1>10, <1>11, <1>12, CountersNamed DEF Exact, SuccessSeen

\* atomic.AddUint64(&activeRequests, ^uint64(0)) takes one away: the request was
\* counted as active.
LEMMA CountInactiveStep ==
  ASSUME Exact, NEW r \in Requests, CountInactive(r)
  PROVE  Exact' /\ Grows /\ SuccessSeen
<1>1. /\ handler[r] = "inactive" /\ handler' = [handler EXCEPT ![r] = "answered"]
      /\ Add("activeRequests", Word - 1)
      /\ UNCHANGED <<client, reply, outcome, reader, loaded, overtaken>>
  BY DEF CountInactive, HandlerGoes, readerVars
<1>2. /\ Active' = Active \ {r} /\ r \in Active
      /\ Arrived' = Arrived /\ AtError' = AtError /\ Explained' = Explained /\ Timed' = Timed
  BY <1>1 DEF Exact, Types, Arrived, Active, AtError, Explained, Timed
<1>3. Cardinality(Active') = Cardinality(Active) - 1 /\ Cardinality(Active) >= 1
      /\ Cardinality(Active) < Word /\ Cardinality(Active) \in Nat
  BY <1>2, OneLess, SizesFit, CountedSets
<1>4. count["activeRequests"] = Cardinality(Active)
  BY DEF Exact, ServerExact
<1>5. (count["activeRequests"] + (Word - 1)) % Word = count["activeRequests"] - 1
      /\ count["activeRequests"] - 1 \in Nat
  BY <1>3, <1>4, WrapDown
<1>6. /\ count' \in [Counters -> Nat] /\ count'["activeRequests"] = count["activeRequests"] - 1
      /\ \A d \in Counters : d # "activeRequests" => count'[d] = count[d]
  BY <1>1, <1>5, CountersNamed DEF Add, Exact, Types
<1>7. Grows
  BY <1>6 DEF Grows, Exact, Types
<1>8. Types' /\ Phases'
  BY <1>1, <1>6 DEF Exact, Types, Phases
<1>9. ServerExact'
  BY <1>2, <1>3, <1>4, <1>6, CountersNamed DEF Exact, ServerExact
<1>10. ClientExact'
  BY <1>1, <1>6, CountersNamed, ClientApart DEF Exact
<1> QED
  BY <1>1, <1>6, <1>7, <1>8, <1>9, <1>10, CountersNamed DEF Exact, SuccessSeen

\* HandlerStep keeps the counters exact.
LEMMA HandlerStepExact ==
  ASSUME Exact, NEW r \in Requests, HandlerStep(r)
  PROVE  Exact' /\ Grows /\ SuccessSeen /\ UNCHANGED readerVars
<1>1. Exact' /\ Grows /\ SuccessSeen
  BY CountRequestStep, CountActiveStep, CountErrorStep, CountUserErrorStep, CountVideoErrorStep,
     HandlerQuietStep, CountTimeStep, CountInactiveStep DEF HandlerStep
<1>2. UNCHANGED readerVars
  BY DEF HandlerStep, CountRequest, CountActive, CountError, CountUserError, CountVideoError,
         CountStale, Succeed, CountTime, CountInactive, readerVars
<1> QED
  BY <1>1, <1>2

-----------------------------------------------------------------------------
(***************************************************************************)
(* The readers.                                                            *)
(***************************************************************************)

\* How the counters compare at any moment.
LEMMA CountersCompare ==
  ASSUME Exact
  PROVE  /\ \A c \in Counters : count[c] \in Nat
         /\ count["totalResponses"] < Word
         /\ count["totalSuccesses"] <= count["totalResponses"]
         /\ count["totalResponses"] <= count["totalSent"] /\ count["totalStale"] <= count["totalSent"]
         /\ count["totalErrors"] <= count["activeRequests"] + count["userServiceErrors"] + count["videoServiceErrors"]
         /\ count["totalTimeMs"] <= MaxElapsed * count["totalRequests"]
<1>1. \A c \in Counters : count[c] \in Nat
  BY DEF Exact, Types
<1>2. Succeeded \subseteq Responded /\ Responded \subseteq Sent /\ StaleSeen \subseteq Sent
      /\ Timed \subseteq Arrived /\ AtError \subseteq Active
  BY DEF Exact, Phases, Sent, Responded, Succeeded, StaleSeen, Timed, Arrived, AtError, Active
<1>3. /\ Cardinality(Succeeded) <= Cardinality(Responded) /\ Cardinality(Responded) <= Cardinality(Sent)
      /\ Cardinality(StaleSeen) <= Cardinality(Sent) /\ Cardinality(Responded) < Word
  BY <1>2, CountedSets, SizesOrdered, SizesFit
<1>4. count["totalErrors"] <= count["activeRequests"] + count["userServiceErrors"] + count["videoServiceErrors"]
  <2>1. IsFiniteSet(AtError) /\ IsFiniteSet(Explained) /\ IsFiniteSet(AtError \cap Explained)
        /\ Cardinality(AtError) \in Nat /\ Cardinality(Explained) \in Nat
        /\ Cardinality(AtError \cap Explained) \in Nat /\ Cardinality(Active) \in Nat
    BY CountedSets, SizesFit
  <2>2. Cardinality(AtError \cup Explained)
          = Cardinality(AtError) + Cardinality(Explained) - Cardinality(AtError \cap Explained)
    BY <2>1, FS_Union
  <2>3. Cardinality(AtError) <= Cardinality(Active)
    BY <1>2, CountedSets, SizesOrdered
  <2>4. Cardinality(AtError \cup Explained) <= Cardinality(Active) + Cardinality(Explained)
    BY <2>1, <2>2, <2>3
  <2>5. count["userServiceErrors"] \in Nat /\ count["videoServiceErrors"] \in Nat
    BY <1>1, CountersNamed
  <2> QED
    BY <2>1, <2>4, <2>5 DEF Exact, ServerExact
<1>5. count["totalTimeMs"] <= MaxElapsed * count["totalRequests"]
  <2>1. Cardinality(Timed) \in Nat /\ Cardinality(Arrived) \in Nat
        /\ Cardinality(Timed) <= Cardinality(Arrived) /\ MaxElapsed * Cardinality(Timed) \in Nat
        /\ MaxElapsed * Cardinality(Arrived) \in Nat
    BY <1>2, CountedSets, SizesOrdered, SizesFit
  <2>2. MaxElapsed * Cardinality(Timed) <= MaxElapsed * Cardinality(Arrived)
    BY <2>1, TimesMore, LoadTestAssumption
  <2>3. count["totalTimeMs"] \in Nat /\ count["totalTimeMs"] <= MaxElapsed * Cardinality(Timed)
        /\ count["totalRequests"] = Cardinality(Arrived)
    BY <1>1, CountersNamed DEF Exact, ServerExact
  <2> QED
    BY <2>1, <2>2, <2>3
<1> QED
  BY <1>1, <1>3, <1>4, <1>5 DEF Exact, ClientExact

\* The order in which reportStats and GetStats load the counters.
LEMMA LoadOrder ==
  /\ Len(ReportLoads) = 5
  /\ ReportLoads[1] = "totalResponses" /\ ReportLoads[2] = "totalSuccesses"
  /\ ReportLoads[3] = "totalLatencyMs" /\ ReportLoads[4] = "totalStale" /\ ReportLoads[5] = "totalSent"
  /\ Len(StatsLoads) = 8
  /\ StatsLoads[1] = "totalRequests" /\ StatsLoads[2] = "totalErrors"
  /\ StatsLoads[3] = "activeRequests" /\ StatsLoads[4] = "userServiceErrors"
  /\ StatsLoads[5] = "videoServiceErrors" /\ StatsLoads[6] = "totalTimeMs"
  /\ StatsLoads[7] = "totalRequests" /\ StatsLoads[8] = "staleResponses"
  BY DEF ReportLoads, StatsLoads

\* While requests are counted, what has been loaded stays in its place.
LEMMA ReaderWaits ==
  ASSUME LoadInv, Exact', Grows, SuccessSeen, UNCHANGED readerVars
  PROVE  ReaderInv'
<1>1. UNCHANGED <<reader, loaded>> /\ loaded \in Seq(Nat)
  BY DEF readerVars, LoadInv, Exact, Types
<1>2. \A k \in 1..Len(loaded) : loaded[k] \in Nat
  BY <1>1
<1>3. Len(loaded) \in Nat
  BY <1>1
<1>4. /\ count["totalResponses"] <= count'["totalResponses"] /\ count["totalStale"] <= count'["totalStale"]
      /\ count["totalErrors"] <= count'["totalErrors"]
      /\ count["userServiceErrors"] <= count'["userServiceErrors"]
      /\ count["videoServiceErrors"] <= count'["videoServiceErrors"]
      /\ count["totalRequests"] <= count'["totalRequests"]
  BY CountersNamed DEF Grows
<1>5. \A c \in Counters : count[c] \in Nat /\ count'[c] \in Nat
  BY DEF LoadInv, Exact, Types
<1>6. MaxElapsed * count["totalRequests"] <= MaxElapsed * count'["totalRequests"]
      /\ MaxElapsed * count["totalRequests"] \in Nat /\ MaxElapsed * count'["totalRequests"] \in Nat
  <2>1. count["totalRequests"] \in Nat /\ count'["totalRequests"] \in Nat /\ MaxElapsed \in Nat
    BY <1>5, CountersNamed, LoadTestAssumption
  <2> QED
    BY <2>1, <1>4, TimesMore
<1>7. ASSUME reader = "reportStats", ReportSoFar PROVE ReportSoFar'
  <2>1. Len(loaded) >= 1 /\ ~overtaken' => ~overtaken /\ count'["totalSuccesses"] = count["totalSuccesses"]
    <3> SUFFICES ASSUME Len(loaded) >= 1, ~overtaken'
                 PROVE  ~overtaken /\ count'["totalSuccesses"] = count["totalSuccesses"]
      OBVIOUS
    <3>1. loaded # <<>>
      BY <1>1
    <3> QED
      BY <3>1 DEF SuccessSeen
  <2>2. Len(loaded) >= 1 => loaded[1] \in Nat
    BY <1>2, <1>3
  <2>3. Len(loaded) >= 4 => loaded[4] \in Nat
    BY <1>2, <1>3
  <2>4. count["totalResponses"] \in Nat /\ count'["totalResponses"] \in Nat
        /\ count["totalStale"] \in Nat /\ count'["totalStale"] \in Nat
    BY <1>5, CountersNamed
  <2> QED
    BY <1>1, <1>3, <1>4, <1>7, <2>1, <2>2, <2>3, <2>4 DEF ReportSoFar
<1>8. ASSUME reader = "GetStats", SnapshotSoFar PROVE SnapshotSoFar'
  <2>1. /\ Len(loaded) >= 2 => loaded[2] \in Nat
        /\ Len(loaded) >= 3 => loaded[3] \in Nat
        /\ Len(loaded) >= 4 => loaded[4] \in Nat
        /\ Len(loaded) >= 6 => loaded[6] \in Nat
    BY <1>2, <1>3
  <2>2. /\ count["totalErrors"] \in Nat /\ count'["totalErrors"] \in Nat
        /\ count["userServiceErrors"] \in Nat /\ count'["userServiceErrors"] \in Nat
        /\ count["videoServiceErrors"] \in Nat /\ count'["videoServiceErrors"] \in Nat
    BY <1>5, CountersNamed
  <2>3. Len(loaded) = 2 => loaded[2] <= count'["totalErrors"]
    BY <1>4, <1>8, <2>1, <2>2 DEF SnapshotSoFar
  <2>4. Len(loaded) = 3 =>
          loaded[2] <= loaded[3] + count'["userServiceErrors"] + count'["videoServiceErrors"]
    BY <1>4, <1>8, <2>1, <2>2 DEF SnapshotSoFar
  <2>5. Len(loaded) = 4 => loaded[2] <= loaded[3] + loaded[4] + count'["videoServiceErrors"]
    BY <1>4, <1>8, <2>1, <2>2 DEF SnapshotSoFar
  <2>6. Len(loaded) = 6 => loaded[6] <= MaxElapsed * count'["totalRequests"]
    BY <1>6, <1>8, <2>1 DEF SnapshotSoFar
  <2> QED
    BY <1>1, <1>8, <2>3, <2>4, <2>5, <2>6 DEF SnapshotSoFar
<1> QED
  BY <1>1, <1>7, <1>8 DEF LoadInv, ReaderInv

\* LoadNext keeps LoadInv.
LEMMA LoadNextStep == ASSUME LoadInv, LoadNext PROVE LoadInv'
<1> DEFINE n == Len(loaded)
<1>1. /\ n < Len(Loads) /\ loaded' = Append(loaded, count[Loads[n + 1]])
      /\ UNCHANGED <<count, requestVars, reader, overtaken>>
  BY DEF LoadNext
<1>2. UNCHANGED <<client, handler, reply, outcome, reader, count, overtaken>>
  BY <1>1 DEF requestVars
<1>3. loaded \in Seq(Nat) /\ n \in Nat
  BY DEF LoadInv, Exact, Types
<1>4. \A k \in 1..n : loaded[k] \in Nat
  BY <1>3
<1>5. \A c \in Counters : count[c] \in Nat
  BY DEF LoadInv, Exact, Types
<1>6. /\ reader = "reportStats" => Loads = ReportLoads /\ Len(Loads) = 5
      /\ reader = "GetStats" => Loads = StatsLoads /\ Len(Loads) = 8
      /\ reader \in {"reportStats", "GetStats"}
  BY LoadOrder DEF Loads, LoadInv, Exact, Types
<1>7. n < Len(Loads)
  BY <1>1
<1>8. /\ reader = "reportStats" => n = 0 \/ n = 1 \/ n = 2 \/ n = 3 \/ n = 4
      /\ reader = "GetStats" => n = 0 \/ n = 1 \/ n = 2 \/ n = 3 \/ n = 4 \/ n = 5 \/ n = 6 \/ n = 7
  <2>1. \A m \in Nat : m < 5 => m = 0 \/ m = 1 \/ m = 2 \/ m = 3 \/ m = 4
    OBVIOUS
  <2>2. \A m \in Nat : m < 8 => m = 0 \/ m = 1 \/ m = 2 \/ m = 3 \/ m = 4 \/ m = 5 \/ m = 6 \/ m = 7
    OBVIOUS
  <2>3. reader = "reportStats" => n < 5
    BY <1>6, <1>7
  <2>4. reader = "GetStats" => n < 8
    BY <1>6, <1>7
  <2> HIDE DEF n
  <2> QED
    BY <1>3, <2>1, <2>2, <2>3, <2>4
<1>9. count[Loads[n + 1]] \in Nat
  <2>1. CASE reader = "reportStats"
    <3>1. n = 0 \/ n = 1 \/ n = 2 \/ n = 3 \/ n = 4
      BY <1>8, <2>1
    <3>2. Loads[n + 1] \in Counters
      <4> HIDE DEF n
      <4> QED
        BY <1>6, <2>1, <3>1, LoadOrder, CountersNamed
    <3> QED
      BY <3>2, <1>5
  <2>2. CASE reader = "GetStats"
    <3>1. n = 0 \/ n = 1 \/ n = 2 \/ n = 3 \/ n = 4 \/ n = 5 \/ n = 6 \/ n = 7
      BY <1>8, <2>2
    <3>2. Loads[n + 1] \in Counters
      <4> HIDE DEF n
      <4> QED
        BY <1>6, <2>2, <3>1, LoadOrder, CountersNamed
    <3> QED
      BY <3>2, <1>5
  <2> QED
    BY <2>1, <2>2, <1>6
<1>10. /\ loaded' \in Seq(Nat) /\ Len(loaded') = n + 1 /\ loaded'[n + 1] = count[Loads[n + 1]]
      /\ \A k \in 1..n : loaded'[k] = loaded[k]
  BY <1>1, <1>3, <1>9
<1>11. Exact'
  <2>1. Types' /\ Phases'
    BY <1>2, <1>10 DEF LoadInv, Exact, Types, Phases
  <2>2. ClientExact' /\ ServerExact'
    BY <1>2, ClientApart, ServerApart DEF LoadInv, Exact
  <2> QED
    BY <2>1, <2>2 DEF Exact
<1>12. ASSUME reader = "reportStats" PROVE ReportSoFar'
  <2>1. ReportSoFar /\ UNCHANGED <<count, overtaken>>
    BY <1>2, <1>12 DEF LoadInv, ReaderInv
  <2>2. n = 0 \/ n = 1 \/ n = 2 \/ n = 3 \/ n = 4
    BY <1>8, <1>12
  <2>3. Loads = ReportLoads
    BY <1>6, <1>12
  <2>4. /\ count["totalResponses"] \in Nat /\ count["totalSuccesses"] \in Nat
        /\ count["totalStale"] \in Nat /\ count["totalSent"] \in Nat
        /\ count["totalResponses"] < Word /\ count["totalSuccesses"] <= count["totalResponses"]
        /\ count["totalResponses"] <= count["totalSent"] /\ count["totalStale"] <= count["totalSent"]
    BY CountersCompare, CountersNamed DEF LoadInv
  <2>5. CASE n = 0
    <3>1. Len(loaded') = 1 /\ loaded'[1] = count["totalResponses"]
      BY <1>10, <2>3, <2>5, LoadOrder
    <3> QED
      BY <3>1, <2>1, <2>4 DEF ReportSoFar
  <2>6. CASE n = 1
    <3>1. Len(loaded') = 2 /\ loaded'[1] = loaded[1] /\ loaded'[2] = count["totalSuccesses"]
      BY <1>10, <2>3, <2>6, LoadOrder
    <3> QED
      BY <3>1, <2>1, <2>4, <2>6 DEF ReportSoFar
  <2>7. CASE n = 2
    <3>1. Len(loaded') = 3 /\ loaded'[1] = loaded[1] /\ loaded'[2] = loaded[2]
      BY <1>10, <2>7
    <3> QED
      BY <3>1, <2>1, <2>7 DEF ReportSoFar
  <2>8. CASE n = 3
    <3>1. Len(loaded') = 4 /\ loaded'[1] = loaded[1] /\ loaded'[2] = loaded[2]
          /\ loaded'[4] = count["totalStale"]
      BY <1>10, <2>3, <2>8, LoadOrder
    <3> QED
      BY <3>1, <2>1, <2>4, <2>8 DEF ReportSoFar
  <2>9. CASE n = 4
    <3>1. Len(loaded') = 5 /\ loaded'[1] = loaded[1] /\ loaded'[2] = loaded[2]
          /\ loaded'[4] = loaded[4] /\ loaded'[5] = count["totalSent"]
          /\ loaded[1] \in Nat /\ loaded[4] \in Nat
      BY <1>4, <1>10, <2>3, <2>9, LoadOrder
    <3> QED
      BY <3>1, <2>1, <2>4, <2>9 DEF ReportSoFar
  <2> QED
    BY <2>2, <2>5, <2>6, <2>7, <2>8, <2>9
<1>13. ASSUME reader = "GetStats" PROVE SnapshotSoFar'
  <2>1. SnapshotSoFar /\ UNCHANGED count
    BY <1>2, <1>13 DEF LoadInv, ReaderInv
  <2>2. n = 0 \/ n = 1 \/ n = 2 \/ n = 3 \/ n = 4 \/ n = 5 \/ n = 6 \/ n = 7
    BY <1>8, <1>13
  <2>3. Loads = StatsLoads
    BY <1>6, <1>13
  <2>4. /\ count["totalErrors"] \in Nat /\ count["activeRequests"] \in Nat
        /\ count["userServiceErrors"] \in Nat /\ count["videoServiceErrors"] \in Nat
        /\ count["totalErrors"] <= count["activeRequests"] + count["userServiceErrors"]
                                     + count["videoServiceErrors"]
        /\ count["totalTimeMs"] <= MaxElapsed * count["totalRequests"]
    BY CountersCompare, CountersNamed DEF LoadInv
  <2>5. CASE n = 0
    <3>1. Len(loaded') = 1
      BY <1>10, <2>5
    <3> QED
      BY <3>1 DEF SnapshotSoFar
  <2>6. CASE n = 1
    <3>1. Len(loaded') = 2 /\ loaded'[2] = count["totalErrors"]
      BY <1>10, <2>3, <2>6, LoadOrder
    <3> QED
      BY <3>1, <2>1, <2>4 DEF SnapshotSoFar
  <2>7. CASE n = 2
    <3>1. Len(loaded') = 3 /\ loaded'[2] = loaded[2] /\ loaded'[3] = count["activeRequests"]
          /\ loaded[2] \in Nat
      BY <1>4, <1>10, <2>3, <2>7, LoadOrder
    <3> QED
      BY <3>1, <2>1, <2>4, <2>7 DEF SnapshotSoFar
  <2>8. CASE n = 3
    <3>1. Len(loaded') = 4 /\ loaded'[2] = loaded[2] /\ loaded'[3] = loaded[3]
          /\ loaded'[4] = count["userServiceErrors"]
      BY <1>10, <2>3, <2>8, LoadOrder
    <3> QED
      BY <3>1, <2>1, <2>8 DEF SnapshotSoFar
  <2>9. CASE n = 4
    <3>1. Len(loaded') = 5 /\ loaded'[2] = loaded[2] /\ loaded'[3] = loaded[3]
          /\ loaded'[4] = loaded[4] /\ loaded'[5] = count["videoServiceErrors"]
      BY <1>10, <2>3, <2>9, LoadOrder
    <3> QED
      BY <3>1, <2>1, <2>9 DEF SnapshotSoFar
  <2>10. ASSUME n >= 5
         PROVE  loaded'[2] = loaded[2] /\ loaded'[3] = loaded[3]
                /\ loaded'[4] = loaded[4] /\ loaded'[5] = loaded[5]
    BY <1>3, <1>10, <2>10
  <2>11. CASE n = 5
    <3>1. Len(loaded') = 6 /\ loaded'[6] = count["totalTimeMs"]
      BY <1>10, <2>3, <2>11, LoadOrder
    <3> QED
      BY <3>1, <2>1, <2>4, <2>10, <2>11 DEF SnapshotSoFar
  <2>12. CASE n = 6
    <3>1. Len(loaded') = 7 /\ loaded'[6] = loaded[6] /\ loaded'[7] = count["totalRequests"]
      BY <1>10, <2>3, <2>12, LoadOrder
    <3> QED
      BY <3>1, <2>1, <2>10, <2>12 DEF SnapshotSoFar
  <2>13. CASE n = 7
    <3>1. Len(loaded') = 8 /\ loaded'[6] = loaded[6] /\ loaded'[7] = loaded[7]
      BY <1>10, <2>13
    <3> QED
      BY <3>1, <2>1, <2>10, <2>13 DEF SnapshotSoFar
  <2> QED
    BY <2>2, <2>5, <2>6, <2>7, <2>8, <2>9, <2>11, <2>12, <2>13
<1> QED
  BY <1>2, <1>6, <1>11, <1>12, <1>13 DEF LoadInv, ReaderInv

\* Report keeps LoadInv.
LEMMA ReportStep == ASSUME LoadInv, Report PROVE LoadInv'
<1>1. loaded' = <<>> /\ Len(loaded') = 0
      /\ UNCHANGED <<client, handler, reply, outcome, reader, count>>
  BY DEF Report, requestVars
<1>2. Exact'
  <2>1. Types' /\ Phases'
    BY <1>1 DEF LoadInv, Exact, Types, Phases
  <2>2. ClientExact' /\ ServerExact'
    BY <1>1, ClientApart, ServerApart DEF LoadInv, Exact
  <2> QED
    BY <2>1, <2>2 DEF Exact
<1>3. ReportSoFar' /\ SnapshotSoFar'
  BY <1>1 DEF ReportSoFar, SnapshotSoFar
<1> QED
  BY <1>2, <1>3 DEF LoadInv, ReaderInv

\* LoadInv holds initially.
LEMMA LoadInitInv == Init => LoadInv
<1> SUFFICES ASSUME Init PROVE LoadInv
  OBVIOUS
<1>1. Types /\ Phases /\ Len(loaded) = 0
  BY DEF Init, Types, Phases, Counters
<1>2. /\ Sent = {} /\ Responded = {} /\ Succeeded = {} /\ StaleSeen = {} /\ Arrived = {}
      /\ Active = {} /\ AtError \cup Explained = {} /\ Explained = {} /\ Timed = {}
  BY DEF Init, Sent, Responded, Succeeded, StaleSeen, Arrived, Active, AtError, Explained, Timed
<1>3. \A c \in Counters : count[c] = 0
  BY DEF Init, Counters
<1>4. Cardinality({}) = 0
  BY FS_EmptySet
<1>5. ClientExact
  BY <1>2, <1>3, <1>4, CountersNamed DEF ClientExact
<1>6. ServerExact
  <2>1. MaxElapsed * 0 = 0
    BY LoadTestAssumption
  <2> QED
    BY <1>2, <1>3, <1>4, <2>1, CountersNamed DEF ServerExact
<1>7. ReportSoFar /\ SnapshotSoFar
  BY <1>1 DEF ReportSoFar, SnapshotSoFar
<1> QED
  BY <1>1, <1>5, <1>6, <1>7 DEF LoadInv, Exact, ReaderInv

\* Every step keeps LoadInv.
LEMMA LoadStepInv == LoadInv /\ [Next]_vars => LoadInv'
<1> SUFFICES ASSUME LoadInv, [Next]_vars PROVE LoadInv'
  OBVIOUS
<1>1. CASE LoadNext
  BY <1>1, LoadNextStep
<1>2. CASE Report
  BY <1>2, ReportStep
<1>3. ASSUME NEW r \in Requests, ClientStep(r) PROVE LoadInv'
  BY <1>3, ClientStepExact, ReaderWaits DEF LoadInv
<1>4. ASSUME NEW r \in Requests, HandlerStep(r) PROVE LoadInv'
  BY <1>4, HandlerStepExact, ReaderWaits DEF LoadInv
<1>5. ASSUME NEW r \in Requests, NEW k \in Conns, SendRequest(k, r) PROVE LoadInv'
  <2>1. UNCHANGED readerVars
    BY <1>5 DEF SendRequest
  <2> QED
    BY <1>5, <2>1, SendRequestStep, ReaderWaits DEF LoadInv
<1>6. CASE UNCHANGED vars
  <2>1. UNCHANGED <<client, handler, reply, outcome, reader, loaded, count, overtaken>>
    BY <1>6 DEF vars, requestVars, readerVars
  <2>2. Types' /\ Phases' /\ ReaderInv'
    BY <2>1 DEF LoadInv, Exact, Types, Phases, ReaderInv, ReportSoFar, SnapshotSoFar
  <2>3. ClientExact' /\ ServerExact'
    BY <2>1, ClientApart, ServerApart DEF LoadInv, Exact
  <2> QED
    BY <2>2, <2>3 DEF LoadInv, Exact
<1> QED
  BY <1>1, <1>2, <1>3, <1>4, <1>5, <1>6 DEF Next

\* What was loaded are numbers.
LEMMA LoadedNat ==
  ASSUME LoadInv, NEW k \in 1..Len(loaded) PROVE loaded[k] \in Nat
<1>1. loaded \in Seq(Nat)
  BY DEF LoadInv, Exact, Types
<1> QED
  BY <1>1

-----------------------------------------------------------------------------
(***************************************************************************)
(* The theorems.                                                           *)
(***************************************************************************)

\* Loaded(c) is the last of the loads of c.
LEMMA LoadedAt ==
  ASSUME NEW STATE c, NEW i \in DOMAIN Loads, Loads[i] = c, DOMAIN Loads \subseteq Int,
         \A j \in DOMAIN Loads : Loads[j] = c => j <= i
  PROVE  Loaded(c) = loaded[i]
<1> DEFINE P(k) == Loads[k] = c /\ \A j \in DOMAIN Loads : Loads[j] = c => j <= k
<1>1. ASSUME NEW k \in DOMAIN Loads, P(k) PROVE k = i
  <2>1. k <= i /\ i <= k /\ k \in Int /\ i \in Int
    BY <1>1
  <2> QED
    BY <2>1
<1>2. P(i)
  OBVIOUS
<1>3. (CHOOSE k \in DOMAIN Loads : P(k)) = i
  <2> HIDE DEF P
  <2> QED
    BY <1>1, <1>2, Zenon
<1> QED
  BY <1>3 DEF Loaded

\* Where reportStats finds what it loaded.
LEMMA ReportLoaded ==
  ASSUME reader = "reportStats"
  PROVE  /\ Loaded("totalResponses") = loaded[1] /\ Loaded("totalSuccesses") = loaded[2]
         /\ Loaded("totalStale") = loaded[4] /\ Loaded("totalSent") = loaded[5]
         /\ Len(Loads) = 5
<1>1. Loads = ReportLoads /\ DOMAIN Loads = {1, 2, 3, 4, 5} /\ Len(Loads) = 5
  BY DEF Loads, ReportLoads
<1>2. /\ Loads[1] = "totalResponses" /\ Loads[2] = "totalSuccesses" /\ Loads[3] = "totalLatencyMs"
      /\ Loads[4] = "totalStale" /\ Loads[5] = "totalSent"
  BY <1>1, LoadOrder
<1>3. DOMAIN Loads \subseteq Int
  BY <1>1
<1> QED
  BY <1>1, <1>2, <1>3, LoadedAt

\* Where GetStats finds what it loaded.
LEMMA SnapshotLoaded ==
  ASSUME reader = "GetStats"
  PROVE  /\ Loaded("totalErrors") = loaded[2] /\ Loaded("activeRequests") = loaded[3]
         /\ Loaded("userServiceErrors") = loaded[4] /\ Loaded("videoServiceErrors") = loaded[5]
         /\ Loaded("totalTimeMs") = loaded[6] /\ Loaded("totalRequests") = loaded[7]
         /\ Len(Loads) = 8
<1>1. Loads = StatsLoads /\ DOMAIN Loads = {1, 2, 3, 4, 5, 6, 7, 8} /\ Len(Loads) = 8
  BY DEF Loads, StatsLoads
<1>2. /\ Loads[1] = "totalRequests" /\ Loads[2] = "totalErrors" /\ Loads[3] = "activeRequests"
      /\ Loads[4] = "userServiceErrors" /\ Loads[5] = "videoServiceErrors"
      /\ Loads[6] = "totalTimeMs" /\ Loads[7] = "totalRequests" /\ Loads[8] = "staleResponses"
  BY <1>1, LoadOrder
<1>3. DOMAIN Loads \subseteq Int
  BY <1>1
<1> QED
  BY <1>1, <1>2, <1>3, LoadedAt

-----------------------------------------------------------------------------
(***************************************************************************)
(* The two sides.  Of staleResponses the model keeps bounds: a request     *)
(* that found the cache empty is counted, and is answered with an error.   *)
(***************************************************************************)
FellBack == {r \in Requests : reply[r] = "stale"}
Over == {r \in Requests : handler[r] \in {"elapsed", "inactive", "answered"} /\ reply[r] # "fresh"}

SidesInv ==
  /\ \A r \in Requests :
       /\ handler[r] # "none" => client[r] # "unborn"
       /\ outcome[r] # "error" => handler[r] = "answered" /\ reply[r] = outcome[r]
  /\ Cardinality(FellBack) <= count["staleResponses"]
  /\ count["staleResponses"] <= Cardinality(Over)

\* What is over are sets of requests.
LEMMA SidesSets ==
  /\ FellBack \in SUBSET Requests /\ Over \in SUBSET Requests
  /\ Cardinality(FellBack) \in Nat /\ Cardinality(Over) \in Nat
<1>1. FellBack \in SUBSET Requests /\ Over \in SUBSET Requests
  BY DEF FellBack, Over
<1> QED
  BY <1>1, SizesFit

\* A step that counts no fallback may end requests.
LEMMA SidesKept ==
  ASSUME Types, SidesInv, count'["staleResponses"] = count["staleResponses"],
         FellBack' = FellBack, Over \subseteq Over',
         \A r \in Requests :
           /\ handler'[r] # "none" => client'[r] # "unborn"
           /\ outcome'[r] # "error" => handler'[r] = "answered" /\ reply'[r] = outcome'[r]
  PROVE  SidesInv'
<1>1. Over' \in SUBSET Requests
  BY DEF Over
<1>2. Cardinality(Over) <= Cardinality(Over') /\ Cardinality(Over') \in Nat /\ Cardinality(Over) \in Nat
  BY <1>1, SizesOrdered, SizesFit, SidesSets
<1>3. count["staleResponses"] \in Nat
  BY CountersNamed DEF Types
<1>4. count'["staleResponses"] <= Cardinality(Over')
  BY <1>2, <1>3 DEF SidesInv
<1> QED
  BY <1>4 DEF SidesInv

\* A client's steps; an answer is the handler's reply.
LEMMA SidesClient ==
  ASSUME Exact, SidesInv, NEW r \in Requests,
         ClientStep(r) \/ \E k \in Conns : SendRequest(k, r)
  PROVE  SidesInv'
<1>1. Types
  BY DEF Exact
<1>2. /\ UNCHANGED <<handler, reply>>
      /\ client' \in [Requests -> {"unborn", "call", "stale", "responses", "latency", "success", "done"}]
      /\ client'[r] # "unborn" /\ \A q \in Requests \ {r} : client'[q] = client[q]
      /\ outcome' = outcome \/ (handler[r] = "answered" /\ outcome' = [outcome EXCEPT ![r] = reply[r]])
  BY <1>1 DEF Types, ClientStep, SendRequest, Answer, Timeout, CountStaleSeen, CountResponse,
              CountLatency, CountSuccess, ClientGoes
<1>3. count'["staleResponses"] = count["staleResponses"]
  <2>1. Elapsed \subseteq Nat
    BY LoadTestAssumption
  <2> QED
    BY <1>1, <2>1, AddAny, CountersNamed
    DEF ClientStep, SendRequest, Answer, Timeout, CountStaleSeen, CountResponse, CountLatency, CountSuccess
<1>4. FellBack' = FellBack /\ Over' = Over
  BY <1>2 DEF FellBack, Over
<1>5. ASSUME NEW q \in Requests
      PROVE  /\ handler'[q] # "none" => client'[q] # "unborn"
             /\ outcome'[q] # "error" => handler'[q] = "answered" /\ reply'[q] = outcome'[q]
  <2>1. handler'[q] # "none" => client'[q] # "unborn"
    BY <1>2 DEF SidesInv
  <2>2. outcome \in [Requests -> {"error", "stale", "fresh"}]
    BY <1>1 DEF Types
  <2>3. outcome'[q] # "error" => handler'[q] = "answered" /\ reply'[q] = outcome'[q]
    BY <1>2, <2>2 DEF SidesInv
  <2> QED
    BY <2>1, <2>3
<1> QED
  BY <1>1, <1>3, <1>4, <1>5, SidesKept

\* A handler's steps: who has an answer has one from a handler that is done.
LEMMA SidesHandler ==
  ASSUME Exact, SidesInv, NEW r \in Requests, HandlerStep(r), ~CountStale(r)
  PROVE  SidesInv'
<1>1. Types /\ Phases
  BY DEF Exact
<1>2. /\ UNCHANGED <<client, outcome>> /\ client[r] # "unborn" /\ handler[r] # "answered"
      /\ \E to \in {"active", "query", "userError", "videoError", "stale", "elapsed", "inactive", "answered"} :
           handler' = [handler EXCEPT ![r] = to]
      /\ \/ reply' = reply
         \/ handler[r] = "query" /\ reply' = [reply EXCEPT ![r] = "fresh"]
      /\ handler[r] \in {"elapsed", "inactive"} =>
           handler'[r] \in {"inactive", "answered"} /\ reply' = reply
  BY <1>1 DEF SidesInv, Types, HandlerStep, CountRequest, CountActive, CountError, CountUserError,
              CountVideoError, Succeed, CountTime, CountInactive, HandlerGoes
<1>3. count'["staleResponses"] = count["staleResponses"]
  <2>1. Elapsed \subseteq Nat /\ Word - 1 \in Nat
    <3>1. Cardinality({}) < Word /\ Cardinality({}) \in Nat
      BY SizesFit
    <3> QED
      BY <3>1, LoadTestAssumption
  <2> QED
    BY <1>1, <2>1, AddAny, CountersNamed
    DEF HandlerStep, CountRequest, CountActive, CountError, CountUserError, CountVideoError, Succeed,
        CountTime, CountInactive
<1>4. FellBack' = FellBack
  BY <1>1, <1>2 DEF FellBack, Types, Phases
<1>5. Over \subseteq Over'
  BY <1>1, <1>2 DEF Over, Types
<1>6. ASSUME NEW q \in Requests
      PROVE  /\ handler'[q] # "none" => client'[q] # "unborn"
             /\ outcome'[q] # "error" => handler'[q] = "answered" /\ reply'[q] = outcome'[q]
  BY <1>1, <1>2 DEF SidesInv, Types
<1> QED
  BY <1>1, <1>3, <1>4, <1>5, <1>6, SidesKept

\* A fallback is counted, whether or not it has something to answer with.
LEMMA SidesStale ==
  ASSUME Exact, SidesInv, NEW r \in Requests, CountStale(r)
  PROVE  SidesInv'
<1>1. Types /\ Phases
  BY DEF Exact
<1>2. PICK answer \in {"stale", "error"} : reply' = [reply EXCEPT ![r] = answer]
  BY DEF CountStale
<1>3. /\ UNCHANGED <<client, outcome>> /\ handler[r] = "stale"
      /\ handler' = [handler EXCEPT ![r] = "elapsed"] /\ Add("staleResponses", 1)
  BY DEF CountStale, HandlerGoes
<1>4. Over' = Over \cup {r} /\ r \notin Over
  BY <1>1, <1>2, <1>3 DEF Over, Types
<1>5. /\ count'["staleResponses"] = count["staleResponses"] + 1
      /\ Cardinality(Over \cup {r}) = Cardinality(Over) + 1
  BY <1>1, <1>3, <1>4, SidesSets, CountersNamed, CountOne DEF SidesInv
<1>6. Cardinality(FellBack') <= Cardinality(FellBack) + 1 /\ Cardinality(FellBack') \in Nat
  <2>1. FellBack' \subseteq FellBack \cup {r} /\ r \notin FellBack
    BY <1>1, <1>2, <1>3 DEF FellBack, Types, Phases
  <2>2. FellBack \cup {r} \in SUBSET Requests
    BY SidesSets
  <2>3. Cardinality(FellBack') <= Cardinality(FellBack \cup {r})
    BY <2>1, <2>2, SizesOrdered
  <2>4. Cardinality(FellBack \cup {r}) = Cardinality(FellBack) + 1
    BY <2>1, SidesSets, OneMore
  <2>5. FellBack' \in SUBSET Requests
    BY DEF FellBack
  <2> QED
    BY <2>3, <2>4, <2>5, SizesFit
<1>7. count["staleResponses"] \in Nat /\ Cardinality(FellBack) \in Nat /\ Cardinality(Over) \in Nat
  BY <1>1, SidesSets, CountersNamed DEF Types
<1>8. Cardinality(FellBack') <= count'["staleResponses"] /\ count'["staleResponses"] <= Cardinality(Over')
  <2>1. Cardinality(FellBack) <= count["staleResponses"] /\ count["staleResponses"] <= Cardinality(Over)
    BY DEF SidesInv
  <2>2. Cardinality(Over') = Cardinality(Over) + 1
    BY <1>4, <1>5
  <2> QED
    BY <1>5, <1>6, <1>7, <2>1, <2>2
<1>9. ASSUME NEW q \in Requests
      PROVE  /\ handler'[q] # "none" => client'[q] # "unborn"
             /\ outcome'[q] # "error" => handler'[q] = "answered" /\ reply'[q] = outcome'[q]
  BY <1>1, <1>2, <1>3 DEF SidesInv, Types
<1> QED
  BY <1>8, <1>9 DEF SidesInv

\* Every step keeps the two sides in step.
LEMMA SidesNext == Exact /\ SidesInv /\ [Next]_vars => SidesInv'
<1> SUFFICES ASSUME Exact, SidesInv, [Next]_vars PROVE SidesInv'
  OBVIOUS
<1>1. ASSUME NEW r \in Requests, ClientStep(r) \/ \E k \in Conns : SendRequest(k, r) PROVE SidesInv'
  BY <1>1, SidesClient
<1>2. ASSUME NEW r \in Requests, HandlerStep(r) PROVE SidesInv'
  BY <1>2, SidesHandler, SidesStale
<1>3. CASE LoadNext \/ Report \/ UNCHANGED vars
  <2>1. UNCHANGED <<count, client, handler, reply, outcome>>
    BY <1>3 DEF LoadNext, Report, vars, requestVars
  <2>2. FellBack' = FellBack /\ Over' = Over
    BY <2>1 DEF FellBack, Over
  <2> QED
    BY <2>1, <2>2 DEF SidesInv
<1> QED
  BY <1>1, <1>2, <1>3 DEF Next

\* Nothing is over at the start.
LEMMA SidesInit == Init => SidesInv
<1> SUFFICES ASSUME Init PROVE SidesInv
  OBVIOUS
<1>1. FellBack = {} /\ Over = {} /\ count["staleResponses"] = 0
  BY CountersNamed DEF Init, FellBack, Over, Counters
<1>2. Cardinality({}) = 0
  BY FS_EmptySet
<1> QED
  BY <1>1, <1>2 DEF Init, SidesInv

\* Two sets of requests in a third one, which overlap.
LEMMA SizesOverlap ==
  ASSUME NEW S \in SUBSET Requests, NEW T \in SUBSET S, NEW U \in SUBSET S
  PROVE  Cardinality(T) + Cardinality(U) <= Cardinality(S) + Cardinality(T \cap U)
<1>1. /\ T \in SUBSET Requests /\ U \in SUBSET Requests
      /\ T \cup U \in SUBSET Requests /\ T \cap U \in SUBSET Requests /\ T \cup U \in SUBSET S
  OBVIOUS
<1>2. /\ IsFiniteSet(T) /\ IsFiniteSet(U) /\ Cardinality(T) \in Nat /\ Cardinality(U) \in Nat
      /\ Cardinality(T \cup U) \in Nat /\ Cardinality(T \cap U) \in Nat /\ Cardinality(S) \in Nat
  BY <1>1, SizesFit
<1>3. Cardinality(T \cup U) = Cardinality(T) + Cardinality(U) - Cardinality(T \cap U)
  BY <1>2, FS_Union
<1>4. Cardinality(T \cup U) <= Cardinality(S)
  BY <1>1, SizesOrdered
<1> QED
  BY <1>2, <1>3, <1>4

\* When nothing is in flight, what the server counted covers what the clients saw.
LEMMA QuietSides ==
  ASSUME LoadInv, SidesInv,
         \A r \in Requests : /\ client[r] \in {"unborn", "done"}
                             /\ handler[r] \in {"none", "answered"}
  PROVE  /\ count["totalRequests"] <= count["totalSent"]
         /\ count["totalStale"] <= count["staleResponses"]
         /\ count["totalSuccesses"] <= count["totalRequests"] - count["totalErrors"] + count["staleResponses"]
<1> DEFINE Got == {r \in Requests : handler[r] = "answered" /\ reply[r] # "error"}
<1>1. Types /\ Phases /\ ClientExact /\ ServerExact
  BY DEF LoadInv, Exact
<1>2. /\ Arrived \in SUBSET Sent /\ StaleSeen \in SUBSET FellBack /\ Succeeded \in SUBSET Got
      /\ Got \in SUBSET Arrived /\ Explained \in SUBSET Arrived /\ Got \cap Explained \in SUBSET FellBack
      /\ AtError \cup Explained = Explained /\ Got \in SUBSET Requests
  <2>1. Arrived \in SUBSET Sent
    BY DEF SidesInv, Arrived, Sent
  <2>2. StaleSeen \in SUBSET FellBack /\ Succeeded \in SUBSET Got
    BY DEF SidesInv, StaleSeen, FellBack, Succeeded
  <2>3. Got \in SUBSET Arrived /\ Explained \in SUBSET Arrived /\ Got \in SUBSET Requests
    BY DEF Arrived, Explained
  <2>4. Got \cap Explained \in SUBSET FellBack
    BY <1>1 DEF Types, Explained, FellBack
  <2>5. AtError \cup Explained = Explained
    BY DEF AtError
  <2> QED
    BY <2>1, <2>2, <2>3, <2>4, <2>5
<1> HIDE DEF Got
<1>3. /\ Cardinality(Arrived) <= Cardinality(Sent) /\ Cardinality(StaleSeen) <= Cardinality(FellBack)
      /\ Cardinality(Succeeded) <= Cardinality(Got)
      /\ Cardinality(Got \cap Explained) <= Cardinality(FellBack)
  BY <1>2, CountedSets, SidesSets, SizesOrdered
<1>4. Cardinality(Got) + Cardinality(Explained) <= Cardinality(Arrived) + Cardinality(Got \cap Explained)
  BY <1>2, CountedSets, SizesOverlap
<1>5. /\ Cardinality(Arrived) \in Nat /\ Cardinality(Sent) \in Nat /\ Cardinality(StaleSeen) \in Nat
      /\ Cardinality(FellBack) \in Nat /\ Cardinality(Succeeded) \in Nat /\ Cardinality(Got) \in Nat
      /\ Cardinality(Explained) \in Nat
  BY <1>2, CountedSets, SidesSets, SizesFit
<1>6. Cardinality(Got \cap Explained) \in Nat
  <2>1. Got \cap Explained \in SUBSET Requests
    BY <1>2, SidesSets
  <2> QED
    BY <2>1, SizesFit
<1>7. /\ count["totalRequests"] = Cardinality(Arrived) /\ count["totalSent"] = Cardinality(Sent)
      /\ count["totalStale"] = Cardinality(StaleSeen) /\ count["totalSuccesses"] = Cardinality(Succeeded)
      /\ count["totalErrors"] = Cardinality(Explained)
      /\ Cardinality(FellBack) <= count["staleResponses"]
  BY <1>1, <1>2 DEF ClientExact, ServerExact, SidesInv
<1>8. count["staleResponses"] \in Nat
  BY <1>1, CountersNamed DEF Types
<1> QED
  BY <1>3, <1>4, <1>5, <1>6, <1>7, <1>8

\* Exact counters agree when nothing is in flight.
LEMMA QuietAgree == LoadInv /\ SidesInv => QuietCountsAgree
<1> SUFFICES ASSUME LoadInv, SidesInv,
                    \A r \in Requests : /\ client[r] \in {"unborn", "done"}
                                        /\ handler[r] \in {"none", "answered"}
             PROVE  /\ count["totalResponses"] = count["totalSent"]
                    /\ count["totalResponses"] - count["totalSuccesses"]
                         = Cardinality({r \in Requests : client[r] = "done" /\ outcome[r] = "error"})
                    /\ count["totalStale"] = Cardinality({r \in Requests : outcome[r] = "stale"})
                    /\ count["activeRequests"] = 0
                    /\ count["totalErrors"] = count["userServiceErrors"] + count["videoServiceErrors"]
  BY QuietSides DEF QuietCountsAgree
<1> DEFINE Failed == {r \in Requests : client[r] = "done" /\ outcome[r] = "error"}
<1>1. Responded = Sent /\ Responded = Succeeded \cup Failed /\ Succeeded \cap Failed = {}
      /\ Failed \in SUBSET Requests
  BY DEF Responded, Sent, Succeeded
<1>2. StaleSeen = {r \in Requests : outcome[r] = "stale"}
  BY DEF StaleSeen
<1>3. Active = {} /\ AtError \cup Explained = Explained
  BY DEF Active, AtError, Explained
<1>4. Cardinality(Responded) = Cardinality(Succeeded) + Cardinality(Failed)
      /\ Cardinality(Succeeded) \in Nat /\ Cardinality(Failed) \in Nat
  <2> HIDE DEF Failed
  <2>1. IsFiniteSet(Succeeded) /\ IsFiniteSet(Failed) /\ Cardinality(Succeeded) \in Nat
        /\ Cardinality(Failed) \in Nat
    BY <1>1, CountedSets, SizesFit
  <2>2. Cardinality(Succeeded \cup Failed)
          = Cardinality(Succeeded) + Cardinality(Failed) - Cardinality(Succeeded \cap Failed)
    BY <2>1, FS_Union
  <2>3. Cardinality(Succeeded \cap Failed) = 0
    BY <1>1, FS_EmptySet
  <2> QED
    BY <2>1, <2>2, <2>3, <1>1
<1>5. Cardinality(Active) = 0
  BY <1>3, FS_EmptySet
<1>6. count["totalResponses"] - count["totalSuccesses"] = Cardinality(Failed)
  <2> HIDE DEF Failed
  <2> QED
    BY <1>4 DEF LoadInv, Exact, ClientExact
<1> QED
  BY <1>1, <1>2, <1>3, <1>5, <1>6 DEF LoadInv, Exact, ClientExact, ServerExact

\* Exact counters, loaded in this order, make a consistent report.
LEMMA ReportRight == LoadInv => ReportsConsistent
<1> SUFFICES ASSUME LoadInv, reader = "reportStats", Len(loaded) = Len(Loads)
             PROVE  /\ ~overtaken => (Loaded("totalResponses") - Loaded("totalSuccesses")) % Word
                                       <= Loaded("totalResponses")
                    /\ Loaded("totalSent") >= Loaded("totalResponses")
                    /\ Loaded("totalSent") >= Loaded("totalStale")
  BY DEF ReportsConsistent, Finished
<1>1. Len(loaded) = 5 /\ loaded \in Seq(Nat)
  BY ReportLoaded DEF LoadInv, Exact, Types
<1>2. loaded[1] \in Nat /\ loaded[2] \in Nat /\ loaded[4] \in Nat /\ loaded[5] \in Nat
  BY <1>1, LoadedNat
<1>3. ReportSoFar
  BY DEF LoadInv, ReaderInv
<1>4. loaded[1] < Word /\ loaded[1] <= loaded[5] /\ loaded[4] <= loaded[5]
      /\ (~overtaken => loaded[2] <= loaded[1])
  BY <1>1, <1>3 DEF ReportSoFar
<1>5. ASSUME ~overtaken PROVE (loaded[1] - loaded[2]) % Word <= loaded[1]
  <2>1. loaded[1] - loaded[2] \in Nat /\ loaded[1] - loaded[2] < Word
        /\ loaded[1] - loaded[2] <= loaded[1]
    BY <1>2, <1>4, <1>5, LoadTestAssumption
  <2> QED
    BY <2>1, NoWrap
<1>6. loaded[5] >= loaded[1] /\ loaded[5] >= loaded[4]
  BY <1>2, <1>4
<1> QED
  BY <1>5, <1>6, ReportLoaded

\* Exact counters, loaded in this order, make a consistent snapshot.
LEMMA SnapshotRight == LoadInv => SnapshotsConsistent
<1> SUFFICES ASSUME LoadInv, reader = "GetStats", Len(loaded) = Len(Loads)
             PROVE  /\ Loaded("totalErrors") <=
                         Loaded("userServiceErrors") + Loaded("videoServiceErrors")
                           + Loaded("activeRequests")
                    /\ Loaded("totalTimeMs") <= MaxElapsed * Loaded("totalRequests")
  BY DEF SnapshotsConsistent, Finished
<1>1. Len(loaded) = 8 /\ loaded \in Seq(Nat)
  BY SnapshotLoaded DEF LoadInv, Exact, Types
<1>2. loaded[2] \in Nat /\ loaded[3] \in Nat /\ loaded[4] \in Nat /\ loaded[5] \in Nat
  BY <1>1, LoadedNat
<1>3. SnapshotSoFar
  BY DEF LoadInv, ReaderInv
<1>4. loaded[2] <= loaded[3] + loaded[4] + loaded[5] /\ loaded[6] <= MaxElapsed * loaded[7]
  BY <1>1, <1>3 DEF SnapshotSoFar
<1>5. loaded[2] <= loaded[4] + loaded[5] + loaded[3]
  BY <1>2, <1>4
<1> QED
  BY <1>4, <1>5, SnapshotLoaded

\* When nothing is under way, the clients' and the server's counters agree with
\* what happened to the requests on each side, and the server's cover what the
\* clients saw (loadgen.go:59-66, server_lib.go:180, 252 and 264).
THEOREM CountersAgreeWhenQuiet == Spec => []QuietCountsAgree
<1>1. LoadInv /\ SidesInv => QuietCountsAgree
  BY QuietAgree
<1>2. LoadInv => Exact
  BY DEF LoadInv
<1> QED
  BY <1>1, <1>2, LoadInitInv, LoadStepInv, SidesInit, SidesNext, PTL DEF Spec

\* A report never shows more responses than requests, and its errors wrap below
\* zero only if a success was counted while it was made (loadgen.go:85-92).
THEOREM ReportsAreConsistent == Spec => []ReportsConsistent
<1>1. LoadInv => ReportsConsistent
  BY ReportRight
<1> QED
  BY <1>1, LoadInitInv, LoadStepInv, PTL DEF Spec

\* Every error in a snapshot of GetStats is explained by it, and its average
\* latency is at most the longest request (server_lib.go:312-320).
THEOREM SnapshotsAreConsistent == Spec => []SnapshotsConsistent
<1>1. LoadInv => SnapshotsConsistent
  BY SnapshotRight
<1> QED
  BY <1>1, LoadInitInv, LoadStepInv, PTL DEF Spec

-----------------------------------------------------------------------------
(***************************************************************************)
(* The databases.  Of the generator only what the two counts need is kept: *)
(* between the seeding of a service and its first draw the stream is where *)
(* the seed left it, unless somebody else has drawn.                       *)
(***************************************************************************)
IsRng(g) == g \in [seed : Seeds, drawn : Nat]

GeneratorInv ==
  /\ seed \in [Services -> Seeds]
  /\ started \in [Services -> {"no", "seeded", "up"}]
  /\ disturbed \in BOOLEAN
  /\ IsRng(rng)
  /\ \A s \in Services : started[s] = "seeded" =>
       /\ rng.drawn + 2 <= MaxDraws
       /\ \A t \in Services : started[t] = "seeded" => t = s
       /\ ~disturbed => rng.seed = seed[s] /\ rng.drawn = 0

\* The number of videos that a service with seed s counts if nobody disturbs it.
FirstCount(s) == (Stream[s][1] % VideoRange.spread) + VideoRange.least

\* A coefficient table, as maps of features to coefficients.
IsCoeffs(c) == \E fs \in SUBSET Features : c \in [fs -> Coefficients]

\* What UserService has made: n users, who like some of the first m videos.
UsersMade(n, m) ==
  /\ n \in Nat /\ m \in Nat /\ n >= UserRange.least
  /\ DOMAIN users = Ids(USER_ID_OFFSET, n)
  /\ \A u \in DOMAIN users :
       /\ IsCoeffs(users[u].Coeffs)
       /\ Range(users[u].SubscribedTo) \subseteq DOMAIN users \ {u}
       /\ Range(users[u].LikedVideos) \subseteq Ids(VIDEO_ID_OFFSET, m)
  /\ ~disturbed => m = FirstCount(seed["user"])

\* What VideoService has made: m videos.
VideosMade(m) ==
  /\ m \in Nat
  /\ DOMAIN infos = Ids(VIDEO_ID_OFFSET, m)
  /\ \A v \in DOMAIN infos : IsCoeffs(infos[v])
  /\ trending # <<>> /\ IsInjective(trending) /\ Range(trending) \subseteq DOMAIN infos
  /\ ~disturbed => m = FirstCount(seed["video"])

RecordsInv ==
  /\ started["user"] # "up" => DOMAIN users = {}
  /\ started["video"] # "up" => DOMAIN infos = {}
  /\ started["user"] = "up" => \E n, m : UsersMade(n, m)
  /\ started["video"] = "up" => \E m : VideosMade(m)

\* The generator as the initial state has it.
LEMMA GeneratorInit == DbInit => GeneratorInv
  <1> SUFFICES ASSUME DbInit PROVE GeneratorInv
    OBVIOUS
  <1>1. seed \in [Services -> Seeds] /\ disturbed \in BOOLEAN
    BY DEF DbInit
  <1>2. seed["user"] \in Seeds
    BY <1>1 DEF Services
  <1>3. IsRng(rng)
    BY <1>2 DEF DbInit, IsRng
  <1>4. started = [s \in Services |-> "no"]
    BY DEF DbInit
  <1> QED
    BY <1>1, <1>3, <1>4 DEF GeneratorInv

\* Seeding, drawing and starting keep what is known of the generator.
LEMMA GeneratorNext == GeneratorInv /\ [DbNext]_dbVars => GeneratorInv'
  <1> SUFFICES ASSUME GeneratorInv, [DbNext]_dbVars PROVE GeneratorInv'
    OBVIOUS
  <1> USE DEF Services
  <1>0. ASSUME NEW k \in Nat, rng' = [rng EXCEPT !.drawn = @ + k]
        PROVE  IsRng(rng') /\ rng'.drawn = rng.drawn + k
    <2>1. rng \in [seed : Seeds, drawn : Nat]
      BY DEF GeneratorInv, IsRng
    <2> QED
      BY <1>0, <2>1 DEF IsRng
  <1>1. ASSUME NEW s \in Services, SeedRand(s) PROVE GeneratorInv'
    <2>1. /\ \A t \in Services : started[t] # "seeded"
      BY <1>1 DEF SeedRand, Range, GeneratorInv
    <2>2. IsRng(rng') /\ rng'.seed = seed[s] /\ rng'.drawn = 0
      BY <1>1 DEF SeedRand, GeneratorInv, IsRng
    <2>3. started' = [started EXCEPT ![s] = "seeded"] /\ UNCHANGED <<seed, disturbed>>
      BY <1>1 DEF SeedRand
    <2>4. MaxDraws \in Nat /\ 0 + 2 <= MaxDraws
      BY DatabasesAssumption
    <2> QED
      BY <2>1, <2>2, <2>3, <2>4 DEF GeneratorInv
  <1>2. CASE oneInDraws
    <2>1. IsRng(rng') /\ rng'.drawn = rng.drawn + 1 /\ rng.drawn < MaxDraws - 2 /\ UNCHANGED <<seed, started>>
      BY <1>0, <1>2 DEF oneInDraws
    <2>2. disturbed' = (disturbed \/ "seeded" \in Range(started))
      BY <1>2 DEF oneInDraws
    <2>3. ASSUME NEW s \in Services, started[s] = "seeded" PROVE disturbed' = TRUE
      <3>1. "seeded" \in Range(started)
        BY <2>3 DEF Range, GeneratorInv
      <3> QED
        BY <2>2, <3>1, Zenon
    <2>4. disturbed' \in BOOLEAN
      BY <2>2, Zenon
    <2>5. rng'.drawn + 2 <= MaxDraws
      BY <2>1, DatabasesAssumption DEF GeneratorInv, IsRng
    <2> QED
      BY <2>1, <2>3, <2>4, <2>5 DEF GeneratorInv
  <1>3. CASE MakeUserServiceServer
    <2>1. IsRng(rng') /\ UNCHANGED <<seed, disturbed>>
      BY <1>0, <1>3 DEF MakeUserServiceServer
    <2>2. started["user"] = "seeded" /\ started' = [started EXCEPT !["user"] = "up"]
      BY <1>3 DEF MakeUserServiceServer
    <2>3. \A t \in Services : started'[t] # "seeded"
      BY <2>2 DEF GeneratorInv
    <2> QED
      BY <2>1, <2>2, <2>3 DEF GeneratorInv
  <1>4. CASE MakeVideoServiceServer
    <2>1. IsRng(rng') /\ UNCHANGED <<seed, disturbed>>
      BY <1>0, <1>4 DEF MakeVideoServiceServer
    <2>2. started["video"] = "seeded" /\ started' = [started EXCEPT !["video"] = "up"]
      BY <1>4 DEF MakeVideoServiceServer
    <2>3. \A t \in Services : started'[t] # "seeded"
      BY <2>2 DEF GeneratorInv
    <2> QED
      BY <2>1, <2>2, <2>3 DEF GeneratorInv
  <1>5. CASE UNCHANGED <<seed, rng, started, disturbed>>
    BY <1>5 DEF GeneratorInv
  <1>6. \/ UNCHANGED <<seed, rng, started, disturbed>>
        \/ (\E s \in Services : SeedRand(s)) \/ oneInDraws
        \/ MakeUserServiceServer \/ MakeVideoServiceServer
    BY DEF DbNext, dbVars, StartRank, RankFeature, EndRank
  <1> QED
    BY <1>1, <1>2, <1>3, <1>4, <1>5, <1>6

\* A count drawn from the stream is a number not below the least one.
LEMMA DrawValue ==
  ASSUME GeneratorInv, NEW s \in Services, started[s] = "seeded", NEW k \in {1, 2},
         NEW range, range \in [spread : Nat \ {0}, least : Nat \ {0}]
  PROVE  Draw(k, range) \in Nat /\ Draw(k, range) >= range.least /\ range.least \in Nat \ {0}
  <1>1. rng.seed \in Seeds /\ rng.drawn \in Nat /\ rng.drawn + 2 <= MaxDraws
    BY DEF GeneratorInv, IsRng
  <1>2. Stream[rng.seed] \in Seq(Nat) /\ Len(Stream[rng.seed]) >= MaxDraws /\ MaxDraws \in Nat
    <2>1. Stream \in [Seeds -> Seq(Nat)] /\ MaxDraws \in Nat
      BY DatabasesAssumption
    <2>2. \A z \in Seeds : Len(Stream[z]) >= MaxDraws
      BY DatabasesAssumption
    <2> QED
      BY <1>1, <2>1, <2>2
  <1>3. rng.drawn + k \in 1..Len(Stream[rng.seed])
    <2> DEFINE l == Len(Stream[rng.seed])
               d == rng.drawn
    <2>1. l \in Nat /\ d \in Nat /\ d + 2 <= MaxDraws /\ l >= MaxDraws /\ MaxDraws \in Nat
      BY <1>1, <1>2
    <2> HIDE DEF l, d
    <2>2. d + 1 \in 1..l /\ d + 2 \in 1..l
      BY <2>1
    <2>3. d + k \in 1..l
      BY <2>2
    <2> QED
      BY <2>3 DEF l, d
  <1>4. Stream[rng.seed][rng.drawn + k] \in Nat
    <2>1. \A q \in Seq(Nat) : \A m \in 1..Len(q) : q[m] \in Nat
      OBVIOUS
    <2>2. Stream[rng.seed] \in Seq(Nat)
      BY <1>2
    <2> QED
      BY <1>3, <2>1, <2>2, Zenon
  <1> DEFINE x == Stream[rng.seed][rng.drawn + k]
  <1>5. x \in Nat /\ range.spread \in Nat \ {0} /\ range.least \in Nat \ {0}
    BY <1>4
  <1> HIDE DEF x
  <1>6. x % range.spread \in Nat
    BY <1>5
  <1>7. (x % range.spread) + range.least \in Nat /\ (x % range.spread) + range.least >= range.least
    BY <1>5, <1>6
  <1> QED
    BY <1>5, <1>7 DEF Draw, x

\* Lists of draws are lists of what is drawn from, and not empty.
LEMMA DrawnIsList ==
  ASSUME NEW set, NEW counts \in SUBSET (Nat \ {0}), NEW d \in DrawnFrom(set, counts)
  PROVE  d \in Seq(set) /\ d # <<>>
  <1>1. PICK n \in counts : d \in [1..n -> set]
    BY DEF DrawnFrom
  <1>2. n \in Nat /\ n # 0
    OBVIOUS
  <1>3. d \in Seq(set) /\ Len(d) = n
    BY <1>1, <1>2
  <1> QED
    BY <1>2, <1>3

\* What one seeded service draws, if nobody else did, is what its seed says.
LEMMA UndisturbedDraw ==
  ASSUME GeneratorInv, NEW s \in Services, started[s] = "seeded", ~disturbed
  PROVE  Draw(1, VideoRange) = FirstCount(seed[s])
  <1>1. rng.seed = seed[s] /\ rng.drawn = 0
    BY DEF GeneratorInv
  <1> QED
    BY <1>1 DEF Draw, FirstCount

\* The users that makeRandomUsers makes.
LEMMA UsersStart ==
  ASSUME GeneratorInv, MakeUserServiceServer
  PROVE  \E n, m : UsersMade(n, m)'
  <1>1. started["user"] = "seeded" /\ UNCHANGED <<seed, disturbed>>
    BY DEF MakeUserServiceServer
  <1>2. /\ UserRange \in [spread : Nat \ {0}, least : Nat \ {0}]
        /\ VideoRange \in [spread : Nat \ {0}, least : Nat \ {0}]
        /\ SubscribeCounts \in SUBSET (Nat \ {0}) /\ LikeCounts \in SUBSET (Nat \ {0})
    BY DatabasesAssumption
  <1>3. PICK n \in Nat, m \in Nat :
          n = Draw(2, UserRange) /\ m = Draw(1, VideoRange) /\ n >= UserRange.least
    BY <1>1, <1>2, DrawValue DEF Services
  <1> DEFINE userIds == Ids(USER_ID_OFFSET, n)
             videoIds == Ids(VIDEO_ID_OFFSET, m)
             All == UNION {makeRandomUser(u, userIds, videoIds) : u \in userIds}
  <1>4. users' \in {f \in [userIds -> All] : \A u \in userIds : f[u] \in makeRandomUser(u, userIds, videoIds)}
    BY <1>3, Zenon DEF MakeUserServiceServer, makeRandomUsers
  <1> HIDE DEF userIds, videoIds, All
  <1>5. DOMAIN users' = userIds /\ \A u \in userIds : users'[u] \in makeRandomUser(u, userIds, videoIds)
    BY <1>4
  <1>6. ASSUME NEW u \in userIds
        PROVE  /\ IsCoeffs(users'[u].Coeffs)
               /\ Range(users'[u].SubscribedTo) \subseteq userIds \ {u}
               /\ Range(users'[u].LikedVideos) \subseteq videoIds
    <2>1. /\ users'[u].Coeffs \in Coeffs
          /\ users'[u].SubscribedTo \in {SkipSelf(d, u) : d \in DrawnFrom(userIds, SubscribeCounts)}
          /\ users'[u].LikedVideos \in DrawnFrom(videoIds, LikeCounts)
      BY <1>5 DEF makeRandomUser
    <2>2. IsCoeffs(users'[u].Coeffs)
      BY <2>1 DEF Coeffs, IsCoeffs
    <2>3. PICK d \in DrawnFrom(userIds, SubscribeCounts) : users'[u].SubscribedTo = SkipSelf(d, u)
      BY <2>1
    <2>4. d \in Seq(userIds)
      BY <1>2, DrawnIsList
    <2>5. users'[u].SubscribedTo \in Seq(userIds \ {u})
      BY <2>3, <2>4, SkipSelfKeeps
    <2>6. users'[u].LikedVideos \in Seq(videoIds)
      BY <1>2, <2>1, DrawnIsList
    <2>7. \A S : \A s \in Seq(S) : Range(s) \subseteq S
      BY DEF Range
    <2> QED
      BY <2>2, <2>5, <2>6, <2>7
  <1>7. ~disturbed => m = FirstCount(seed["user"])
    BY <1>1, <1>3, UndisturbedDraw DEF Services
  <1>8. ~disturbed' => m = FirstCount(seed'["user"])
    BY <1>1, <1>7
  <1>9. UsersMade(n, m)'
    BY <1>3, <1>5, <1>6, <1>8 DEF UsersMade, userIds, videoIds
  <1> QED
    BY <1>9

\* The videos and the trending videos that makeRandomVideos makes.
LEMMA VideosStart ==
  ASSUME GeneratorInv, MakeVideoServiceServer
  PROVE  \E m : VideosMade(m)'
  <1>1. started["video"] = "seeded" /\ UNCHANGED <<seed, disturbed>>
    BY DEF MakeVideoServiceServer
  <1>2. /\ VideoRange \in [spread : Nat \ {0}, least : Nat \ {0}]
        /\ TopVideoCounts \in SUBSET (Nat \ {0})
    BY DatabasesAssumption
  <1>3. PICK m \in Nat : m = Draw(1, VideoRange)
    BY <1>1, <1>2, DrawValue DEF Services
  <1> DEFINE videoIds == Ids(VIDEO_ID_OFFSET, m)
  <1>4. PICK made \in [videos : [videoIds -> Coeffs],
                       topVideos : {deduplicateIds(d) : d \in DrawnFrom(videoIds, TopVideoCounts)}] :
          infos' = made.videos /\ trending' = made.topVideos
    BY <1>3, Zenon DEF MakeVideoServiceServer, makeRandomVideos
  <1> HIDE DEF videoIds
  <1>5. infos' \in [videoIds -> Coeffs]
    BY <1>4
  <1>6. PICK d \in DrawnFrom(videoIds, TopVideoCounts) : trending' = deduplicateIds(d)
    BY <1>4
  <1>7. d \in Seq(videoIds) /\ d # <<>>
    BY <1>2, DrawnIsList
  <1> DEFINE kept == deduplicateIds(d)
  <1>8. /\ kept \in Seq(videoIds)
        /\ \A i, k \in DOMAIN kept : kept[i] = kept[k] => i = k
        /\ {kept[i] : i \in DOMAIN kept} = {d[i] : i \in DOMAIN d}
    BY <1>7, DeduplicateIds, Zenon
  <1> HIDE DEF kept
  <1>9. kept # <<>>
    <2>1. Len(d) \in Nat /\ Len(d) # 0 /\ DOMAIN d = 1..Len(d)
      BY <1>7
    <2>2. 1 \in DOMAIN d
      BY <2>1
    <2>3. {d[i] : i \in DOMAIN d} # {}
      BY <2>2
    <2>4. DOMAIN kept # {}
      BY <1>8, <2>3, Zenon
    <2> QED
      BY <2>4
  <1>10. IsInjective(kept) /\ Range(kept) \subseteq videoIds
    <2>1. IsInjective(kept)
      BY <1>8, Zenon DEF IsInjective
    <2>2. Range(kept) \subseteq videoIds
      BY <1>8 DEF Range
    <2> QED
      BY <2>1, <2>2
  <1>11. trending' # <<>> /\ IsInjective(trending') /\ Range(trending') \subseteq DOMAIN infos'
    BY <1>5, <1>6, <1>9, <1>10 DEF kept
  <1>12. \A v \in DOMAIN infos' : IsCoeffs(infos'[v])
    BY <1>5 DEF Coeffs, IsCoeffs
  <1>13. ~disturbed => m = FirstCount(seed["video"])
    BY <1>1, <1>3, UndisturbedDraw DEF Services
  <1>14. ~disturbed' => m = FirstCount(seed'["video"])
    BY <1>1, <1>13
  <1>15. DOMAIN infos' = Ids(VIDEO_ID_OFFSET, m)
    BY <1>5 DEF videoIds
  <1>16. VideosMade(m)'
    BY <1>11, <1>12, <1>14, <1>15 DEF VideosMade
  <1> QED
    BY <1>16

\* Records are made once.  A later disturbance only weakens what is known.
LEMMA RecordsNext == GeneratorInv /\ RecordsInv /\ [DbNext]_dbVars => RecordsInv'
  <1> SUFFICES ASSUME GeneratorInv, RecordsInv, [DbNext]_dbVars PROVE RecordsInv'
    OBVIOUS
  <1>0. started \in [Services -> {"no", "seeded", "up"}] /\ "user" \in Services /\ "video" \in Services
    BY DEF GeneratorInv, Services
  <1>1. ASSUME NEW n, NEW m, UsersMade(n, m), UNCHANGED <<seed, users>>, disturbed => disturbed'
        PROVE  UsersMade(n, m)'
    BY <1>1 DEF UsersMade
  <1>2. ASSUME NEW m, VideosMade(m), UNCHANGED <<seed, infos, trending>>, disturbed => disturbed'
        PROVE  VideosMade(m)'
    BY <1>2 DEF VideosMade
  <1>3. CASE MakeUserServiceServer
    <2>1. /\ started["user"] = "seeded" /\ started' = [started EXCEPT !["user"] = "up"]
          /\ UNCHANGED <<seed, disturbed, infos, trending>>
      BY <1>3 DEF MakeUserServiceServer
    <2>2. started'["user"] = "up" /\ started'["video"] = started["video"]
      BY <1>0, <2>1
    <2>3. \E n, m : UsersMade(n, m)'
      BY <1>3, UsersStart
    <2>4. started'["video"] = "up" => \E m : VideosMade(m)'
      BY <1>2, <2>1, <2>2 DEF RecordsInv
    <2> QED
      BY <2>1, <2>2, <2>3, <2>4 DEF RecordsInv
  <1>4. CASE MakeVideoServiceServer
    <2>1. /\ started["video"] = "seeded" /\ started' = [started EXCEPT !["video"] = "up"]
          /\ UNCHANGED <<seed, disturbed, users>>
      BY <1>4 DEF MakeVideoServiceServer
    <2>2. started'["video"] = "up" /\ started'["user"] = started["user"]
      BY <1>0, <2>1
    <2>3. \E m : VideosMade(m)'
      BY <1>4, VideosStart
    <2>4. started'["user"] = "up" => \E n, m : UsersMade(n, m)'
      BY <1>1, <2>1, <2>2 DEF RecordsInv
    <2> QED
      BY <2>1, <2>2, <2>3, <2>4 DEF RecordsInv
  <1>5. ASSUME UNCHANGED <<seed, users, infos, trending>>, disturbed => disturbed',
               \A s \in Services : (started'[s] = "up") <=> (started[s] = "up")
        PROVE  RecordsInv'
    <2>1. started'["user"] = "up" => \E n, m : UsersMade(n, m)'
      BY <1>0, <1>1, <1>5 DEF RecordsInv
    <2>2. started'["video"] = "up" => \E m : VideosMade(m)'
      BY <1>0, <1>2, <1>5 DEF RecordsInv
    <2>3. /\ started'["user"] # "up" => DOMAIN users' = {}
          /\ started'["video"] # "up" => DOMAIN infos' = {}
      BY <1>0, <1>5 DEF RecordsInv
    <2> QED
      BY <2>1, <2>2, <2>3 DEF RecordsInv
  <1>6. ASSUME NEW s \in Services, SeedRand(s) PROVE RecordsInv'
    <2>1. started[s] = "no" /\ started' = [started EXCEPT ![s] = "seeded"]
          /\ UNCHANGED <<seed, disturbed, users, infos, trending>>
      BY <1>6 DEF SeedRand
    <2>2. \A t \in Services : (started'[t] = "up") <=> (started[t] = "up")
      BY <1>0, <2>1
    <2> QED
      BY <1>5, <2>1, <2>2
  <1>7. CASE oneInDraws
    <2>1. disturbed' = (disturbed \/ "seeded" \in Range(started)) /\ UNCHANGED <<seed, started, users, infos, trending>>
      BY <1>7, Zenon DEF oneInDraws
    <2>2. disturbed => disturbed'
      BY <2>1, Zenon
    <2> QED
      BY <1>5, <2>1, <2>2
  <1>8. CASE UNCHANGED <<seed, started, disturbed, users, infos, trending>>
    BY <1>5, <1>8
  <1>9. \/ UNCHANGED <<seed, started, disturbed, users, infos, trending>>
        \/ (\E s \in Services : SeedRand(s)) \/ oneInDraws
        \/ MakeUserServiceServer \/ MakeVideoServiceServer
    BY DEF DbNext, dbVars, StartRank, RankFeature, EndRank
  <1> QED
    BY <1>3, <1>4, <1>6, <1>7, <1>8, <1>9

\* What is known of the generator and of the records, in every reachable state.
THEOREM DatabasesInvariant == DbSpec => [](GeneratorInv /\ RecordsInv)
  <1>1. DbInit => RecordsInv
    BY DEF DbInit, RecordsInv, Services
  <1> QED
    BY <1>1, GeneratorInit, GeneratorNext, RecordsNext, PTL DEF DbSpec

\* Every id that one program gives another leads to a record there, whatever the
\* seeds, the sizes of the databases, the order in which the services start and
\* the draws of others: the users of loadgen (loadgen.go:45-50), the users somebody
\* is subscribed to, the trending videos, and, for one seed and an undisturbed
\* stream, the liked videos (user_service/server_lib/server_lib.go:73).
THEOREM IdsAlwaysResolve == DbSpec => []IdsResolve
  <1>1. GeneratorInv /\ RecordsInv => IdsResolve
    <2> SUFFICES ASSUME GeneratorInv, RecordsInv PROVE IdsResolve
      OBVIOUS
    <2>1. LoadedUsersExist
      <3> SUFFICES ASSUME started["user"] = "up" PROVE Users \subseteq DOMAIN users
        BY DEF LoadedUsersExist
      <3>1. PICK n, m : UsersMade(n, m)
        BY DEF RecordsInv
      <3>2. /\ n \in Nat /\ n >= UserRange.least /\ UserRange.least \in Nat
            /\ UserIdOffset = USER_ID_OFFSET /\ MinUserCount <= UserRange.least
            /\ USER_ID_OFFSET \in Nat /\ MinUserCount \in Nat
        BY <3>1, DatabasesAssumption, LoadTestAssumption, LoadedIdsAssumption DEF UsersMade
      <3>3. DOMAIN users = USER_ID_OFFSET..(USER_ID_OFFSET + n - 1)
        BY <3>1 DEF UsersMade, Ids
      <3>4. Users = USER_ID_OFFSET..(USER_ID_OFFSET + MinUserCount - 1)
        BY <3>2 DEF Users
      <3> QED
        BY <3>2, <3>3, <3>4
    <2>2. LikedVideosExist
      <3> SUFFICES ASSUME Up, seed["user"] = seed["video"], ~disturbed, NEW u \in DOMAIN users
                   PROVE  Range(users[u].LikedVideos) \subseteq DOMAIN infos
        BY DEF LikedVideosExist
      <3>1. started["user"] = "up" /\ started["video"] = "up"
        BY DEF Up, Services
      <3>2. PICK n, m : UsersMade(n, m)
        BY <3>1 DEF RecordsInv
      <3>3. PICK k : VideosMade(k)
        BY <3>1 DEF RecordsInv
      <3>4. m = k
        BY <3>2, <3>3 DEF UsersMade, VideosMade
      <3>5. Range(users[u].LikedVideos) \subseteq Ids(VIDEO_ID_OFFSET, m)
        BY <3>2 DEF UsersMade
      <3>6. DOMAIN infos = Ids(VIDEO_ID_OFFSET, k)
        BY <3>3 DEF VideosMade
      <3> QED
        BY <3>4, <3>5, <3>6
    <2>3. RecordsResolve
      <3>1. ASSUME NEW u \in DOMAIN users
            PROVE  Range(users[u].SubscribedTo) \subseteq DOMAIN users \ {u}
        <4>1. started["user"] = "up"
          BY DEF RecordsInv
        <4>2. PICK n, m : UsersMade(n, m)
          BY <4>1 DEF RecordsInv
        <4> QED
          BY <4>2 DEF UsersMade
      <3>2. started["video"] = "up" =>
              trending # <<>> /\ IsInjective(trending) /\ Range(trending) \subseteq DOMAIN infos
        <4> SUFFICES ASSUME started["video"] = "up"
                     PROVE  trending # <<>> /\ IsInjective(trending) /\ Range(trending) \subseteq DOMAIN infos
          OBVIOUS
        <4>1. PICK k : VideosMade(k)
          BY DEF RecordsInv
        <4> QED
          BY <4>1 DEF VideosMade
      <3> QED
        BY <3>1, <3>2 DEF RecordsResolve
    <2> QED
      BY <2>1, <2>2, <2>3 DEF IdsResolve
  <1> QED
    BY <1>1, DatabasesInvariant, PTL

-----------------------------------------------------------------------------
(***************************************************************************)
(* The dot product.  What has been added so far, in whatever order, is the *)
(* sum over the features visited, modulo 2^64.                             *)
(***************************************************************************)

\* What the features of a user's table add, given a video's.
Weights(uc, vc) == [f \in DOMAIN uc |-> IF f \in DOMAIN vc THEN uc[f] * vc[f] ELSE 0]

\* All features but those left are added up.
AddedUp(uc, vc, left, dotProduct) ==
  /\ left \subseteq DOMAIN uc
  /\ \E sum : IsSum(DOMAIN uc, Weights(uc, vc), sum) /\ dotProduct = sum[DOMAIN uc \ left] % Uint64

RankInv ==
  ranking # NoRanking =>
    /\ Up
    /\ ranking = [user |-> ranking.user, video |-> ranking.video,
                  left |-> ranking.left, dotProduct |-> ranking.dotProduct]
    /\ ranking.user \in DOMAIN users /\ ranking.video \in DOMAIN infos
    /\ AddedUp(users[ranking.user].Coeffs, infos[ranking.video], ranking.left, ranking.dotProduct)

\* The coefficients of records are numbers, of finitely many features.
LEMMA WeightsType ==
  ASSUME RecordsInv, NEW u \in DOMAIN users, NEW v \in DOMAIN infos
  PROVE  /\ Up /\ IsFiniteSet(DOMAIN users[u].Coeffs)
         /\ Weights(users[u].Coeffs, infos[v]) \in [DOMAIN users[u].Coeffs -> Nat]
  <1>1. started["user"] = "up" /\ started["video"] = "up"
    BY DEF RecordsInv
  <1>2. Up
    BY <1>1 DEF Up, Services
  <1>3. PICK n, m : UsersMade(n, m)
    BY <1>1 DEF RecordsInv
  <1>4. PICK k : VideosMade(k)
    BY <1>1 DEF RecordsInv
  <1>5. PICK fs \in SUBSET Features : users[u].Coeffs \in [fs -> Coefficients]
    BY <1>3 DEF UsersMade, IsCoeffs
  <1>6. PICK gs \in SUBSET Features : infos[v] \in [gs -> Coefficients]
    BY <1>4 DEF VideosMade, IsCoeffs
  <1>7. Coefficients \subseteq Nat /\ IsFiniteSet(Features)
    BY DatabasesAssumption
  <1>8. IsFiniteSet(fs)
    BY <1>7, FS_Subset
  <1> DEFINE uc == users[u].Coeffs
             vc == infos[v]
  <1>9. /\ uc \in [fs -> Nat] /\ vc \in [gs -> Nat] /\ DOMAIN uc = fs /\ DOMAIN vc = gs
    BY <1>5, <1>6, <1>7
  <1> HIDE DEF uc, vc
  <1>10. \A f \in fs : (IF f \in gs THEN uc[f] * vc[f] ELSE 0) \in Nat
    BY <1>9
  <1>11. Weights(uc, vc) \in [fs -> Nat]
    BY <1>9, <1>10 DEF Weights
  <1> QED
    BY <1>2, <1>8, <1>9, <1>11 DEF uc, vc

\* With nothing visited the sum is 0.
LEMMA NothingAdded ==
  ASSUME NEW uc, NEW vc, IsFiniteSet(DOMAIN uc), Weights(uc, vc) \in [DOMAIN uc -> Nat]
  PROVE  AddedUp(uc, vc, DOMAIN uc, 0)
  <1> DEFINE D == DOMAIN uc
             w == Weights(uc, vc)
  <1>1. PICK sum : IsSum(D, w, sum)
    <2>1. IsFiniteSet(D) /\ w \in [D -> Nat]
      OBVIOUS
    <2> HIDE DEF D, w
    <2> QED
      BY <2>1, SumExists
  <1>2. D \ D = {}
    OBVIOUS
  <1>3. sum[D \ D] = 0
    <2> HIDE DEF D, w
    <2> QED
      BY <1>1, <1>2 DEF IsSum
  <1>4. 0 = 0 % Uint64
    BY DatabasesAssumption
  <1> QED
    BY <1>1, <1>3, <1>4 DEF AddedUp

\* One more feature adds its weight, whichever it is.
LEMMA OneMoreAdded ==
  ASSUME NEW uc, NEW vc, IsFiniteSet(DOMAIN uc), Weights(uc, vc) \in [DOMAIN uc -> Nat],
         NEW left, NEW dotProduct, AddedUp(uc, vc, left, dotProduct), NEW f \in left
  PROVE  AddedUp(uc, vc, left \ {f}, (dotProduct + Weights(uc, vc)[f]) % Uint64)
  <1> DEFINE D == DOMAIN uc
             w == Weights(uc, vc)
  <1>1. IsFiniteSet(D) /\ w \in [D -> Nat] /\ left \subseteq D
    BY DEF AddedUp
  <1>2. PICK sum : IsSum(D, w, sum) /\ dotProduct = sum[D \ left] % Uint64
    BY DEF AddedUp
  <1> HIDE DEF D, w
  <1> DEFINE T == D \ left
  <1>3. T \in SUBSET D /\ f \in D /\ f \notin T /\ D \ (left \ {f}) = T \cup {f}
    BY <1>1
  <1>4. sum[T] \in Nat /\ w[f] \in Nat
    BY <1>1, <1>2, <1>3 DEF IsSum
  <1>5. sum[T \cup {f}] = sum[T] + w[f]
    <2> HIDE DEF T
    <2> QED
      BY <1>1, <1>2, <1>3, SumAdd
  <1>6. dotProduct = sum[T] % Uint64
    BY <1>2
  <1>7. Uint64 \in Nat \ {0}
    BY DatabasesAssumption
  <1>8. (dotProduct + w[f]) % Uint64 = sum[D \ (left \ {f})] % Uint64
    <2>1. ((sum[T] % Uint64) + w[f]) % Uint64 = (sum[T] + w[f]) % Uint64
      <3> HIDE DEF T
      <3> QED
        BY <1>4, <1>7, WrapSum
    <2> HIDE DEF T
    <2> QED
      BY <1>3, <1>5, <1>6, <2>1
  <1>9. left \ {f} \subseteq D
    BY <1>1
  <1> QED
    BY <1>2, <1>8, <1>9 DEF AddedUp, D, w

\* What RanksDeterministic demands of the end of a Rank.
LEMMA AllAddedUp ==
  ASSUME NEW uc, NEW vc, IsFiniteSet(DOMAIN uc), Weights(uc, vc) \in [DOMAIN uc -> Nat],
         NEW dotProduct, AddedUp(uc, vc, {}, dotProduct),
         NEW h, h = SumLoop(DOMAIN uc, Weights(uc, vc), h)
  PROVE  dotProduct = h[DOMAIN uc] % Uint64
  <1> DEFINE D == DOMAIN uc
             w == Weights(uc, vc)
  <1>1. PICK sum : IsSum(D, w, sum) /\ dotProduct = sum[D \ {}] % Uint64
    BY DEF AddedUp
  <1>2. IsFiniteSet(D) /\ w \in [D -> Nat] /\ h = SumLoop(D, w, h) /\ D \ {} = D
    OBVIOUS
  <1>3. h[D] = sum[D]
    <2> HIDE DEF D, w
    <2> QED
      BY <1>1, <1>2, SumLoopResult
  <1> QED
    BY <1>1, <1>2, <1>3

\* Every step of a Rank, and every other step, keeps the sum right.
LEMMA RankNext == GeneratorInv /\ RecordsInv /\ RankInv /\ [DbNext]_dbVars => RankInv'
  <1> SUFFICES ASSUME GeneratorInv, RecordsInv, RankInv, [DbNext]_dbVars PROVE RankInv'
    OBVIOUS
  <1>1. ASSUME NEW u \in DOMAIN users, NEW v \in DOMAIN infos, StartRank(u, v) PROVE RankInv'
    <2> DEFINE uc == users[u].Coeffs
    <2>1. ranking' = [user |-> u, video |-> v, left |-> DOMAIN uc, dotProduct |-> 0]
          /\ UNCHANGED <<started, users, infos>>
      BY <1>1 DEF StartRank
    <2>2. Up /\ IsFiniteSet(DOMAIN uc) /\ Weights(uc, infos[v]) \in [DOMAIN uc -> Nat]
      BY WeightsType
    <2>3. AddedUp(uc, infos[v], DOMAIN uc, 0)
      <3> HIDE DEF uc
      <3> QED
        BY <2>2, NothingAdded
    <2>4. Up'
      BY <2>1, <2>2 DEF Up
    <2>5. /\ ranking'.user = u /\ ranking'.video = v /\ ranking'.left = DOMAIN uc /\ ranking'.dotProduct = 0
          /\ ranking' = [user |-> ranking'.user, video |-> ranking'.video,
                         left |-> ranking'.left, dotProduct |-> ranking'.dotProduct]
      BY <2>1
    <2> QED
      BY <2>1, <2>3, <2>4, <2>5 DEF RankInv
  <1>2. ASSUME NEW f \in Features, RankFeature(f) PROVE RankInv'
    <2> DEFINE u == ranking.user
               v == ranking.video
               uc == users[u].Coeffs
               vc == infos[v]
               left == ranking.left \ {f}
               dp == (ranking.dotProduct + Product(u, v, f)) % Uint64
    <2>1. f \in ranking.left /\ ranking # NoRanking
      BY <1>2 DEF RankFeature, NoRanking
    <2>2. /\ Up /\ u \in DOMAIN users /\ v \in DOMAIN infos
          /\ ranking = [user |-> u, video |-> v, left |-> ranking.left, dotProduct |-> ranking.dotProduct]
          /\ AddedUp(uc, vc, ranking.left, ranking.dotProduct)
      BY <2>1 DEF RankInv
    <2>3. ranking' = [user |-> u, video |-> v, left |-> left, dotProduct |-> dp]
      <3>1. ranking' = [ranking EXCEPT !.left = @ \ {f}, !.dotProduct = (@ + Product(u, v, f)) % Uint64]
        BY <1>2 DEF RankFeature
      <3> QED
        BY <2>2, <3>1
    <2>4. UNCHANGED <<started, users, infos>>
      BY <1>2 DEF RankFeature
    <2>5. IsFiniteSet(DOMAIN uc) /\ Weights(uc, vc) \in [DOMAIN uc -> Nat]
      BY <2>2, WeightsType
    <2>6. Weights(uc, vc)[f] = Product(u, v, f)
      <3>1. f \in DOMAIN uc
        BY <2>1, <2>2 DEF AddedUp
      <3> QED
        BY <3>1 DEF Weights, Product
    <2>7. AddedUp(uc, vc, left, (ranking.dotProduct + Weights(uc, vc)[f]) % Uint64)
      <3> HIDE DEF uc, vc, u, v
      <3> QED
        BY <2>1, <2>2, <2>5, OneMoreAdded
    <2>8. AddedUp(uc, vc, left, dp)
      BY <2>6, <2>7
    <2>9. ranking'.user = u /\ ranking'.video = v /\ ranking'.left = left /\ ranking'.dotProduct = dp
      BY <2>3
    <2>10. Up'
      BY <2>2, <2>4 DEF Up
    <2> HIDE DEF left, dp
    <2> QED
      BY <2>2, <2>3, <2>4, <2>8, <2>9, <2>10 DEF RankInv
  <1>3. CASE EndRank
    BY <1>3 DEF EndRank, RankInv
  <1>4. CASE ranking' = ranking /\ UNCHANGED <<started, users, infos>>
    BY <1>4 DEF RankInv, Up
  <1>5. CASE ranking' = ranking /\ ~Up
    BY <1>5 DEF RankInv
  <1>6. ASSUME NEW s \in Services, SeedRand(s) PROVE ranking' = ranking /\ ~Up
    BY <1>6 DEF SeedRand, Up
  <1>7. ASSUME MakeUserServiceServer \/ MakeVideoServiceServer PROVE ranking' = ranking /\ ~Up
    BY <1>7 DEF MakeUserServiceServer, MakeVideoServiceServer, Up, Services
  <1>8. CASE oneInDraws
    BY <1>4, <1>8 DEF oneInDraws
  <1>9. CASE UNCHANGED dbVars
    BY <1>4, <1>9 DEF dbVars
  <1> QED
    BY <1>1, <1>2, <1>3, <1>5, <1>6, <1>7, <1>8, <1>9 DEF DbNext

\* "overflow u64 intentional, as long as it is deterministic" (ranker.go:35): for
\* every coefficient table and every order in which Go visits it, Rank ends with
\* the dot product modulo 2^64.
THEOREM RanksAreDeterministic == DbSpec => []RanksDeterministic
  <1>1. DbInit => RankInv
    BY DEF DbInit, RankInv
  <1>2. GeneratorInv /\ RecordsInv /\ RankInv => RanksDeterministic
    <2> SUFFICES ASSUME GeneratorInv, RecordsInv, RankInv, ranking # NoRanking, ranking.left = {}
                 PROVE  ranking.dotProduct =
                          MapThenSumSet(LAMBDA f : Product(ranking.user, ranking.video, f),
                                        DOMAIN users[ranking.user].Coeffs) % Uint64
      BY DEF RanksDeterministic
    <2> DEFINE u == ranking.user
               v == ranking.video
               uc == users[u].Coeffs
               vc == infos[v]
               D == DOMAIN uc
               w == Weights(uc, vc)
               Body(h) == [T \in SUBSET D |->
                             IF T = {} THEN 0
                             ELSE Product(u, v, CHOOSE x \in T : TRUE) + h[T \ {CHOOSE x \in T : TRUE}]]
               H == CHOOSE h : h = Body(h)
    <2>1. MapThenSumSet(LAMBDA f : Product(u, v, f), D) = H[D]
      BY Zenon DEF MapThenSumSet, MapThenFoldSet
    <2>2. u \in DOMAIN users /\ v \in DOMAIN infos /\ AddedUp(uc, vc, {}, ranking.dotProduct)
      BY DEF RankInv
    <2>3. IsFiniteSet(D) /\ w \in [D -> Nat]
      BY <2>2, WeightsType
    <2>4. \A f \in D : w[f] = Product(u, v, f)
      BY DEF Weights, Product
    <2>5. ASSUME NEW h PROVE Body(h) = SumLoop(D, w, h)
      <3>1. ASSUME NEW T \in SUBSET D, T # {}
            PROVE  w[CHOOSE x \in T : TRUE] = Product(u, v, CHOOSE x \in T : TRUE)
        <4>1. (CHOOSE x \in T : TRUE) \in T
          BY <3>1
        <4> HIDE DEF D, w, u, v
        <4> QED
          BY <2>4, <4>1
      <3> HIDE DEF D, w, u, v
      <3> QED
        BY <3>1 DEF SumLoop
    <2>6. H = SumLoop(D, w, H)
      <3> HIDE DEF Body, D, w
      <3>1. PICK h : h = SumLoop(D, w, h)
        BY <2>3, SumLoopExists
      <3>2. H = Body(H)
        BY <2>5, <3>1
      <3> HIDE DEF H
      <3> QED
        BY <2>5, <3>2
    <2> HIDE DEF H
    <2>7. ranking.dotProduct = H[D] % Uint64
      BY <2>2, <2>3, <2>6, AllAddedUp
    <2> QED
      BY <2>1, <2>7
  <1> QED
    BY <1>1, <1>2, RankNext, DatabasesInvariant, PTL DEF DbSpec
=============================================================================
