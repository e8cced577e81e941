# A TLA+ development of the CS 426 labs

The repository holds the labs of a distributed-systems course: concurrency
exercises (`lab0`), a video recommendation service made of three gRPC services
(`lab1`), its deployment (`lab2`), and the simulated network and crash/restart
harness on which a Raft is to be built (`lab3`). This directory models the parts
that carry logic, checks them with TLC on small instances, and proves the main
results with TLAPS for every instance.

## Inventory

| Part | State | Operations | What is hard | What makes it correct |
|---|---|---|---|---|
| VideoRecService, `lab1/video_rec_service/server_lib` | six counters, two connection-pool indices, the cached trending videos; per request the stage of its handler | `GetTopVideos`, `ContinuallyRefreshCache`, `GetStats` | concurrent handlers over shared state, three kinds of RPC each with a retry, deadlines, partial failure between batches, an unsynchronised in-place sort of the cache, a background goroutine without a deadline | a personalised response is exactly the best candidates; counters count what they say; every request returns; a fallback answers when something is cached; the cache is refreshed for ever |
| UserService, VideoService, failure injection, `lab1/*_service/server_lib`, `lab1/failure_injection` | databases made up at start-up, injection configuration | `Make*ServiceServer`, `GetUser`, `GetVideo`, `GetTrendingVideos`, `SetInjectionConfig`, `MaybeInject` | empty, oversized and duplicate batches are rejected; responses may be omitted; the two databases agree only through a seed and the order of draws | used within their preconditions by VideoRecService; ids in the databases lead somewhere |
| Ranker, `lab1/ranker` | none | `Rank` | overflow, and the random order of a Go map | the same pair always has the same score |
| Queue, ConcurrentQueue, `lab0/queue.go` | ring buffer, head, size, mutex | `Push`, `Pop` | growth with head anywhere, wrap-around, locking on every path | linearizable FIFO queue |
| Semaphore, `lab0/semaphore.go` | an atomic counter | `Post`, `Wait` | load / compare-and-swap races, spinning, cancellation | no unit lost or taken twice; no stuck waiter |
| Channel merging, `lab0/merge_channels.go` | goroutine locals, channels, a WaitGroup | `MergeChannels`, `MergeChannelsOrCancel`, `MergeFetches` | closing order, blocking sends, cancellation, closing a channel with senders | nothing lost, order kept, output closed once at the end, cancellation works |
| ParallelFetcher, `lab0/parallel_fetcher.go` | a weighted semaphore | `Fetch` | more clients than places | the limit holds; nobody starves |
| labrpc, `lab3/labrpc` | wiring of ends and servers, goroutines per request | `Call`, `processReq`, `AddServer`, `DeleteServer`, `Connect`, `Enable`, `Reliable`, `Cleanup`, `GetCount`, `GetTotalCount` | wiring read once and used later, lost requests and replies, servers deleted under a request, destruction of the network | true means executed; every call returns; the statistics agree with each other |
| Raft test harness, `lab3/raft/config.go`, `persister.go` | incarnations, connections, Persisters | `make_config`, `crash1`, `start1`, `connect`, `disconnect`, `cleanup`, the checks of a test | incarnations that cannot be stopped; crash at any moment; identity of Persisters and ends | what was acknowledged survives; the dead neither write, speak nor tick; a correct Raft is never blamed, a diverging one is |
| Raft, `lab3/raft/raft.go` | `dead`; the rest is a skeleton | `Make`, `Kill`, `ticker` | goroutines that outlive their server | see the harness |
| labgob, `lab3/labgob` | `checked`, `errorCount` | the checks of `Encode`, `Register`, `Decode` | recursive types, several goroutines | every bad field is complained about once; checks end; errors are counted |
| loadgen, stats, `lab1/cmd` | counters, next user of a connection | `sendRequest`, `reportStats`, polling of `GetStats` | counters loaded one by one while they change; timeouts with handlers still running | what a report may be relied on for |
| frontend, server mains, logging, mock clients | flags | | | |
| `det_bcrypt`, `*.pb.go`, lab2 | third-party, generated, manifests | | | |

`PROJECT.json` lists the same parts with their status, the hazards at their
lines, and which property is aimed at which hazard.

How the parts interact: a client calls VideoRecService, whose handler calls
UserService and VideoService over pooled connections; a goroutine of
VideoRecService refreshes the cache from VideoService; both backends pass every
request through the failure injector, whose configuration an operator changes at
any time. The test harness rewires the simulated network while Raft servers call
each other over it, and moves Persisters from one incarnation to the next.

## Modules

| Module | Models | Built on |
|---|---|---|
| `IdLists` | the loops over lists of ids in the lab1 services, as functions | |
| `Backends` | the two backend services and the injector as sets of possible answers | `IdLists` |
| `VideoRecService` | handlers, refresh goroutine, counters, pools, deadlines, operators | `Backends` |
| `VideoRecServiceProofs` | theorems on counters, pool, control types, fresh responses and rejections | `VideoRecService`, `LoopLemmas` |
| `Databases` | start-up of the two backends, the data they make up, and the ranker's dot product | `IdLists` |
| `LoadTest` | the counters of loadgen and of VideoRecService, a step per atomic operation, with their readers | |
| `LoadedIds` | the ids that loadgen and the databases have to agree on | `LoadTest`, `Databases` |
| `LoadTestProofs` | theorems on all three | `LoopLemmas` |
| `FallbackRanking` | what racing fallback handlers do to the cached slice, one step per load and store | |
| `FallbackRankingProofs` | theorems on the handler that does not race, and on what races cannot spoil | `LoopLemmas` |
| `LoopLemmas` | lemmas: induction, the loops of `IdLists`, sums over finite sets | |
| `FifoQueue` | abstract: the linearizable FIFO queue | |
| `Queue` | the ring buffer's operations | |
| `ConcurrentQueue` | goroutines over the locked ring buffer; refinement of `FifoQueue` | `Queue`, `FifoQueue` |
| `Semaphore` | the spinning semaphore | |
| `Splits` | what it means that values were merged from several sources | |
| `MergeChannels`, `MergeFetches` | the merging functions, their producers and consumers | `Splits` |
| `ParallelFetcher` | the limited fetcher | |
| `SyncProofs` | theorems on the queue, the semaphore, the merges and the fetcher | the five above |
| `LabRpc` | the simulated network | |
| `RpcCounts` | the statistics of the network, and their readers | `LabRpc` |
| `RpcProofs` | theorems on both | |
| `RaftHarness` | the crash/restart harness on the network | `LabRpc` |
| `RaftLives` | `Make`, `Kill` and the tickers of Rafts in that harness | `RaftHarness` |
| `RaftHarnessProofs` | theorems on both | `RpcProofs` |
| `CommitChecks` | appliers of live and crashed Rafts, `checkLogs`, `nCommitted`, `wait`, `one`, agreements | |
| `LeaderChecks` | `checkOneLeader`, `checkTerms`, `checkNoLeader` over servers whose terms change | |
| `LabGob` | the checks of types and values, on several goroutines | |
| `RaftSupportProofs` | theorems on these three | |
| `MC*` | constants for TLC; some of them put several modules that share nothing (or, in `MCLoadTest`, only the user ids) into one run | |

Definitions keep the names of the source. The definitions called "Mutant of ..."
are not part of any specification: each is a plausible bug in the code that the
definition after it models, and the property it is paired with in
`PROJECT.json` fails when it takes the definition's place.

### VideoRecService and Backends

A step of a handler is one attempt of one RPC and everything the handler does up
to its next RPC. This is as fine as matters: in between, a handler touches
shared state only through atomic counters (which handlers never read), a pool
index under its mutex, and the cache pointer under its lock. `GetUser`,
`GetVideo` and `GetTrendingVideos` are the sets of answers a backend may give to
a request: rejection of an empty, oversized or duplicate batch, an injected
error, an omitted response (`Hang`: the call stays until the deadline), an
unknown id, or success. `Retry` and `GivesUp` are the code's retry pattern; the
condition under which each of the three queries is retried has its own name
(`RetryInitial`, `RetrySubscribed`, `RetryVideo`) because they differ. Responses
carry a `cause`, which stands for the error message. `slices.SortFunc` is not
stable: `SortedByRank` is the set of all results.

The switches `DisableFallback` and `DisableRetry` are a variable that `Init` chooses
from `OptionSets` and nothing changes.

The refresh goroutine has no deadline: an omitted response leaves it `"hung"`.

`Init` is a server that `MakeVideoRecServiceServer` or its variant with mocks has
returned. When a connection cannot be made, the first retries and then returns an
error and no server (lines 75-85, 92-102); there is nothing to model after that.

### FallbackRanking

A fallback handler keeps the slice header it read under the lock and afterwards
ranks, sorts and truncates the shared array without it. The module takes each
element load and store as a step and follows the insertion sort that
`slices.SortFunc` uses up to 12 elements (VideoService has 10 to 19 trending
videos; above 12 another sort with the same swaps is used). Memory is
sequentially consistent; weaker behaviours allowed by Go's memory model for the
race would only add outcomes.

That the sorts end is not a property of its own: the loops are bounded by indices
that racing loads and stores do not touch, and they are the standard library's.
What the handlers can get wrong is the list they work on. The run publishes lists of
different lengths with videos of their own, and `ResponsesFromOneRefresh` says that a
response never mixes two of them or takes one's videos with another's length.

### Queue, Semaphore, merging, ParallelFetcher

`ConcurrentQueue` splits Push and Pop into lock, the reads, the writes, and
unlock; with the mutex a step of `FifoQueue` is the write. `Semaphore` has a step
per atomic operation. In `MergeChannels`, one module stands for both functions
(`MergeChannels` has a context that never ends), with buffered or unbuffered output; a panic (send on a closed
channel, negative WaitGroup) is a state in `MergeFetches`. The weighted semaphore
of `golang.org/x/sync` under `ParallelFetcher` is external.

### LabRpc and RaftHarness

Each critical section of `Network.mu` is a step; delays are the time between
steps, so `longDelays` and `longReordering` need no state. A call is one
invocation of `Call`, with a reply channel of its own. `RaftHarness` adds the test
goroutine: `crash1` is its four critical sections (disconnect, delete, copy,
renew), `start1` adds `StartMake` and `StartAdd`. `connect` and `disconnect` are one
step each, because a `processReq` looks at one end only. Persisters are objects
(positions in `persisters`), so that sharing one is a state the model can reach.
Old incarnations go on running: they execute requests dispatched to them, persist
and make calls. The Raft handler is external (the repository's is empty): it
remembers the call and persists before it returns. Taken from the tests
(`raft_test.go`): `connect` is called on running servers, `crash1` too.

### RpcCounts, RaftLives

Both add variables to a module below them and conjoin its actions, so that all
of its properties are checked with them, and both are proved to implement it.
In `RpcCounts` the goroutine of `MakeNetwork` takes a request, adds it to `count`, adds
it to `bytes` and starts `processReq`, in four steps between which others can read
(`Accept`, `CountRequest`, `CountBytes`, `Started`); a `Server` counts it in the
goroutine that will run the handler, and a reply is counted just before it is
delivered. Requests and replies have one byte. A test makes a `Server` for each
name and never adds one under two names (`NameOf`); otherwise its count could be
read twice, and `ServersWithinTotal` would not hold. In `RaftLives` `Kill` is a step of
`crash1` with `cfg.mu` released, and part of `cleanup`.

### CommitChecks, LeaderChecks

What the harness says of a Raft, over Rafts that do anything: the environment
may commit, re-apply after a restart, diverge, change terms and leaders. Each
critical section of `cfg.mu`, and each `GetState`, is a step. The properties say
both that correct Rafts are not blamed and that incorrect ones are caught.
`checkTerms` and `checkNoLeader` are right only if nothing changes while they ask;
that is how `VerdictsTrueWhenStill` states them. `wait` with a term to watch asks every
entry of `cfg.rafts` (`config.go:415-416`) and would dereference the nil of a crashed
server; the tests that call it so (`raft_test.go:318`, `535`) crash none, and in the model
it finds that a Raft has moved on, or not. Indices that Rafts apply are at least 1.

### LabGob

Goroutines call `checkType` (on `Encode`, `Register`) and `checkDefault` (on
`Decode`). A type is a node of a finite graph, which may have cycles; the stack
of a goroutine is the list of what it has still to look at: types, fields of
structs and, for `checkDefault`, values. `CheckField` is one turn of the loop over the
fields up to the complaint, which is printed without `mu`; `CountError` is the section of
`mu` that counts it afterwards. `NonDefaultsIn` says independently of the walk what a
decoder has to find: the non-default values three levels deep. `ErrorsCounted` compares
`errorCount` with the types seen and the values handed in, not with a history that moves
along with it.

### LoadTest, Databases

Every `Add` and every `Load` of a counter is a step. Of a request only what the
counters see is kept. A report is judged when its last load is done. Counters
are modulo `Word`, so that the unsigned difference in `reportStats` wraps as in
the code. In `Databases` the generator of `math/rand` is one per process; the
draws that decide how many users and videos there are come from the seed's
stream, what later draws decide is a choice. With different `--seed` flags, or
after another draw between `Seed` and the first draw, the two databases may
disagree, and `IdsResolve` claims nothing of liked videos.

## Runs

Passing runs:

| Run | Question | Instance |
|---|---|---|
| `vrs_default` | are responses exact, counters right, pools even, and backends never asked what they reject? | 2 requests, 3 users, 3 videos, 2 batches of each, failing backends, deadlines; fallback and retries both on or both off (chosen in `Init`) |
| `vrs_liveness` | does every request return, is it answered from the cache when there is one, and does the refresh loop recover, if responses may be omitted? | 1 request, the same options |
| `rank_shared` | are an uncontended handler and its array right, and is even a spoilt response from one refresh? | 2 handlers, limits 0 and 2, 2 users with opposite rankings, 2 refreshes of 3 and of 2 videos, one of them in both |
| `lab0` | is the locked ring a linearizable FIFO queue through a growth at every position of `head`? are semaphore units conserved, and no waiter stuck? does the fetcher's limit hold without starvation? does a merge lose nothing, and end when its inputs end or it is cancelled? is the output of `MergeFetches` closed once, after all was sent? | 2 goroutines, 2 values, first buffer of 2, at most 4 items; 3 waiters, 3 posts, cancellations; 4 clients, limit 2; 3 + 2 values with repetitions, unbuffered output and a buffer of 1, a consumer that may stop |
| `loadtest` | does each side's count agree with what happened and the service's with what clients saw, and what do a report and a snapshot of no single moment still say? do the made-up databases fit together, and is a rank the same in any order? | 2 requests, 1 connection, timeouts, one reader; 2 seeds, 2 users, 1 or 2 videos, 2 features, words of 8 and 16 |
| `lab3_lib` | labgob: is every bad field complained about exactly once, nothing skipped, every error counted, and does every check end? labrpc: do calls return under arbitrary rewiring? | 2 goroutines, 3 calls, recursive types with lower-case fields; 2 calls, one of them with a handler that need not return, 1 server |
| `raft_checks` | are correct Rafts never blamed and diverging ones caught, and is what `one`, `wait` and the leader checks return true? | logs: 2 servers, 2 indices, 2 lives each; leaders: 3 servers, 2 terms, 2 rounds |
| `labrpc` | does true mean executed, and do the statistics agree, under arbitrary rewiring? | 2 calls, 2 ends, 2 server names, one of them with 2 Servers that replace each other, an unreliable network, a reader of the counts |
| `harness` | does what was acknowledged survive every crash, do dead incarnations stay silent and stop ticking, are the right ends enabled? | 2 servers, 2 incarnations each, 1 call, unreliable network |

`EveryCallReturns` and `EveryMergeEnds` are conjunctions, in the MC modules, of
the properties of the components that a run takes together; so is `IdsResolve`, in
`LoadedIds`.

Three runs show the code doing something else than a document says; the
findings in `PROJECT.json` have the quotations:

| Run | What happens |
|---|---|
| `vrs_omitted_refresh` | one omitted response ends refreshing for good: the refresh RPCs have no deadline |
| `rank_duplicates` | two racing fallbacks return a video twice |
| `stats_documented` | three counters that `GetStats` reports are not what `lab1.md` defines them to be (245, 247, 322-323): `totalErrors` (line 252) counts requests that are then answered from the cache and not those rejected for a negative limit, the services' errors (181, 214, 253) are counted once per request and not per attempt, `staleResponses` (264) counts requests for which nothing was cached. The property asks for one of the three at least, so the run's one behaviour, a rejected limit and a request that lost VideoService before anything was cached, refutes them all. `CountersExact` states what the counters do count |

### Other differences from the documentation

Met while modelling. The models do what the code does, and these statements are
deliberately not among the properties:

- `server_lib.go:206` retries the subscribed-to query whatever `DisableRetry` is;
  line 35 says "If set, disable all retries" (`RetrySubscribed`).
- A request that UserService fails is answered with an error although trending
  videos are cached (line 178); `lab1.md:317` has "errors that cannot be solved with
  retries, return a response using the fallback trending videos".
- The trending videos are fetched in one `GetVideo` (line 359): more of them than
  VideoService's batch limit are never cached (`lab1.md:315`, "keeping batching in
  mind as well").
- `semaphore.go:66` explains `Wait` by "there is only 1 thread which can perform this
  decrement"; several can be about to. The swap fails for all but one, which is
  what `UnitsConserved` rests on. A done context wins over available units
  (`semaphore.go:48`, "decrements the semaphore value by one, if there are resources").
- A cancelled `MergeChannelsOrCancel` stays blocked in `out <- val` when its consumer
  has gone (`merge_channels.go:47`, "allows for the caller to cancel processing");
  `CancelReturns`, a part of `EveryMergeEnds`, is stated for a consumer that reads.
- `AverageLatencyMs` is 0/0, not a number, before the first request
  (`server_lib.go:308-321`); `lab1.md:268` has "Initially all your metrics should be
  zero". `SnapshotsConsistent` speaks of snapshots with a request in them.
- `loadgen.go:86` can print an error count close to 2^64, when a success is counted
  between its two loads; `ReportsConsistent` says that this is the only way.
- `labgob` warns of a non-default value only while no error has been counted
  (line 161), so a lower-case field anywhere silences it; and `Decode` into a struct
  with a lower-case basic field panics in `value.Interface` where the header
  (lines 4-9) speaks of warnings.
- `config.go:170` says "keep reading after error", but `log.Fatalf` two lines
  above has ended the process; `applyErr` is never set to anything else. `one` "gives up
  after about 10 seconds" (line 435) and takes 25 (line 447).
- `checkTerms` fails a correct Raft whose term changes while the servers are asked.

### Bounds

`Requests`, `MaxItems`, `MaxPosts`, `MaxRefreshes`, `MaxIncarnation`, `Calls`, `MaxDraws`,
`MaxIndex`, `MaxLives`, `MaxTerm` and `MaxIters` bound what a behaviour may do; everything else is finite by itself. Two requests are
enough for every pair of handler steps to interleave; user 1's subscriptions make
a full and a short batch of users and of videos, with a repeated user and repeated
videos inside and across batches. Three values of two take the ring of length 2
through a growth from every position of `head`, and four fill it again; the proof
covers all lengths. Two incarnations are a crash with a successor, which an old
incarnation's calls, handlers and persisting can then disturb. Two indices and two
lives are a log that is re-applied and a gap; two terms are an election during
a check. Two seeds whose first draws differ from their second make every swap or
loss of a draw visible. In `labrpc` a Server is replaced while the counts are read
one after the other; its network is unreliable throughout, which may but need not drop
anything, and so includes the reliable one. In `lab3_lib` one server is enough for a
call to outlive its server, its end and the network.

### Fairness

- A goroutine that can run does: weak fairness of each handler's, worker's and
  `processReq`'s steps. The Go scheduler is preemptive.
- Mutexes: strong fairness of `Lock`, since `sync.Mutex` hands over to a waiter
  that has starved for 1 ms.
- Merging: weak fairness of the merge as a whole, of the consumer while it reads and of
  each worker. Which ready case a `select` takes is left open: the properties hold
  whatever it takes, since inputs are finite.
- Deadlines pass: weak fairness of `Deadline` in `VideoRecService`, for contexts
  that have one (the load generator and the tests set one). The refresh
  goroutine's has none, and none is assumed.
- Not assumed: that an operator ever heals a service, that anyone calls `Post`,
  cancels, crashes or restarts anything, that RPC handlers of `Hanging` calls
  return. Backends, Fetchers and consumers are assumed to go on only where the
  property is about a system in which they do.

`CHECK_DEADLOCK FALSE` is set where the program ends: when the calls of `lab3_lib` have all
been made or the decoder has panicked, when a check of `raft_checks` has failed the test
or the bounds are reached, and after a test's `cleanup`.

## Proofs

Proved for every value of the constants that meets the modules' assumptions:

`VideoRecServiceProofs`
- `CountersAreExact`, `ControlTypesCorrect`, `UserPoolIsBalanced`. A counter equals
  the size of a set of requests. That is not inductive: one must know that a request
  is not counted already. `Phases` says so (no response before the handler is done,
  not stale before the fallback, no connection before it starts). For the pool, the
  number of requests on each connection is tied to the pool index.
- `FreshResponsesAreExact`, from `GatherInvariant`. At each stage of a handler `GatherInv`
  says what its lists are made of: the liked videos of the users before `offset`;
  then, without repetition, exactly the candidates; then the infos of a prefix of them.
  A batch extends the prefix, `deduplicateIds` keeps the set, and any result of the
  unstable sort, cut at the limit, is then an exact answer.
- `BackendsNeverReject`, if VideoRecService's `MaxBatchSize` is at most that of both
  backends (`BatchSizesAgree`: a hypothesis of the theorem, since nothing in the code
  enforces it; the three defaults are 50). By `GatherInv` a handler asks for a
  batch only while something is left, so none is empty, and videos are asked for
  after deduplication.

`LoadTestProofs`
- `CountersAgreeWhenQuiet`, `ReportsAreConsistent`, `SnapshotsAreConsistent`. The
  invariant `LoadInv` has two parts. `Exact`: every counter is the size of the set of
  requests that have passed its `Add` (`totalTimeMs` is at most `MaxElapsed` times such a
  size); as the module assumes `Word` to be larger than both, no counter wraps.
  `ReaderInv`: what a reader has loaded so far is bounded by the counters as they are
  now. It is what makes the order of the loads matter: responses loaded before
  requests sent can only be fewer, and an error loaded before the services' counts is
  in one of them later, or its request is still active. That the service's counts cover
  what the clients saw needs in addition, for each request, that a client's success or
  stale flag comes from what its handler did (`SidesInv`).
- `DatabasesInvariant`, `IdsAlwaysResolve`. `GeneratorInv`: at most one service
  is between seeding and drawing, and while nobody else drew, the stream is where its
  seed left it. `RecordsInv`: the records a service has made are numbered
  without gaps, name only records that exist, and there are as many videos
  as the first draw after the seed says, for both services. That loadgen's users exist
  rests on `LoadedIdsAssumption`: the constants of `loadgen.go` agree with those of
  UserService, which are in another package.
- `RanksAreDeterministic`. `RankInv`: what is added up so far is, modulo 2^64, the
  sum over the features that are not left. A function is such a sum if it is 0 on the
  empty set and adding any one element adds its weight (`IsSum`); that there is
  one, and that it is unique, are lemmas, so the order does not matter.

`FallbackRankingProofs`
- `UncontendedResponsesAreCorrect`, from `SortingInvariant`. `SortingInv` follows the
  insertion sort of a handler that is the only one to have touched its array: the array is a
  permutation of the trending videos, or, between the two stores of a swap, becomes one
  with the second store; everything before the outer index is sorted but for the element that is
  being moved left; and an array nobody has is as the refresh left it. It was
  model-checked before it was proved, with two handlers, limits 0 and 2 and two
  sequences of trending videos (2.7 million states).
- `ResponsesComeFromOneRefresh`, for handlers that do race. `OriginInv`: every element of
  an array, and every element a handler has in hand between a load and a store, is of the
  list the array was filled with; arrays never change their length.

`LoopLemmas`
- The library's induction theorems take the predicate as an operator, which the
  provers cannot instantiate. `SetInduction` takes it as the set of the numbers that
  satisfy it, and follows from the least-number principle (`WFMin`). From it come what
  the loops of `IdLists` return, and the existence and uniqueness of a sum over a
  finite set.

`SyncProofs`
- `QueueTypesCorrect`, `QueueIsFifo`. The abstract queue is read off the ring from
  `head` on, modulo its length; a goroutine between its reads and its writes holds the
  lock and its reads are current.
- `SemaphoreConservesUnits`. `v = posts - acquired` is inductive with a non-negative
  counter, because a swap succeeds only on a loaded value that was positive.
- `FetchesAreBounded`. The list of the semaphore holds blocked clients, each once;
  otherwise a hand-over could be to a client that already has a place.
- `MergesLoseNothing`. Every source is split between what was merged, its channel and
  its producer (`SourcesSplit`); only `Receive` moves the border. That `nil` means
  everything needs `EndsSeen`: a channel is closed when its producer has nothing left,
  and set to nil when it is also empty. A send past an unbuffered `out` keeps the order
  because `out` is then empty. `IsSplit` counts positions instead of filtering the
  sequence, which would be a recursion.
- `ClosedAfterMerging`. A worker has sent what it has fetched, but for what is in its
  hand, and the WaitGroup counts the workers that have not exited (`GroupCounts`); so
  `Wait` ends when both have fetched all of it, and nobody is left to send.

`RpcProofs`
- `NetworkTypesCorrect`, `PositiveRepliesAreReal`. A request past `Call` has an end; a
  reply under examination comes from a returned handler.
- `CountsImplementNetwork`, `DeliveredCallsAreCounted`. Every step is one of `LabRpc`
  or leaves it alone, so the network's invariant carries over. Each count is the size
  of a set of calls (`CountsExact`), of which the request that is half counted is in
  some and not yet in others; since `processReq` starts after both additions, a call that
  was delivered is in all. That it is in the set of the right `Server` needs that its
  target never changes once it is dispatched.
- `SumsStayWithinTotal`. What was read so far is at most what has been counted for the
  names read (`SumCovered`), names have different Servers, and the network has counted
  every call that a Server can have counted (`TotalCovers`).

`RaftHarnessProofs`
- `AcknowledgedCallsSurvive`, `PersistersAreIsolated`. The invariant `HInv` adds to the
  network's invariant: every incarnation owns its Persister; while a server is
  registered, the Persister that will be copied is the one it writes, and it is not
  registered once copying has begun; a `start1` in progress has an incarnation left;
  and what a call knows at each stage (its target exists, a returned handler is
  remembered, an acknowledged call is persisted). The last needs that a reply is
  checked against the registered server, and that persisted state only grows. `HInv`
  was model-checked before it was proved, on the instance of `harness` without symmetry
  (1.6 million states).
- `ZombiesNeverExecute`, `EnabledExactlyConnected`. `LinkInv`: a running Raft is the
  latest incarnation of its server; a connected server runs and is not being crashed
  or started; the enabled ends are, inside the operations too, those of latest
  incarnations between connected servers; and a zombie's call is on an end of an
  incarnation that is not running, and `start1` makes new ends.
- `LivesImplementsHarness`, `NoTickerIsLeftBehind`. A Raft that `cfg.rafts` does not hold
  is dead, one that it holds is not except in the middle of its `crash1`, and `start1`
  makes a Raft only where there is none, otherwise it would forget a live one. The
  types come from `HInv` through the refinement.

`RaftSupportProofs`
- `CorrectRaftsNotBlamed`, `DivergenceIsCaught`, `ReturnedIsCommitted`,
  `AgreementsAreCounted`. `CommitInv` says what the logs are made of: with correct
  Rafts, entries that were decided, in place as far as any life of the server has
  applied; with any Rafts and no error to report, logs that agree and have no gaps, the
  longest of which ends at `maxIndex`. For
  `one` and `wait` it keeps that the servers counted so far do hold the command, which
  stays true because an agreeing log is never overwritten with something else.
- `SafeLeadersNotAccused`, `StillVerdictsAreTrue`. `LeaderInv` ties what a check has
  collected to the history of leaders (a leader seen in a term was one), and, as long as
  nothing moved, to the servers asked so far. That a round of `checkOneLeader` with any
  leader has one of the greatest term is the least-number principle of the library
  (`WFMin`), on a bounded set of terms.
- `FieldsComplainedOnce`, `NoPartSkipped`, `ErrorsAreCounted`. `GobInv`: a field of a
  struct is on the lists of the goroutines at most once and never after it was
  complained about (`FieldsOnce`), every lower-case field of a checked type is in one of
  the two places (`LowerFound`), and every part of a checked type is checked or on a
  list (`PartsFound`). They need that a type is marked in the section that tests it.
  `ErrorsAreCounted` proves one half of `ErrorsCounted`, that complaints are not lost
  between printing and counting: complaints are counted or about to be, by one `CountItem`
  each. The other half is about a sum over a tree of values, a recursion, and stays with
  TLC.

Only model-checked are the liveness properties: `RequestsReturn`, `FallbackAnswers`,
`CacheKeepsRefreshing`, `EveryCallReturns`, `EveryMergeEnds`,
`ChecksEnd` and `CallsReturn`. They need fairness and `ENABLED`, which are out of the
prover's reach. Every invariant and every refinement that a passing run checks is a
theorem, `ErrorsCounted` in one half.

## Plan

Left: an abstract specification of VideoRecService (a request gets the exact answer, a
cached one or an error) with its refinement. `FreshResponsesExact` and `CountersExact`
say already what it would say of fresh responses and of counters, and
`ResponsesFromOneRefresh` what it would say of stale ones.

## Not modelled

Raft's election and log (empty here), `det_bcrypt` and generated code (not this
program's), connections that cannot be made at start-up, server mains, logging, mock clients, frontend (wiring and I/O), the
look-up of RPC methods by reflection, the lengths of delays and the time limits
of tests, lab2 (no program).
