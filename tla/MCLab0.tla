------------------------------- MODULE MCLab0 -------------------------------
(***************************************************************************)
(* lab0's exercises share nothing, so one run takes them all: the first    *)
(* state names the subject of a behaviour and only that one moves.  Each   *)
(* subject keeps its own fairness; in the others' initial states nothing   *)
(* that fairness speaks of is enabled.  The merges come to an end, and     *)
(* then idle; they merge three values from one source and two from the     *)
(* other, which may be equal to values of the first.                       *)
(***************************************************************************)
EXTENDS ConcurrentQueue, Semaphore, ParallelFetcher, MergeChannels, MergeFetches

MCInput == [s \in {"a", "b"} |-> IF s = "a" THEN <<1, 2, 1>> ELSE <<1, 2>>]

VARIABLE subject
syncVars == <<vars, semVars, fetcherVars>>
bothVars == <<mergeVars, fetchesVars>>

\* The choice that only one subject makes is fixed for the others.
Lab0Init ==
  /\ Init /\ SemInit /\ FetcherInit /\ MergeInit /\ FetchesInit
  /\ \/ subject = "MergeChannels"
     \/ outCap = 1 /\ subject \in {"queue", "semaphore", "fetcher", "MergeFetches"}

SyncNext ==
  /\ \/ subject = "queue" /\ Next /\ UNCHANGED <<semVars, fetcherVars>>
     \/ subject = "semaphore" /\ SemNext /\ UNCHANGED <<vars, fetcherVars>>
     \/ subject = "fetcher" /\ FetcherNext /\ UNCHANGED <<vars, semVars>>
  /\ UNCHANGED <<bothVars, subject>>

BothNext ==
  /\ \/ subject = "MergeChannels" /\ MergeNext /\ UNCHANGED fetchesVars
     \/ subject = "MergeFetches" /\ FetchesNext /\ UNCHANGED mergeVars
     \/ subject \in {"MergeChannels", "MergeFetches"} /\ UNCHANGED bothVars
  /\ UNCHANGED <<syncVars, subject>>

Lab0Spec ==
  /\ Lab0Init /\ [][SyncNext \/ BothNext]_<<syncVars, bothVars, subject>>
  /\ Fairness /\ SemFairness /\ FetcherFairness /\ MergeFairness /\ FetchesFairness

\* No goroutine stays in a call of lab0's synchronisation code: the mutex comes
\* free for every Push and Pop, a Wait neither spins beside units that stay
\* available nor outlives its context, and every Fetch gets its turn (queue.go:92,
\* semaphore.go:57, parallel_fetcher.go:36).
EveryCallReturns == CallsReturn /\ UnitsReachWaiters /\ CancelledWaitsReturn /\ FetchesReturn

\* Every way of merging comes to an end: with its inputs, by cancellation, and
\* with the Fetchers (merge_channels.go:12-14, 52-54, 152-153).
EveryMergeEnds == MergeFinishes /\ CancelReturns /\ FetchesFinish
=============================================================================
