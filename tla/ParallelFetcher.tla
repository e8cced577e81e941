-------------------------- MODULE ParallelFetcher ---------------------------
(***************************************************************************)
(* lab0's ParallelFetcher: clients call Fetch concurrently; a weighted     *)
(* semaphore of golang.org/x/sync limits how many are inside the wrapped   *)
(* Fetcher.  The semaphore is external: Acquire(1) takes a unit at once if *)
(* one is free and nobody waits, and otherwise joins a FIFO list; Release  *)
(* hands units to the head of the list.  A limit of 0 is accepted, and     *)
(* blocks every client without a place in the list.                        *)
(***************************************************************************)
EXTENDS Integers, Sequences, FiniteSets

CONSTANTS
  Clients,  \* goroutines that call Fetch
  Limit     \* maxConcurrencyLimit

ASSUME ParallelFetcherAssumption == IsFiniteSet(Clients) /\ Limit \in Nat

VARIABLES
  cpc,       \* each client: "idle", "acquire", "blocked", "fetching", "release"
  cur,      \* Weighted.cur: units held
  waiters   \* Weighted.waiters

fetcherVars == <<cpc, cur, waiters>>

FetcherInit ==
  /\ cpc = [c \in Clients |-> "idle"]
  /\ cur = 0
  /\ waiters = <<>>

Call(c) ==
  /\ cpc[c] = "idle" /\ cpc' = [cpc EXCEPT ![c] = "acquire"]
  /\ UNCHANGED <<cur, waiters>>

\* Mutant of Acquire: a client does not wait.
AcquireWithoutWaiting(c) ==
  /\ cpc[c] = "acquire"
  /\ cpc' = [cpc EXCEPT ![c] = "fetching"]
  /\ cur' = cur + 1
  /\ UNCHANGED waiters

\* pf.sem.Acquire(context.Background(), 1)
Acquire(c) ==
  /\ cpc[c] = "acquire"
  /\ \/ /\ cur < Limit /\ waiters = <<>>
        /\ cur' = cur + 1 /\ cpc' = [cpc EXCEPT ![c] = "fetching"] /\ UNCHANGED waiters
     \/ /\ ~(cur < Limit /\ waiters = <<>>)
        /\ waiters' = IF Limit = 0 THEN waiters ELSE Append(waiters, c)
        /\ cpc' = [cpc EXCEPT ![c] = "blocked"] /\ UNCHANGED cur

\* pf.fetcher.Fetch() returns.
FetchReturns(c) ==
  /\ cpc[c] = "fetching" /\ cpc' = [cpc EXCEPT ![c] = "release"]
  /\ UNCHANGED <<cur, waiters>>

\* pf.sem.Release(1); return.  The unit goes to the first waiter, if any.
Release(c) ==
  /\ cpc[c] = "release"
  /\ \/ /\ waiters = <<>>
        /\ cur' = cur - 1 /\ cpc' = [cpc EXCEPT ![c] = "idle"] /\ UNCHANGED waiters
     \/ /\ waiters # <<>>
        /\ waiters' = Tail(waiters)
        /\ cpc' = [cpc EXCEPT ![c] = "idle", ![Head(waiters)] = "fetching"]
        /\ UNCHANGED cur

FetcherNext == \E c \in Clients : Call(c) \/ Acquire(c) \/ FetchReturns(c) \/ Release(c)

FetcherSpec == FetcherInit /\ [][FetcherNext]_fetcherVars

\* A client inside Fetch keeps running and the wrapped Fetch returns.
FetcherFairness ==
  \A c \in Clients : WF_fetcherVars(Acquire(c)) /\ WF_fetcherVars(FetchReturns(c)) /\ WF_fetcherVars(Release(c))

-----------------------------------------------------------------------------
Holders == {c \in Clients : cpc[c] \in {"fetching", "release"}}

\* "no more than maxConcurrencyLimit clients call Fetcher.Fetch() at any given
\* time" (parallel_fetcher.go:19), and the semaphore's count is that of the
\* clients between Acquire and Release.
ConcurrencyBounded ==
  /\ Cardinality({c \in Clients : cpc[c] = "fetching"}) <= Limit
  /\ cur = Cardinality(Holders)

\* Every Fetch returns, however many clients compete, if the limit is positive.
FetchesReturn == Limit > 0 => \A c \in Clients : (cpc[c] = "acquire") ~> (cpc[c] = "idle")
=============================================================================
