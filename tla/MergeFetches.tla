---------------------------- MODULE MergeFetches ----------------------------
(***************************************************************************)
(* lab0's MergeFetches: one goroutine per Fetcher sends what it fetches to *)
(* out; the caller waits for both with a WaitGroup and then closes out.    *)
(* Sending on a closed channel and a negative WaitGroup panic.             *)
(***************************************************************************)
EXTENDS Splits

CONSTANTS
  Data,      \* what each Fetcher returns before it returns false
  OutCap     \* capacity of out, at least 1

Fetchers == {"a", "b"}

ASSUME FetchesAssumption == OutCap \in Nat \ {0} /\ Data \in [Fetchers -> Seq(Int)]

VARIABLES
  fetched,   \* calls of Fetch each Fetcher has answered with data
  worker,        \* each worker: "unborn", "fetch", "send", "Done", "exited"
  wg,        \* the WaitGroup's counter
  main,      \* the caller: "idle", "Add", "go", "Wait", "close", "returned"
  fOut,       \* what is in the output channel
  fClosed,    \* whether out is closed
  fReceived,  \* what the consumer has read
  panicked

fetchesVars == <<fetched, worker, wg, main, fOut, fClosed, fReceived, panicked>>

FetchesInit ==
  /\ fetched = [f \in Fetchers |-> 0]
  /\ worker = [f \in Fetchers |-> "unborn"]
  /\ wg = 0 /\ main = "idle"
  /\ fOut = <<>> /\ fClosed = FALSE /\ fReceived = <<>>
  /\ panicked = FALSE

\* The caller calls MergeFetches.
CallMergeFetches ==
  /\ main = "idle" /\ main' = "Add"
  /\ UNCHANGED <<fetched, worker, wg, fOut, fClosed, fReceived, panicked>>

\* Mutant of Add: only one goroutine is announced.
AddOne ==
  /\ main = "Add" /\ wg' = wg + 1 /\ main' = "go"
  /\ UNCHANGED <<fetched, worker, fOut, fClosed, fReceived, panicked>>

\* wg.Add(2)
Add ==
  /\ main = "Add" /\ wg' = wg + 2 /\ main' = "go"
  /\ UNCHANGED <<fetched, worker, fOut, fClosed, fReceived, panicked>>

\* go f(a); go f(b)
Go(f) ==
  /\ main = "go" /\ worker[f] = "unborn"
  /\ worker' = [worker EXCEPT ![f] = "fetch"]
  /\ main' = IF \E g \in Fetchers \ {f} : worker[g] = "unborn" THEN "go" ELSE "Wait"
  /\ UNCHANGED <<fetched, wg, fOut, fClosed, fReceived, panicked>>

\* data, ok := fetcher.Fetch()
Fetch(f) ==
  /\ worker[f] = "fetch"
  /\ \/ /\ fetched[f] < Len(Data[f])
        /\ fetched' = [fetched EXCEPT ![f] = @ + 1]
        /\ worker' = [worker EXCEPT ![f] = "send"]
     \/ /\ fetched[f] = Len(Data[f])
        /\ worker' = [worker EXCEPT ![f] = "Done"] /\ UNCHANGED fetched
  /\ UNCHANGED <<wg, main, fOut, fClosed, fReceived, panicked>>

\* out <- data
SendFetched(f) ==
  /\ worker[f] = "send"
  /\ fClosed \/ Len(fOut) < OutCap
  /\ panicked' = fClosed
  /\ fOut' = IF fClosed THEN fOut ELSE Append(fOut, [from |-> f, value |-> Data[f][fetched[f]]])
  /\ worker' = [worker EXCEPT ![f] = "fetch"]
  /\ UNCHANGED <<fetched, wg, main, fClosed, fReceived>>

\* wg.Done(); return
Done(f) ==
  /\ worker[f] = "Done"
  /\ wg' = wg - 1
  /\ panicked' = (panicked \/ wg = 0)
  /\ worker' = [worker EXCEPT ![f] = "exited"]
  /\ UNCHANGED <<fetched, main, fOut, fClosed, fReceived>>

WaitForWorkers ==
  /\ main = "Wait" /\ wg = 0 /\ main' = "close"
  /\ UNCHANGED <<fetched, worker, wg, fOut, fClosed, fReceived, panicked>>

\* The deferred close(out).
Close ==
  /\ main = "close" /\ fClosed' = TRUE /\ main' = "returned"
  /\ UNCHANGED <<fetched, worker, wg, fOut, fReceived, panicked>>

\* The consumer of out.
ConsumeFetched ==
  /\ fOut # <<>>
  /\ fReceived' = Append(fReceived, Head(fOut)) /\ fOut' = Tail(fOut)
  /\ UNCHANGED <<fetched, worker, wg, main, fClosed, panicked>>

FetchesNext ==
  /\ ~panicked
  /\ \/ CallMergeFetches \/ Add \/ WaitForWorkers \/ Close \/ ConsumeFetched
     \/ \E f \in Fetchers : Go(f) \/ Fetch(f) \/ SendFetched(f) \/ Done(f)

\* Every goroutine keeps running, Fetch returns and the consumer keeps reading.
FetchesFairness ==
  /\ WF_fetchesVars(Add \/ WaitForWorkers \/ Close \/ \E f \in Fetchers : Go(f))
  /\ WF_fetchesVars(ConsumeFetched)
  /\ \A f \in Fetchers : WF_fetchesVars(Fetch(f) \/ SendFetched(f) \/ Done(f))

FetchesSpec == FetchesInit /\ [][FetchesNext]_fetchesVars /\ FetchesFairness

-----------------------------------------------------------------------------
\* Once out is closed it has delivered, or still holds, everything that both
\* Fetchers returned, each in its order; so no worker sends after the caller has
\* closed it, and the WaitGroup never goes negative (merge_channels.go:133-153).
ClosedMeansMerged ==
  /\ fClosed => \A f \in Fetchers : IsSplit(Data[f], f, fReceived \o fOut, <<>>)
  /\ ~panicked

\* A call of MergeFetches returns and the consumer reads everything.
FetchesFinish == (main = "Add") ~> (main = "returned" /\ fOut = <<>>)
=============================================================================
