----------------------------- MODULE RpcCounts ------------------------------
(***************************************************************************)
(* The statistics of labrpc, which the Raft tests put limits on: RPCs and  *)
(* bytes counted by the Network, and RPCs counted by each Server.  The     *)
(* goroutine of MakeNetwork takes a request, adds it to the count, then to *)
(* the bytes, and then starts processReq; a reply is added to the bytes    *)
(* just before it is delivered; a Server counts a request in the goroutine *)
(* that then runs the handler.  Requests and replies have one byte.        *)
(***************************************************************************)
EXTENDS LabRpc

CONSTANT NameOf    \* the name a test adds a Server under: it makes a Server for each name

ASSUME RpcCountsAssumption == NameOf \in [Instances -> ServerNames]

VARIABLES
  count, bytes,    \* Network.count and Network.bytes
  taking,          \* what the goroutine of MakeNetwork does next, with which call
  served,          \* Server.count, by instance
  counted,         \* calls whose Server.dispatch has counted them
  recorded,        \* calls whose reply is in bytes
  reading          \* what the test has read: the Servers left, their sum, the total

statistics == <<count, bytes, taking, served, counted, recorded>>
countVars == <<rpcVars, statistics, reading>>

NotRead == -1

Select == [next |-> "select", call |-> Nil]

\* MakeNetwork, MakeServer: a test that reads starts with all Servers to go.
InitStatistics ==
  /\ count = 0 /\ bytes = 0 /\ taking = Select
  /\ served = [rs \in Instances |-> 0]
  /\ counted = {} /\ recorded = {}
  /\ reading = [left |-> ServerNames, sum |-> 0, total |-> NotRead]

CountInit == Init /\ InitStatistics

-----------------------------------------------------------------------------
\* case xreq := <-rn.endCh
Accept(c) ==
  /\ taking = Select
  /\ Send(c)
  /\ taking' = [next |-> "count", call |-> c]
  /\ UNCHANGED <<count, bytes, served, counted, recorded, reading>>

\* atomic.AddInt32(&rn.count, 1)
CountRequest(c) ==
  /\ taking = [next |-> "count", call |-> c]
  /\ count' = count + 1
  /\ taking' = [next |-> "bytes", call |-> c]
  /\ UNCHANGED <<rpcVars, bytes, served, counted, recorded, reading>>

\* atomic.AddInt64(&rn.bytes, ...), and back to the select.
CountBytes(c) ==
  /\ taking = [next |-> "bytes", call |-> c]
  /\ bytes' = bytes + 1
  /\ taking' = Select
  /\ UNCHANGED <<rpcVars, count, served, counted, recorded, reading>>

\* Mutant of Started: processReq is started before the request is counted.
StartedAtOnce(c) == TRUE

\* go rn.processReq(xreq) comes after both additions.
Started(c) == taking.call # c

\* The critical section of Server.dispatch.
CountIncoming(c) ==
  /\ handler[c] = "running" /\ c \notin counted
  /\ counted' = counted \cup {c}
  /\ served' = [served EXCEPT ![target[c].server] = @ + 1]
  /\ UNCHANGED <<rpcVars, count, bytes, taking, recorded, reading>>

\* Service.dispatch: arguments are decoded, the method runs, the reply is encoded.
ServiceDispatch(c) ==
  /\ c \in counted /\ HandlerReturns(c)
  /\ UNCHANGED <<statistics, reading>>

\* atomic.AddInt64(&rn.bytes, ...) before a reply is delivered, at once or, with
\* longReordering, by a timer.
CountReply(c) ==
  /\ pc[c] = "replying" /\ ok[c] /\ c \notin recorded
  /\ recorded' = recorded \cup {c} /\ bytes' = bytes + 1
  /\ UNCHANGED <<rpcVars, count, taking, served, counted, reading>>

\* Mutant of Deliver: a reply that was delayed is not in bytes.
DeliverUncounted(c) == Return(c) /\ UNCHANGED <<statistics, reading>>

\* req.replyCh <- reply
Deliver(c) ==
  /\ ok[c] => c \in recorded
  /\ Return(c)
  /\ UNCHANGED <<statistics, reading>>

\* The steps of processReq that count nothing.
ProcessStep(c) ==
  /\ \/ SendDestroyed(c) \/ DropRequest(c) \/ Dispatch(c)
     \/ Started(c) /\ BeginProcessReq(c)
     \/ ReceiveReply(c) \/ PollDead(c) \/ CheckAndReply(c)
  /\ UNCHANGED <<statistics, reading>>

\* Network.GetCount: a test asks only for servers that are there (a deleted one
\* is a nil pointer).
GetCount(s) ==
  /\ s \in reading.left /\ servers[s] # Nil
  /\ reading' = [reading EXCEPT !.left = @ \ {s}, !.sum = @ + served[servers[s]]]
  /\ UNCHANGED <<rpcVars, statistics>>

GetTotalCount ==
  /\ reading.left = {} /\ reading.total = NotRead
  /\ reading' = [reading EXCEPT !.total = count]
  /\ UNCHANGED <<rpcVars, statistics>>

\* The test's other calls on the network; a Server has one name.
RewireCounted ==
  /\ Rewire \/ Cleanup
  /\ \A s \in ServerNames : servers'[s] # Nil => NameOf[servers'[s]] = s
  /\ UNCHANGED <<statistics, reading>>

CountNext ==
  \/ \E c \in Calls :
       \/ (\E e \in Ends : Call(c, e)) /\ UNCHANGED <<statistics, reading>>
       \/ Accept(c) \/ CountRequest(c) \/ CountBytes(c)
       \/ CountIncoming(c) \/ ServiceDispatch(c) \/ CountReply(c) \/ Deliver(c)
       \/ ProcessStep(c)
  \/ \E s \in ServerNames : GetCount(s)
  \/ GetTotalCount
  \/ RewireCounted
  \/ taking = Select /\ StopAccepting /\ UNCHANGED <<statistics, reading>>

CountSpec == CountInit /\ [][CountNext]_countVars

-----------------------------------------------------------------------------
\* The counts of the Servers, read one after the other, and then the network's
\* total: the sum is never the larger, although calls go on meanwhile and
\* Servers are replaced.  Tests compare both with limits (GetCount, GetTotalCount,
\* labrpc.go:363-375).
ServersWithinTotal == reading.total # NotRead => reading.sum <= reading.total

\* A caller that has its reply can rely on the statistics: its request is in the
\* count of the Server that executed it and in the network's, and request and reply
\* are in the bytes, also when the reply was delayed and whatever other requests
\* are half counted (labrpc.go:154-157, 281-290).
DeliveredAreCounted ==
  LET Delivered == {c \in Calls : pc[c] = "returned" /\ ok[c]}
  IN  /\ \A rs \in Instances :
           Cardinality({c \in Delivered : target[c].server = rs}) <= served[rs]
      /\ Cardinality(Delivered) <= count
      /\ 2 * Cardinality(Delivered) <= bytes
=============================================================================
