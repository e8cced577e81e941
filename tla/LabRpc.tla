------------------------------- MODULE LabRpc -------------------------------
(***************************************************************************)
(* lab3's simulated network, labrpc: ClientEnd.Call, the goroutine that    *)
(* accepts requests, one processReq goroutine per request, one dispatch    *)
(* goroutine per handler, and the calls with which a test rewires the      *)
(* network.  Each critical section of Network.mu is a step.                *)
(*                                                                         *)
(* A call stands for one invocation of Call: it has a reply channel of its *)
(* own, so a late reply can reach no other call.  Delays (the short one on *)
(* an unreliable network, longDelays, longReordering) are the time between *)
(* two steps.  Arguments, replies and byte counts are left out.            *)
(***************************************************************************)
EXTENDS Integers, FiniteSets

CONSTANTS
  Calls,        \* invocations of ClientEnd.Call
  Ends,         \* names of ClientEnds
  ServerNames,  \* names of servers
  Instances,    \* Server objects
  Nil,
  Hanging       \* calls whose handler need not return

ASSUME LabRpcAssumption == Nil \notin Instances \cup ServerNames \cup Ends \cup Calls /\ Hanging \subseteq Calls

VARIABLES
  reliable,     \* Network.reliable
  enabled,      \* Network.enabled, by end
  connections,  \* Network.connections, by end
  servers,      \* Network.servers, by name
  done,         \* whether Network.done is closed
  accepting,    \* whether the goroutine that reads endCh still runs
  pc,           \* where each call and its processReq is
  end,          \* the end the call was made on
  target,       \* the server and the reliability that processReq read
  handler,      \* the dispatch goroutine of the call
  ok            \* the reply that is on its way or was returned

wiring == <<reliable, enabled, connections, servers>>
calling == <<pc, end, target, handler, ok>>
rpcVars == <<wiring, done, accepting, calling>>

NoTarget == [name |-> Nil, server |-> Nil, reliable |-> TRUE]

InitCalls ==
  /\ done = FALSE /\ accepting = TRUE
  /\ pc = [c \in Calls |-> "idle"]
  /\ end = [c \in Calls |-> Nil]
  /\ target = [c \in Calls |-> NoTarget]
  /\ handler = [c \in Calls |-> "none"]
  /\ ok = [c \in Calls |-> FALSE]

\* MakeNetwork, MakeEnd: nothing is connected or enabled.
Init ==
  /\ reliable = TRUE
  /\ enabled = [e \in Ends |-> FALSE]
  /\ connections = [e \in Ends |-> Nil]
  /\ servers = [s \in ServerNames |-> Nil]
  /\ InitCalls

-----------------------------------------------------------------------------
(***************************************************************************)
(* One call, from Call to its return.                                      *)
(***************************************************************************)

Call(c, e) ==
  /\ pc[c] = "idle"
  /\ pc' = [pc EXCEPT ![c] = "sending"]
  /\ end' = [end EXCEPT ![c] = e]
  /\ UNCHANGED <<wiring, done, accepting, target, handler, ok>>

\* case e.ch <- req: the goroutine of MakeNetwork takes it and starts processReq.
Send(c) ==
  /\ pc[c] = "sending" /\ accepting
  /\ pc' = [pc EXCEPT ![c] = "processReq"]
  /\ UNCHANGED <<wiring, done, accepting, end, target, handler, ok>>

\* Mutant of SendDestroyed: Call does not watch done.
SendBlocked(c) == FALSE /\ UNCHANGED rpcVars

\* case <-e.done: the network has been destroyed.
SendDestroyed(c) ==
  /\ pc[c] = "sending" /\ done
  /\ pc' = [pc EXCEPT ![c] = "returned"]
  /\ ok' = [ok EXCEPT ![c] = FALSE]
  /\ UNCHANGED <<wiring, done, accepting, end, target, handler>>

\* processReq will write ok (or an error) to the call's reply channel.
Reply(c, isOk) ==
  /\ pc' = [pc EXCEPT ![c] = "replying"]
  /\ ok' = [ok EXCEPT ![c] = isOk]

readEndnameInfo(e) ==
  [name |-> connections[e],
   server |-> IF connections[e] = Nil THEN Nil ELSE servers[connections[e]],
   reliable |-> reliable]

\* The first step of processReq: what it reads here it uses to the end.
BeginProcessReq(c) ==
  /\ pc[c] = "processReq"
  /\ target' = [target EXCEPT ![c] = readEndnameInfo(end[c])]
  /\ \/ /\ enabled[end[c]] /\ target'[c].server # Nil
        /\ pc' = [pc EXCEPT ![c] = "arrived"] /\ UNCHANGED ok
     \/ /\ ~(enabled[end[c]] /\ target'[c].server # Nil)
        /\ Reply(c, FALSE)
  /\ UNCHANGED <<wiring, done, accepting, end, handler>>

DropRequest(c) ==
  /\ pc[c] = "arrived" /\ ~target[c].reliable
  /\ Reply(c, FALSE)
  /\ UNCHANGED <<wiring, done, accepting, end, target, handler>>

Dispatch(c) ==
  /\ pc[c] = "arrived"
  /\ handler' = [handler EXCEPT ![c] = "running"]
  /\ pc' = [pc EXCEPT ![c] = "waiting"]
  /\ UNCHANGED <<wiring, done, accepting, end, target, ok>>

\* Server.dispatch and Service.dispatch: the handler runs and returns.
HandlerReturns(c) ==
  /\ handler[c] = "running"
  /\ handler' = [handler EXCEPT ![c] = "returned"]
  /\ UNCHANGED <<wiring, done, accepting, pc, end, target, ok>>

\* Mutant of isServerDead: asks whether some server has the name.
isServerDeadByName(c) == ~enabled[end[c]] \/ servers[target[c].name] = Nil

isServerDead(c) == ~enabled[end[c]] \/ servers[target[c].name] # target[c].server

\* case reply = <-ech
ReceiveReply(c) ==
  /\ pc[c] = "waiting" /\ handler[c] = "returned"
  /\ pc' = [pc EXCEPT ![c] = "checking"]
  /\ UNCHANGED <<wiring, done, accepting, end, target, handler, ok>>

\* Mutant of PollDead: the end of the wait is taken for a reply.
PollTimesOut(c) ==
  /\ pc[c] = "waiting"
  /\ pc' = [pc EXCEPT ![c] = "checking"]
  /\ UNCHANGED <<wiring, done, accepting, end, target, handler, ok>>

\* case <-time.After: a server found dead ends the wait; one found alive
\* changes nothing.
PollDead(c) ==
  /\ pc[c] = "waiting" /\ isServerDead(c)
  /\ Reply(c, FALSE)
  /\ UNCHANGED <<wiring, done, accepting, end, target, handler>>

\* The second isServerDead and the choice of the reply; the reply may be
\* dropped on an unreliable network.
CheckAndReply(c) ==
  /\ pc[c] = "checking"
  /\ \/ Reply(c, ~isServerDead(c))
     \/ ~isServerDead(c) /\ ~target[c].reliable /\ Reply(c, FALSE)
  /\ UNCHANGED <<wiring, done, accepting, end, target, handler>>

\* rep := <-req.replyCh: Call returns rep.ok.
Return(c) ==
  /\ pc[c] = "replying"
  /\ pc' = [pc EXCEPT ![c] = "returned"]
  /\ UNCHANGED <<wiring, done, accepting, end, target, handler, ok>>

CallStep(c) ==
  \/ Send(c) \/ SendDestroyed(c) \/ BeginProcessReq(c) \/ DropRequest(c) \/ Dispatch(c)
  \/ ReceiveReply(c) \/ PollDead(c) \/ CheckAndReply(c) \/ Return(c)

-----------------------------------------------------------------------------
(***************************************************************************)
(* The calls of the test on the network.                                   *)
(***************************************************************************)

Reliable(yes) ==
  /\ reliable' = yes
  /\ UNCHANGED <<enabled, connections, servers, done, accepting, calling>>

AddServer(s, rs) ==
  /\ servers' = [servers EXCEPT ![s] = rs]
  /\ UNCHANGED <<reliable, enabled, connections, done, accepting, calling>>

DeleteServer(s) ==
  /\ servers' = [servers EXCEPT ![s] = Nil]
  /\ UNCHANGED <<reliable, enabled, connections, done, accepting, calling>>

\* An end is connected once in its lifetime.
Connect(e, s) ==
  /\ connections[e] = Nil
  /\ connections' = [connections EXCEPT ![e] = s]
  /\ UNCHANGED <<reliable, enabled, servers, done, accepting, calling>>

Enable(e, yes) ==
  /\ enabled' = [enabled EXCEPT ![e] = yes]
  /\ UNCHANGED <<reliable, connections, servers, done, accepting, calling>>

Cleanup ==
  /\ ~done /\ done' = TRUE
  /\ UNCHANGED <<wiring, accepting, calling>>

\* case <-rn.done in the goroutine of MakeNetwork.
StopAccepting ==
  /\ done /\ accepting /\ accepting' = FALSE
  /\ UNCHANGED <<wiring, done, calling>>

Rewire ==
  \/ \E yes \in BOOLEAN : Reliable(yes)
  \/ \E s \in ServerNames : DeleteServer(s) \/ \E rs \in Instances : AddServer(s, rs)
  \/ \E e \in Ends : (\E s \in ServerNames : Connect(e, s)) \/ \E yes \in BOOLEAN : Enable(e, yes)

Next ==
  \/ \E c \in Calls : (\E e \in Ends : Call(c, e)) \/ CallStep(c) \/ HandlerReturns(c)
  \/ Rewire \/ Cleanup \/ StopAccepting

Spec == Init /\ [][Next]_rpcVars

\* The goroutines of a call keep running (a request on an unreliable network is
\* dropped or dispatched), timers fire, and handlers return except those of
\* Hanging calls.  The test need not do anything.
FairCall(c) ==
  /\ WF_rpcVars(Send(c) \/ SendDestroyed(c))
  /\ WF_rpcVars(BeginProcessReq(c))
  /\ WF_rpcVars(DropRequest(c) \/ Dispatch(c))
  /\ WF_rpcVars(ReceiveReply(c))
  /\ WF_rpcVars(PollDead(c))
  /\ WF_rpcVars(CheckAndReply(c))
  /\ WF_rpcVars(Return(c))

CallFairness ==
  /\ \A c \in Calls : FairCall(c)
  /\ \A c \in Calls \ Hanging : WF_rpcVars(HandlerReturns(c))

-----------------------------------------------------------------------------
\* Every variable keeps its type; a call that got past its first look at the
\* network knows a server.
RpcTypeOK ==
  /\ reliable \in BOOLEAN /\ done \in BOOLEAN /\ accepting \in BOOLEAN
  /\ enabled \in [Ends -> BOOLEAN]
  /\ connections \in [Ends -> ServerNames \cup {Nil}]
  /\ servers \in [ServerNames -> Instances \cup {Nil}]
  /\ pc \in [Calls -> {"idle", "sending", "processReq", "arrived", "waiting", "checking",
                       "replying", "returned"}]
  /\ end \in [Calls -> Ends \cup {Nil}]
  /\ target \in [Calls -> [name : ServerNames \cup {Nil}, server : Instances \cup {Nil},
                           reliable : BOOLEAN]]
  /\ handler \in [Calls -> {"none", "running", "returned"}]
  /\ ok \in [Calls -> BOOLEAN]
  /\ \A c \in Calls : pc[c] \in {"arrived", "waiting", "checking"} => target[c].server # Nil

\* "Call() returns true to indicate that the server executed the request"
\* (labrpc.go:31): a positive reply is never made up, by whatever route the
\* call returned, and was sent only once the handler had returned.
TrueMeansExecuted ==
  \A c \in Calls : pc[c] \in {"replying", "returned"} /\ ok[c] => handler[c] = "returned"

\* "Call() is guaranteed to return (perhaps after a delay) except if the handler
\* function on the server side does not return" (labrpc.go:37-38), even when the
\* network is rewired or destroyed meanwhile.  And even such a handler holds a call
\* only as long as its server is neither deleted nor cut off (labrpc.go:244-262).
CallsReturn ==
  /\ \A c \in Calls \ Hanging : (pc[c] = "sending") ~> (pc[c] = "returned")
  /\ \A c \in Calls : ~<>[](pc[c] = "waiting" /\ isServerDead(c))

=============================================================================
