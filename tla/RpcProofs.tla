----------------------------- MODULE RpcProofs ------------------------------
(***************************************************************************)
(* The network, for any calls, ends, servers and rewirings: its types, the *)
(* meaning of a positive reply, and its statistics.  Counting does not     *)
(* change what the network does, and the statistics hold what a caller     *)
(* with a reply may expect.                                                *)
(***************************************************************************)
EXTENDS RpcCounts, FiniteSetTheorems, TLAPS

(***************************************************************************)
(* Type correctness, and what a positive reply means.                      *)
(***************************************************************************)
\* processReq looks at a reply only when the handler has returned.
CheckedReplies == \A c \in Calls : pc[c] = "checking" => handler[c] = "returned"

\* A request on its way to processReq has an end to be looked up.
RequestsHaveEnds == \A c \in Calls : pc[c] # "idle" => end[c] \in Ends

IInv == RpcTypeOK /\ CheckedReplies /\ RequestsHaveEnds /\ TrueMeansExecuted

Targets == [name : ServerNames \cup {Nil}, server : Instances \cup {Nil}, reliable : BOOLEAN]

\* IInv holds initially.
LEMMA InitInv == Init => IInv
<1> SUFFICES ASSUME Init PROVE IInv
  OBVIOUS
<1>1. NoTarget \in Targets
  BY DEF NoTarget, Targets
<1>2. target \in [Calls -> Targets]
  BY <1>1 DEF Init, InitCalls
<1>3. RpcTypeOK
  BY <1>2 DEF Init, InitCalls, RpcTypeOK, Targets
<1> QED
  BY <1>3 DEF Init, InitCalls, IInv, CheckedReplies, RequestsHaveEnds, TrueMeansExecuted

\* What a look-up finds is well typed.
LEMMA EndInfoType ==
  ASSUME RpcTypeOK, NEW e \in Ends
  PROVE  readEndnameInfo(e) \in Targets
  BY LabRpcAssumption DEF Targets, RpcTypeOK, readEndnameInfo

\* CallStep keeps IInv.
LEMMA CallStepInv == ASSUME IInv, NEW c \in Calls, CallStep(c) PROVE IInv'
<1> USE DEF IInv, RpcTypeOK, CheckedReplies, RequestsHaveEnds, TrueMeansExecuted, wiring
<1>1. CASE Send(c)
  BY <1>1 DEF Send
<1>2. CASE SendDestroyed(c)
  BY <1>2 DEF SendDestroyed
<1>3. CASE BeginProcessReq(c)
  <2>1. end[c] \in Ends
    BY <1>3 DEF BeginProcessReq
  <2>2. readEndnameInfo(end[c]) \in Targets
    BY <2>1, EndInfoType
  <2>3. target' = [target EXCEPT ![c] = readEndnameInfo(end[c])]
    BY <1>3 DEF BeginProcessReq
  <2>4. UNCHANGED <<wiring, done, accepting, end, handler>>
    BY <1>3 DEF BeginProcessReq
  <2>t. target' \in [Calls -> Targets] /\ \A d \in Calls \ {c} : target'[d] = target[d]
    BY <2>2, <2>3 DEF Targets
  <2>5. CASE enabled[end[c]] /\ target'[c].server # Nil
    <3>1. pc' = [pc EXCEPT ![c] = "arrived"] /\ ok' = ok
      BY <1>3, <2>5 DEF BeginProcessReq
    <3> QED
      <4>1. pc' \in [Calls -> {"idle", "sending", "processReq", "arrived", "waiting", "checking",
                               "replying", "returned"}] /\ ok' \in [Calls -> BOOLEAN]
        BY <3>1
      <4>2. \A d \in Calls : pc'[d] \in {"arrived", "waiting", "checking"} => target'[d].server # Nil
        BY <2>t, <3>1, <2>5
      <4>3. RpcTypeOK'
        BY <4>1, <4>2, <2>t, <2>4 DEF Targets
      <4>4. (CheckedReplies /\ RequestsHaveEnds /\ TrueMeansExecuted)'
        BY <2>1, <2>4, <3>1
      <4> QED
        BY <4>3, <4>4
  <2>6. CASE ~(enabled[end[c]] /\ target'[c].server # Nil)
    <3>1. pc' = [pc EXCEPT ![c] = "replying"] /\ ok' = [ok EXCEPT ![c] = FALSE]
      BY <1>3, <2>6 DEF BeginProcessReq, Reply
    <3> QED
      <4>1. pc' \in [Calls -> {"idle", "sending", "processReq", "arrived", "waiting", "checking",
                               "replying", "returned"}] /\ ok' \in [Calls -> BOOLEAN]
        BY <3>1
      <4>2. \A d \in Calls : pc'[d] \in {"arrived", "waiting", "checking"} => target'[d].server # Nil
        BY <2>t, <3>1
      <4>3. RpcTypeOK'
        BY <4>1, <4>2, <2>t, <2>4 DEF Targets
      <4>4. (CheckedReplies /\ RequestsHaveEnds /\ TrueMeansExecuted)'
        BY <2>1, <2>4, <3>1
      <4> QED
        BY <4>3, <4>4
  <2> QED
    BY <2>5, <2>6
<1>4. CASE DropRequest(c)
  BY <1>4 DEF DropRequest, Reply
<1>5. CASE Dispatch(c)
  BY <1>5 DEF Dispatch
<1>6. CASE ReceiveReply(c)
  BY <1>6 DEF ReceiveReply
<1>7. CASE PollDead(c)
  BY <1>7 DEF PollDead, Reply
<1>8. CASE CheckAndReply(c)
  <2>1. pc[c] = "checking" /\ UNCHANGED <<wiring, done, accepting, end, target, handler>>
    BY <1>8 DEF CheckAndReply
  <2>2. PICK b \in BOOLEAN : Reply(c, b)
    BY <1>8 DEF CheckAndReply, isServerDead
  <2> QED
    BY <2>1, <2>2 DEF Reply
<1>9. CASE Return(c)
  BY <1>9 DEF Return
<1> QED
  BY <1>1, <1>2, <1>3, <1>4, <1>5, <1>6, <1>7, <1>8, <1>9 DEF CallStep

\* Every step keeps IInv.
LEMMA StepInv == IInv /\ [Next]_rpcVars => IInv'
<1> SUFFICES ASSUME IInv, [Next]_rpcVars PROVE IInv'
  OBVIOUS
<1> USE DEF IInv, RpcTypeOK, CheckedReplies, RequestsHaveEnds, TrueMeansExecuted, wiring, calling
<1>1. ASSUME NEW c \in Calls, NEW e \in Ends, Call(c, e) PROVE IInv'
  BY <1>1 DEF Call
<1>2. ASSUME NEW c \in Calls, CallStep(c) PROVE IInv'
  BY <1>2, CallStepInv
<1>3. ASSUME NEW c \in Calls, HandlerReturns(c) PROVE IInv'
  BY <1>3 DEF HandlerReturns
<1>4. CASE Rewire
  <2>1. ASSUME NEW yes \in BOOLEAN, Reliable(yes) PROVE IInv'
    BY <2>1 DEF Reliable
  <2>2. ASSUME NEW s \in ServerNames, DeleteServer(s) PROVE IInv'
    BY <2>2 DEF DeleteServer
  <2>3. ASSUME NEW s \in ServerNames, NEW rs \in Instances, AddServer(s, rs) PROVE IInv'
    BY <2>3 DEF AddServer
  <2>4. ASSUME NEW s \in ServerNames, NEW e \in Ends, Connect(e, s) PROVE IInv'
    BY <2>4 DEF Connect
  <2>5. ASSUME NEW e \in Ends, NEW yes \in BOOLEAN, Enable(e, yes) PROVE IInv'
    BY <2>5 DEF Enable
  <2> QED
    BY <1>4, <2>1, <2>2, <2>3, <2>4, <2>5 DEF Rewire
<1>5. CASE Cleanup \/ StopAccepting
  BY <1>5 DEF Cleanup, StopAccepting
<1>6. CASE UNCHANGED rpcVars
  BY <1>6 DEF rpcVars
<1> QED
  BY <1>1, <1>2, <1>3, <1>4, <1>5, <1>6 DEF Next

\* The network keeps its types, and no processReq goes on without a server
\* (processReq, labrpc.go:218-309), for any calls, ends, servers and rewirings.
THEOREM NetworkTypesCorrect == Spec => []RpcTypeOK
<1>1. IInv => RpcTypeOK
  BY DEF IInv
<1> QED
  BY <1>1, InitInv, StepInv, PTL DEF Spec

\* Call returns true only for a request whose handler has returned (labrpc.go:31),
\* for any calls, ends, servers and rewirings.
THEOREM PositiveRepliesAreReal == Spec => []TrueMeansExecuted
<1>1. IInv => TrueMeansExecuted
  BY DEF IInv
<1> QED
  BY <1>1, InitInv, StepInv, PTL DEF Spec

(***************************************************************************)
(* The counters.                                                           *)
(***************************************************************************)
CountTypes ==
  /\ count \in Nat /\ bytes \in Nat
  /\ taking \in [next : {"select", "count", "bytes"}, call : Calls \cup {Nil}]
  /\ served \in [Instances -> Nat]
  /\ counted \subseteq Calls /\ IsFiniteSet(counted)
  /\ recorded \subseteq Calls /\ IsFiniteSet(recorded)

\* A handler has a Server, runs only after the request was looked up, and has
\* been counted when it returns.
Handled(c) ==
  /\ handler[c] # "none" => /\ pc[c] \in {"waiting", "checking", "replying", "returned"}
                            /\ target[c].server \in Instances
  /\ handler[c] = "returned" => c \in counted
  /\ c \in counted => handler[c] # "none"
  /\ pc[c] = "returned" /\ ok[c] => c \in recorded

\* The request that is being counted has no processReq yet.
TakenWaits == taking.next # "select" => taking.call \in Calls /\ pc[taking.call] = "processReq"

CountedAt(rs) == {c \in counted : target[c].server = rs}

HalfCounted == IF taking.next = "bytes" THEN 1 ELSE 0

\* Each statistic is the number of calls it stands for; the bytes lag behind the
\* count by a request that is only half counted.
CountsExact ==
  /\ \A rs \in Instances : served[rs] = Cardinality(CountedAt(rs))
  /\ bytes + HalfCounted = count + Cardinality(recorded)

CountInv == CountTypes /\ (\A c \in Calls : Handled(c)) /\ TakenWaits /\ CountsExact

-----------------------------------------------------------------------------
\* CountInv holds initially.
LEMMA CountInitInv == CountInit => CountInv
<1> SUFFICES ASSUME CountInit PROVE CountInv
  OBVIOUS
<1>1. IsFiniteSet({}) /\ Cardinality({}) = 0
  BY FS_EmptySet
<1> USE DEF CountInit, InitStatistics, Select
<1>2. CountTypes
  BY <1>1 DEF CountTypes
<1>3. (\A c \in Calls : Handled(c)) /\ TakenWaits
  BY DEF Handled, Init, InitCalls, TakenWaits
<1>4. CountsExact
  <2>1. \A rs \in Instances : CountedAt(rs) = {}
    BY DEF CountedAt
  <2> QED
    BY <1>1, <2>1 DEF CountsExact, HalfCounted
<1> QED
  BY <1>2, <1>3, <1>4 DEF CountInv

\* A step that keeps the statistics and the targets of the calls counted keeps
\* them exact.
LEMMA ExactKept ==
  ASSUME CountInv, UNCHANGED <<count, bytes, taking, served, counted, recorded>>,
         \A c \in counted : target'[c] = target[c]
  PROVE  CountTypes' /\ CountsExact'
<1>1. ASSUME NEW rs \in Instances PROVE CountedAt(rs)' = CountedAt(rs)
  BY DEF CountedAt
<1> QED
  BY <1>1 DEF CountInv, CountTypes, CountsExact, HalfCounted

\* One more element.
LEMMA OneMore ==
  ASSUME NEW S, NEW x, IsFiniteSet(S), x \notin S
  PROVE  IsFiniteSet(S \cup {x}) /\ Cardinality(S \cup {x}) = Cardinality(S) + 1
  BY FS_AddElement

\* The steps of LabRpc that are not counted, and Deliver.
LEMMA CallStepCounts ==
  ASSUME IInv, CountInv, NEW c \in Calls, ProcessStep(c) \/ Deliver(c)
  PROVE  CountInv'
<1> USE DEF CountInv
<1>s. UNCHANGED <<count, bytes, taking, served, counted, recorded>>
  BY DEF ProcessStep, Deliver, statistics
<1>w. taking.next # "select" => taking.call # c
  BY DEF TakenWaits, ProcessStep, Deliver, Return, Started, SendDestroyed, DropRequest, Dispatch,
     ReceiveReply, PollDead, CheckAndReply
<1>h. Handled(c)
  OBVIOUS
<1>t. RpcTypeOK
  BY DEF IInv
<1>1. /\ \A d \in Calls \ {c} : /\ pc'[d] = pc[d] /\ handler'[d] = handler[d]
                                /\ target'[d] = target[d] /\ ok'[d] = ok[d]
      /\ Handled(c)'
      /\ c \in counted => target'[c] = target[c]
  <2> USE <1>s, <1>h DEF Handled, RpcTypeOK
  <2>1. CASE SendDestroyed(c)
    BY <1>t, <2>1 DEF SendDestroyed
  <2>2. CASE BeginProcessReq(c)
    BY <1>t, <2>2 DEF BeginProcessReq, Reply
  <2>3. CASE DropRequest(c)
    BY <1>t, <2>3 DEF DropRequest, Reply
  <2>4. CASE Dispatch(c)
    BY <1>t, <2>4 DEF Dispatch
  <2>5. CASE ReceiveReply(c)
    BY <1>t, <2>5 DEF ReceiveReply
  <2>6. CASE PollDead(c)
    BY <1>t, <2>6 DEF PollDead, Reply
  <2>7. CASE CheckAndReply(c)
    BY <1>t, <2>7 DEF CheckAndReply, Reply
  <2>8. CASE Deliver(c)
    BY <1>t, <2>8 DEF Deliver, Return
  <2> QED
    BY <2>1, <2>2, <2>3, <2>4, <2>5, <2>6, <2>7, <2>8 DEF ProcessStep
<1>2. CountTypes' /\ CountsExact'
  BY <1>s, <1>1, ExactKept DEF CountTypes
<1>3. \A d \in Calls : Handled(d)'
  BY <1>s, <1>1 DEF Handled
<1>4. TakenWaits'
  BY <1>s, <1>1, <1>w DEF TakenWaits
<1> QED
  BY <1>2, <1>3, <1>4

\* Accept keeps CountInv.
LEMMA AcceptCounts == ASSUME IInv, CountInv, NEW c \in Calls, Accept(c) PROVE CountInv'
<1> USE DEF CountInv
<1>1. /\ pc[c] = "sending" /\ pc' = [pc EXCEPT ![c] = "processReq"]
      /\ UNCHANGED <<target, handler, ok, count, bytes, served, counted, recorded>>
      /\ taking.next = "select"
      /\ taking' = [next |-> "count", call |-> c]
  BY DEF Accept, Send, Select
<1>2. (\A d \in Calls : Handled(d)') /\ TakenWaits'
  BY <1>1 DEF Handled, TakenWaits, IInv, RpcTypeOK
<1>3. CountTypes'
  BY <1>1 DEF CountTypes
<1>4. CountsExact'
  <2>1. \A rs \in Instances : CountedAt(rs)' = CountedAt(rs)
    BY <1>1 DEF CountedAt
  <2> QED
    BY <1>1, <2>1 DEF CountsExact, HalfCounted
<1> QED
  BY <1>2, <1>3, <1>4

\* The two additions to the network's statistics keep CountInv.
LEMMA RequestCounts ==
  ASSUME IInv, CountInv, NEW c \in Calls, CountRequest(c) \/ CountBytes(c)
  PROVE  CountInv'
<1> USE DEF CountInv
<1>1. UNCHANGED <<pc, target, handler, ok, served, counted, recorded>>
  BY DEF CountRequest, CountBytes, rpcVars, calling
<1>2. \A d \in Calls : Handled(d)'
  BY <1>1 DEF Handled
<1>3. \A rs \in Instances : CountedAt(rs)' = CountedAt(rs)
  BY <1>1 DEF CountedAt
<1>4. Cardinality(recorded) \in Nat
  BY FS_CardinalityType DEF CountTypes
<1>5. CASE CountRequest(c)
  <2>1. /\ taking = [next |-> "count", call |-> c] /\ taking' = [next |-> "bytes", call |-> c]
        /\ count' = count + 1 /\ bytes' = bytes
    BY <1>5 DEF CountRequest
  <2>2. CountTypes' /\ TakenWaits'
    BY <1>1, <2>1 DEF CountTypes, TakenWaits
  <2>3. CountsExact'
    BY <1>1, <1>3, <1>4, <2>1 DEF CountsExact, HalfCounted, CountTypes
  <2> QED
    BY <1>2, <2>2, <2>3
<1>6. CASE CountBytes(c)
  <2>1. /\ taking = [next |-> "bytes", call |-> c] /\ taking' = Select
        /\ count' = count /\ bytes' = bytes + 1
    BY <1>6 DEF CountBytes
  <2>2. CountTypes' /\ TakenWaits'
    BY <1>1, <2>1 DEF CountTypes, TakenWaits, Select
  <2>3. CountsExact'
    BY <1>1, <1>3, <1>4, <2>1 DEF CountsExact, HalfCounted, CountTypes, Select
  <2> QED
    BY <1>2, <2>2, <2>3
<1> QED
  BY <1>5, <1>6

\* CountIncoming keeps CountInv.
LEMMA IncomingCounts == ASSUME IInv, CountInv, NEW c \in Calls, CountIncoming(c) PROVE CountInv'
<1> USE DEF CountInv
<1> DEFINE srv == target[c].server
<1>1. /\ handler[c] = "running" /\ c \notin counted
      /\ counted' = counted \cup {c}
      /\ served' = [served EXCEPT ![srv] = @ + 1]
      /\ UNCHANGED <<pc, target, handler, ok, count, bytes, taking, recorded>>
  BY DEF CountIncoming, rpcVars, calling
<1>2. (\A d \in Calls : Handled(d)') /\ TakenWaits'
  BY <1>1 DEF Handled, TakenWaits
<1>3. srv \in Instances
  BY <1>1 DEF Handled
<1>4. CountTypes'
  BY <1>1, <1>3, OneMore DEF CountTypes
<1>5. ASSUME NEW rs \in Instances PROVE served'[rs] = Cardinality(CountedAt(rs)')
  <2>1. IsFiniteSet(CountedAt(rs)) /\ c \notin CountedAt(rs)
    BY <1>1, FS_Subset DEF CountTypes, CountedAt
  <2>2. CASE rs = srv
    <3>1. CountedAt(rs)' = CountedAt(rs) \cup {c}
      BY <1>1, <2>2 DEF CountedAt
    <3>2. served'[rs] = served[rs] + 1
      BY <1>1, <2>2 DEF CountTypes
    <3> QED
      BY <2>1, <3>1, <3>2, OneMore DEF CountsExact
  <2>3. CASE rs # srv
    <3>1. CountedAt(rs)' = CountedAt(rs)
      BY <1>1, <2>3 DEF CountedAt
    <3> QED
      BY <1>1, <2>3, <3>1 DEF CountsExact, CountTypes
  <2> QED
    BY <2>2, <2>3
<1> QED
  BY <1>1, <1>2, <1>4, <1>5 DEF CountsExact, HalfCounted

\* ServiceDispatch keeps CountInv.
LEMMA ServiceCounts == ASSUME IInv, CountInv, NEW c \in Calls, ServiceDispatch(c) PROVE CountInv'
<1> USE DEF CountInv
<1>1. /\ c \in counted /\ handler[c] = "running" /\ handler' = [handler EXCEPT ![c] = "returned"]
      /\ UNCHANGED <<pc, target, ok, count, bytes, taking, served, counted, recorded>>
  BY DEF ServiceDispatch, HandlerReturns, statistics
<1>2. (\A d \in Calls : Handled(d)') /\ TakenWaits'
  BY <1>1 DEF Handled, TakenWaits, IInv, RpcTypeOK
<1> QED
  BY <1>1, <1>2, ExactKept

\* CountReply keeps CountInv.
LEMMA ReplyCounts == ASSUME IInv, CountInv, NEW c \in Calls, CountReply(c) PROVE CountInv'
<1> USE DEF CountInv
<1>1. /\ c \notin recorded /\ recorded' = recorded \cup {c} /\ bytes' = bytes + 1
      /\ UNCHANGED <<pc, target, handler, ok, count, taking, served, counted>>
  BY DEF CountReply, rpcVars, calling
<1>2. (\A d \in Calls : Handled(d)') /\ TakenWaits'
  BY <1>1 DEF Handled, TakenWaits
<1>3. CountTypes'
  BY <1>1, OneMore DEF CountTypes
<1>4. bytes' + HalfCounted' = count' + Cardinality(recorded')
  <2>1. Cardinality(recorded') = Cardinality(recorded) + 1 /\ Cardinality(recorded) \in Nat
    BY <1>1, OneMore, FS_CardinalityType DEF CountTypes
  <2> QED
    BY <1>1, <2>1 DEF CountsExact, CountTypes, HalfCounted
<1>5. \A rs \in Instances : CountedAt(rs)' = CountedAt(rs)
  BY <1>1 DEF CountedAt
<1> QED
  BY <1>1, <1>2, <1>3, <1>4, <1>5 DEF CountsExact

\* Every step of RpcCounts is a step of LabRpc, or changes nothing of it.
LEMMA CountStepIsNetworkStep == [CountNext]_countVars => [Next]_rpcVars
<1> SUFFICES ASSUME [CountNext]_countVars PROVE [Next]_rpcVars
  OBVIOUS
<1>1. CASE UNCHANGED countVars
  BY <1>1 DEF countVars
<1>2. ASSUME NEW c \in Calls,
             \/ (\E e \in Ends : Call(c, e)) \/ Accept(c) \/ CountRequest(c) \/ CountBytes(c)
             \/ CountIncoming(c) \/ ServiceDispatch(c) \/ CountReply(c) \/ Deliver(c)
             \/ ProcessStep(c)
      PROVE  [Next]_rpcVars
  BY <1>2 DEF Next, CallStep, Accept, CountRequest, CountBytes, CountIncoming, ServiceDispatch,
     CountReply, Deliver, ProcessStep
<1>3. CASE CountNext
  BY <1>2, <1>3 DEF CountNext, GetCount, GetTotalCount, RewireCounted, Next
<1> QED
  BY <1>1, <1>3

\* Every step keeps CountInv.
LEMMA CountStepInv == IInv /\ CountInv /\ [CountNext]_countVars => CountInv'
<1> SUFFICES ASSUME IInv, CountInv, [CountNext]_countVars PROVE CountInv'
  OBVIOUS
<1>1. ASSUME UNCHANGED calling, UNCHANGED statistics PROVE CountInv'
  <2>1. (\A c \in Calls : Handled(c)') /\ TakenWaits'
    BY <1>1 DEF CountInv, Handled, TakenWaits, calling, statistics
  <2> QED
    BY <1>1, <2>1, ExactKept DEF CountInv, calling, statistics
<1>2. ASSUME NEW c \in Calls, NEW e \in Ends, Call(c, e), UNCHANGED statistics PROVE CountInv'
  <2>1. pc[c] = "idle" /\ pc' = [pc EXCEPT ![c] = "sending"] /\ UNCHANGED <<target, handler, ok>>
    BY <1>2 DEF Call
  <2>2. (\A d \in Calls : Handled(d)') /\ TakenWaits'
    BY <1>2, <2>1 DEF CountInv, Handled, TakenWaits, IInv, RpcTypeOK, statistics
  <2> QED
    BY <1>2, <2>1, <2>2, ExactKept DEF CountInv, statistics
<1>3. CASE UNCHANGED countVars
  BY <1>1, <1>3 DEF countVars, rpcVars
<1>4. CASE (\E s \in ServerNames : GetCount(s)) \/ GetTotalCount
  BY <1>1, <1>4 DEF GetCount, GetTotalCount, rpcVars
<1>5. CASE RewireCounted \/ (StopAccepting /\ UNCHANGED <<statistics, reading>>)
  BY <1>1, <1>5 DEF RewireCounted, Rewire, Cleanup, StopAccepting, Reliable, AddServer, DeleteServer,
     Connect, Enable
<1>6. CASE CountNext
  BY <1>2, <1>4, <1>5, <1>6, CallStepCounts, AcceptCounts, RequestCounts, IncomingCounts,
     ServiceCounts, ReplyCounts
     DEF CountNext
<1> QED
  BY <1>3, <1>6

-----------------------------------------------------------------------------
(***************************************************************************)
(* The Servers' counts and the total, as a test reads them one by one.     *)
(***************************************************************************)

\* Calls that the network has counted and that may be, or come to be, with a Server.
Accepted ==
  {c \in Calls : /\ \/ pc[c] \in {"processReq", "arrived", "waiting", "checking", "replying"}
                   \/ handler[c] # "none"
                /\ taking # [next |-> "count", call |-> c]}

\* A Server is counted with the calls of its name, whichever Server has it now.
CountedFor(names) == {c \in counted : NameOf[target[c].server] \in names}

NamesRead == ServerNames \ reading.left

ReadTypes ==
  /\ DOMAIN reading = {"left", "sum", "total"}
  /\ reading.left \subseteq ServerNames /\ reading.sum \in Nat /\ reading.total \in Nat \cup {NotRead}

OneName == \A s \in ServerNames : servers[s] # Nil => NameOf[servers[s]] = s

\* The network counts a request before its Server does.
TotalCovers == IsFiniteSet(Accepted) /\ Cardinality(Accepted) <= count

\* What has been read is no more than what has been counted for the names read.
SumCovered ==
  /\ reading.sum <= Cardinality(CountedFor(NamesRead))
  /\ reading.total # NotRead => reading.left = {} /\ reading.sum <= reading.total

ReadInv == ReadTypes /\ OneName /\ TotalCovers /\ SumCovered

\* ReadInv holds initially.
LEMMA ReadInitInv == CountInit => ReadInv
<1> SUFFICES ASSUME CountInit PROVE ReadInv
  OBVIOUS
<1>1. IsFiniteSet({}) /\ Cardinality({}) = 0
  BY FS_EmptySet
<1>2. ReadTypes
  BY DEF CountInit, InitStatistics, ReadTypes, NotRead
<1>3. OneName
  BY DEF CountInit, Init, OneName
<1>4. TotalCovers
  <2>1. Accepted = {}
    BY DEF Accepted, CountInit, Init, InitCalls
  <2> QED
    BY <1>1, <2>1 DEF TotalCovers, CountInit, InitStatistics
<1>5. SumCovered
  <2>1. CountedFor(NamesRead) = {}
    BY DEF CountedFor, CountInit, InitStatistics
  <2> QED
    BY <1>1, <2>1 DEF SumCovered, CountInit, InitStatistics, NotRead
<1> QED
  BY <1>2, <1>3, <1>4, <1>5 DEF ReadInv

\* A step that adds at most one call to those accepted, and counts it.
LEMMA TotalKept ==
  ASSUME TotalCovers, CountInv, CountInv',
         \/ Accepted' \subseteq Accepted /\ count' = count
         \/ \E c \in Calls : Accepted' \subseteq Accepted \cup {c} /\ count' = count + 1
  PROVE  TotalCovers'
<1>0. count \in Nat /\ count' \in Nat
  BY DEF CountInv, CountTypes
<1>1. CASE Accepted' \subseteq Accepted /\ count' = count
  <2>1. IsFiniteSet(Accepted') /\ Cardinality(Accepted') <= Cardinality(Accepted)
    BY <1>1, FS_Subset DEF TotalCovers
  <2>2. Cardinality(Accepted) \in Nat /\ Cardinality(Accepted') \in Nat
    BY <2>1, FS_CardinalityType DEF TotalCovers
  <2> QED
    BY <1>0, <1>1, <2>1, <2>2 DEF TotalCovers
<1>2. ASSUME NEW c \in Calls, Accepted' \subseteq Accepted \cup {c}, count' = count + 1
      PROVE  TotalCovers'
  <2>1. /\ IsFiniteSet(Accepted \cup {c})
        /\ Cardinality(Accepted \cup {c}) <= Cardinality(Accepted) + 1
        /\ Cardinality(Accepted) \in Nat
    BY FS_AddElement, FS_CardinalityType DEF TotalCovers
  <2>2. IsFiniteSet(Accepted') /\ Cardinality(Accepted') <= Cardinality(Accepted \cup {c})
    BY <1>2, <2>1, FS_Subset
  <2>3. Cardinality(Accepted \cup {c}) \in Nat /\ Cardinality(Accepted') \in Nat
    BY <2>1, <2>2, FS_CardinalityType
  <2> QED
    BY <1>0, <1>2, <2>1, <2>2, <2>3 DEF TotalCovers
<1> QED
  BY <1>1, <1>2

\* A step that reads nothing keeps the sum covered: calls already counted stay so.
LEMMA SumKept ==
  ASSUME SumCovered, ReadTypes, CountInv, CountInv', reading' = reading,
         counted \subseteq counted', \A c \in counted : target'[c] = target[c]
  PROVE  SumCovered' /\ ReadTypes'
<1>1. CountedFor(NamesRead) \subseteq CountedFor(NamesRead)'
  BY DEF CountedFor, NamesRead
<1>2. IsFiniteSet(CountedFor(NamesRead)') /\ IsFiniteSet(CountedFor(NamesRead))
  BY FS_Subset DEF CountedFor, CountInv, CountTypes
<1>3. /\ Cardinality(CountedFor(NamesRead)) <= Cardinality(CountedFor(NamesRead)')
      /\ Cardinality(CountedFor(NamesRead)) \in Nat /\ Cardinality(CountedFor(NamesRead)') \in Nat
  BY <1>1, <1>2, FS_Subset, FS_CardinalityType
<1>4. ReadTypes'
  BY DEF ReadTypes
<1> QED
  BY <1>3, <1>4 DEF SumCovered, ReadTypes

\* The steps of processReq: none takes another request.
LEMMA CallStepReads ==
  ASSUME IInv, CountInv, CountInv', ReadInv, NEW c \in Calls, ProcessStep(c) \/ Deliver(c)
  PROVE  ReadInv'
<1>s. UNCHANGED <<count, bytes, taking, served, counted, recorded, reading, servers>>
  BY DEF ProcessStep, Deliver, statistics, SendDestroyed, BeginProcessReq, DropRequest, Dispatch,
     ReceiveReply, PollDead, CheckAndReply, Return, wiring
<1>h. Handled(c) /\ RpcTypeOK
  BY DEF CountInv, IInv
<1>1. /\ \A d \in Calls \ {c} : pc'[d] = pc[d] /\ handler'[d] = handler[d] /\ target'[d] = target[d]
      /\ c \in Accepted' => c \in Accepted
      /\ c \in counted => target'[c] = target[c]
  <2> USE <1>s, <1>h DEF Handled, RpcTypeOK, Accepted
  <2>1. CASE SendDestroyed(c)
    BY <2>1 DEF SendDestroyed
  <2>2. CASE BeginProcessReq(c)
    BY <2>2 DEF BeginProcessReq, Reply
  <2>3. CASE DropRequest(c)
    BY <2>3 DEF DropRequest, Reply
  <2>4. CASE Dispatch(c)
    BY <2>4 DEF Dispatch
  <2>5. CASE ReceiveReply(c)
    BY <2>5 DEF ReceiveReply
  <2>6. CASE PollDead(c)
    BY <2>6 DEF PollDead, Reply
  <2>7. CASE CheckAndReply(c)
    BY <2>7 DEF CheckAndReply, Reply
  <2>8. CASE Deliver(c)
    BY <2>8 DEF Deliver, Return
  <2> QED
    BY <2>1, <2>2, <2>3, <2>4, <2>5, <2>6, <2>7, <2>8 DEF ProcessStep
<1>2. Accepted' \subseteq Accepted
  <2>1. ASSUME NEW d \in Calls \ {c}, d \in Accepted' PROVE d \in Accepted
    BY <1>s, <1>1, <2>1 DEF Accepted
  <2>2. Accepted' \subseteq Calls
    BY DEF Accepted
  <2> QED
    BY <1>1, <2>1, <2>2
<1>3. \A d \in counted : target'[d] = target[d]
  BY <1>1 DEF CountInv, CountTypes
<1>4. TotalCovers'
  BY <1>s, <1>2, TotalKept DEF ReadInv
<1>5. SumCovered' /\ ReadTypes'
  BY <1>s, <1>3, SumKept DEF ReadInv
<1> QED
  BY <1>s, <1>4, <1>5 DEF ReadInv, OneName

\* Taking a request, and counting it at its Server or its reply in the bytes.
LEMMA CountingReads ==
  ASSUME IInv, CountInv, CountInv', ReadInv, NEW c \in Calls,
         \/ Accept(c) \/ CountRequest(c) \/ CountBytes(c) \/ CountIncoming(c)
         \/ ServiceDispatch(c) \/ CountReply(c)
  PROVE  ReadInv'
<1>h. Handled(c) /\ RpcTypeOK
  BY DEF CountInv, IInv
<1>1. UNCHANGED <<target, reading, servers>> /\ counted \subseteq counted'
  BY DEF Accept, Send, CountRequest, CountBytes, CountIncoming, ServiceDispatch, HandlerReturns,
     CountReply, rpcVars, calling, wiring, statistics
<1>2. \/ Accepted' \subseteq Accepted /\ count' = count
      \/ Accepted' \subseteq Accepted \cup {c} /\ count' = count + 1
  <2> USE <1>h DEF Accepted
  <2>1. CASE Accept(c)
    BY <2>1 DEF Accept, Send, RpcTypeOK, Select
  <2>4. CASE CountRequest(c) \/ CountBytes(c)
    BY <2>4 DEF CountRequest, CountBytes, Select, rpcVars, calling
  <2>2. CASE ServiceDispatch(c)
    BY <2>2 DEF ServiceDispatch, HandlerReturns, RpcTypeOK, statistics
  <2>3. CASE CountIncoming(c) \/ CountReply(c)
    BY <2>3 DEF CountIncoming, CountReply, rpcVars, calling
  <2> QED
    BY <2>1, <2>2, <2>3, <2>4
<1>3. TotalCovers'
  BY <1>2, TotalKept DEF ReadInv
<1>4. SumCovered' /\ ReadTypes'
  BY <1>1, SumKept DEF ReadInv
<1> QED
  BY <1>1, <1>3, <1>4 DEF ReadInv, OneName

\* Two sets without a common element.
LEMMA DisjointSizes ==
  ASSUME NEW S, NEW T, IsFiniteSet(S), IsFiniteSet(T), S \cap T = {}
  PROVE  Cardinality(S \cup T) = Cardinality(S) + Cardinality(T)
<1>1. Cardinality(S \cup T) = Cardinality(S) + Cardinality(T) - Cardinality(S \cap T)
  BY FS_Union
<1>2. Cardinality(S \cap T) = 0
  BY FS_EmptySet
<1>3. Cardinality(S) \in Nat /\ Cardinality(T) \in Nat
  BY FS_CardinalityType
<1> QED
  BY <1>1, <1>2, <1>3

\* Reading a Server's count adds calls of a name that was not read before.
LEMMA GetCountReads ==
  ASSUME IInv, CountInv, ReadInv, NEW s \in ServerNames, GetCount(s)
  PROVE  ReadInv'
<1> DEFINE rs == servers[s]
<1>1. /\ s \in reading.left /\ rs # Nil
      /\ reading' = [reading EXCEPT !.left = reading.left \ {s}, !.sum = reading.sum + served[rs]]
      /\ UNCHANGED <<servers, pc, target, handler, count, taking, served, counted>>
  BY DEF GetCount, rpcVars, wiring, calling, statistics
<1>2. rs \in Instances /\ NameOf[rs] = s
  BY <1>1 DEF ReadInv, OneName, IInv, RpcTypeOK
<1>3. served[rs] = Cardinality(CountedAt(rs)) /\ served[rs] \in Nat
  BY <1>2 DEF CountInv, CountTypes, CountsExact
<1>4. /\ DOMAIN reading' = {"left", "sum", "total"}
      /\ reading'.left = reading.left \ {s} /\ reading'.sum = reading.sum + served[rs]
      /\ reading'.total = reading.total
  BY <1>1 DEF ReadInv, ReadTypes
<1>5. ReadTypes'
  BY <1>3, <1>4 DEF ReadInv, ReadTypes
<1>6. TotalCovers' /\ OneName'
  <2>1. Accepted' = Accepted
    BY <1>1 DEF Accepted
  <2> QED
    BY <1>1, <2>1 DEF ReadInv, TotalCovers, OneName
<1>7. reading'.sum <= Cardinality(CountedFor(NamesRead)')
  <2> DEFINE A == CountedFor(NamesRead)
             B == CountedAt(rs)
  <2>1. IsFiniteSet(A) /\ IsFiniteSet(B)
    BY FS_Subset DEF CountedFor, CountedAt, CountInv, CountTypes
  <2>2. A \cap B = {}
    BY <1>1, <1>2 DEF CountedFor, CountedAt, NamesRead
  <2>3. A \cup B \subseteq CountedFor(NamesRead)'
    BY <1>1, <1>2, <1>4 DEF CountedFor, CountedAt, NamesRead
  <2>4. IsFiniteSet(CountedFor(NamesRead)')
    BY <1>1, FS_Subset DEF CountedFor, CountInv, CountTypes
  <2> HIDE DEF A, B
  <2>5. Cardinality(A \cup B) = Cardinality(A) + Cardinality(B)
    BY <2>1, <2>2, DisjointSizes
  <2>6. Cardinality(A \cup B) <= Cardinality(CountedFor(NamesRead)')
    BY <2>3, <2>4, FS_Subset
  <2>7. /\ Cardinality(A) \in Nat /\ Cardinality(B) \in Nat
        /\ Cardinality(CountedFor(NamesRead)') \in Nat
    BY <2>1, <2>4, FS_CardinalityType
  <2>8. reading.sum <= Cardinality(A) /\ reading.sum \in Nat /\ served[rs] = Cardinality(B)
    BY <1>3 DEF A, B, ReadInv, SumCovered, ReadTypes
  <2> QED
    BY <1>4, <2>5, <2>6, <2>7, <2>8
<1>8. reading'.total = NotRead
  BY <1>1, <1>4 DEF ReadInv, SumCovered
<1> QED
  BY <1>5, <1>6, <1>7, <1>8 DEF ReadInv, SumCovered

\* The total is read when every Server has been.
LEMMA GetTotalCountReads ==
  ASSUME IInv, CountInv, ReadInv, GetTotalCount
  PROVE  ReadInv'
<1>1. /\ reading.left = {}
      /\ reading' = [reading EXCEPT !.total = count]
      /\ UNCHANGED <<servers, pc, target, handler, count, taking, served, counted>>
  BY DEF GetTotalCount, rpcVars, wiring, calling, statistics
<1>2. /\ DOMAIN reading' = {"left", "sum", "total"}
      /\ reading'.left = reading.left /\ reading'.sum = reading.sum /\ reading'.total = count
  BY <1>1 DEF ReadInv, ReadTypes
<1>3. ReadTypes'
  BY <1>2 DEF ReadInv, ReadTypes, CountInv, CountTypes
<1>4. TotalCovers' /\ OneName'
  <2>1. Accepted' = Accepted
    BY <1>1 DEF Accepted
  <2> QED
    BY <1>1, <2>1 DEF ReadInv, TotalCovers, OneName
<1>5. CountedFor(NamesRead)' = CountedFor(NamesRead)
  BY <1>1, <1>2 DEF CountedFor, NamesRead
<1>6. CountedFor(NamesRead) \subseteq Accepted
  BY DEF CountedFor, Accepted, CountInv, CountTypes, Handled, TakenWaits
<1>7. /\ Cardinality(CountedFor(NamesRead)) <= Cardinality(Accepted)
      /\ Cardinality(CountedFor(NamesRead)) \in Nat /\ Cardinality(Accepted) \in Nat
  BY <1>6, FS_Subset, FS_CardinalityType DEF ReadInv, TotalCovers
<1>8. reading.sum <= count
  BY <1>7 DEF ReadInv, SumCovered, TotalCovers, ReadTypes, CountInv, CountTypes
<1> QED
  BY <1>1, <1>2, <1>3, <1>4, <1>5, <1>8 DEF ReadInv, SumCovered

\* Steps that leave the calls and the statistics alone.
LEMMA RestReads ==
  ASSUME CountInv, CountInv', ReadInv, UNCHANGED <<calling, statistics, reading>>, OneName'
  PROVE  ReadInv'
<1>1. Accepted' = Accepted
  BY DEF Accepted, calling, statistics
<1>2. TotalCovers'
  BY <1>1 DEF ReadInv, TotalCovers, statistics
<1> QED
  BY <1>2, SumKept DEF ReadInv, calling, statistics

\* Every step keeps ReadInv.
LEMMA ReadStepInv == IInv /\ CountInv /\ CountInv' /\ ReadInv /\ [CountNext]_countVars => ReadInv'
<1> SUFFICES ASSUME IInv, CountInv, CountInv', ReadInv, [CountNext]_countVars PROVE ReadInv'
  OBVIOUS
<1>1. CASE UNCHANGED countVars
  BY <1>1, RestReads DEF countVars, rpcVars, wiring, ReadInv, OneName
<1>2. ASSUME NEW c \in Calls, NEW e \in Ends, Call(c, e), UNCHANGED <<statistics, reading>>
      PROVE  ReadInv'
  <2>1. /\ pc[c] = "idle" /\ pc' = [pc EXCEPT ![c] = "sending"]
        /\ UNCHANGED <<target, handler, ok, servers>>
    BY <1>2 DEF Call, wiring
  <2>2. Accepted' \subseteq Accepted /\ count' = count
    BY <1>2, <2>1 DEF Accepted, IInv, RpcTypeOK, statistics
  <2>3. TotalCovers'
    BY <2>2, TotalKept DEF ReadInv
  <2>4. SumCovered' /\ ReadTypes'
    BY <1>2, <2>1, SumKept DEF ReadInv, statistics
  <2> QED
    BY <2>1, <2>3, <2>4 DEF ReadInv, OneName
<1>3. CASE RewireCounted
  <2>1. UNCHANGED calling
    BY <1>3 DEF RewireCounted, Rewire, Cleanup, Reliable, AddServer, DeleteServer, Connect, Enable
  <2> QED
    BY <1>3, <2>1, RestReads DEF RewireCounted, OneName
<1>4. CASE StopAccepting /\ UNCHANGED <<statistics, reading>>
  BY <1>4, RestReads DEF StopAccepting, wiring, ReadInv, OneName
<1>5. CASE CountNext
  BY <1>2, <1>3, <1>4, <1>5, CallStepReads, CountingReads, GetCountReads, GetTotalCountReads
     DEF CountNext
<1> QED
  BY <1>1, <1>5

-----------------------------------------------------------------------------
\* The statistics of labrpc are kept beside what the network does and change
\* nothing of it (MakeNetwork, processReq and dispatch, labrpc.go:151-162,
\* 278-290 and 405-417): what is proved of LabRpc holds with them.
THEOREM CountsImplementNetwork == CountSpec => Spec
<1>1. CountInit => Init
  BY DEF CountInit
<1> QED
  BY <1>1, CountStepIsNetworkStep, PTL DEF CountSpec, Spec

\* A caller that has its reply finds its request in the count of the Server that
\* executed it and in the network's, and request and reply in the bytes (processReq
\* and dispatch of labrpc.go), for any calls, ends, servers and rewirings, and also
\* between the two additions for another request.
THEOREM DeliveredCallsAreCounted == CountSpec => []DeliveredAreCounted
<1>1. ASSUME IInv, CountInv, ReadInv PROVE DeliveredAreCounted
  <2> DEFINE Delivered == {c \in Calls : pc[c] = "returned" /\ ok[c]}
             Half == IF taking.next = "bytes" THEN {taking.call} ELSE {}
  <2> USE <1>1 DEF CountInv
  <2>1. \A c \in Delivered : c \in recorded /\ c \in counted /\ handler[c] # "none"
    BY DEF Handled, IInv, TrueMeansExecuted
  <2>2. ASSUME NEW rs \in Instances
        PROVE  Cardinality({c \in Delivered : target[c].server = rs}) <= served[rs]
    <3>1. IsFiniteSet(CountedAt(rs))
      BY FS_Subset DEF CountTypes, CountedAt
    <3>2. {c \in Delivered : target[c].server = rs} \subseteq CountedAt(rs)
      BY <2>1 DEF CountedAt
    <3> QED
      BY <3>1, <3>2, FS_Subset DEF CountsExact
  <2>3. Delivered \cup Half \subseteq Accepted /\ Delivered \cap Half = {}
    BY <2>1 DEF Accepted, TakenWaits
  <2>4. /\ IsFiniteSet(Delivered) /\ Cardinality(Delivered) <= Cardinality(recorded)
        /\ Cardinality(Delivered) \in Nat /\ Cardinality(recorded) \in Nat
    BY <2>1, FS_Subset, FS_CardinalityType DEF CountTypes
  <2>5. IsFiniteSet(Half) /\ Cardinality(Half) = HalfCounted
    BY FS_EmptySet, FS_Singleton DEF HalfCounted
  <2> HIDE DEF Delivered, Half
  <2>6. Cardinality(Delivered) + HalfCounted <= count
    <3>1. Cardinality(Delivered \cup Half) = Cardinality(Delivered) + HalfCounted
      BY <2>3, <2>4, <2>5, DisjointSizes
    <3>2. Cardinality(Delivered \cup Half) <= Cardinality(Accepted)
      BY <2>3, FS_Subset DEF ReadInv, TotalCovers
    <3>3. Cardinality(Accepted) \in Nat /\ HalfCounted \in Nat
      BY FS_CardinalityType DEF ReadInv, TotalCovers, HalfCounted
    <3> QED
      BY <2>4, <3>1, <3>2, <3>3 DEF ReadInv, TotalCovers, CountTypes
  <2>7. 2 * Cardinality(Delivered) <= bytes /\ Cardinality(Delivered) <= count
    BY <2>4, <2>6 DEF CountsExact, CountTypes, HalfCounted
  <2> QED
    BY <2>2, <2>7 DEF DeliveredAreCounted, Delivered
<1>2. IInv /\ [CountNext]_countVars => IInv'
  BY CountStepIsNetworkStep, StepInv
<1>3. CountInit => IInv
  BY InitInv DEF CountInit
<1> QED
  BY <1>1, <1>2, <1>3, CountInitInv, CountStepInv, ReadInitInv, ReadStepInv, PTL DEF CountSpec

\* The counts of the Servers, read one by one while calls go on and Servers are
\* replaced, never add up to more than the total read after them (GetCount and
\* GetTotalCount, labrpc.go:363-375), for any number of servers, calls and ends.
THEOREM SumsStayWithinTotal == CountSpec => []ServersWithinTotal
<1>1. ReadInv => ServersWithinTotal
  BY DEF ReadInv, SumCovered, ServersWithinTotal
<1>2. IInv /\ [CountNext]_countVars => IInv'
  BY CountStepIsNetworkStep, StepInv
<1>3. CountInit => IInv
  BY InitInv DEF CountInit
<1> QED
  BY <1>1, <1>2, <1>3, CountInitInv, CountStepInv, ReadInitInv, ReadStepInv, PTL DEF CountSpec
=============================================================================
