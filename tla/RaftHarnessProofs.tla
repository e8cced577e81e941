------------------------- MODULE RaftHarnessProofs --------------------------
(***************************************************************************)
(* What a caller was told survives every crash, and no two incarnations    *)
(* share a Persister; the ends that are switched on are those between      *)
(* connected servers, and a server that was replaced is never reached      *)
(* again; and no Raft is left ticking.  All of it for any servers,         *)
(* incarnations, calls and crashes.                                        *)
(***************************************************************************)
EXTENDS RaftLives, RpcProofs, FiniteSetTheorems

(***************************************************************************)
(* The inductive invariant.                                                *)
(***************************************************************************)
StoreTypes ==
  /\ inc \in [ServerNames -> Nat \ {0}]
  /\ rafts \in [ServerNames -> Instances \cup {Nil}]
  /\ persisters \in Seq(SUBSET Calls)
  /\ saved \in [ServerNames -> 1..Len(persisters)]
  /\ persister \in [Instances -> Nat]
  /\ memory \in [Instances -> SUBSET Calls]

\* Every incarnation writes a Persister of its own, and only that.
OwnPersisters ==
  /\ \A r \in Made : persister[r] \in 1..Len(persisters) /\ memory[r] = persisters[persister[r]]
  /\ \A r, s \in Made : persister[r] = persister[s] => r = s

\* As long as a server can be reached, the Persister that will be copied is the
\* one it writes; it cannot be reached once the copying has begun.
RegisteredSaves ==
  /\ \A i \in ServerNames :
       servers[i] # Nil => servers[i] \in Made /\ saved[i] = persister[servers[i]]
  /\ \A i \in ServerNames : hpc.server = i /\ hpc.step \in {"copy", "renew", "make"} => servers[i] = Nil

\* The same for cfg.rafts, except in the middle of a crash1.
RunningSaves ==
  \A i \in ServerNames :
    rafts[i] # Nil /\ ~(hpc.server = i /\ hpc.step = "renew") =>
      rafts[i] \in Made /\ saved[i] = persister[rafts[i]]

\* A start1 in progress has an incarnation left to start.
StartsFit ==
  hpc.op = "start" /\ hpc.step \in {"delete", "copy", "renew", "make"} =>
    inc[hpc.server] < MaxIncarnation

StoreInv == StoreTypes /\ OwnPersisters /\ RegisteredSaves /\ RunningSaves /\ StartsFit

\* What a call in each stage knows: its target is an incarnation that exists, a
\* handler that has returned is remembered, an acknowledged call is persisted.
CallKnows(c) ==
  /\ handler[c] # "none" => target[c].server \in Made
  /\ handler[c] = "returned" => c \in memory[target[c].server]
  /\ pc[c] \in {"idle", "sending", "processReq", "arrived"} => handler[c] = "none"
  /\ pc[c] \in {"arrived", "waiting", "checking"} =>
       target[c].server \in Made /\ target[c].name \in ServerNames
  /\ pc[c] \in {"replying", "returned"} /\ ok[c] =>
       target[c].name \in ServerNames /\ c \in Persisted(target[c].name)

CallInv == \A c \in Calls : CallKnows(c)

HInv == IInv /\ StoreInv /\ CallInv

-----------------------------------------------------------------------------
(***************************************************************************)
(* Facts used for many steps.                                              *)
(***************************************************************************)
store == <<inc, rafts, persisters, saved, persister, memory, servers, hpc>>

\* StoreInv is about the store only.
LEMMA StoreUnchanged == StoreInv /\ UNCHANGED store => StoreInv'
  BY DEF store, StoreInv, StoreTypes, OwnPersisters, RegisteredSaves, RunningSaves, StartsFit, Made

\* A step of the test that keeps the types of the wiring keeps the network's invariant.
LEMMA WiringInv ==
  ASSUME IInv, UNCHANGED calling,
         reliable' \in BOOLEAN, done' \in BOOLEAN, accepting' \in BOOLEAN,
         enabled' \in [Ends -> BOOLEAN],
         connections' \in [Ends -> ServerNames \cup {Nil}],
         servers' \in [ServerNames -> Instances \cup {Nil}]
  PROVE  IInv'
  BY DEF IInv, RpcTypeOK, CheckedReplies, RequestsHaveEnds, TrueMeansExecuted, calling

\* What calls know stays true when nothing is forgotten.
Grows ==
  /\ Made \subseteq Made'
  /\ \A r \in Made : memory[r] \subseteq memory'[r]
  /\ \A i \in ServerNames : Persisted(i) \subseteq Persisted(i)'

\* A caller keeps what it may know while the stores only grow.
LEMMA CallsKeepKnowing ==
  ASSUME CallInv, Grows, NEW c \in Calls,
         pc'[c] = pc[c], handler'[c] = handler[c], target'[c] = target[c], ok'[c] = ok[c]
  PROVE  CallKnows(c)'
<1>1. CallKnows(c)
  BY DEF CallInv
<1> QED
  BY <1>1 DEF CallKnows, Grows

\* The same for all calls.
LEMMA CallInvKept == CallInv /\ Grows /\ UNCHANGED calling => CallInv'
<1> SUFFICES ASSUME CallInv, Grows, UNCHANGED calling, NEW c \in Calls PROVE CallKnows(c)'
  BY DEF CallInv
<1> QED
  BY CallsKeepKnowing DEF calling

\* A store that does not change has not lost anything.
LEMMA StoreGrows == UNCHANGED store => Grows
  BY DEF store, Grows, Made, Persisted

\* Instances are pairs of a server and an incarnation.
LEMMA InstancePairs ==
  /\ \A r \in Instances : r[1] \in ServerNames /\ r[2] \in 1..MaxIncarnation /\ r = <<r[1], r[2]>>
  /\ \A i \in ServerNames, k \in 1..MaxIncarnation :
       <<i, k>> \in Instances /\ <<i, k>>[1] = i /\ <<i, k>>[2] = k
  BY HarnessAssumption

-----------------------------------------------------------------------------
\* HInv holds initially.
LEMMA HarnessInitInv == HarnessInit => HInv
<1> SUFFICES ASSUME HarnessInit PROVE HInv
  OBVIOUS
<1>n. N \in Nat
  BY HarnessAssumption, FS_CardinalityType DEF N
<1>1. IInv
  <2>1. NoTarget \in Targets
    BY DEF NoTarget, Targets
  <2>2. target \in [Calls -> Targets]
    BY <2>1 DEF HarnessInit, InitCalls
  <2>3. enabled \in [Ends -> BOOLEAN] /\ connections \in [Ends -> ServerNames \cup {Nil}]
    BY HarnessAssumption DEF HarnessInit
  <2>4. servers \in [ServerNames -> Instances \cup {Nil}]
    BY HarnessAssumption DEF HarnessInit, Instance
  <2>5. RpcTypeOK
    BY <2>2, <2>3, <2>4 DEF HarnessInit, InitCalls, RpcTypeOK, Targets
  <2> QED
    BY <2>5 DEF HarnessInit, InitCalls, IInv, CheckedReplies, RequestsHaveEnds, TrueMeansExecuted
<1>2. persisters \in Seq(SUBSET Calls) /\ Len(persisters) = N /\ \A p \in 1..N : persisters[p] = {}
  BY <1>n DEF HarnessInit
<1>3. \A r \in Instances : r \in Made <=> r[2] = 1
  BY InstancePairs DEF Made, HarnessInit
<1>4. \A i \in ServerNames : <<i, 1>> \in Instances /\ <<i, 1>> \in Made /\ persister[<<i, 1>>] = saved[i]
  BY <1>3, InstancePairs, HarnessAssumption DEF HarnessInit
<1>5. StoreTypes
  <2>1. inc \in [ServerNames -> Nat \ {0}] /\ memory \in [Instances -> SUBSET Calls]
    BY DEF HarnessInit
  <2>2. rafts \in [ServerNames -> Instances \cup {Nil}]
    BY <1>4 DEF HarnessInit, Instance
  <2>3. saved \in [ServerNames -> 1..Len(persisters)]
    BY <1>2 DEF HarnessInit
  <2>4. \A r \in Instances : (IF r[2] = 1 THEN saved[r[1]] ELSE 0) \in Nat
    BY <2>3, <1>2, <1>n, InstancePairs
  <2>5. persister \in [Instances -> Nat]
    BY <2>4 DEF HarnessInit
  <2> QED
    BY <1>2, <2>1, <2>2, <2>3, <2>5 DEF StoreTypes
<1>6. OwnPersisters
  <2>1. \A r \in Made : r \in Instances /\ r[2] = 1 /\ persister[r] = saved[r[1]] /\ r[1] \in ServerNames
    BY <1>3, InstancePairs DEF HarnessInit, Made
  <2>2. \A r \in Made : persister[r] \in 1..Len(persisters) /\ memory[r] = persisters[persister[r]]
    BY <2>1, <1>2, <1>n DEF HarnessInit
  <2>3. \A r, s \in Made : persister[r] = persister[s] => r = s
    <3> SUFFICES ASSUME NEW r \in Made, NEW s \in Made, persister[r] = persister[s] PROVE r = s
      OBVIOUS
    <3>1. saved[r[1]] = saved[s[1]] /\ r[1] \in ServerNames /\ s[1] \in ServerNames
      BY <2>1
    <3>2. r[1] = s[1] /\ r[2] = s[2]
      BY <3>1, <2>1 DEF HarnessInit
    <3> QED
      BY <3>2, <2>1, InstancePairs
  <2> QED
    BY <2>2, <2>3 DEF OwnPersisters
<1>7. RegisteredSaves /\ RunningSaves /\ StartsFit
  BY <1>4 DEF HarnessInit, RegisteredSaves, RunningSaves, StartsFit, Instance, Idle
<1>8. CallInv
  BY DEF HarnessInit, InitCalls, CallInv, CallKnows
<1> QED
  BY <1>1, <1>5, <1>6, <1>7, <1>8 DEF HInv, StoreInv

-----------------------------------------------------------------------------
(***************************************************************************)
(* Steps of a call.                                                        *)
(***************************************************************************)
LEMMA CallStepKnows ==
  ASSUME HInv, NEW c \in Calls, CallStep(c), UNCHANGED store
  PROVE  CallInv'
<1> USE DEF HInv
<1>g. Grows
  BY StoreGrows
<1>k. CallKnows(c)
  BY DEF CallInv
<1>t. RpcTypeOK
  BY DEF IInv
<1>1. ASSUME NEW d \in Calls, d # c PROVE CallKnows(d)'
  <2>1. pc'[d] = pc[d] /\ handler'[d] = handler[d] /\ target'[d] = target[d] /\ ok'[d] = ok[d]
    BY <1>1, <1>t DEF CallStep, Send, SendDestroyed, BeginProcessReq, DropRequest, Dispatch,
       ReceiveReply, PollDead, CheckAndReply, Return, Reply, RpcTypeOK
  <2> QED
    BY <2>1, <1>g, CallsKeepKnowing
<1>m. Made' = Made /\ memory' = memory /\ \A i \in ServerNames : Persisted(i)' = Persisted(i)
  BY DEF store, Made, Persisted
<1>2. CallKnows(c)'
  <2>1. CASE Send(c)
    BY <2>1, <1>k, <1>t, <1>m DEF Send, CallKnows, RpcTypeOK
  <2>2. CASE SendDestroyed(c)
    BY <2>2, <1>k, <1>t, <1>m DEF SendDestroyed, CallKnows, RpcTypeOK
  <2>3. CASE BeginProcessReq(c)
    <3>1. pc[c] = "processReq" /\ handler' = handler /\ handler[c] = "none" /\ end[c] \in Ends
      BY <2>3, <1>k DEF BeginProcessReq, CallKnows, IInv, RequestsHaveEnds
    <3>2. target'[c] = readEndnameInfo(end[c])
      BY <2>3, <1>t DEF BeginProcessReq, RpcTypeOK
    <3>3. CASE enabled[end[c]] /\ target'[c].server # Nil
      <4>1. pc'[c] = "arrived"
        BY <2>3, <3>3, <1>t DEF BeginProcessReq, RpcTypeOK
      <4>2. /\ connections[end[c]] \in ServerNames
            /\ target'[c].name = connections[end[c]]
            /\ target'[c].server = servers[connections[end[c]]]
        BY <3>1, <3>2, <3>3, <1>t DEF readEndnameInfo, RpcTypeOK
      <4>3. target'[c].server \in Made
        BY <4>2, <3>3 DEF StoreInv, RegisteredSaves
      <4> QED
        BY <3>1, <4>1, <4>2, <4>3, <1>m DEF CallKnows
    <3>4. CASE ~(enabled[end[c]] /\ target'[c].server # Nil)
      <4>1. pc'[c] = "replying" /\ ok'[c] = FALSE
        BY <2>3, <3>4, <1>t DEF BeginProcessReq, Reply, RpcTypeOK
      <4> QED
        BY <3>1, <4>1 DEF CallKnows
    <3> QED
      BY <3>3, <3>4
  <2>4. CASE DropRequest(c)
    BY <2>4, <1>k, <1>t, <1>m DEF DropRequest, Reply, CallKnows, RpcTypeOK
  <2>5. CASE Dispatch(c)
    BY <2>5, <1>k, <1>t, <1>m DEF Dispatch, CallKnows, RpcTypeOK
  <2>6. CASE ReceiveReply(c)
    BY <2>6, <1>k, <1>t, <1>m DEF ReceiveReply, CallKnows, RpcTypeOK
  <2>7. CASE PollDead(c)
    BY <2>7, <1>k, <1>t, <1>m DEF PollDead, Reply, CallKnows, RpcTypeOK
  <2>8. CASE CheckAndReply(c)
    <3>1. /\ pc[c] = "checking" /\ target' = target /\ handler' = handler
          /\ pc'[c] = "replying"
          /\ ok'[c] => ~isServerDead(c)
      BY <2>8, <1>t DEF CheckAndReply, Reply, RpcTypeOK, isServerDead
    <3>2. /\ handler[c] = "returned" /\ c \in memory[target[c].server]
          /\ target[c].server \in Made /\ target[c].name \in ServerNames
      BY <3>1, <1>k DEF CallKnows, IInv, CheckedReplies
    <3>3. ASSUME ok'[c] PROVE c \in Persisted(target[c].name)
      <4>1. servers[target[c].name] = target[c].server
        BY <3>1, <3>3 DEF isServerDead
      <4>2. target[c].server # Nil
        BY <3>2, LabRpcAssumption DEF Made
      <4>3. saved[target[c].name] = persister[target[c].server]
        BY <4>1, <4>2, <3>2 DEF StoreInv, RegisteredSaves
      <4> QED
        BY <4>3, <3>2 DEF StoreInv, OwnPersisters, Persisted
    <3> QED
      BY <3>1, <3>2, <3>3, <1>m DEF CallKnows
  <2>9. CASE Return(c)
    BY <2>9, <1>k, <1>t, <1>m DEF Return, CallKnows, RpcTypeOK
  <2> QED
    BY <2>1, <2>2, <2>3, <2>4, <2>5, <2>6, <2>7, <2>8, <2>9 DEF CallStep
<1> QED
  BY <1>1, <1>2 DEF CallInv

\* RaftCall keeps HInv.
LEMMA RaftCallInv ==
  ASSUME HInv, NEW c \in Calls, RaftCall(c)
  PROVE  HInv'
<1> USE DEF HInv
<1>1. PICK r \in Made, j \in ServerNames : Call(c, EndName(r[1], r[2], j))
  BY DEF RaftCall
<1>2. EndName(r[1], r[2], j) \in Ends
  BY HarnessAssumption, InstancePairs DEF EndName, Made
<1>3. IInv'
  BY <1>1, <1>2, StepInv DEF Next
<1>4. UNCHANGED store
  BY <1>1 DEF RaftCall, Call, harness, store, wiring
<1>5. CallInv'
  <2>1. ASSUME NEW d \in Calls PROVE CallKnows(d)'
    <3>1. CASE d = c
      BY <3>1, <1>1, <1>4 DEF Call, CallInv, CallKnows, IInv, RpcTypeOK, store
    <3>2. CASE d # c
      <4>1. pc'[d] = pc[d] /\ handler'[d] = handler[d] /\ target'[d] = target[d] /\ ok'[d] = ok[d]
        BY <3>2, <1>1 DEF Call, IInv, RpcTypeOK
      <4> QED
        BY <4>1, <1>4, StoreGrows, CallsKeepKnowing
    <3> QED
      BY <3>1, <3>2
  <2> QED
    BY <2>1 DEF CallInv
<1> QED
  BY <1>3, <1>4, <1>5, StoreUnchanged

\* RaftHandler keeps HInv.
LEMMA RaftHandlerInv ==
  ASSUME HInv, NEW c \in Calls, RaftHandler(c)
  PROVE  HInv'
<1> USE DEF HInv
<1> DEFINE r == target[c].server
           p == persister[r]
           state == memory[r] \cup {c}
<1>1. handler[c] = "running" /\ handler' = [handler EXCEPT ![c] = "returned"]
  BY DEF RaftHandler, HandlerReturns
<1>2. UNCHANGED <<wiring, done, accepting, pc, end, target, ok>>
  BY DEF RaftHandler, HandlerReturns
<1>3. /\ memory' = [memory EXCEPT ![r] = state]
      /\ persisters' = [persisters EXCEPT ![p] = state]
      /\ UNCHANGED <<inc, rafts, connected, saved, persister, hpc, zombie>>
  BY DEF RaftHandler, SaveRaftState
<1>4. r \in Made /\ Made' = Made
  BY <1>1, <1>3 DEF CallInv, CallKnows, Made
<1>5. r \in Instances /\ p \in 1..Len(persisters) /\ memory[r] = persisters[p]
  BY <1>4 DEF StoreInv, OwnPersisters, Made
<1>6. IInv'
  BY StepInv DEF RaftHandler, Next
<1>7. StoreTypes'
  <2>1. state \in SUBSET Calls
    BY <1>5 DEF StoreInv, StoreTypes
  <2>2. persisters' \in Seq(SUBSET Calls) /\ Len(persisters') = Len(persisters)
    BY <2>1, <1>3, <1>5 DEF StoreInv, StoreTypes
  <2>3. memory' \in [Instances -> SUBSET Calls]
    BY <2>1, <1>3 DEF StoreInv, StoreTypes
  <2> QED
    BY <2>2, <2>3, <1>3 DEF StoreInv, StoreTypes
<1>8. Len(persisters') = Len(persisters) /\ \A n \in 1..Len(persisters) : persisters'[n] = IF n = p THEN state ELSE persisters[n]
  BY <1>3, <1>5 DEF StoreInv, StoreTypes
<1>9. \A s \in Made : memory'[s] = IF s = r THEN state ELSE memory[s]
  BY <1>3 DEF StoreInv, StoreTypes, Made
<1>10. OwnPersisters'
  <2>1. ASSUME NEW s \in Made
        PROVE  persister'[s] \in 1..Len(persisters') /\ memory'[s] = persisters'[persister'[s]]
    <3>1. persister[s] \in 1..Len(persisters) /\ memory[s] = persisters[persister[s]]
      BY DEF StoreInv, OwnPersisters
    <3>2. persister[s] = p <=> s = r
      BY <1>4 DEF StoreInv, OwnPersisters
    <3>3. memory'[s] = IF s = r THEN state ELSE memory[s]
      BY <1>9
    <3>4. persisters'[persister[s]] = IF persister[s] = p THEN state ELSE persisters[persister[s]]
      BY <3>1, <1>8
    <3>5. persister' = persister /\ Len(persisters') = Len(persisters)
      BY <1>3, <1>8
    <3> HIDE DEF r, p, state
    <3> QED
      BY <3>1, <3>2, <3>3, <3>4, <3>5
  <2> QED
    BY <2>1, <1>3, <1>4 DEF StoreInv, OwnPersisters
<1>11. RegisteredSaves' /\ RunningSaves' /\ StartsFit'
  BY <1>2, <1>3, <1>4 DEF wiring, StoreInv, RegisteredSaves, RunningSaves, StartsFit
<1>12. Grows
  <2>1. \A i \in ServerNames : Persisted(i) \subseteq Persisted(i)'
    BY <1>3, <1>5, <1>8 DEF Persisted, StoreInv, StoreTypes
  <2> QED
    BY <2>1, <1>4, <1>9 DEF Grows
<1>13. CallInv'
  <2>1. ASSUME NEW d \in Calls PROVE CallKnows(d)'
    <3>1. CASE d = c
      <4>1. handler'[c] = "returned" /\ c \in memory'[r] /\ target'[c] = target[c] /\ pc' = pc /\ ok' = ok
        BY <1>1, <1>2, <1>4, <1>9 DEF IInv, RpcTypeOK
      <4>2. CallKnows(c)
        BY DEF CallInv
      <4> QED
        BY <3>1, <4>1, <4>2, <1>1, <1>4, <1>12 DEF CallKnows, Grows
    <3>2. CASE d # c
      BY <3>2, <1>1, <1>2, <1>12, CallsKeepKnowing DEF IInv, RpcTypeOK
    <3> QED
      BY <3>1, <3>2
  <2> QED
    BY <2>1 DEF CallInv
<1> QED
  BY <1>6, <1>7, <1>10, <1>11, <1>13 DEF StoreInv

-----------------------------------------------------------------------------
(***************************************************************************)
(* Steps of the test goroutine.                                            *)
(***************************************************************************)

\* disconnect and connect change which ends are enabled and nothing else that the
\* invariant is about, except what hpc says.
LEMMA EnablingInv ==
  ASSUME HInv, NEW i \in ServerNames, disconnect(i) \/ connect(i),
         UNCHANGED <<reliable, connections, servers, done, accepting, calling, inc, rafts,
                     persisters, saved, persister, memory>>
  PROVE  IInv' /\ CallInv'
<1> USE DEF HInv
<1>1. enabled' \in [Ends -> BOOLEAN]
  BY DEF disconnect, connect, IInv, RpcTypeOK
<1>2. IInv'
  BY <1>1, WiringInv DEF IInv, RpcTypeOK
<1>3. Grows
  BY DEF Grows, Made, Persisted
<1> QED
  BY <1>2, <1>3, CallInvKept

\* Disconnect keeps HInv.
LEMMA DisconnectInv == ASSUME HInv, NEW i \in ServerNames, Disconnect(i) PROVE HInv'
<1>1. IInv' /\ CallInv'
  BY EnablingInv DEF Disconnect
<1>2. UNCHANGED store
  BY DEF Disconnect, store
<1> QED
  BY <1>1, <1>2, StoreUnchanged DEF HInv

\* Connect1 keeps HInv.
LEMMA ConnectInv == ASSUME HInv, NEW i \in ServerNames, Connect1(i) PROVE HInv'
<1>1. IInv' /\ CallInv'
  BY EnablingInv DEF Connect1
<1>2. UNCHANGED store
  BY DEF Connect1, store
<1> QED
  BY <1>1, <1>2, StoreUnchanged DEF HInv

\* BeginCrash keeps HInv.
LEMMA BeginCrashInv ==
  ASSUME HInv, NEW i \in ServerNames, NEW op \in {"crash", "start"}, BeginCrash(i, op)
  PROVE  HInv'
<1>1. IInv' /\ CallInv'
  BY EnablingInv DEF BeginCrash
<1>2. /\ UNCHANGED <<servers, inc, rafts, persisters, saved, persister, memory>>
      /\ hpc.step = "idle" /\ hpc'.step = "delete" /\ hpc'.op = op /\ hpc'.server = i
      /\ op = "start" => inc[i] < MaxIncarnation
  BY DEF BeginCrash, Idle, Doing
<1>3. StoreTypes' /\ OwnPersisters'
  BY <1>2 DEF HInv, StoreInv, StoreTypes, OwnPersisters, Made
<1>4. RegisteredSaves' /\ RunningSaves' /\ StartsFit'
  BY <1>2 DEF HInv, StoreInv, RegisteredSaves, RunningSaves, StartsFit, Made
<1> QED
  BY <1>1, <1>3, <1>4 DEF HInv, StoreInv

\* CrashDelete keeps HInv.
LEMMA CrashDeleteInv ==
  ASSUME HInv, NEW i \in ServerNames, NEW op \in {"crash", "start"}, CrashDelete(i, op)
  PROVE  HInv'
<1> USE DEF HInv
<1>1. servers' = [servers EXCEPT ![i] = Nil] /\ UNCHANGED <<reliable, enabled, connections, done, accepting, calling>>
  BY DEF CrashDelete, DeleteServer
<1>2. UNCHANGED <<inc, rafts, persisters, saved, persister, memory>>
  BY DEF CrashDelete, harness
<1>3. /\ hpc.step = "delete" /\ hpc'.step = "copy"
      /\ hpc'.op = hpc.op /\ hpc'.server = hpc.server /\ hpc.server = i
  BY DEF CrashDelete, Doing
<1>4. IInv'
  <2>1. servers' \in [ServerNames -> Instances \cup {Nil}]
    BY <1>1 DEF IInv, RpcTypeOK
  <2> QED
    BY <2>1, <1>1, WiringInv DEF IInv, RpcTypeOK
<1>5. \A j \in ServerNames : servers'[j] = IF j = i THEN Nil ELSE servers[j]
  BY <1>1 DEF IInv, RpcTypeOK
<1>6. StoreTypes' /\ OwnPersisters'
  BY <1>2 DEF StoreInv, StoreTypes, OwnPersisters, Made
<1>7. RegisteredSaves' /\ RunningSaves' /\ StartsFit'
  BY <1>2, <1>3, <1>5 DEF StoreInv, RegisteredSaves, RunningSaves, StartsFit, Made
<1>8. CallInv'
  BY <1>1, <1>2, CallInvKept DEF Grows, Made, Persisted
<1> QED
  BY <1>4, <1>6, <1>7, <1>8 DEF StoreInv

\* A copied Persister is a new object with the same contents.
LEMMA CopyFacts ==
  ASSUME StoreTypes, NEW i \in ServerNames, Copy(i)
  PROVE  /\ persisters' \in Seq(SUBSET Calls)
         /\ Len(persisters') = Len(persisters) + 1
         /\ \A n \in 1..Len(persisters) : persisters'[n] = persisters[n]
         /\ persisters'[Len(persisters) + 1] = persisters[saved[i]]
         /\ saved' \in [ServerNames -> 1..Len(persisters')]
         /\ saved'[i] = Len(persisters) + 1
         /\ \A j \in ServerNames \ {i} : saved'[j] = saved[j]
         /\ \A j \in ServerNames : Persisted(j)' = Persisted(j)
<1>1. saved[i] \in 1..Len(persisters) /\ persisters[saved[i]] \in SUBSET Calls /\ Len(persisters) \in Nat
  BY DEF StoreTypes
<1>2. /\ persisters' = Append(persisters, persisters[saved[i]])
      /\ saved' = [saved EXCEPT ![i] = Len(persisters) + 1]
  BY DEF Copy
<1>3. /\ persisters' \in Seq(SUBSET Calls)
      /\ Len(persisters') = Len(persisters) + 1
      /\ \A n \in 1..Len(persisters) : persisters'[n] = persisters[n]
      /\ persisters'[Len(persisters) + 1] = persisters[saved[i]]
  BY <1>1, <1>2 DEF StoreTypes
<1>4. saved'[i] = Len(persisters) + 1 /\ \A j \in ServerNames \ {i} : saved'[j] = saved[j]
  BY <1>2 DEF StoreTypes
<1>5. saved' \in [ServerNames -> 1..Len(persisters')]
  BY <1>1, <1>2, <1>3 DEF StoreTypes
<1>6. \A j \in ServerNames : Persisted(j)' = Persisted(j)
  BY <1>1, <1>3, <1>4 DEF Persisted, StoreTypes
<1> QED
  BY <1>3, <1>4, <1>5, <1>6

\* Neither copy of crash1 disturbs what the invariant says of incarnations and calls.
LEMMA CrashCopyCommon ==
  ASSUME HInv, NEW i \in ServerNames, Copy(i), UNCHANGED <<rpcVars, inc, persister, memory>>,
         rafts' \in [ServerNames -> Instances \cup {Nil}]
  PROVE  IInv' /\ CallInv' /\ StoreTypes' /\ OwnPersisters' /\ Made' = Made
<1> USE DEF HInv
<1>c. StoreTypes
  BY DEF StoreInv
<1>1. IInv'
  BY StepInv
<1>2. Made' = Made
  BY DEF Made
<1>3. CallInv'
  BY <1>2, <1>c, CopyFacts, CallInvKept DEF Grows, rpcVars
<1>4. StoreTypes'
  BY <1>c, CopyFacts DEF StoreTypes
<1>5. OwnPersisters'
  <2>1. Len(persisters) \in Nat
    BY <1>c DEF StoreTypes
  <2> QED
    BY <2>1, <1>2, <1>c, CopyFacts DEF StoreInv, OwnPersisters
<1> QED
  BY <1>1, <1>2, <1>3, <1>4, <1>5

\* CrashCopy keeps HInv.
LEMMA CrashCopyInv ==
  ASSUME HInv, NEW i \in ServerNames, NEW op \in {"crash", "start"}, CrashCopy(i, op)
  PROVE  HInv'
<1> USE DEF HInv
<1>c. StoreTypes
  BY DEF StoreInv
<1>1. Copy(i) /\ UNCHANGED <<rpcVars, inc, rafts, persister, memory>>
  BY DEF CrashCopy
<1>2. /\ hpc.step = "copy" /\ hpc'.step = "renew"
      /\ hpc'.op = hpc.op /\ hpc'.server = hpc.server /\ hpc.server = i
  BY DEF CrashCopy, Doing
<1>3. IInv' /\ CallInv' /\ StoreTypes' /\ OwnPersisters' /\ Made' = Made
  BY <1>1, <1>c, CrashCopyCommon DEF StoreTypes
<1>4. servers[i] = Nil /\ servers' = servers
  BY <1>1, <1>2 DEF StoreInv, RegisteredSaves, rpcVars, wiring
<1>5. RegisteredSaves' /\ RunningSaves' /\ StartsFit'
  BY <1>1, <1>2, <1>3, <1>4, <1>c, CopyFacts DEF StoreInv, RegisteredSaves, RunningSaves, StartsFit
<1> QED
  BY <1>3, <1>5 DEF StoreInv

\* CrashRenew keeps HInv.
LEMMA CrashRenewInv ==
  ASSUME HInv, NEW i \in ServerNames, NEW op \in {"crash", "start"}, CrashRenew(i, op)
  PROVE  HInv'
<1> USE DEF HInv
<1>c. StoreTypes
  BY DEF StoreInv
<1>1. Copy(i) /\ UNCHANGED <<rpcVars, inc, persister, memory>> /\ rafts' = [rafts EXCEPT ![i] = Nil]
  BY DEF CrashRenew
<1>2. hpc.step = "renew" /\ hpc.server = i /\ hpc.op = op
  BY DEF CrashRenew, Doing
<1>h. hpc'.step \in {"make", "idle"} /\ (hpc'.step = "make" => hpc'.op = op /\ hpc'.server = i)
  BY DEF CrashRenew, Doing, Idle
<1>3. IInv' /\ CallInv' /\ StoreTypes' /\ OwnPersisters' /\ Made' = Made
  <2>1. rafts' \in [ServerNames -> Instances \cup {Nil}]
    BY <1>1, <1>c DEF StoreTypes
  <2> QED
    BY <1>1, <2>1, CrashCopyCommon
<1>4. servers[i] = Nil /\ servers' = servers
  BY <1>1, <1>2 DEF StoreInv, RegisteredSaves, rpcVars, wiring
<1>5. \A j \in ServerNames : rafts'[j] = IF j = i THEN Nil ELSE rafts[j]
  BY <1>1, <1>c DEF StoreTypes
<1>6. \A j \in ServerNames \ {i} : saved'[j] = saved[j]
  BY <1>1, <1>c, CopyFacts
<1>7. RegisteredSaves'
  BY <1>1, <1>h, <1>3, <1>4, <1>6 DEF StoreInv, RegisteredSaves
<1>8. RunningSaves'
  BY <1>1, <1>2, <1>3, <1>5, <1>6 DEF StoreInv, RunningSaves
<1>9. StartsFit'
  BY <1>1, <1>2, <1>h DEF StoreInv, StartsFit
<1> QED
  BY <1>3, <1>7, <1>8, <1>9 DEF StoreInv

\* StartMake keeps HInv.
LEMMA StartMakeInv == ASSUME HInv, NEW i \in ServerNames, StartMake(i) PROVE HInv'
<1> USE DEF HInv
<1> DEFINE r == Instance(i, inc[i] + 1)
           n == Len(persisters) + 1
<1>c. StoreTypes
  BY DEF StoreInv
<1>1. /\ Copy(i) /\ inc' = [inc EXCEPT ![i] = @ + 1]
      /\ persister' = [persister EXCEPT ![r] = saved'[i]]
      /\ memory' = [memory EXCEPT ![r] = persisters'[saved'[i]]]
      /\ rafts' = [rafts EXCEPT ![i] = r]
      /\ connections' = [e \in Ends |-> IF Owner(e) = r THEN e[3] ELSE connections[e]]
      /\ UNCHANGED <<reliable, enabled, servers, done, accepting, calling>>
  BY DEF StartMake
<1>2. /\ hpc.step = "make" /\ hpc.server = i /\ hpc.op = "start"
      /\ hpc'.step = "add" /\ hpc'.server = i
  BY DEF StartMake, Doing
<1>3. inc[i] \in Nat /\ inc[i] + 1 \in 1..MaxIncarnation
  BY <1>2, <1>c, HarnessAssumption DEF StoreInv, StartsFit, StoreTypes
<1>4. r \in Instances /\ r[1] = i /\ r[2] = inc[i] + 1
  BY <1>3, InstancePairs DEF Instance
<1>5. \A j \in ServerNames : inc'[j] = IF j = i THEN inc[i] + 1 ELSE inc[j]
  BY <1>1, <1>c DEF StoreTypes
<1>6. r \notin Made /\ Made' = Made \cup {r}
  <2>1. r \notin Made
    BY <1>3, <1>4 DEF Made
  <2>2. ASSUME NEW s \in Instances PROVE s \in Made' <=> s \in Made \/ s = r
    <3>1. s[1] \in ServerNames /\ s[2] \in Int /\ s = <<s[1], s[2]>>
      BY InstancePairs
    <3>2. CASE s[1] # i
      BY <3>1, <3>2, <1>4, <1>5 DEF Made
    <3>3. CASE s[1] = i
      <4>1. s \in Made' <=> s[2] <= inc[i] + 1
        BY <3>1, <3>3, <1>5 DEF Made
      <4>2. s \in Made <=> s[2] <= inc[i]
        BY <3>3 DEF Made
      <4>3. s = r <=> s[2] = inc[i] + 1
        BY <3>1, <3>3, <1>4 DEF Instance
      <4> QED
        BY <4>1, <4>2, <4>3, <3>1, <1>3
    <3> QED
      BY <3>2, <3>3
  <2> QED
    BY <2>1, <2>2, <1>4 DEF Made
<1>7. /\ saved'[i] = n /\ persisters'[n] = persisters[saved[i]] /\ n \in Nat
      /\ Len(persisters') = n /\ Len(persisters) \in Nat
      /\ \A j \in ServerNames \ {i} : saved'[j] = saved[j]
      /\ \A k \in 1..Len(persisters) : persisters'[k] = persisters[k]
      /\ \A j \in ServerNames : Persisted(j)' = Persisted(j)
  BY <1>1, <1>c, CopyFacts DEF StoreTypes
<1>8. \A s \in Instances : /\ persister'[s] = IF s = r THEN n ELSE persister[s]
                           /\ memory'[s] = IF s = r THEN persisters'[n] ELSE memory[s]
  BY <1>1, <1>4, <1>7, <1>c DEF StoreTypes
<1>9. \A s \in Made : s \in Instances /\ s # r
  BY <1>6 DEF Made
<1>10. IInv'
  <2>1. connections' \in [Ends -> ServerNames \cup {Nil}]
    BY <1>1, HarnessAssumption DEF IInv, RpcTypeOK
  <2> QED
    BY <2>1, <1>1, WiringInv DEF IInv, RpcTypeOK
<1>11. StoreTypes'
  <2>1. persisters' \in Seq(SUBSET Calls) /\ saved' \in [ServerNames -> 1..Len(persisters')]
    BY <1>1, <1>c, CopyFacts
  <2>2. persisters'[n] \in SUBSET Calls
    BY <1>7, <1>c DEF StoreTypes
  <2>3. inc' \in [ServerNames -> Nat \ {0}]
    BY <1>1, <1>3, <1>c DEF StoreTypes
  <2>4. rafts' \in [ServerNames -> Instances \cup {Nil}]
    BY <1>1, <1>4, <1>c DEF StoreTypes
  <2>5. persister' \in [Instances -> Nat] /\ memory' \in [Instances -> SUBSET Calls]
    BY <1>1, <1>7, <2>2, <1>c DEF StoreTypes
  <2> QED
    BY <2>1, <2>3, <2>4, <2>5 DEF StoreTypes
<1>12. OwnPersisters'
  <2>1. ASSUME NEW s \in Made'
        PROVE  persister'[s] \in 1..Len(persisters') /\ memory'[s] = persisters'[persister'[s]]
    <3>1. CASE s = r
      BY <3>1, <1>4, <1>7, <1>8
    <3>2. CASE s # r
      <4>1. s \in Made
        BY <3>2, <2>1, <1>6
      <4> QED
        BY <4>1, <1>7, <1>8, <1>9 DEF StoreInv, OwnPersisters
    <3> QED
      BY <3>1, <3>2
  <2>2. ASSUME NEW s \in Made', NEW t \in Made', persister'[s] = persister'[t] PROVE s = t
    <3>1. \A u \in Made : persister'[u] = persister[u] /\ persister[u] \in 1..Len(persisters)
      BY <1>8, <1>9 DEF StoreInv, OwnPersisters
    <3>2. persister'[r] = n
      BY <1>4, <1>8
    <3>3. CASE s \in Made /\ t \in Made
      BY <3>1, <3>3, <2>2 DEF StoreInv, OwnPersisters
    <3>4. CASE s = r /\ t \in Made
      BY <3>1, <3>2, <3>4, <2>2, <1>7
    <3>5. CASE t = r /\ s \in Made
      BY <3>1, <3>2, <3>5, <2>2, <1>7
    <3> QED
      BY <3>3, <3>4, <3>5, <1>6
  <2> QED
    BY <2>1, <2>2 DEF OwnPersisters
<1>13. RegisteredSaves'
  <2>1. servers[i] = Nil /\ servers' = servers
    BY <1>1, <1>2 DEF StoreInv, RegisteredSaves
  <2>2. ASSUME NEW j \in ServerNames, servers'[j] # Nil
        PROVE  servers'[j] \in Made' /\ saved'[j] = persister'[servers'[j]]
    <3>1. j # i /\ servers[j] \in Made /\ saved[j] = persister[servers[j]]
      BY <2>1, <2>2 DEF StoreInv, RegisteredSaves
    <3> QED
      BY <3>1, <2>1, <1>6, <1>7, <1>8, <1>9
  <2> QED
    BY <2>2, <1>2 DEF RegisteredSaves
<1>14. RunningSaves'
  <2>1. ASSUME NEW j \in ServerNames, rafts'[j] # Nil
        PROVE  rafts'[j] \in Made' /\ saved'[j] = persister'[rafts'[j]]
    <3>1. CASE j = i
      BY <3>1, <1>1, <1>4, <1>6, <1>7, <1>8, <1>c DEF StoreTypes
    <3>2. CASE j # i
      <4>1. rafts'[j] = rafts[j]
        BY <3>2, <1>1, <1>c DEF StoreTypes
      <4>2. rafts[j] \in Made /\ saved[j] = persister[rafts[j]]
        BY <4>1, <2>1, <1>2, <3>2 DEF StoreInv, RunningSaves
      <4> QED
        BY <4>1, <4>2, <3>2, <1>6, <1>7, <1>8, <1>9
    <3> QED
      BY <3>1, <3>2
  <2> QED
    BY <2>1 DEF RunningSaves
<1>15. StartsFit'
  BY <1>2 DEF StartsFit
<1>16. CallInv'
  <2>1. Grows
    BY <1>6, <1>7, <1>8, <1>9 DEF Grows
  <2> QED
    BY <2>1, <1>1, CallInvKept
<1> QED
  BY <1>10, <1>11, <1>12, <1>13, <1>14, <1>15, <1>16 DEF StoreInv

\* StartAdd keeps HInv.
LEMMA StartAddInv == ASSUME HInv, NEW i \in ServerNames, StartAdd(i) PROVE HInv'
<1> USE DEF HInv
<1>1. servers' = [servers EXCEPT ![i] = rafts[i]] /\ UNCHANGED <<reliable, enabled, connections, done, accepting, calling>>
  BY DEF StartAdd, AddServer
<1>2. UNCHANGED <<inc, rafts, persisters, saved, persister, memory>>
  BY DEF StartAdd, harness
<1>3. hpc.step = "add" /\ hpc'.step = "idle"
  BY DEF StartAdd, Doing, Idle
<1>4. rafts[i] \in Instances \cup {Nil}
  BY DEF StoreInv, StoreTypes
<1>5. IInv'
  <2>1. servers' \in [ServerNames -> Instances \cup {Nil}]
    BY <1>1, <1>4 DEF IInv, RpcTypeOK
  <2> QED
    BY <2>1, <1>1, WiringInv DEF IInv, RpcTypeOK
<1>6. \A j \in ServerNames : servers'[j] = IF j = i THEN rafts[i] ELSE servers[j]
  BY <1>1 DEF IInv, RpcTypeOK
<1>7. StoreTypes' /\ OwnPersisters' /\ Made' = Made
  BY <1>2 DEF StoreInv, StoreTypes, OwnPersisters, Made
<1>8. RegisteredSaves' /\ RunningSaves' /\ StartsFit'
  BY <1>2, <1>3, <1>6, <1>7 DEF StoreInv, RegisteredSaves, RunningSaves, StartsFit
<1>9. CallInv'
  BY <1>1, <1>2, CallInvKept DEF Grows, Made, Persisted
<1> QED
  BY <1>5, <1>7, <1>8, <1>9 DEF StoreInv

-----------------------------------------------------------------------------
\* Every step keeps HInv.
LEMMA HarnessStepInv == HInv /\ [HarnessNext]_vars => HInv'
<1> SUFFICES ASSUME HInv, [HarnessNext]_vars PROVE HInv'
  OBVIOUS
<1>1. ASSUME NEW c \in Calls, CallStep(c), UNCHANGED <<harness, hpc, zombie>> PROVE HInv'
  <2>1. servers' = servers
    BY <1>1 DEF CallStep, Send, SendDestroyed, BeginProcessReq, DropRequest, Dispatch,
       ReceiveReply, PollDead, CheckAndReply, Return, wiring
  <2>2. UNCHANGED store
    BY <2>1, <1>1 DEF store, harness
  <2> QED
    BY <1>1, <2>2, CallStepInv, CallStepKnows, StoreUnchanged DEF HInv
<1>2. ASSUME \/ StopAccepting
             \/ Reliable(~reliable)
             \/ Cleanup,
             UNCHANGED <<harness, hpc, zombie>>
      PROVE  HInv'
  <2>1. UNCHANGED store /\ UNCHANGED calling
    BY <1>2 DEF StopAccepting, Reliable, Cleanup, wiring, store, harness
  <2>2. IInv'
    BY <1>2, WiringInv DEF StopAccepting, Reliable, Cleanup, HInv, IInv, RpcTypeOK, wiring
  <2> QED
    BY <2>1, <2>2, StoreGrows, StoreUnchanged, CallInvKept DEF HInv
<1>3. CASE NetworkStep
  BY <1>1, <1>2, <1>3 DEF NetworkStep
<1>4. CASE TestStep
  BY <1>2, <1>4, DisconnectInv, ConnectInv, BeginCrashInv, CrashDeleteInv, CrashCopyInv,
     CrashRenewInv, StartMakeInv, StartAddInv DEF TestStep, setunreliable, cleanup
<1>5. CASE \E c \in Calls : RaftCall(c) \/ RaftHandler(c)
  BY <1>5, RaftCallInv, RaftHandlerInv
<1>6. CASE UNCHANGED vars
  <2>1. UNCHANGED store /\ UNCHANGED calling /\ UNCHANGED rpcVars
    BY <1>6 DEF vars, store, harness, rpcVars, wiring
  <2>2. IInv'
    BY <2>1, StepInv DEF HInv
  <2> QED
    BY <2>1, <2>2, StoreGrows, StoreUnchanged, CallInvKept DEF HInv
<1> QED
  BY <1>3, <1>4, <1>5, <1>6 DEF HarnessNext

\* What a caller was told to have happened is in the state that the next
\* incarnation of the server starts from (processReq, labrpc.go:264-274, with
\* crash1 and start1 of config.go), for any servers, calls and crashes.
THEOREM AcknowledgedCallsSurvive == HarnessSpec => []PositiveRepliesSurvive
<1>1. HInv => PositiveRepliesSurvive
  BY DEF HInv, CallInv, CallKnows, PositiveRepliesSurvive
<1> QED
  BY <1>1, HarnessInitInv, HarnessStepInv, PTL DEF HarnessSpec

\* No two incarnations write the same Persister, and a running server's state is
\* what the next one will be given (config.go:116-133, 203-211), for any servers
\* and any number of crashes and restarts.
THEOREM PersistersAreIsolated == HarnessSpec => []PersistersIsolated
<1>1. ASSUME HInv PROVE PersistersIsolated
  <2>1. \A r, s \in Made : r # s => persister[r] # persister[s]
    BY <1>1 DEF HInv, StoreInv, OwnPersisters
  <2>2. ASSUME NEW i \in ServerNames, hpc = Idle, rafts[i] # Nil
        PROVE  saved[i] = persister[rafts[i]] /\ Persisted(i) = memory[rafts[i]]
    <3>1. rafts[i] \in Made /\ saved[i] = persister[rafts[i]]
      BY <1>1, <2>2 DEF HInv, StoreInv, RunningSaves, Idle
    <3> QED
      BY <3>1, <1>1 DEF HInv, StoreInv, OwnPersisters, Persisted
  <2> QED
    BY <2>1, <2>2 DEF PersistersIsolated
<1> QED
  BY <1>1, HarnessInitInv, HarnessStepInv, PTL DEF HarnessSpec

-----------------------------------------------------------------------------
(***************************************************************************)
(* Links.  An end is enabled exactly if it belongs to the latest           *)
(* incarnation of a connected server and leads to a connected one, in the  *)
(* middle of every operation of the test too; a server that is being       *)
(* crashed or started, or is down, is not connected.                       *)
(***************************************************************************)
LinkTypes ==
  /\ connected \in [ServerNames -> BOOLEAN]
  /\ hpc = Idle \/ hpc.server \in ServerNames

RunningIsLatest == \A i \in ServerNames : rafts[i] # Nil => rafts[i] = Instance(i, inc[i])

ConnectedRuns == \A i \in ServerNames : connected[i] => rafts[i] # Nil /\ hpc.server # i

Link(e) == e[2] = inc[e[1]] /\ connected[e[1]] /\ connected[e[3]]

EnabledAreLinks == \A e \in Ends : enabled[e] <=> Link(e)

\* The end of a call that a crashed incarnation made belongs to an incarnation
\* that will not run again, so processReq finds it disabled.
ZombieStuck(c) ==
  /\ c \in Calls /\ end[c] \in Ends
  /\ Owner(end[c]) \in Made /\ rafts[end[c][1]] # Owner(end[c])
  /\ pc[c] \in {"sending", "processReq", "replying", "returned"} /\ handler[c] = "none"

ZombiesStuck == \A c \in zombie : ZombieStuck(c)

LinkInv == LinkTypes /\ RunningIsLatest /\ ConnectedRuns /\ EnabledAreLinks /\ ZombiesStuck

\* Ends are named by the caller, its incarnation and the callee.
LEMMA EndTriples ==
  /\ \A e \in Ends : /\ e[1] \in ServerNames /\ e[2] \in 1..MaxIncarnation /\ e[3] \in ServerNames
                     /\ e = <<e[1], e[2], e[3]>>
  /\ \A i, j \in ServerNames, k \in 1..MaxIncarnation : EndName(i, k, j) \in Ends
  BY HarnessAssumption DEF EndName

\* The end of a zombie is disabled.
LEMMA ZombieEndDisabled == ASSUME LinkInv, NEW c \in zombie PROVE ~enabled[end[c]]
<1>1. ZombieStuck(c) /\ end[c] \in Ends
  BY DEF LinkInv, ZombiesStuck, ZombieStuck
<1>2. SUFFICES ASSUME Link(end[c]) PROVE FALSE
  BY <1>1 DEF LinkInv, EnabledAreLinks
<1>3. end[c][1] \in ServerNames
  BY <1>1, EndTriples
<1>4. rafts[end[c][1]] = Owner(end[c])
  BY <1>2, <1>3 DEF LinkInv, ConnectedRuns, RunningIsLatest, Link, Owner, Instance
<1> QED
  BY <1>1, <1>4 DEF ZombieStuck

\* LinkInv holds initially.
LEMMA LinkInitInv == HarnessInit => LinkInv
<1> SUFFICES ASSUME HarnessInit PROVE LinkInv
  OBVIOUS
<1>1. LinkTypes /\ ZombiesStuck
  BY DEF HarnessInit, LinkTypes, ZombiesStuck
<1>2. RunningIsLatest
  BY DEF HarnessInit, RunningIsLatest, Instance
<1>3. ConnectedRuns
  BY LabRpcAssumption, InstancePairs, HarnessAssumption DEF HarnessInit, ConnectedRuns, Instance, Idle
<1>4. EnabledAreLinks
  BY EndTriples DEF HarnessInit, EnabledAreLinks, Link
<1> QED
  BY <1>1, <1>2, <1>3, <1>4 DEF LinkInv

\* What the invariant is about, besides calls.
links == <<inc, rafts, connected, enabled, hpc>>

\* These parts of LinkInv are about the links only.
LEMMA LinksUnchanged ==
  ASSUME LinkInv, UNCHANGED links
  PROVE  LinkTypes' /\ RunningIsLatest' /\ ConnectedRuns' /\ EnabledAreLinks'
  BY DEF LinkInv, links, LinkTypes, RunningIsLatest, ConnectedRuns, EnabledAreLinks, Link

\* A zombie stays stuck if its call does not move and its incarnation is not revived.
NotRevived == \A r \in Made : rafts[r[1]] # r => r \in Made' /\ rafts'[r[1]] # r

\* A call of a replaced server stays stuck as long as that is not revived.
LEMMA ZombieKept ==
  ASSUME NEW c, ZombieStuck(c), NotRevived,
         end'[c] = end[c], pc'[c] = pc[c], handler'[c] = handler[c]
  PROVE  ZombieStuck(c)'
<1>1. Owner(end[c])[1] = end[c][1]
  BY DEF Owner
<1> QED
  BY <1>1 DEF ZombieStuck, NotRevived

\* The same for all calls.
LEMMA ZombiesKept ==
  ASSUME LinkInv, NotRevived, UNCHANGED <<zombie, calling>>
  PROVE  ZombiesStuck'
  BY ZombieKept DEF LinkInv, ZombiesStuck, calling

\* A server is revived only by a new incarnation.
LEMMA StaysDown == UNCHANGED <<inc, rafts>> => NotRevived
  BY DEF NotRevived, Made

-----------------------------------------------------------------------------
\* CallStep keeps LinkInv.
LEMMA CallStepLinks ==
  ASSUME HInv, LinkInv, NEW c \in Calls, CallStep(c), UNCHANGED <<harness, hpc, zombie>>
  PROVE  LinkInv'
<1>t. RpcTypeOK
  BY DEF HInv, IInv
<1>1. UNCHANGED links /\ UNCHANGED <<inc, rafts, zombie, end>>
  BY DEF CallStep, Send, SendDestroyed, BeginProcessReq, DropRequest, Dispatch,
     ReceiveReply, PollDead, CheckAndReply, Return, wiring, links, harness
<1>2. ASSUME NEW z \in zombie PROVE ZombieStuck(z)'
  <2>1. ZombieStuck(z) /\ ~enabled[end[z]] /\ z \in Calls
    BY ZombieEndDisabled DEF LinkInv, ZombiesStuck, ZombieStuck
  <2>2. NotRevived
    BY <1>1, StaysDown
  <2>3. CASE z # c
    <3>1. pc'[z] = pc[z] /\ handler'[z] = handler[z]
      BY <2>1, <2>3, <1>t DEF CallStep, Send, SendDestroyed, BeginProcessReq, DropRequest, Dispatch,
         ReceiveReply, PollDead, CheckAndReply, Return, Reply, RpcTypeOK
    <3> QED
      BY <3>1, <2>1, <2>2, <1>1, ZombieKept
  <2>4. CASE z = c
    <3>1. pc[c] \in {"sending", "processReq", "replying", "returned"} /\ handler[c] = "none"
      BY <2>1, <2>4 DEF ZombieStuck
    <3>2. pc'[c] \in {"sending", "processReq", "replying", "returned"} /\ handler'[c] = "none"
      BY <2>1, <2>4, <3>1, <1>t DEF CallStep, Send, SendDestroyed, BeginProcessReq, DropRequest,
         Dispatch, ReceiveReply, PollDead, CheckAndReply, Return, Reply, RpcTypeOK
    <3> QED
      BY <3>2, <2>1, <2>4, <1>1 DEF ZombieStuck, Made
  <2> QED
    BY <2>3, <2>4
<1> QED
  BY <1>1, <1>2, LinksUnchanged DEF LinkInv, ZombiesStuck

\* RaftCall keeps LinkInv.
LEMMA RaftCallLinks ==
  ASSUME HInv, LinkInv, NEW c \in Calls, RaftCall(c)
  PROVE  LinkInv'
<1>t. RpcTypeOK
  BY DEF HInv, IInv
<1>1. PICK r \in Made, j \in ServerNames :
        /\ Call(c, EndName(r[1], r[2], j))
        /\ zombie' = IF rafts[r[1]] = r THEN zombie ELSE zombie \cup {c}
        /\ UNCHANGED <<harness, hpc>>
  BY DEF RaftCall
<1>2. UNCHANGED links /\ UNCHANGED <<inc, rafts, handler>>
  BY <1>1 DEF Call, wiring, links, harness
<1>3. /\ pc[c] = "idle" /\ pc'[c] = "sending" /\ end'[c] = EndName(r[1], r[2], j)
      /\ \A d \in Calls \ {c} : pc'[d] = pc[d] /\ end'[d] = end[d]
  BY <1>1, <1>t DEF Call, RpcTypeOK
<1>4. handler[c] = "none"
  BY <1>3 DEF HInv, CallInv, CallKnows
<1>5. ASSUME NEW z \in zombie' PROVE ZombieStuck(z)'
  <2>1. CASE z \in zombie
    <3>1. ZombieStuck(z) /\ z # c /\ z \in Calls
      BY <2>1, <1>3 DEF LinkInv, ZombiesStuck, ZombieStuck
    <3> QED
      BY <3>1, <1>2, <1>3, StaysDown, ZombieKept
  <2>2. CASE z \notin zombie
    <3>1. z = c /\ rafts[r[1]] # r
      BY <2>2, <1>1, <1>5
    <3>2. EndName(r[1], r[2], j) \in Ends /\ r = <<r[1], r[2]>>
      BY InstancePairs, EndTriples DEF Made
    <3>3. Owner(end'[c]) = r /\ end'[c][1] = r[1] /\ end'[c] \in Ends
      BY <3>2, <1>3 DEF Owner, EndName
    <3> QED
      BY <3>1, <3>3, <1>1, <1>2, <1>3, <1>4 DEF ZombieStuck, Made
  <2> QED
    BY <2>1, <2>2
<1> QED
  BY <1>2, <1>5, LinksUnchanged DEF LinkInv, ZombiesStuck

\* RaftHandler keeps LinkInv.
LEMMA RaftHandlerLinks ==
  ASSUME HInv, LinkInv, NEW c \in Calls, RaftHandler(c)
  PROVE  LinkInv'
<1>1. UNCHANGED links /\ UNCHANGED <<inc, rafts, zombie, pc, end>>
  BY DEF RaftHandler, HandlerReturns, wiring, links
<1>2. handler[c] = "running" /\ handler' = [handler EXCEPT ![c] = "returned"]
  BY DEF RaftHandler, HandlerReturns
<1>3. ASSUME NEW z \in zombie PROVE ZombieStuck(z)'
  <2>1. ZombieStuck(z) /\ z \in Calls /\ z # c
    BY <1>2 DEF LinkInv, ZombiesStuck, ZombieStuck
  <2>2. handler'[z] = handler[z]
    BY <2>1, <1>2 DEF HInv, IInv, RpcTypeOK
  <2> QED
    BY <2>1, <2>2, <1>1, StaysDown, ZombieKept
<1> QED
  BY <1>1, <1>3, LinksUnchanged DEF LinkInv, ZombiesStuck

\* disconnect takes the links of a server away, and connect gives those to the
\* connected servers back.
LEMMA DisconnectLinks ==
  ASSUME HInv, LinkInv, NEW i \in ServerNames, disconnect(i), inc' = inc
  PROVE  EnabledAreLinks' /\ \A j \in ServerNames : connected'[j] <=> connected[j] /\ j # i
<1>1. \A j \in ServerNames : connected'[j] <=> connected[j] /\ j # i
  BY DEF disconnect, LinkInv, LinkTypes
<1>2. ASSUME NEW e \in Ends PROVE enabled'[e] <=> Link(e)'
  <2>1. e[1] \in ServerNames /\ e[3] \in ServerNames /\ e = <<e[1], e[2], e[3]>>
    BY EndTriples
  <2>2. enabled'[e] <=> Link(e) /\ e \notin OutgoingEnds(i) \cup IncomingEnds(i)
    BY DEF disconnect, LinkInv, EnabledAreLinks
  <2>3. ASSUME Link(e) PROVE e \in OutgoingEnds(i) \cup IncomingEnds(i) <=> e[1] = i \/ e[3] = i
    <3>1. e = EndName(e[1], inc[e[1]], e[3])
      BY <2>1, <2>3 DEF Link, EndName
    <3>2. e \in OutgoingEnds(i) => e[1] = i
      BY DEF OutgoingEnds, EndName
    <3>3. e \in IncomingEnds(i) => e[3] = i
      BY DEF IncomingEnds, EndName
    <3> QED
      BY <3>1, <3>2, <3>3, <2>1 DEF OutgoingEnds, IncomingEnds
  <2> QED
    BY <2>1, <2>2, <2>3, <1>1 DEF Link
<1> QED
  BY <1>1, <1>2 DEF EnabledAreLinks

\* connect switches on the ends between i and the connected servers.
LEMMA ConnectLinks ==
  ASSUME HInv, LinkInv, NEW i \in ServerNames, connect(i), inc' = inc
  PROVE  EnabledAreLinks' /\ \A j \in ServerNames : connected'[j] <=> connected[j] \/ j = i
<1>1. \A j \in ServerNames : connected'[j] <=> connected[j] \/ j = i
  BY DEF connect, LinkInv, LinkTypes
<1>2. ASSUME NEW e \in Ends PROVE enabled'[e] <=> Link(e)'
  <2>1. e[1] \in ServerNames /\ e[3] \in ServerNames /\ e = <<e[1], e[2], e[3]>>
    BY EndTriples
  <2>2. enabled'[e] <=> \/ Link(e)
                        \/ e \in OutgoingEnds(i) /\ connected'[e[3]]
                        \/ e \in IncomingEnds(i) /\ connected'[e[1]]
    BY DEF connect, LinkInv, EnabledAreLinks
  <2>3. e \in OutgoingEnds(i) <=> e[1] = i /\ e[2] = inc[i]
    BY <2>1 DEF OutgoingEnds, EndName
  <2>4. e \in IncomingEnds(i) <=> e[3] = i /\ e[2] = inc[e[1]]
    BY <2>1 DEF IncomingEnds, EndName
  <2> QED
    BY <2>1, <2>2, <2>3, <2>4, <1>1 DEF Link
<1> QED
  BY <1>1, <1>2 DEF EnabledAreLinks

\* Disconnect and BeginCrash keep LinkInv.
LEMMA DisconnectStepLinks ==
  ASSUME HInv, LinkInv, NEW i \in ServerNames,
         Disconnect(i) \/ \E op \in {"crash", "start"} : BeginCrash(i, op)
  PROVE  LinkInv'
<1>1. disconnect(i) /\ UNCHANGED <<inc, rafts, calling, zombie>> /\ hpc = Idle
  BY DEF Disconnect, BeginCrash
<1>2. hpc' = Idle \/ hpc'.server = i
  BY <1>1 DEF Disconnect, BeginCrash, Doing
<1>3. EnabledAreLinks' /\ \A j \in ServerNames : connected'[j] <=> connected[j] /\ j # i
  BY <1>1, DisconnectLinks
<1>4. LinkTypes'
  BY <1>1, <1>2 DEF LinkInv, LinkTypes, disconnect
<1>5. RunningIsLatest'
  BY <1>1 DEF LinkInv, RunningIsLatest
<1>6. ConnectedRuns'
  BY <1>1, <1>2, <1>3, LabRpcAssumption DEF LinkInv, ConnectedRuns, Idle
<1>7. ZombiesStuck'
  BY <1>1, StaysDown, ZombiesKept
<1> QED
  BY <1>3, <1>4, <1>5, <1>6, <1>7 DEF LinkInv

\* Connect1 keeps LinkInv.
LEMMA ConnectStepLinks ==
  ASSUME HInv, LinkInv, NEW i \in ServerNames, Connect1(i)
  PROVE  LinkInv'
<1>1. connect(i) /\ UNCHANGED <<inc, rafts, calling, zombie, hpc>> /\ hpc = Idle /\ rafts[i] # Nil
  BY DEF Connect1
<1>2. EnabledAreLinks' /\ \A j \in ServerNames : connected'[j] <=> connected[j] \/ j = i
  BY <1>1, ConnectLinks
<1>3. LinkTypes'
  BY <1>1 DEF LinkInv, LinkTypes, connect
<1>4. RunningIsLatest'
  BY <1>1 DEF LinkInv, RunningIsLatest
<1>5. ConnectedRuns'
  BY <1>1, <1>2, LabRpcAssumption DEF LinkInv, ConnectedRuns, Idle
<1>6. ZombiesStuck'
  BY <1>1, StaysDown, ZombiesKept
<1> QED
  BY <1>2, <1>3, <1>4, <1>5, <1>6 DEF LinkInv

\* The steps of crash1 and start1 that leave the ends and the Rafts alone.
LEMMA MiddleStepLinks ==
  ASSUME HInv, LinkInv, NEW i \in ServerNames,
         \/ StartAdd(i)
         \/ \E op \in {"crash", "start"} : CrashDelete(i, op) \/ CrashCopy(i, op)
  PROVE  LinkInv'
<1>1. UNCHANGED <<inc, rafts, connected, enabled, calling, zombie>>
  BY DEF StartAdd, AddServer, CrashDelete, DeleteServer, CrashCopy, harness, rpcVars, wiring
<1>2. hpc.server = i /\ (hpc' = Idle \/ hpc'.server = i)
  BY DEF StartAdd, CrashDelete, CrashCopy, Doing
<1>3. LinkTypes' /\ RunningIsLatest' /\ EnabledAreLinks'
  BY <1>1, <1>2 DEF LinkInv, LinkTypes, RunningIsLatest, EnabledAreLinks, Link
<1>4. ConnectedRuns'
  BY <1>1, <1>2, LabRpcAssumption DEF LinkInv, ConnectedRuns, Idle
<1>5. ZombiesStuck'
  BY <1>1, StaysDown, ZombiesKept
<1> QED
  BY <1>3, <1>4, <1>5 DEF LinkInv

\* CrashRenew keeps LinkInv.
LEMMA CrashRenewLinks ==
  ASSUME HInv, LinkInv, NEW i \in ServerNames, NEW op \in {"crash", "start"}, CrashRenew(i, op)
  PROVE  LinkInv'
<1>1. /\ UNCHANGED <<inc, connected, enabled, calling, zombie>>
      /\ rafts' = [rafts EXCEPT ![i] = Nil]
  BY DEF CrashRenew, rpcVars, wiring
<1>2. hpc.server = i /\ (hpc' = Idle \/ hpc'.server = i)
  BY DEF CrashRenew, Doing
<1>3. \A j \in ServerNames : rafts'[j] = IF j = i THEN Nil ELSE rafts[j]
  BY <1>1 DEF HInv, StoreInv, StoreTypes
<1>4. LinkTypes' /\ RunningIsLatest' /\ EnabledAreLinks'
  BY <1>1, <1>2, <1>3 DEF LinkInv, LinkTypes, RunningIsLatest, EnabledAreLinks, Link
<1>5. ConnectedRuns'
  BY <1>1, <1>2, <1>3, LabRpcAssumption DEF LinkInv, ConnectedRuns, Idle
<1>6. NotRevived
  BY <1>1, <1>3, InstancePairs, LabRpcAssumption DEF NotRevived, Made
<1>7. ZombiesStuck'
  BY <1>1, <1>6, ZombiesKept
<1> QED
  BY <1>4, <1>5, <1>7 DEF LinkInv

\* StartMake keeps LinkInv.
LEMMA StartMakeLinks ==
  ASSUME HInv, LinkInv, NEW i \in ServerNames, StartMake(i)
  PROVE  LinkInv'
<1> DEFINE r == Instance(i, inc[i] + 1)
<1>1. /\ UNCHANGED <<connected, enabled, calling, zombie>>
      /\ rafts' = [rafts EXCEPT ![i] = r] /\ inc' = [inc EXCEPT ![i] = @ + 1]
  BY DEF StartMake
<1>2. hpc.server = i /\ hpc'.server = i
  BY DEF StartMake, Doing
<1>3. /\ \A j \in ServerNames : rafts'[j] = IF j = i THEN r ELSE rafts[j]
      /\ \A j \in ServerNames : inc'[j] = IF j = i THEN inc[i] + 1 ELSE inc[j]
      /\ inc[i] \in Nat
  BY <1>1 DEF HInv, StoreInv, StoreTypes
<1>4. ~connected[i]
  BY <1>2 DEF LinkInv, ConnectedRuns
<1>5. LinkTypes'
  BY <1>1, <1>2 DEF LinkInv, LinkTypes
<1>6. RunningIsLatest'
  BY <1>3 DEF LinkInv, RunningIsLatest, Instance
<1>7. ConnectedRuns'
  BY <1>1, <1>2, <1>3, <1>4 DEF LinkInv, ConnectedRuns
<1>8. EnabledAreLinks'
  <2> SUFFICES ASSUME NEW e \in Ends PROVE enabled'[e] <=> Link(e)'
    BY DEF EnabledAreLinks
  <2>1. e[1] \in ServerNames
    BY EndTriples
  <2> QED
    BY <2>1, <1>1, <1>3, <1>4 DEF LinkInv, EnabledAreLinks, Link
<1>9. NotRevived
  <2> SUFFICES ASSUME NEW s \in Made, rafts[s[1]] # s PROVE s \in Made' /\ rafts'[s[1]] # s
    BY DEF NotRevived
  <2>1. s \in Instances /\ s[1] \in ServerNames /\ s[2] \in Int /\ s[2] <= inc[s[1]] /\ s = <<s[1], s[2]>>
    BY InstancePairs DEF Made
  <2>2. s[2] <= inc'[s[1]]
    BY <2>1, <1>3
  <2>3. s # r
    BY <2>1, <1>3 DEF Instance
  <2> QED
    BY <2>1, <2>2, <2>3, <1>3 DEF Made
<1>10. ZombiesStuck'
  BY <1>1, <1>9, ZombiesKept
<1> QED
  BY <1>5, <1>6, <1>7, <1>8, <1>10 DEF LinkInv

-----------------------------------------------------------------------------
\* Every step keeps LinkInv.
LEMMA LinkStepInv == HInv /\ LinkInv /\ [HarnessNext]_vars => LinkInv'
<1> SUFFICES ASSUME HInv, LinkInv, [HarnessNext]_vars PROVE LinkInv'
  OBVIOUS
<1>1. ASSUME UNCHANGED links, UNCHANGED <<calling, zombie>> PROVE LinkInv'
  <2>1. NotRevived
    BY <1>1, StaysDown DEF links
  <2> QED
    BY <1>1, <2>1, LinksUnchanged, ZombiesKept DEF LinkInv
<1>2. CASE NetworkStep
  <2>1. CASE StopAccepting
    BY <1>1, <1>2, <2>1 DEF NetworkStep, StopAccepting, links, harness, wiring
  <2> QED
    BY <1>2, <2>1, CallStepLinks DEF NetworkStep
<1>3. CASE TestStep
  <2>1. CASE setunreliable \/ cleanup
    BY <1>1, <2>1 DEF setunreliable, cleanup, Reliable, Cleanup, links, harness, wiring
  <2> QED
    BY <1>3, <2>1, DisconnectStepLinks, ConnectStepLinks, MiddleStepLinks, CrashRenewLinks,
       StartMakeLinks DEF TestStep
<1>4. CASE \E c \in Calls : RaftCall(c) \/ RaftHandler(c)
  BY <1>4, RaftCallLinks, RaftHandlerLinks
<1>5. CASE UNCHANGED vars
  BY <1>1, <1>5 DEF vars, links, harness, rpcVars, wiring
<1> QED
  BY <1>2, <1>3, <1>4, <1>5 DEF HarnessNext

\* A call that a crashed incarnation makes never reaches a handler ("so that old
\* crashed instance's ClientEnds can't send", config.go:187-188), for any servers,
\* calls, crashes and restarts.
THEOREM ZombiesNeverExecute == HarnessSpec => []ZombieCallsNeverExecute
<1>1. LinkInv => ZombieCallsNeverExecute
  BY DEF LinkInv, ZombiesStuck, ZombieStuck, ZombieCallsNeverExecute
<1> QED
  BY <1>1, HarnessInitInv, HarnessStepInv, LinkInitInv, LinkStepInv, PTL DEF HarnessSpec

\* The ends that are enabled are those of running incarnations between connected
\* servers (connect, disconnect, crash1 and start1 of config.go), for any servers
\* and any order of the test's operations.
THEOREM EnabledExactlyConnected == HarnessSpec => []EnabledIffConnected
<1>1. ASSUME HInv, LinkInv PROVE EnabledIffConnected
  <2> SUFFICES ASSUME NEW e \in Ends
               PROVE  enabled[e] <=> \E i, j \in ServerNames : /\ e = EndName(i, inc[i], j)
                                                               /\ rafts[i] # Nil
                                                               /\ connected[i] /\ connected[j]
    BY DEF EnabledIffConnected
  <2>1. e[1] \in ServerNames /\ e[3] \in ServerNames /\ e = <<e[1], e[2], e[3]>>
    BY EndTriples
  <2>2. enabled[e] <=> Link(e)
    BY <1>1 DEF LinkInv, EnabledAreLinks
  <2>3. ASSUME Link(e) PROVE e = EndName(e[1], inc[e[1]], e[3]) /\ rafts[e[1]] # Nil
    BY <2>1, <2>3, <1>1 DEF Link, EndName, LinkInv, ConnectedRuns
  <2>4. ASSUME NEW i \in ServerNames, NEW j \in ServerNames, e = EndName(i, inc[i], j),
               connected[i], connected[j]
        PROVE  Link(e)
    BY <2>4 DEF Link, EndName
  <2> QED
    BY <2>1, <2>2, <2>3, <2>4 DEF Link
<1> QED
  BY <1>1, HarnessInitInv, HarnessStepInv, LinkInitInv, LinkStepInv, PTL DEF HarnessSpec

-----------------------------------------------------------------------------
(***************************************************************************)
(* Lives.  RaftLives adds Kill to RaftHarness and changes nothing else, so *)
(* what is proved of the harness holds of it.                              *)
(***************************************************************************)

\* cfg.rafts[i] is an incarnation of i.
OwnRafts == \A i \in ServerNames : rafts[i] # Nil => rafts[i] \in Made /\ rafts[i][1] = i

\* A Raft that cfg.rafts no longer holds has been killed.
ForgottenDead == \A r \in Made : r # rafts[r[1]] => dead[r]

\* One that it holds has not, except in the middle of its crash1.
HeldAlive ==
  ~done => \A i \in ServerNames :
             rafts[i] # Nil /\ ~(hpc.server = i /\ hpc.step = "renew") => ~dead[rafts[i]]

\* start1 makes a Raft only where there is none.
MakesFresh == \A i \in ServerNames : hpc.server = i /\ hpc.step = "make" => rafts[i] = Nil

\* cleanup is the last operation, and kills what is left.
AllDeadAtEnd == done => hpc = Idle /\ \A r \in Made : dead[r]

LivesInv ==
  /\ dead \in [Instances -> BOOLEAN]
  /\ OwnRafts /\ ForgottenDead /\ HeldAlive /\ MakesFresh /\ AllDeadAtEnd

lives == <<inc, rafts, hpc, done, dead>>

-----------------------------------------------------------------------------
\* LivesInv holds initially.
LEMMA LivesInitInv == LivesInit => LivesInv
<1> SUFFICES ASSUME LivesInit PROVE LivesInv
  OBVIOUS
<1> USE DEF LivesInit, HarnessInit, InitCalls, Instance, Made, Idle
<1>1. \A i \in ServerNames : rafts[i] = <<i, 1>> /\ inc[i] = 1
  OBVIOUS
<1>2. OwnRafts
  BY <1>1, InstancePairs, HarnessAssumption DEF OwnRafts
<1>3. ForgottenDead
  <2> SUFFICES ASSUME NEW r \in Made PROVE r = rafts[r[1]]
    BY DEF ForgottenDead
  <2>1. r \in Instances /\ r[1] \in ServerNames /\ r[2] \in 1..MaxIncarnation /\ r = <<r[1], r[2]>>
    BY InstancePairs
  <2>2. r[2] = 1
    BY <2>1, <1>1, HarnessAssumption
  <2> QED
    BY <2>1, <2>2, <1>1
<1>4. HeldAlive
  BY <1>2 DEF HeldAlive, OwnRafts
<1> QED
  BY <1>2, <1>3, <1>4 DEF LivesInv, MakesFresh, AllDeadAtEnd

\* LivesInv is about the lives of Rafts only.
LEMMA LivesUnchanged == LivesInv /\ UNCHANGED lives => LivesInv'
  BY DEF lives, LivesInv, OwnRafts, ForgottenDead, HeldAlive, MakesFresh, AllDeadAtEnd, Made

\* Steps that leave all of cfg.rafts alone and go on with an operation.
LEMMA ProgressInv ==
  ASSUME LivesInv, ~done, UNCHANGED <<inc, rafts, done, dead>>,
         NEW op, NEW step \in {"delete", "copy", "renew", "add", "idle"}, NEW i, hpc' = Doing(op, step, i),
         hpc.step # "renew"
  PROVE  LivesInv'
  BY DEF LivesInv, OwnRafts, ForgottenDead, HeldAlive, MakesFresh, AllDeadAtEnd, Made, Doing

\* CrashKill keeps LivesInv.
LEMMA CrashKillInv == ASSUME LivesInv, NEW i \in ServerNames, CrashKill(i) PROVE LivesInv'
<1> USE DEF LivesInv
<1>1. /\ hpc.step = "renew" /\ hpc.server = i
      /\ dead' = [r \in Instances |-> dead[r] \/ r \in RaftOf(i)]
      /\ UNCHANGED <<inc, rafts, hpc, done>>
  BY DEF CrashKill, Kill, vars, harness, rpcVars
<1>2. ~done
  BY <1>1 DEF AllDeadAtEnd, Idle
<1>3. \A j \in ServerNames \ {i} : rafts[j] # Nil => rafts[j] \notin RaftOf(i)
  BY DEF OwnRafts, RaftOf
<1>4. HeldAlive'
  BY <1>1, <1>2, <1>3 DEF HeldAlive, OwnRafts, Made
<1> QED
  BY <1>1, <1>2, <1>4 DEF OwnRafts, ForgottenDead, MakesFresh, AllDeadAtEnd, Made

\* CrashForget keeps LivesInv.
LEMMA CrashForgetInv ==
  ASSUME HInv, LivesInv, NEW i \in ServerNames, NEW op \in {"crash", "start"}, CrashForget(i, op)
  PROVE  LivesInv'
<1> USE DEF LivesInv
<1>1. /\ hpc = Doing(op, "renew", i)
      /\ rafts' = [rafts EXCEPT ![i] = Nil]
      /\ hpc' = IF op = "start" THEN Doing(op, "make", i) ELSE Idle
      /\ UNCHANGED <<inc, done, dead>>
  BY DEF CrashForget, CrashRenew, rpcVars
<1>2. \A r \in RaftOf(i) : dead[r]
  BY DEF CrashForget, killed
<1>3. hpc.step = "renew" /\ hpc.server = i /\ hpc # Idle
  BY <1>1 DEF Doing, Idle
<1>4. ~done
  BY <1>3 DEF AllDeadAtEnd
<1>5. rafts \in [ServerNames -> Instances \cup {Nil}]
  BY DEF HInv, StoreInv, StoreTypes
<1>6. rafts'[i] = Nil /\ \A j \in ServerNames \ {i} : rafts'[j] = rafts[j]
  BY <1>1, <1>5
<1>7. OwnRafts'
  BY <1>1, <1>6 DEF OwnRafts, Made
<1>8. ForgottenDead'
  <2> SUFFICES ASSUME NEW r \in Made, r # rafts'[r[1]] PROVE dead[r]
    BY <1>1 DEF ForgottenDead, Made
  <2>1. r[1] \in ServerNames /\ r \in Instances
    BY InstancePairs DEF Made
  <2>2. CASE r[1] = i /\ r = rafts[i]
    BY <2>1, <2>2, <1>2, LabRpcAssumption DEF RaftOf
  <2>3. CASE ~(r[1] = i /\ r = rafts[i])
    BY <2>1, <2>3, <1>6 DEF ForgottenDead
  <2> QED
    BY <2>2, <2>3
<1>9. HeldAlive'
  BY <1>1, <1>3, <1>4, <1>6 DEF HeldAlive
<1> QED
  BY <1>1, <1>4, <1>6, <1>7, <1>8, <1>9 DEF MakesFresh, AllDeadAtEnd, Doing, Idle

\* Make keeps LivesInv.
LEMMA MakeInv == ASSUME HInv, LivesInv, NEW i \in ServerNames, Make(i) PROVE LivesInv'
<1> USE DEF LivesInv
<1> DEFINE new == <<i, inc[i] + 1>>
<1>1. /\ hpc = Doing("start", "make", i) /\ hpc' = Doing("start", "add", i)
      /\ inc' = [inc EXCEPT ![i] = @ + 1]
      /\ rafts' = [rafts EXCEPT ![i] = new]
      /\ dead' = [dead EXCEPT ![Instance(i, inc'[i])] = FALSE]
      /\ UNCHANGED done
  BY DEF Make, StartMake, Instance
<1>2. /\ hpc.step = "make" /\ hpc.server = i /\ hpc.op = "start" /\ hpc # Idle
      /\ hpc'.step = "add" /\ hpc'.server = i
  BY <1>1 DEF Doing, Idle
<1>3. ~done /\ ~done' /\ rafts[i] = Nil
  BY <1>1, <1>2 DEF AllDeadAtEnd, MakesFresh
<1>4. /\ rafts \in [ServerNames -> Instances \cup {Nil}]
      /\ inc \in [ServerNames -> Nat \ {0}] /\ inc[i] < MaxIncarnation
  BY <1>2 DEF HInv, StoreInv, StoreTypes, StartsFit
<1>5. new \in Instances /\ new[1] = i /\ new[2] = inc[i] + 1
  BY <1>4, InstancePairs, HarnessAssumption
<1>6. /\ rafts'[i] = new /\ \A j \in ServerNames \ {i} : rafts'[j] = rafts[j]
      /\ inc'[i] = inc[i] + 1 /\ \A j \in ServerNames \ {i} : inc'[j] = inc[j]
      /\ ~dead'[new] /\ \A r \in Instances \ {new} : dead'[r] = dead[r]
      /\ dead' \in [Instances -> BOOLEAN]
  BY <1>1, <1>4, <1>5 DEF Instance
<1>7. new \notin Made /\ Made' = Made \cup {new}
  <2>1. new \notin Made /\ new \in Made'
    BY <1>4, <1>5, <1>6 DEF Made
  <2>2. ASSUME NEW r \in Instances, r # new PROVE r[2] <= inc'[r[1]] <=> r[2] <= inc[r[1]]
    <3>1. r[1] \in ServerNames /\ r[2] \in Nat /\ r = <<r[1], r[2]>>
      BY InstancePairs, HarnessAssumption
    <3>2. CASE r[1] = i
      BY <2>2, <3>1, <3>2, <1>4, <1>6
    <3>3. CASE r[1] # i
      BY <3>1, <3>3, <1>6
    <3> QED
      BY <3>2, <3>3
  <2> QED
    BY <2>1, <2>2, <1>5 DEF Made
<1>8. OwnRafts'
  BY <1>5, <1>6, <1>7 DEF OwnRafts
<1>9. ForgottenDead'
  <2> SUFFICES ASSUME NEW r \in Made', r # rafts'[r[1]] PROVE dead'[r]
    BY DEF ForgottenDead
  <2>1. r # new /\ r \in Made /\ r \in Instances /\ r[1] \in ServerNames
    BY <1>5, <1>6, <1>7, InstancePairs DEF Made
  <2>2. r # rafts[r[1]]
    BY <2>1, <1>3, <1>6, LabRpcAssumption
  <2> QED
    BY <2>1, <2>2, <1>6 DEF ForgottenDead
<1>10. HeldAlive'
  <2> SUFFICES ASSUME NEW j \in ServerNames, rafts'[j] # Nil PROVE ~dead'[rafts'[j]]
    BY DEF HeldAlive
  <2>1. CASE j = i
    BY <2>1, <1>6
  <2>2. CASE j # i
    <3>1. rafts'[j] = rafts[j] /\ rafts[j] \in Made /\ ~dead[rafts[j]]
      BY <2>2, <1>2, <1>3, <1>6 DEF HeldAlive, OwnRafts
    <3> QED
      BY <3>1, <1>6, <1>7 DEF Made
  <2> QED
    BY <2>1, <2>2
<1> QED
  BY <1>2, <1>3, <1>6, <1>8, <1>9, <1>10 DEF MakesFresh, AllDeadAtEnd

\* KillAndCleanup keeps LivesInv.
LEMMA CleanupInv == ASSUME HInv, LivesInv, KillAndCleanup PROVE LivesInv'
<1> USE DEF LivesInv
<1> DEFINE known == UNION {RaftOf(i) : i \in ServerNames}
<1>1. /\ hpc = Idle /\ done'
      /\ UNCHANGED <<inc, rafts, hpc>>
      /\ dead' = [r \in Instances |-> dead[r] \/ r \in known]
  BY DEF KillAndCleanup, cleanup, Cleanup, Kill, harness
<1>2. \A r \in Made : dead'[r]
  <2> SUFFICES ASSUME NEW r \in Made PROVE dead'[r]
    OBVIOUS
  <2>1. r \in Instances /\ r[1] \in ServerNames
    BY InstancePairs DEF Made
  <2>2. CASE r = rafts[r[1]]
    <3>1. r \in RaftOf(r[1])
      BY <2>1, <2>2, LabRpcAssumption DEF RaftOf
    <3>2. r \in known
      BY <2>1, <3>1
    <3> QED
      BY <2>1, <3>2, <1>1
  <2>3. CASE r # rafts[r[1]]
    BY <2>1, <2>3, <1>1 DEF ForgottenDead
  <2> QED
    BY <2>2, <2>3
<1> QED
  BY <1>1, <1>2 DEF OwnRafts, ForgottenDead, HeldAlive, MakesFresh, AllDeadAtEnd, Made

-----------------------------------------------------------------------------
\* Every step of RaftLives is a step of RaftHarness, or Kill, which the harness
\* does not see.
LEMMA LivesStepIsHarnessStep == [LivesNext]_livesVars => [HarnessNext]_vars
<1> SUFFICES ASSUME [LivesNext]_livesVars PROVE [HarnessNext]_vars
  OBVIOUS
<1>1. CASE UNCHANGED livesVars
  BY <1>1 DEF livesVars
<1>2. CASE LivesNext
  BY <1>2 DEF LivesNext, HarnessNext, TestStep, CrashKill, CrashForget, Make, KillAndCleanup
<1> QED
  BY <1>1, <1>2

\* Every step keeps LivesInv.
LEMMA LivesStepInv == HInv /\ LivesInv /\ [LivesNext]_livesVars => LivesInv'
<1> SUFFICES ASSUME HInv, LivesInv, [LivesNext]_livesVars PROVE LivesInv'
  OBVIOUS
<1>1. CASE UNCHANGED livesVars
  BY <1>1, LivesUnchanged DEF livesVars, vars, lives, harness, rpcVars
<1>2. ASSUME NetworkStep \/ (\E c \in Calls : RaftCall(c) \/ RaftHandler(c)) \/ setunreliable
             \/ (\E i \in ServerNames : Disconnect(i) \/ Connect1(i)),
             UNCHANGED dead
      PROVE  LivesInv'
  <2>1. UNCHANGED <<inc, rafts, hpc, done>>
    BY <1>2 DEF NetworkStep, CallStep, Send, SendDestroyed, BeginProcessReq, DropRequest, Dispatch,
       ReceiveReply, PollDead, CheckAndReply, Return, StopAccepting, RaftCall, Call, RaftHandler,
       HandlerReturns, setunreliable, Reliable, Disconnect, Connect1, harness
  <2> QED
    BY <1>2, <2>1, LivesUnchanged DEF lives
<1>3. ASSUME NEW i \in ServerNames, NEW op \in {"crash", "start"}, UNCHANGED dead,
             BeginCrash(i, op) \/ CrashDelete(i, op) \/ CrashCopy(i, op)
      PROVE  LivesInv'
  <2>1. /\ \/ hpc = Idle /\ ~done
           \/ hpc = Doing(op, "delete", i) \/ hpc = Doing(op, "copy", i)
        /\ \E step \in {"delete", "copy", "renew"} : hpc' = Doing(op, step, i)
        /\ UNCHANGED <<inc, rafts, done>>
    BY <1>3 DEF BeginCrash, CrashDelete, CrashCopy, DeleteServer, harness, rpcVars
  <2>2. ~done /\ hpc.step # "renew"
    BY <2>1 DEF LivesInv, AllDeadAtEnd, Doing, Idle
  <2> QED
    BY <1>3, <2>1, <2>2, ProgressInv
<1>4. ASSUME NEW i \in ServerNames, UNCHANGED dead, StartAdd(i) PROVE LivesInv'
  <2>1. hpc = Doing("start", "add", i) /\ hpc' = Idle /\ UNCHANGED <<inc, rafts, done>>
    BY <1>4 DEF StartAdd, AddServer, harness
  <2>2. ~done /\ hpc.step # "renew" /\ hpc' = Doing("none", "idle", Nil)
    BY <2>1 DEF LivesInv, AllDeadAtEnd, Doing, Idle
  <2> QED
    BY <1>4, <2>1, <2>2, ProgressInv
<1>5. CASE LivesNext
  BY <1>5, <1>2, <1>3, <1>4, CrashKillInv, CrashForgetInv, MakeInv, CleanupInv DEF LivesNext
<1> QED
  BY <1>1, <1>5

\* RaftLives is the harness of RaftHarness with Kill in it (crash1 and cleanup,
\* config.go:118-122 and 238-246): its behaviours are behaviours of the harness,
\* so acknowledged calls survive and Persisters are isolated in it too.
THEOREM LivesImplementsHarness == LivesSpec => HarnessSpec
<1>1. LivesInit => HarnessInit
  BY DEF LivesInit
<1> QED
  BY <1>1, LivesStepIsHarnessStep, PTL DEF LivesSpec, HarnessSpec

\* Between two operations of a test the only Rafts whose tickers run are those
\* the harness still holds, and after cleanup there is none (crash1, start1,
\* cleanup of config.go; Kill and ticker of raft.go), for any servers, calls,
\* crashes and restarts.
THEOREM NoTickerIsLeftBehind == LivesSpec => []NoTickerLeftBehind
<1>1. ASSUME LivesInv PROVE NoTickerLeftBehind
  <2> SUFFICES ASSUME hpc = Idle
               PROVE  {r \in Instances : ticker(r)} =
                        IF done THEN {} ELSE UNION {RaftOf(i) : i \in ServerNames}
    BY DEF NoTickerLeftBehind
  <2>1. CASE done
    BY <1>1, <2>1 DEF LivesInv, AllDeadAtEnd, ticker, killed, Made
  <2>2. CASE ~done
    <3>1. ASSUME NEW r \in Instances, ticker(r)
          PROVE  \E i \in ServerNames : r \in RaftOf(i)
      <4>1. r \in Made /\ ~dead[r] /\ r[1] \in ServerNames /\ r # Nil
        BY <3>1, InstancePairs, LabRpcAssumption DEF ticker, killed
      <4>2. r = rafts[r[1]]
        BY <4>1, <1>1 DEF LivesInv, ForgottenDead
      <4> QED
        BY <4>1, <4>2 DEF RaftOf
    <3>2. ASSUME NEW i \in ServerNames, NEW r \in RaftOf(i)
          PROVE  r \in Instances /\ ticker(r)
      <4>1. r = rafts[i] /\ rafts[i] # Nil
        BY <3>2 DEF RaftOf
      <4>2. rafts[i] \in Made /\ ~dead[rafts[i]]
        BY <4>1, <1>1, <2>2 DEF LivesInv, OwnRafts, HeldAlive, Idle
      <4> QED
        BY <4>1, <4>2 DEF ticker, killed, Made
    <3> QED
      BY <2>2, <3>1, <3>2
  <2> QED
    BY <2>1, <2>2
<1>2. LivesInit => HInv
  BY HarnessInitInv DEF LivesInit
<1>3. HInv /\ [LivesNext]_livesVars => HInv'
  BY LivesStepIsHarnessStep, HarnessStepInv
<1> QED
  BY <1>1, <1>2, <1>3, LivesInitInv, LivesStepInv, PTL DEF LivesSpec
=============================================================================
