---------------------------- MODULE RaftHarness -----------------------------
(***************************************************************************)
(* lab3's test harness (config.go) on the simulated network of LabRpc: it  *)
(* crashes, restarts, connects and disconnects Raft servers and carries    *)
(* their persistent state (persister.go) from one incarnation to the next. *)
(* An incarnation cannot really be stopped: after a crash it still runs    *)
(* handlers, persists and makes calls.                                     *)
(*                                                                         *)
(* Raft's own handlers are a skeleton in this repository.  The handler of  *)
(* this model is external: it remembers the call and persists what the     *)
(* incarnation remembers before it returns, as the Append of the comment   *)
(* in processReq (labrpc.go:264-269) does.                                 *)
(***************************************************************************)
EXTENDS LabRpc, Sequences

CONSTANT MaxIncarnation    \* bound on the incarnations of a server

\* An instance is an incarnation of a server; it has an end for each server.
ASSUME HarnessAssumption ==
  /\ MaxIncarnation \in Nat \ {0} /\ IsFiniteSet(ServerNames)
  /\ Instances = ServerNames \X (1..MaxIncarnation)
  /\ Ends = ServerNames \X (1..MaxIncarnation) \X ServerNames

N == Cardinality(ServerNames)

VARIABLES
  inc,         \* the latest incarnation of each server: whose endnames are in cfg.endnames
  rafts,       \* cfg.rafts, by server: an instance or Nil
  connected,   \* cfg.connected, by server
  persisters,  \* the contents of every Persister made so far
  saved,       \* cfg.saved, by server: a position in persisters
  persister,   \* Raft.persister, by instance
  memory,      \* the calls an instance remembers
  hpc,         \* what the test goroutine is doing, and to which server
  zombie       \* calls made by an incarnation that had been crashed (history)

harness == <<inc, rafts, connected, persisters, saved, persister, memory>>
vars == <<rpcVars, harness, hpc, zombie>>

\* Mutant of EndName: a restarted server keeps its names.
EndNameKept(i, k, j) == <<i, 1, j>>

\* cfg.endnames[i][j] of incarnation k of i.
EndName(i, k, j) == <<i, k, j>>

\* Incarnation k of i, and the incarnation an end was made for.
Instance(i, k) == <<i, k>>
Owner(e) == <<e[1], e[2]>>

Made == {r \in Instances : r[2] <= inc[r[1]]}
Idle == [op |-> "none", step |-> "idle", server |-> Nil]
Doing(op, step, i) == [op |-> op, step |-> step, server |-> i]

\* make_config: every server started once, then connected.
HarnessInit ==
  /\ reliable \in BOOLEAN
  /\ connections = [e \in Ends |-> IF e[2] = 1 THEN e[3] ELSE Nil]
  /\ enabled = [e \in Ends |-> e[2] = 1]
  /\ servers = [i \in ServerNames |-> Instance(i, 1)]
  /\ InitCalls
  /\ inc = [i \in ServerNames |-> 1]
  /\ rafts = [i \in ServerNames |-> Instance(i, 1)]
  /\ connected = [i \in ServerNames |-> TRUE]
  /\ persisters = [p \in 1..N |-> {}]
  /\ saved \in [ServerNames -> 1..N] /\ \A i, j \in ServerNames : saved[i] = saved[j] => i = j
  /\ persister = [r \in Instances |-> IF r[2] = 1 THEN saved[r[1]] ELSE 0]
  /\ memory = [r \in Instances |-> {}]
  /\ hpc = Idle
  /\ zombie = {}

-----------------------------------------------------------------------------
(***************************************************************************)
(* Raft on the network.                                                    *)
(***************************************************************************)

\* An incarnation, crashed or not, calls a peer.
RaftCall(c) ==
  \E r \in Made : \E j \in ServerNames :
    /\ Call(c, EndName(r[1], r[2], j))
    /\ zombie' = IF rafts[r[1]] = r THEN zombie ELSE zombie \cup {c}
    /\ UNCHANGED <<harness, hpc>>

\* Persister.SaveRaftState on a Persister object.
SaveRaftState(p, state) == persisters' = [persisters EXCEPT ![p] = state]

\* The handler of the instance the request was dispatched to.
RaftHandler(c) ==
  LET r == target[c].server
      state == memory[r] \cup {c}
  IN  /\ HandlerReturns(c)
      /\ memory' = [memory EXCEPT ![r] = state]
      /\ SaveRaftState(persister[r], state)
      /\ UNCHANGED <<inc, rafts, connected, saved, persister, hpc, zombie>>

NetworkStep ==
  /\ \/ \E c \in Calls : CallStep(c)
     \/ StopAccepting
  /\ UNCHANGED <<harness, hpc, zombie>>

-----------------------------------------------------------------------------
(***************************************************************************)
(* The test goroutine.  Network.mu is taken for every Enable, but a        *)
(* processReq looks at one end only, so the loops of connect and           *)
(* disconnect are one step.                                                *)
(***************************************************************************)

\* The ends between i and the others, of the incarnations named in cfg.endnames.
OutgoingEnds(i) == {EndName(i, inc[i], j) : j \in ServerNames}
IncomingEnds(i) == {EndName(j, inc[j], i) : j \in ServerNames}

disconnect(i) ==
  /\ connected' = [connected EXCEPT ![i] = FALSE]
  /\ enabled' = [e \in Ends |-> enabled[e] /\ e \notin OutgoingEnds(i) \cup IncomingEnds(i)]

\* Mutant of connect: the other side need not be connected.
connectAlways(i) ==
  /\ connected' = [connected EXCEPT ![i] = TRUE]
  /\ enabled' = [e \in Ends |-> enabled[e] \/ e \in OutgoingEnds(i) \cup IncomingEnds(i)]

connect(i) ==
  /\ connected' = [connected EXCEPT ![i] = TRUE]
  /\ enabled' = [e \in Ends |-> \/ enabled[e]
                                \/ e \in OutgoingEnds(i) /\ connected'[e[3]]
                                \/ e \in IncomingEnds(i) /\ connected'[e[1]]]

\* The tests call connect on servers that run; they may disconnect any.
Disconnect(i) ==
  /\ hpc = Idle /\ ~done
  /\ disconnect(i)
  /\ UNCHANGED <<reliable, connections, servers, done, accepting, calling, inc, rafts,
                 persisters, saved, persister, memory, hpc, zombie>>

Connect1(i) ==
  /\ hpc = Idle /\ ~done /\ rafts[i] # Nil
  /\ connect(i)
  /\ UNCHANGED <<reliable, connections, servers, done, accepting, calling, inc, rafts,
                 persisters, saved, persister, memory, hpc, zombie>>

\* crash1, first line; start1 begins with a crash1.  The tests crash servers that
\* run and start any.
BeginCrash(i, op) ==
  /\ hpc = Idle /\ ~done
  /\ \/ op = "crash" /\ rafts[i] # Nil
     \/ op = "start" /\ inc[i] < MaxIncarnation
  /\ disconnect(i)
  /\ hpc' = Doing(op, "delete", i)
  /\ UNCHANGED <<reliable, connections, servers, done, accepting, calling, inc, rafts,
                 persisters, saved, persister, memory, zombie>>

CrashDelete(i, op) ==
  /\ hpc = Doing(op, "delete", i)
  /\ DeleteServer(i)
  /\ hpc' = Doing(op, "copy", i)
  /\ UNCHANGED <<harness, zombie>>

\* Mutant of Copy: the new pointer is to the same object.
CopyShared(i) == UNCHANGED <<persisters, saved>>

\* cfg.saved[i] = cfg.saved[i].Copy()
Copy(i) ==
  /\ persisters' = Append(persisters, persisters[saved[i]])
  /\ saved' = [saved EXCEPT ![i] = Len(persisters) + 1]

\* Then rf.Kill(), outside cfg.mu.
CrashCopy(i, op) ==
  /\ hpc = Doing(op, "copy", i)
  /\ Copy(i)
  /\ hpc' = Doing(op, "renew", i)
  /\ UNCHANGED <<rpcVars, inc, rafts, connected, persister, memory, zombie>>

\* The rest of crash1: one more Persister with what ReadRaftState returns.
CrashRenew(i, op) ==
  /\ hpc = Doing(op, "renew", i)
  /\ rafts' = [rafts EXCEPT ![i] = Nil]
  /\ Copy(i)
  /\ hpc' = IF op = "start" THEN Doing(op, "make", i) ELSE Idle
  /\ UNCHANGED <<rpcVars, inc, connected, persister, memory, zombie>>

\* The rest of start1 up to Make, which reads the Persister: fresh ends,
\* connected and disabled, and a copy of the Persister.
StartMake(i) ==
  LET r == Instance(i, inc[i] + 1)
  IN  /\ hpc = Doing("start", "make", i)
      /\ inc' = [inc EXCEPT ![i] = @ + 1]
      /\ connections' = [e \in Ends |-> IF Owner(e) = r THEN e[3] ELSE connections[e]]
      /\ Copy(i)
      /\ persister' = [persister EXCEPT ![r] = saved'[i]]
      /\ memory' = [memory EXCEPT ![r] = persisters'[saved'[i]]]
      /\ rafts' = [rafts EXCEPT ![i] = r]
      /\ hpc' = Doing("start", "add", i)
      /\ UNCHANGED <<reliable, enabled, servers, done, accepting, calling, connected, zombie>>

StartAdd(i) ==
  /\ hpc = Doing("start", "add", i)
  /\ AddServer(i, rafts[i])
  /\ hpc' = Idle
  /\ UNCHANGED <<harness, zombie>>

setunreliable ==
  /\ hpc = Idle /\ ~done
  /\ Reliable(~reliable)
  /\ UNCHANGED <<harness, hpc, zombie>>

cleanup ==
  /\ hpc = Idle
  /\ Cleanup
  /\ UNCHANGED <<harness, hpc, zombie>>

TestStep ==
  \/ \E i \in ServerNames :
       \/ Disconnect(i) \/ Connect1(i) \/ StartMake(i) \/ StartAdd(i)
       \/ \E op \in {"crash", "start"} :
            BeginCrash(i, op) \/ CrashDelete(i, op) \/ CrashCopy(i, op) \/ CrashRenew(i, op)
  \/ setunreliable \/ cleanup

HarnessNext == NetworkStep \/ TestStep \/ \E c \in Calls : RaftCall(c) \/ RaftHandler(c)

HarnessSpec == HarnessInit /\ [][HarnessNext]_vars

-----------------------------------------------------------------------------
Persisted(i) == persisters[saved[i]]

\* "avoid situation in which a client gets a positive reply to an Append, but
\* the server persisted the update into the old Persister" (labrpc.go:264-269):
\* what a caller was told to have happened is in the state that the next
\* incarnation of the server starts from, whenever the crash comes.
PositiveRepliesSurvive ==
  \A c \in Calls : pc[c] = "returned" /\ ok[c] => c \in Persisted(target[c].name)

\* "so that old crashed instance's ClientEnds can't send" (config.go:187-188):
\* a call made by a crashed incarnation never reaches a handler.
ZombieCallsNeverExecute == \A c \in zombie : handler[c] = "none"

\* A running server's own state is what cfg.saved holds, and no other incarnation
\* writes it ("so old instance doesn't overwrite new instance's persisted
\* state", config.go:203-204).
PersistersIsolated ==
  /\ \A r, s \in Made : r # s => persister[r] # persister[s]
  /\ \A i \in ServerNames :
       hpc = Idle /\ rafts[i] # Nil => saved[i] = persister[rafts[i]] /\ Persisted(i) = memory[rafts[i]]

\* Between two operations of the test, the ends that are enabled are exactly
\* those of running incarnations, from a connected server to a connected
\* server (connect and disconnect, config.go:248-292).
EnabledIffConnected ==
  hpc = Idle =>
    \A e \in Ends :
      enabled[e] <=> \E i, j \in ServerNames : /\ e = EndName(i, inc[i], j)
                                               /\ rafts[i] # Nil
                                               /\ connected[i] /\ connected[j]
=============================================================================
