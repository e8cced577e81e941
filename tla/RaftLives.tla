----------------------------- MODULE RaftLives ------------------------------
(***************************************************************************)
(* The life of a Raft object in the harness: Make starts its ticker, and   *)
(* the only way to stop it is Kill, which crash1 and cleanup call.  The    *)
(* harness forgets a Raft (cfg.rafts[i] = nil) and replaces it, so one it  *)
(* did not kill would tick for the rest of the test run.  RaftHarness has  *)
(* the rest of each operation.                                             *)
(***************************************************************************)
EXTENDS RaftHarness

VARIABLE dead    \* Raft.dead, by instance

livesVars == <<vars, dead>>

LivesInit == HarnessInit /\ dead = [r \in Instances |-> FALSE]

\* Raft.Kill on the Rafts in rs.
Kill(rs) == dead' = [r \in Instances |-> dead[r] \/ r \in rs]

killed(r) == dead[r]

\* The goroutine that Make started goes on: it tests killed() on every round.
ticker(r) == r \in Made /\ ~killed(r)

\* The Raft of server i, if there is one.
RaftOf(i) == {rafts[i]} \ {Nil}

\* rf.Kill() in crash1, with cfg.mu released.
CrashKill(i) ==
  /\ hpc.step = "renew" /\ hpc.server = i
  /\ \E r \in RaftOf(i) : ~killed(r)
  /\ Kill(RaftOf(i))
  /\ UNCHANGED vars

\* Mutant of CrashForget: the Raft is forgotten before it is killed.
CrashForgetAlive(i, op) == CrashRenew(i, op) /\ UNCHANGED dead

\* Then the rest of crash1.
CrashForget(i, op) ==
  /\ \A r \in RaftOf(i) : killed(r)
  /\ CrashRenew(i, op)
  /\ UNCHANGED dead

\* The new Raft of start1 starts with dead = 0.
Make(i) ==
  /\ StartMake(i)
  /\ dead' = [dead EXCEPT ![Instance(i, inc'[i])] = FALSE]

\* cleanup kills every Raft it knows, then destroys the network.
KillAndCleanup == cleanup /\ Kill(UNION {RaftOf(i) : i \in ServerNames})

LivesNext ==
  \/ /\ \/ NetworkStep
        \/ \E c \in Calls : RaftCall(c) \/ RaftHandler(c)
        \/ setunreliable
        \/ \E i \in ServerNames :
             \/ Disconnect(i) \/ Connect1(i) \/ StartAdd(i)
             \/ \E op \in {"crash", "start"} :
                  BeginCrash(i, op) \/ CrashDelete(i, op) \/ CrashCopy(i, op)
     /\ UNCHANGED dead
  \/ \E i \in ServerNames :
       CrashKill(i) \/ Make(i) \/ \E op \in {"crash", "start"} : CrashForget(i, op)
  \/ KillAndCleanup

LivesSpec == LivesInit /\ [][LivesNext]_livesVars

-----------------------------------------------------------------------------
\* "the tester doesn't halt goroutines created by Raft after each test, but it
\* does call the Kill() method" (raft.go:187-188): between two operations of the
\* test the only tickers left are those of the Rafts in cfg.rafts, one for each
\* server that runs, and after cleanup there is none.
NoTickerLeftBehind ==
  hpc = Idle => {r \in Instances : ticker(r)} =
                  IF done THEN {} ELSE UNION {RaftOf(i) : i \in ServerNames}
=============================================================================
