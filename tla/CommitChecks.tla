---------------------------- MODULE CommitChecks ----------------------------
(***************************************************************************)
(* How lab3's harness judges what Rafts commit: one applier goroutine per  *)
(* Raft that was ever started copies what it applies into cfg.logs and     *)
(* compares it with the other logs under cfg.mu, while the test's own      *)
(* goroutine submits commands (one) and counts the servers that have an    *)
(* entry (nCommitted, wait), a lock section per server.  A crashed Raft's  *)
(* applier goes on, beside that of the server's next one.                  *)
(*                                                                         *)
(* The Rafts are external.  Correct ones apply the entries of one agreed   *)
(* log in order, each from its first; incorrect ones apply anything.       *)
(***************************************************************************)
EXTENDS Integers, Sequences, FiniteSets

CONSTANTS
  N,          \* cfg.n: servers are 0..N-1
  Cmds,       \* commands
  NoCmd,      \* an index a log does not have
  MaxIndex,   \* bound on log indices
  MaxLives    \* bound on the Rafts started per server

ASSUME CommitAssumption ==
  /\ N \in Nat \ {0} /\ MaxIndex \in Nat /\ MaxLives \in Nat \ {0} /\ NoCmd \notin Cmds

Servers == 0..N - 1
Indices == 1..MaxIndex
Rafts == Servers \X (1..MaxLives)

VARIABLES
  correct,    \* whether the Rafts are
  decided,    \* the log that correct ones agree on
  applied,    \* entries each Raft has applied
  lives,      \* Rafts started of each server
  logs,       \* cfg.logs
  maxIndex,   \* cfg.maxIndex
  errMsg,     \* what each applier is about to die of: "none", "order" or "mismatch"
  fatal,      \* why the process has ended: "none" or an errMsg
  tester,     \* the test's goroutine, in one or in wait
  maxIndex0   \* cfg.maxIndex0

raftVars == <<correct, decided, applied, lives>>
logVars == <<logs, maxIndex, errMsg, fatal>>
commitVars == <<raftVars, logVars, tester, maxIndex0>>

\* What a goroutine that runs no operation keeps; the scan of nCommitted is at
\* server j, and has found the command seen in count logs.
Idle == [pc |-> "idle", op |-> "none", cmd |-> NoCmd, index |-> 0, need |-> 0, retry |-> FALSE,
         si |-> 0, j |-> 0, count |-> 0, seen |-> NoCmd]

CommitInit ==
  /\ correct \in BOOLEAN /\ decided = <<>>
  /\ applied = [r \in Rafts |-> 0] /\ lives = [i \in Servers |-> 1]
  /\ logs = [i \in Servers |-> [k \in Indices |-> NoCmd]] /\ maxIndex = 0
  /\ errMsg = [r \in Rafts |-> "none"] /\ fatal = "none"
  /\ tester = Idle /\ maxIndex0 = 0

Committed == {k \in Indices : \E i \in Servers : logs[i][k] # NoCmd}

-----------------------------------------------------------------------------
(***************************************************************************)
(* Rafts and their appliers.                                               *)
(***************************************************************************)

Decide ==
  /\ correct /\ Len(decided) < MaxIndex
  /\ \E c \in Cmds : decided' = Append(decided, c)
  /\ UNCHANGED <<correct, applied, lives, logVars, tester, maxIndex0>>

\* Mutant of Mismatch: the logs of the servers up to i are compared.
MismatchBelow(i, k, v) == \E j \in 0..i : logs[j][k] \notin {NoCmd, v}

Mismatch(i, k, v) == \E j \in Servers : logs[j][k] \notin {NoCmd, v}

\* Mutant of prevok: only the entry after the last one is in order.
prevokNext(i, k) == k = Cardinality({m \in Indices : logs[i][m] # NoCmd}) + 1

prevok(i, k) == k > 1 /\ logs[i][k - 1] # NoCmd

\* Mutant of NewMaxIndex: the last index applied.
NewMaxIndexLast(k) == k

NewMaxIndex(k) == IF k > maxIndex THEN k ELSE maxIndex

\* checkLogs in its section of cfg.mu, and the test for the order after it.
checkLogs(r, k, v) ==
  /\ logs' = [logs EXCEPT ![r[1]][k] = v]
  /\ maxIndex' = NewMaxIndex(k)
  /\ errMsg' = [errMsg EXCEPT ![r] = IF k > 1 /\ ~prevok(r[1], k) THEN "order"
                                     ELSE IF Mismatch(r[1], k, v) THEN "mismatch" ELSE "none"]

\* The applier of the Raft r takes the next message from its applyCh.  (Of an
\* incorrect Raft only indices from 1 on are considered; the harness compares the
\* entries at others too, but never checks their order or asks for one.)
Applier(r) ==
  /\ r[2] <= lives[r[1]] /\ errMsg[r] = "none"
  /\ \/ /\ correct /\ applied[r] < Len(decided)
        /\ applied' = [applied EXCEPT ![r] = @ + 1]
        /\ checkLogs(r, applied'[r], decided[applied'[r]])
     \/ /\ ~correct
        /\ \E k \in Indices, v \in Cmds : checkLogs(r, k, v)
        /\ UNCHANGED applied
  /\ UNCHANGED <<correct, decided, lives, fatal, tester, maxIndex0>>

\* log.Fatalf ends the whole process.
ApplierFatal(r) ==
  /\ errMsg[r] # "none" /\ fatal' = errMsg[r]
  /\ UNCHANGED <<raftVars, logs, maxIndex, errMsg, tester, maxIndex0>>

\* crash1 and start1: a new Raft with an applier of its own, and the old log.
\* (The next incarnation of an incorrect Raft applies nothing that it could not.)
Restart(i) ==
  /\ correct
  /\ lives[i] < MaxLives /\ lives' = [lives EXCEPT ![i] = @ + 1]
  /\ UNCHANGED <<correct, decided, applied, logVars, tester, maxIndex0>>

-----------------------------------------------------------------------------
(***************************************************************************)
(* The test's goroutine.                                                   *)
(***************************************************************************)

Tester(new) ==
  /\ tester' = new
  /\ UNCHANGED <<raftVars, logVars, maxIndex0>>

CallOne ==
  /\ tester.pc \in {"idle", "returned"}
  /\ \E c \in Cmds, n \in 1..N, again \in BOOLEAN :
       Tester([Idle EXCEPT !.pc = "try", !.op = "one", !.cmd = c, !.need = n, !.retry = again])

\* A round of rf.Start over the servers, each of which may be disconnected,
\* down or no leader; the index a leader names may be any.
TryStart ==
  /\ tester.pc = "try" /\ tester.si < N
  /\ \/ Tester([tester EXCEPT !.si = @ + 1])
     \/ \E k \in Indices : Tester([tester EXCEPT !.index = k, !.pc = "scan", !.si = 0])

\* After a round the next one begins, if 25 seconds have not passed.
NextRound ==
  /\ tester.pc = "try" /\ tester.si = N
  /\ Tester([tester EXCEPT !.si = 0])

\* They have, without a leader or with an index that came to nothing.
GiveUp ==
  /\ tester.pc = "try" /\ tester.si = N
  /\ Tester([tester EXCEPT !.pc = "Fatal:no-agreement"])

CallWait ==
  /\ tester.pc \in {"idle", "returned"}
  /\ \E k \in Indices, n \in 1..N :
       Tester([Idle EXCEPT !.pc = "scan", !.op = "wait", !.index = k, !.need = n])

\* One server of nCommitted, under cfg.mu.
NCommittedStep ==
  /\ tester.pc \in {"scan", "rescan"} /\ tester.j < N
  /\ LET cmd1 == logs[tester.j][tester.index]
     IN  \/ /\ cmd1 = NoCmd
            /\ Tester([tester EXCEPT !.j = @ + 1])
         \/ /\ cmd1 # NoCmd /\ tester.count > 0 /\ cmd1 # tester.seen
            /\ Tester([tester EXCEPT !.pc = "Fatal:values-do-not-match"])
         \/ /\ cmd1 # NoCmd /\ (tester.count = 0 \/ cmd1 = tester.seen)
            /\ Tester([tester EXCEPT !.j = @ + 1, !.count = @ + 1, !.seen = cmd1])

\* Mutant of OneAgreed: the command is not compared.
OneAgreedOnAny == tester.count > 0 /\ tester.count >= tester.need

OneAgreed == tester.count > 0 /\ tester.count >= tester.need /\ tester.seen = tester.cmd

Rescan(pc) == [tester EXCEPT !.pc = pc, !.j = 0, !.count = 0, !.seen = NoCmd]
TryAgain == [Rescan("try") EXCEPT !.si = N, !.index = 0]

\* one, after nCommitted: return the index, look again, or after 5 seconds
\* submit again or fail.
OneDecides ==
  /\ tester.op = "one" /\ tester.pc = "scan" /\ tester.j = N
  /\ \/ OneAgreed /\ Tester([Rescan("returned") EXCEPT !.retry = FALSE])
     \/ /\ ~OneAgreed
        /\ \/ Tester(Rescan("scan"))
           \/ tester.retry /\ Tester(TryAgain)
           \/ ~tester.retry /\ Tester([tester EXCEPT !.pc = "Fatal:no-agreement"])

Enough(n) == tester.count >= n

\* wait, after nCommitted: enough servers or 30 rounds lead to a last count,
\* anything else to another round; someone in a later term ends it with -1.  (With
\* a term to watch, wait asks every cfg.rafts[i] for its state, and would panic on
\* the nil of a crashed server; the tests that pass one, raft_test.go:318 and 535,
\* crash none.)
WaitDecides ==
  /\ tester.op = "wait" /\ tester.pc = "scan" /\ tester.j = N
  /\ \/ Tester(Rescan("rescan"))
     \/ /\ ~Enough(tester.need)
        /\ \/ Tester(Rescan("scan"))
           \/ Tester(Idle)

WaitReturns ==
  /\ tester.pc = "rescan" /\ tester.j = N
  /\ \/ Enough(tester.need) /\ Tester([Rescan("returned") EXCEPT !.cmd = tester.seen])
     \/ ~Enough(tester.need) /\ Tester([tester EXCEPT !.pc = "Fatal:only-some-decided"])

Begin ==
  /\ tester.pc = "idle" /\ maxIndex0 # maxIndex
  /\ maxIndex0' = maxIndex
  /\ UNCHANGED <<raftVars, logVars, tester>>

\* end(): the number of agreements it prints.
ncmds == maxIndex - maxIndex0

TesterStep ==
  \/ CallOne \/ TryStart \/ NextRound \/ GiveUp \/ CallWait \/ NCommittedStep
  \/ OneDecides \/ WaitDecides \/ WaitReturns \/ Begin

CommitNext ==
  /\ fatal = "none"
  /\ \/ Decide \/ TesterStep
     \/ \E r \in Rafts : Applier(r) \/ ApplierFatal(r)
     \/ \E i \in Servers : Restart(i)

CommitSpec == CommitInit /\ [][CommitNext]_commitVars

-----------------------------------------------------------------------------
NoErrors == \A r \in Rafts : errMsg[r] = "none"

\* Correct Rafts are never blamed for what they apply, although a restarted one
\* applies everything again beside its crashed predecessor, into the same log,
\* and nCommitted reads the logs while they grow (config.go:135-175, 390).
NoFalseAlarm ==
  correct => NoErrors /\ tester.pc # "Fatal:values-do-not-match"

\* Incorrect ones are: as long as no applier has something to report, no two logs
\* differ at an index and none has a gap (config.go:138-146).
DivergenceCaught ==
  NoErrors => \A i \in Servers, k \in Indices : logs[i][k] # NoCmd =>
                /\ \A j \in Servers : logs[j][k] \in {NoCmd, logs[i][k]}
                /\ k > 1 => logs[i][k - 1] # NoCmd

\* An index that one or wait has returned is what it says, although its servers
\* were counted one by one: so many logs hold the command there, and go on to,
\* unless an applier has something to report (config.go:472-477, 424-429).
ReturnedMeansCommitted ==
  tester.pc = "returned" /\ NoErrors =>
    Cardinality({i \in Servers : logs[i][tester.index] = tester.cmd}) >= tester.need

\* The number of agreements that end() prints is the number of indices committed
\* since begin(), whichever servers are ahead and behind (config.go:148, 502, 517).
AgreementsCounted ==
  NoErrors => ncmds = Cardinality({k \in Committed : k > maxIndex0})
=============================================================================
