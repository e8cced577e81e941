------------------------- MODULE RaftSupportProofs --------------------------
(***************************************************************************)
(* What Raft and its tests rest on.  The verdicts of the harness of lab3   *)
(* on logs and on leaders are right, for any number of servers, Rafts,     *)
(* commands, indices and terms.  Of the checks of labgob, for any types,   *)
(* values and goroutines: each lower-case field is complained about once,  *)
(* nothing that a checked type is made of is skipped, and no complaint     *)
(* goes uncounted.                                                         *)
(***************************************************************************)
EXTENDS CommitChecks, LeaderChecks, LabGob, FiniteSetTheorems, WellFoundedInduction,
        TLAPS

(***************************************************************************)
(* Logs.  The inductive invariant says of correct Rafts that each log      *)
(* agrees with the decided one up to where its appliers are, and of all    *)
(* Rafts, as long as no applier has an error to report, that the logs      *)
(* agree, have no gaps and reach to maxIndex.                              *)
(***************************************************************************)
Entries == Cmds \cup {NoCmd}

CommitTypes ==
  /\ correct \in BOOLEAN /\ decided \in Seq(Cmds) /\ Len(decided) <= MaxIndex
  /\ applied \in [Rafts -> Nat]
  /\ logs \in [Servers -> [Indices -> Entries]]
  /\ maxIndex \in 0..MaxIndex /\ maxIndex0 \in 0..maxIndex
  /\ errMsg \in [Rafts -> {"none", "order", "mismatch"}]

TesterPcs == {"idle", "try", "scan", "rescan", "returned", "Fatal:no-agreement",
              "Fatal:values-do-not-match", "Fatal:only-some-decided"}

\* The fields of the tester, one by one: the provers handle EXCEPT on several
\* fields better this way than by membership in a set of records.
TesterState(t) ==
  /\ DOMAIN t = {"pc", "op", "cmd", "index", "need", "retry", "si", "j", "count", "seen"}
  /\ t.pc \in TesterPcs /\ t.op \in {"none", "one", "wait"}
  /\ t.cmd \in Entries /\ t.seen \in Entries /\ t.retry \in BOOLEAN
  /\ t.index \in 0..MaxIndex /\ t.need \in 0..N /\ t.si \in 0..N /\ t.j \in 0..N
  /\ t.count \in Nat

TesterTypes ==
  /\ TesterState(tester)
  /\ tester.pc \in {"try", "scan", "rescan", "returned"} => tester.need >= 1
  /\ tester.pc \in {"scan", "rescan", "returned"} => tester.index \in Indices
  /\ tester.pc = "try" => tester.count = 0

\* The appliers of correct Rafts have nothing to report.
CorrectLogs ==
  correct =>
    /\ NoErrors
    /\ \A i \in Servers, k \in Indices :
         logs[i][k] # NoCmd => k <= Len(decided) /\ logs[i][k] = decided[k]
    /\ \A r \in Rafts : /\ applied[r] <= Len(decided)
                        /\ \A k \in 1..applied[r] : logs[r[1]][k] # NoCmd

Agree == \A i, j \in Servers, k \in Indices : logs[i][k] # NoCmd => logs[j][k] \in {NoCmd, logs[i][k]}

NoGaps == \A i \in Servers, k, m \in Indices : logs[i][k] # NoCmd /\ m <= k => logs[i][m] # NoCmd

ReachMaxIndex ==
  /\ \A i \in Servers, k \in Indices : logs[i][k] # NoCmd => k <= maxIndex
  /\ maxIndex > 0 => \E i \in Servers : logs[i][maxIndex] # NoCmd

CleanLogs == NoErrors => Agree /\ NoGaps /\ ReachMaxIndex

\* The servers below n that hold v at index k of the logs L.
Holding(L, n, k, v) == {i \in 0..n - 1 : L[i][k] = v}

\* What nCommitted has counted is in the logs of the servers it has passed.
ScanCounts ==
  NoErrors /\ tester.pc \in {"scan", "rescan"} /\ tester.count > 0 =>
    /\ tester.seen # NoCmd
    /\ tester.count <= Cardinality(Holding(logs, tester.j, tester.index, tester.seen))

ReturnedHeld ==
  NoErrors /\ tester.pc = "returned" =>
    /\ tester.cmd # NoCmd
    /\ tester.need <= Cardinality(Holding(logs, N, tester.index, tester.cmd))

NoTesterAlarm == correct => tester.pc # "Fatal:values-do-not-match"

CommitInv ==
  /\ CommitTypes /\ TesterTypes /\ CorrectLogs /\ CleanLogs
  /\ ScanCounts /\ ReturnedHeld /\ NoTesterAlarm

-----------------------------------------------------------------------------
\* Finitely many servers hold a command.
LEMMA HoldingFinite ==
  ASSUME NEW L, NEW n \in Nat, NEW k, NEW v
  PROVE  IsFiniteSet(Holding(L, n, k, v)) /\ Cardinality(Holding(L, n, k, v)) \in Nat
<1>1. IsFiniteSet(0..n - 1)
  BY FS_Interval
<1>2. Holding(L, n, k, v) \subseteq 0..n - 1
  BY DEF Holding
<1> QED
  BY <1>1, <1>2, FS_Subset, FS_CardinalityType

\* Logs that lose no v are held by no fewer servers.
LEMMA HoldingGrows ==
  ASSUME NEW L, NEW M, NEW n \in Nat, NEW k, NEW v,
         \A i \in 0..n - 1 : L[i][k] = v => M[i][k] = v
  PROVE  Cardinality(Holding(L, n, k, v)) <= Cardinality(Holding(M, n, k, v))
<1>1. Holding(L, n, k, v) \subseteq Holding(M, n, k, v)
  BY DEF Holding
<1> QED
  BY <1>1, HoldingFinite, FS_Subset

\* A Raft is a server and an incarnation.
LEMMA RaftServers == \A r \in Rafts : r[1] \in Servers /\ r[2] \in Nat
  BY CommitAssumption DEF Rafts

\* CommitInv holds initially.
LEMMA CommitInitInv == CommitInit => CommitInv
<1> SUFFICES ASSUME CommitInit PROVE CommitInv
  OBVIOUS
<1> USE CommitAssumption DEF CommitInit
<1>1. CommitTypes
  BY DEF CommitTypes, Entries
<1>2. TesterTypes
  BY DEF TesterTypes, TesterState, TesterPcs, Entries, Idle
<1>3. CorrectLogs
  BY RaftServers DEF CorrectLogs, NoErrors
<1>4. CleanLogs
  BY DEF CleanLogs, Agree, NoGaps, ReachMaxIndex
<1>5. ScanCounts /\ ReturnedHeld /\ NoTesterAlarm
  BY DEF ScanCounts, ReturnedHeld, NoTesterAlarm, Idle
<1> QED
  BY <1>1, <1>2, <1>3, <1>4, <1>5 DEF CommitInv

\* A step that leaves the logs alone keeps what is said of them.
judged == <<correct, decided, applied, logs, maxIndex, maxIndex0, errMsg>>

\* These parts of CommitInv are about the logs and the appliers only.
LEMMA LogsUnchanged ==
  ASSUME CommitInv, UNCHANGED judged
  PROVE  CommitTypes' /\ CorrectLogs' /\ CleanLogs'
<1>1. CommitTypes'
  BY DEF CommitInv, CommitTypes, judged
<1>2. CorrectLogs'
  BY DEF CommitInv, CorrectLogs, NoErrors, judged
<1>3. CleanLogs'
  BY DEF CommitInv, CleanLogs, NoErrors, Agree, NoGaps, ReachMaxIndex, judged
<1> QED
  BY <1>1, <1>2, <1>3

\* These parts of CommitInv are about the tester and the logs it reads.
LEMMA TesterUnchanged ==
  ASSUME CommitInv, UNCHANGED <<tester, logs, errMsg, correct>>
  PROVE  TesterTypes' /\ ScanCounts' /\ ReturnedHeld' /\ NoTesterAlarm'
  BY DEF CommitInv, TesterTypes, ScanCounts, ReturnedHeld, NoTesterAlarm, NoErrors, Holding

-----------------------------------------------------------------------------
\* Decide keeps CommitInv.
LEMMA DecideInv == ASSUME CommitInv, Decide PROVE CommitInv'
<1>1. PICK c \in Cmds : decided' = Append(decided, c)
  BY DEF Decide
<1>2. UNCHANGED <<correct, applied, logs, maxIndex, maxIndex0, errMsg, tester>> /\ Len(decided) < MaxIndex
  BY DEF Decide, logVars
<1>3. decided \in Seq(Cmds) /\ MaxIndex \in Nat
  BY CommitAssumption DEF CommitInv, CommitTypes
<1>4. /\ decided' \in Seq(Cmds) /\ Len(decided') = Len(decided) + 1 /\ Len(decided) \in Nat
      /\ \A k \in 1..Len(decided) : decided'[k] = decided[k]
  BY <1>1, <1>3
<1>5. CommitTypes'
  BY <1>2, <1>3, <1>4 DEF CommitInv, CommitTypes
<1>6. CorrectLogs'
  <2> SUFFICES ASSUME correct'
               PROVE  /\ NoErrors'
                      /\ \A i \in Servers, k \in Indices : logs'[i][k] # NoCmd =>
                           k <= Len(decided') /\ logs'[i][k] = decided'[k]
                      /\ \A r \in Rafts : /\ applied'[r] <= Len(decided')
                                          /\ \A k \in 1..applied'[r] : logs'[r[1]][k] # NoCmd
    BY DEF CorrectLogs
  <2>1. /\ NoErrors
        /\ \A i \in Servers, k \in Indices : logs[i][k] # NoCmd =>
             k <= Len(decided) /\ logs[i][k] = decided[k]
        /\ \A r \in Rafts : /\ applied[r] <= Len(decided)
                            /\ \A k \in 1..applied[r] : logs[r[1]][k] # NoCmd
    BY <1>2 DEF CommitInv, CorrectLogs
  <2>2. NoErrors'
    BY <1>2, <2>1 DEF NoErrors
  <2>3. ASSUME NEW i \in Servers, NEW k \in Indices, logs[i][k] # NoCmd
        PROVE  k <= Len(decided') /\ logs[i][k] = decided'[k]
    <3>1. k <= Len(decided) /\ logs[i][k] = decided[k]
      BY <2>1, <2>3
    <3>2. k \in 1..Len(decided)
      BY <1>3, <1>4, <3>1 DEF Indices
    <3> QED
      BY <1>4, <3>1, <3>2
  <2>4. \A r \in Rafts : applied[r] \in Nat
    BY DEF CommitInv, CommitTypes
  <2>5. \A r \in Rafts : applied[r] <= Len(decided')
    BY <1>4, <2>1, <2>4
  <2> QED
    BY <1>2, <2>1, <2>2, <2>3, <2>5
<1>7. CleanLogs'
  BY <1>2 DEF CommitInv, CleanLogs, NoErrors, Agree, NoGaps, ReachMaxIndex
<1> QED
  BY <1>2, <1>5, <1>6, <1>7, TesterUnchanged DEF CommitInv

\* Restart keeps CommitInv.
LEMMA RestartInv == ASSUME CommitInv, NEW i \in Servers, Restart(i) PROVE CommitInv'
<1>1. UNCHANGED judged /\ UNCHANGED tester
  BY DEF Restart, logVars, judged
<1> QED
  BY <1>1, LogsUnchanged, TesterUnchanged DEF CommitInv, judged

\* ApplierFatal keeps CommitInv.
LEMMA ApplierFatalInv == ASSUME CommitInv, NEW r \in Rafts, ApplierFatal(r) PROVE CommitInv'
<1>1. UNCHANGED judged /\ UNCHANGED tester
  BY DEF ApplierFatal, raftVars, judged
<1> QED
  BY <1>1, LogsUnchanged, TesterUnchanged DEF CommitInv, judged

\* checkLogs writes one entry, and if it reports nothing then it overwrites nothing.
LEMMA CheckLogsWrites ==
  ASSUME CommitInv, NEW r \in Rafts, NEW k \in Indices, NEW v \in Cmds, checkLogs(r, k, v), errMsg[r] = "none"
  PROVE  /\ \A i \in Servers, m \in Indices :
              logs'[i][m] = IF i = r[1] /\ m = k THEN v ELSE logs[i][m]
         /\ logs' \in [Servers -> [Indices -> Entries]]
         /\ errMsg' \in [Rafts -> {"none", "order", "mismatch"}]
         /\ maxIndex' \in 0..MaxIndex /\ maxIndex <= maxIndex' /\ k <= maxIndex'
         /\ maxIndex' \in {k, maxIndex}
         /\ NoErrors' <=> /\ NoErrors
                          /\ k > 1 => logs[r[1]][k - 1] # NoCmd
                          /\ \A j \in Servers : logs[j][k] \in {NoCmd, v}
<1>1. r[1] \in Servers /\ k \in Nat /\ k <= MaxIndex
  BY RaftServers DEF Indices
<1>2. /\ logs \in [Servers -> [Indices -> Entries]] /\ v \in Entries
      /\ maxIndex \in 0..MaxIndex /\ errMsg \in [Rafts -> {"none", "order", "mismatch"}]
      /\ MaxIndex \in Nat
  BY CommitAssumption DEF CommitInv, CommitTypes, Entries
<1>3. logs' = [logs EXCEPT ![r[1]][k] = v]
  BY DEF checkLogs
<1>4. /\ logs' \in [Servers -> [Indices -> Entries]]
      /\ \A i \in Servers, m \in Indices :
           logs'[i][m] = IF i = r[1] /\ m = k THEN v ELSE logs[i][m]
  BY <1>1, <1>2, <1>3
<1>5. maxIndex' = IF k > maxIndex THEN k ELSE maxIndex
  BY DEF checkLogs, NewMaxIndex
<1>6. /\ errMsg' = [errMsg EXCEPT ![r] = errMsg'[r]]
      /\ errMsg'[r] = IF k > 1 /\ ~prevok(r[1], k) THEN "order"
                      ELSE IF Mismatch(r[1], k, v) THEN "mismatch" ELSE "none"
  BY <1>2 DEF checkLogs
<1>7. errMsg' \in [Rafts -> {"none", "order", "mismatch"}]
  BY <1>2, <1>6
<1>8. NoErrors' <=> NoErrors /\ errMsg'[r] = "none"
  BY <1>2, <1>6 DEF NoErrors
<1>9. errMsg'[r] = "none" <=> /\ k > 1 => logs[r[1]][k - 1] # NoCmd
                          /\ \A j \in Servers : logs[j][k] \in {NoCmd, v}
  BY <1>6 DEF prevok, Mismatch
<1> QED
  BY <1>1, <1>2, <1>4, <1>5, <1>7, <1>8, <1>9

\* Applier keeps CommitInv.
LEMMA ApplierInv == ASSUME CommitInv, NEW r \in Rafts, Applier(r) PROVE CommitInv'
<1>a. /\ UNCHANGED <<correct, decided, tester, maxIndex0>> /\ errMsg[r] = "none"
      /\ r[1] \in Servers /\ MaxIndex \in Nat
  BY CommitAssumption, RaftServers DEF Applier
<1>1. PICK k \in Indices, v \in Cmds :
        /\ checkLogs(r, k, v)
        /\ \/ /\ correct /\ applied' = [applied EXCEPT ![r] = k]
              /\ k = applied[r] + 1 /\ k <= Len(decided) /\ v = decided[k]
           \/ ~correct /\ applied' = applied
  <2>1. CASE correct
    <3>1. /\ applied[r] \in Nat /\ applied[r] < Len(decided) /\ Len(decided) <= MaxIndex
          /\ decided \in Seq(Cmds)
          /\ applied' = [applied EXCEPT ![r] = applied[r] + 1] /\ applied'[r] = applied[r] + 1
          /\ checkLogs(r, applied'[r], decided[applied'[r]])
      BY <2>1 DEF Applier, CommitInv, CommitTypes
    <3>2. applied[r] + 1 \in Indices /\ decided[applied[r] + 1] \in Cmds /\ applied[r] + 1 <= Len(decided)
      BY <3>1, <1>a DEF Indices
    <3> QED
      BY <2>1, <3>1, <3>2
  <2>2. CASE ~correct
    BY <2>2 DEF Applier
  <2> QED
    BY <2>1, <2>2
<1>2. /\ \A i \in Servers, m \in Indices :
           logs'[i][m] = IF i = r[1] /\ m = k THEN v ELSE logs[i][m]
      /\ logs' \in [Servers -> [Indices -> Entries]]
      /\ errMsg' \in [Rafts -> {"none", "order", "mismatch"}]
      /\ maxIndex' \in 0..MaxIndex /\ maxIndex <= maxIndex' /\ k <= maxIndex'
      /\ maxIndex' \in {k, maxIndex}
  BY <1>a, <1>1, CheckLogsWrites
<1>3. NoErrors' <=> /\ NoErrors
                    /\ k > 1 => logs[r[1]][k - 1] # NoCmd
                    /\ \A j \in Servers : logs[j][k] \in {NoCmd, v}
  BY <1>a, <1>1, CheckLogsWrites
<1>v. v # NoCmd /\ k \in Nat /\ k >= 1 /\ k <= MaxIndex
  BY CommitAssumption DEF Indices
<1>4. CommitTypes'
  BY <1>a, <1>1, <1>2, <1>v DEF CommitInv, CommitTypes
<1>5. CorrectLogs'
  <2> SUFFICES ASSUME correct PROVE CorrectLogs'
    BY <1>a DEF CorrectLogs
  <2>1. /\ applied' = [applied EXCEPT ![r] = k] /\ applied \in [Rafts -> Nat]
        /\ k = applied[r] + 1 /\ k <= Len(decided) /\ v = decided[k]
    BY <1>1 DEF CommitInv, CommitTypes
  <2>2. \A s \in Rafts : applied'[s] = IF s = r THEN k ELSE applied[s]
    BY <2>1
  <2>3. NoErrors'
    <3>1. k > 1 => logs[r[1]][k - 1] # NoCmd
      <4>1. \A m \in 1..applied[r] : logs[r[1]][m] # NoCmd
        BY DEF CommitInv, CorrectLogs
      <4>2. applied[r] \in Nat
        BY <2>1
      <4>3. k > 1 => k - 1 \in 1..applied[r]
        BY <2>1, <4>2
      <4> QED
        BY <4>1, <4>3
    <3>2. \A j \in Servers : logs[j][k] \in {NoCmd, v}
      <4>1. \A j \in Servers, m \in Indices : logs[j][m] # NoCmd => logs[j][m] = decided[m]
        BY DEF CommitInv, CorrectLogs
      <4> QED
        BY <1>1, <2>1, <4>1
    <3>3. NoErrors
      BY DEF CommitInv, CorrectLogs
    <3> QED
      BY <1>3, <3>1, <3>2, <3>3
  <2>4. \A i \in Servers, m \in Indices :
          logs'[i][m] # NoCmd => m <= Len(decided') /\ logs'[i][m] = decided'[m]
    BY <2>1, <1>a, <1>2 DEF CommitInv, CorrectLogs
  <2>5. ASSUME NEW s \in Rafts
        PROVE  applied'[s] <= Len(decided') /\ \A m \in 1..applied'[s] : logs'[s[1]][m] # NoCmd
    <3>1. /\ s[1] \in Servers /\ applied[s] <= Len(decided) /\ applied[s] \in Nat
          /\ \A m \in 1..applied[s] : logs[s[1]][m] # NoCmd
          /\ Len(decided) \in Nat /\ Len(decided) <= MaxIndex
      BY <2>1, RaftServers DEF CommitInv, CommitTypes, CorrectLogs
    <3>2. applied'[s] <= Len(decided')
      BY <2>1, <2>2, <3>1, <1>a
    <3>3. ASSUME NEW m \in 1..applied'[s] PROVE logs'[s[1]][m] # NoCmd
      <4>1. m \in Indices
        BY <3>1, <3>2, <1>a, <2>1, <2>2 DEF Indices
      <4>2. m <= applied[s] \/ (s = r /\ m = k)
        BY <2>1, <2>2, <3>1, <4>1 DEF Indices
      <4> QED
        BY <4>1, <4>2, <3>1, <1>2, <1>v DEF Indices
    <3> QED
      BY <3>2, <3>3
  <2> QED
    BY <2>3, <2>4, <2>5 DEF CorrectLogs
<1>6. ASSUME NoErrors' PROVE /\ Agree' /\ NoGaps' /\ ReachMaxIndex'
                             /\ NoErrors
                             /\ \A i \in Servers, m \in Indices : logs[i][m] # NoCmd => logs'[i][m] = logs[i][m]
  <2>1. /\ Agree /\ NoGaps /\ ReachMaxIndex /\ NoErrors
        /\ k > 1 => logs[r[1]][k - 1] # NoCmd
        /\ \A j \in Servers : logs[j][k] \in {NoCmd, v}
    BY <1>3, <1>6 DEF CommitInv, CleanLogs
  <2>2. Agree'
    BY <2>1, <1>2, <1>v DEF Agree
  <2>3. NoGaps'
    <3> SUFFICES ASSUME NEW i \in Servers, NEW n \in Indices, NEW m \in Indices,
                        logs'[i][n] # NoCmd, m <= n
                 PROVE  logs'[i][m] # NoCmd
      BY DEF NoGaps
    <3>1. CASE i = r[1] /\ n = k
      <4>1. CASE m = k
        BY <3>1, <4>1, <1>2, <1>v
      <4>2. CASE m # k
        <5>1. k > 1 /\ k - 1 \in Indices /\ m <= k - 1
          BY <3>1, <4>2, <1>v, <1>a DEF Indices
        <5>2. logs[i][m] # NoCmd
          BY <5>1, <3>1, <2>1 DEF NoGaps
        <5> QED
          BY <5>2, <4>2, <3>1, <1>2
      <4> QED
        BY <4>1, <4>2
    <3>2. CASE ~(i = r[1] /\ n = k)
      BY <3>2, <2>1, <1>2, <1>v DEF NoGaps
    <3> QED
      BY <3>1, <3>2
  <2>4. ReachMaxIndex'
    <3>1. ASSUME NEW i \in Servers, NEW m \in Indices, logs'[i][m] # NoCmd PROVE m <= maxIndex'
      <4>1. maxIndex \in Int /\ maxIndex' \in Int /\ m \in Int
        BY <1>2 DEF Indices, CommitInv, CommitTypes
      <4> QED
        BY <4>1, <3>1, <2>1, <1>2 DEF ReachMaxIndex
    <3>2. ASSUME maxIndex' > 0 PROVE \E i \in Servers : logs'[i][maxIndex'] # NoCmd
      <4>1. CASE maxIndex' = k
        BY <4>1, <1>a, <1>2, <1>v
      <4>2. CASE maxIndex' = maxIndex
        <5>1. maxIndex \in Indices
          BY <3>2, <4>2, <1>2 DEF Indices
        <5> QED
          BY <5>1, <4>2, <3>2, <2>1, <1>2, <1>v DEF ReachMaxIndex
      <4> QED
        BY <4>1, <4>2, <1>2
    <3> QED
      BY <3>1, <3>2 DEF ReachMaxIndex
  <2> QED
    BY <2>1, <2>2, <2>3, <2>4, <1>2
<1>7. CleanLogs'
  BY <1>6 DEF CleanLogs
<1>8. TesterTypes' /\ NoTesterAlarm'
  BY <1>a DEF CommitInv, TesterTypes, NoTesterAlarm
<1>9. ASSUME NoErrors', NEW n \in 0..N, NEW m \in Indices, NEW c \in Entries, c # NoCmd, NEW q \in Nat,
             q <= Cardinality(Holding(logs, n, m, c))
      PROVE  q <= Cardinality(Holding(logs', n, m, c))
  <2>1. \A i \in 0..n - 1 : i \in Servers
    BY CommitAssumption DEF Servers
  <2>2. \A i \in 0..n - 1 : logs[i][m] = c => logs'[i][m] = c
    BY <2>1, <1>6, <1>9
  <2>3. n \in Nat
    BY CommitAssumption
  <2>4. Cardinality(Holding(logs, n, m, c)) <= Cardinality(Holding(logs', n, m, c))
    BY <2>2, <2>3, HoldingGrows
  <2>5. Cardinality(Holding(logs, n, m, c)) \in Nat /\ Cardinality(Holding(logs', n, m, c)) \in Nat
    BY <2>3, HoldingFinite
  <2> QED
    BY <2>4, <2>5, <1>9
<1>10. ScanCounts'
  BY <1>6, <1>9, <1>a DEF CommitInv, ScanCounts, TesterTypes, TesterState
<1>11. ReturnedHeld'
  BY <1>6, <1>9, <1>a, CommitAssumption DEF CommitInv, ReturnedHeld, TesterTypes, TesterState
<1> QED
  BY <1>4, <1>5, <1>7, <1>8, <1>10, <1>11 DEF CommitInv

-----------------------------------------------------------------------------
(***************************************************************************)
(* The test's goroutine.                                                   *)
(***************************************************************************)

\* A step of the tester alone has to keep only what is said of the tester.
TesterMoves == UNCHANGED <<raftVars, logVars, maxIndex0>>

\* A step of the tester has to keep the parts about the tester only.
LEMMA TesterAlone ==
  ASSUME CommitInv, TesterMoves, TesterTypes', ScanCounts', ReturnedHeld', NoTesterAlarm'
  PROVE  CommitInv'
<1>1. UNCHANGED judged
  BY DEF TesterMoves, raftVars, logVars, judged
<1> QED
  BY <1>1, LogsUnchanged DEF CommitInv

\* In particular if it neither goes on with a scan nor returns.
LEMMA TesterElsewhere ==
  ASSUME CommitInv, TesterMoves, TesterTypes',
         tester'.pc \notin {"returned", "Fatal:values-do-not-match"},
         tester'.pc \in {"scan", "rescan"} => tester'.count = 0
  PROVE  CommitInv'
<1>1. ScanCounts'
  BY DEF ScanCounts
<1>2. ReturnedHeld'
  BY DEF ReturnedHeld
<1>3. NoTesterAlarm'
  BY DEF NoTesterAlarm
<1> QED
  BY <1>1, <1>2, <1>3, TesterAlone

\* NCommittedStep keeps CommitInv.
LEMMA NCommittedStepInv == ASSUME CommitInv, NCommittedStep PROVE CommitInv'
<1> USE DEF TesterState
<1> DEFINE cmd1 == logs[tester.j][tester.index]
<1>t. /\ TesterState(tester)
      /\ tester.index \in Indices /\ tester.need >= 1
      /\ tester.pc \in {"scan", "rescan"} /\ tester.j < N
      /\ tester.j \in Servers /\ tester.j + 1 \in 0..N /\ N \in Nat
  <2>1. tester.pc \in {"scan", "rescan"} /\ tester.j < N
    BY DEF NCommittedStep
  <2>2. /\ TesterState(tester)
        /\ tester.index \in Indices /\ tester.need >= 1
    BY <2>1 DEF CommitInv, TesterTypes
  <2> QED
    BY <2>1, <2>2, CommitAssumption DEF Servers
<1>m. TesterMoves
  BY DEF NCommittedStep, Tester, TesterMoves
<1>u. UNCHANGED <<logs, errMsg, correct>> /\ NoErrors' = NoErrors
  BY <1>m DEF TesterMoves, raftVars, logVars, NoErrors
<1>c. cmd1 \in Entries
  BY <1>t DEF CommitInv, CommitTypes
<1>h. ASSUME NEW v PROVE /\ Cardinality(Holding(logs, tester.j, tester.index, v)) \in Nat
                         /\ Cardinality(Holding(logs, tester.j + 1, tester.index, v)) =
                              Cardinality(Holding(logs, tester.j, tester.index, v)) + (IF cmd1 = v THEN 1 ELSE 0)
  <2> DEFINE H == Holding(logs, tester.j, tester.index, v)
             G == Holding(logs, tester.j + 1, tester.index, v)
  <2>1. IsFiniteSet(H) /\ Cardinality(H) \in Nat
    BY <1>t, HoldingFinite
  <2>2. \A i : i \in 0..tester.j + 1 - 1 <=> i \in 0..tester.j - 1 \/ i = tester.j
    BY <1>t
  <2>3. G = IF cmd1 = v THEN H \cup {tester.j} ELSE H
    BY <2>2 DEF Holding
  <2>4. tester.j \notin H
    BY <1>t DEF Holding
  <2> HIDE DEF H, G, cmd1
  <2>5. Cardinality(H \cup {tester.j}) = Cardinality(H) + 1
    BY <2>1, <2>4, FS_AddElement
  <2>6. Cardinality(G) = Cardinality(H) + (IF cmd1 = v THEN 1 ELSE 0)
    BY <2>1, <2>3, <2>5
  <2> QED
    BY <2>1, <2>6 DEF H, G
<1>1. CASE cmd1 = NoCmd /\ Tester([tester EXCEPT !.j = @ + 1])
  <2>1. tester' = [tester EXCEPT !.j = @ + 1]
    BY <1>1 DEF Tester
  <2>2. TesterTypes'
    BY <1>t, <2>1 DEF TesterTypes
  <2>3. ScanCounts'
    <3>1. /\ tester'.pc = tester.pc /\ tester'.count = tester.count /\ tester'.seen = tester.seen
          /\ tester'.j = tester.j + 1 /\ tester'.index = tester.index
      BY <1>t, <2>1
    <3> QED
      BY <3>1, <1>t, <1>u, <1>h, <1>1 DEF CommitInv, ScanCounts
  <2>4. ReturnedHeld' /\ NoTesterAlarm'
    BY <1>t, <2>1 DEF ReturnedHeld, NoTesterAlarm
  <2> QED
    BY <1>m, <2>2, <2>3, <2>4, TesterAlone
<1>2. CASE /\ cmd1 # NoCmd /\ tester.count > 0 /\ cmd1 # tester.seen
           /\ Tester([tester EXCEPT !.pc = "Fatal:values-do-not-match"])
  <2>1. tester' = [tester EXCEPT !.pc = "Fatal:values-do-not-match"]
    BY <1>2 DEF Tester
  <2>2. TesterTypes'
    BY <1>t, <2>1 DEF TesterTypes, TesterPcs
  <2>3. ScanCounts' /\ ReturnedHeld'
    BY <1>t, <2>1 DEF ScanCounts, ReturnedHeld
  <2>4. ~correct
    <3> SUFFICES ASSUME correct PROVE FALSE
      OBVIOUS
    <3>1. NoErrors /\ cmd1 = decided[tester.index]
      BY <1>2, <1>t DEF CommitInv, CorrectLogs
    <3>2. tester.seen # NoCmd /\ tester.count <= Cardinality(Holding(logs, tester.j, tester.index, tester.seen))
      BY <3>1, <1>2, <1>t DEF CommitInv, ScanCounts
    <3>3. Holding(logs, tester.j, tester.index, tester.seen) # {}
      <4> DEFINE H == Holding(logs, tester.j, tester.index, tester.seen)
      <4>1. IsFiniteSet(H) /\ Cardinality(H) \in Nat
        BY <1>t, HoldingFinite
      <4>2. Cardinality(H) # 0
        BY <4>1, <3>2, <1>2, <1>t
      <4> QED
        BY <4>1, <4>2, FS_EmptySet
    <3>4. PICK i \in 0..tester.j - 1 : logs[i][tester.index] = tester.seen
      BY <3>3 DEF Holding
    <3>5. i \in Servers
      BY <1>t, <3>4 DEF Servers
    <3>6. tester.seen = decided[tester.index]
      BY <3>2, <3>4, <3>5, <1>t DEF CommitInv, CorrectLogs
    <3> QED
      BY <3>1, <3>6, <1>2
  <2> QED
    BY <1>m, <2>2, <2>3, <2>4, <1>u, TesterAlone DEF NoTesterAlarm
<1>3. CASE /\ cmd1 # NoCmd /\ (tester.count = 0 \/ cmd1 = tester.seen)
           /\ Tester([tester EXCEPT !.j = @ + 1, !.count = @ + 1, !.seen = cmd1])
  <2>1. tester' = [tester EXCEPT !.j = @ + 1, !.count = @ + 1, !.seen = cmd1]
    BY <1>3 DEF Tester
  <2> HIDE DEF cmd1
  <2>f. /\ tester'.pc = tester.pc /\ tester'.op = tester.op /\ tester'.cmd = tester.cmd
        /\ tester'.index = tester.index /\ tester'.need = tester.need
    BY <1>t, <2>1
  <2>2. TesterTypes'
    <3>3. TesterState(tester')
      BY <1>t, <1>c, <2>1
    <3> QED
      BY <3>3, <2>f, <1>t DEF TesterTypes
  <2>3. ScanCounts'
    <3>1. /\ tester'.pc = tester.pc /\ tester'.count = tester.count + 1 /\ tester'.seen = cmd1
          /\ tester'.j = tester.j + 1 /\ tester'.index = tester.index
      BY <1>t, <2>1
    <3>2. ASSUME NoErrors PROVE tester.count <= Cardinality(Holding(logs, tester.j, tester.index, cmd1))
      BY <3>2, <1>3, <1>t, <1>h DEF CommitInv, ScanCounts
    <3>3. ASSUME NoErrors PROVE tester.count + 1 <= Cardinality(Holding(logs, tester.j + 1, tester.index, cmd1))
      BY <3>2, <3>3, <1>h, <1>t
    <3> QED
      BY <3>1, <3>3, <1>t, <1>u, <1>3 DEF ScanCounts
  <2>4. ReturnedHeld' /\ NoTesterAlarm'
    BY <1>t, <2>1 DEF ReturnedHeld, NoTesterAlarm
  <2> QED
    BY <1>m, <2>2, <2>3, <2>4, TesterAlone
<1> QED
  BY <1>1, <1>2, <1>3 DEF NCommittedStep


\* CallOne and CallWait keep CommitInv.
LEMMA CallOneInv == ASSUME CommitInv, CallOne \/ CallWait PROVE CommitInv'
<1>1. TesterMoves
  BY DEF CallOne, CallWait, Tester, TesterMoves
<1>2. /\ TesterState(tester') /\ tester'.pc \in {"try", "scan"} /\ tester'.count = 0 /\ tester'.need >= 1
      /\ tester'.pc = "scan" => tester'.index \in Indices
  <2>1. CASE CallOne
    <3>1. PICK c \in Cmds, n \in 1..N, again \in BOOLEAN :
            tester' = [Idle EXCEPT !.pc = "try", !.op = "one", !.cmd = c, !.need = n, !.retry = again]
      BY <2>1 DEF CallOne, Tester
    <3> QED
      BY <3>1, CommitAssumption DEF Idle, TesterState, TesterPcs, Entries
  <2>2. CASE CallWait
    <3>1. PICK k \in Indices, n \in 1..N :
            tester' = [Idle EXCEPT !.pc = "scan", !.op = "wait", !.index = k, !.need = n]
      BY <2>2 DEF CallWait, Tester
    <3> QED
      BY <3>1, CommitAssumption DEF Idle, TesterState, TesterPcs, Entries, Indices
  <2> QED
    BY <2>1, <2>2
<1> QED
  BY <1>1, <1>2, TesterElsewhere DEF TesterTypes

\* TryStart keeps CommitInv.
LEMMA TryStartInv == ASSUME CommitInv, TryStart PROVE CommitInv'
<1>t. /\ TesterState(tester) /\ tester.pc = "try" /\ tester.si < N /\ N \in Nat
      /\ tester.need >= 1 /\ tester.count = 0
  BY CommitAssumption DEF CommitInv, TesterTypes, TryStart
<1>1. TesterMoves
  BY DEF TryStart, Tester, TesterMoves
<1>2. CASE tester' = [tester EXCEPT !.si = @ + 1]
  <2>1. TesterState(tester') /\ tester'.pc = "try" /\ tester'.need = tester.need /\ tester'.count = 0
    BY <1>t, <1>2 DEF TesterState
  <2> QED
    BY <1>1, <1>t, <2>1, TesterElsewhere DEF TesterTypes
<1>3. ASSUME NEW k \in Indices, tester' = [tester EXCEPT !.index = k, !.pc = "scan", !.si = 0]
      PROVE  CommitInv'
  <2>1. /\ TesterState(tester') /\ tester'.pc = "scan" /\ tester'.index = k
        /\ tester'.need = tester.need /\ tester'.count = tester.count
    BY <1>t, <1>3, CommitAssumption DEF TesterState, TesterPcs, Indices
  <2> QED
    BY <1>1, <1>t, <2>1, TesterElsewhere DEF TesterTypes
<1> QED
  BY <1>2, <1>3 DEF TryStart, Tester

\* NextRound and GiveUp keep CommitInv.
LEMMA RoundInv == ASSUME CommitInv, NextRound \/ GiveUp PROVE CommitInv'
<1>t. TesterState(tester) /\ tester.pc = "try" /\ N \in Nat /\ tester.need >= 1 /\ tester.count = 0
  BY CommitAssumption DEF CommitInv, TesterTypes, NextRound, GiveUp
<1>1. TesterMoves
  BY DEF NextRound, GiveUp, Tester, TesterMoves
<1>2. tester' = [tester EXCEPT !.si = 0] \/ tester' = [tester EXCEPT !.pc = "Fatal:no-agreement"]
  BY DEF NextRound, GiveUp, Tester
<1>3. /\ TesterState(tester') /\ tester'.pc \in {"try", "Fatal:no-agreement"}
      /\ tester'.need = tester.need /\ tester'.count = 0
  BY <1>t, <1>2 DEF TesterState, TesterPcs
<1> QED
  BY <1>1, <1>t, <1>3, TesterElsewhere DEF TesterTypes

\* Rescan forgets the count and keeps the operation.
LEMMA RescanState ==
  ASSUME TesterState(tester), NEW p \in TesterPcs
  PROVE  /\ TesterState(Rescan(p)) /\ Rescan(p).pc = p /\ Rescan(p).count = 0
         /\ Rescan(p).index = tester.index /\ Rescan(p).need = tester.need
         /\ Rescan(p).cmd = tester.cmd
  BY CommitAssumption DEF Rescan, TesterState, Entries

\* The count at the end of a scan is the number of logs that hold the command.
LEMMA ScanEnds ==
  ASSUME CommitInv, NoErrors, tester.pc \in {"scan", "rescan"}, tester.j = N,
         tester.count > 0, tester.count >= tester.need
  PROVE  tester.seen # NoCmd /\ tester.need <= Cardinality(Holding(logs, N, tester.index, tester.seen))
<1>1. /\ tester.seen # NoCmd
      /\ tester.count <= Cardinality(Holding(logs, N, tester.index, tester.seen))
  BY DEF CommitInv, ScanCounts
<1>2. tester.count \in Int /\ tester.need \in Int /\ Cardinality(Holding(logs, N, tester.index, tester.seen)) \in Int
  BY HoldingFinite, CommitAssumption DEF CommitInv, TesterTypes, TesterState
<1> QED
  BY <1>1, <1>2

\* OneDecides keeps CommitInv.
LEMMA OneDecidesInv == ASSUME CommitInv, OneDecides PROVE CommitInv'
<1>t. /\ TesterState(tester) /\ tester.pc = "scan" /\ tester.j = N /\ N \in Nat
      /\ tester.need >= 1 /\ tester.index \in Indices
  BY CommitAssumption DEF CommitInv, TesterTypes, OneDecides
<1>m. TesterMoves
  BY DEF OneDecides, Tester, TesterMoves
<1>p. {"scan", "rescan", "returned", "try"} \subseteq TesterPcs
  BY DEF TesterPcs
<1>1. CASE OneAgreed /\ tester' = [Rescan("returned") EXCEPT !.retry = FALSE]
  <2>1. /\ TesterState(tester') /\ tester'.pc = "returned"
        /\ tester'.index = tester.index /\ tester'.need = tester.need /\ tester'.cmd = tester.cmd
    <3> DEFINE t == Rescan("returned")
    <3>1. /\ TesterState(t) /\ t.pc = "returned"
          /\ t.index = tester.index /\ t.need = tester.need /\ t.cmd = tester.cmd
      BY <1>t, <1>p, RescanState
    <3>2. tester' = [t EXCEPT !.retry = FALSE]
      BY <1>1
    <3> HIDE DEF t
    <3> QED
      BY <3>1, <3>2 DEF TesterState
  <2>2. logs' = logs /\ NoErrors' = NoErrors
    BY <1>m DEF TesterMoves, logVars, NoErrors
  <2>3. TesterTypes'
    BY <2>1, <1>t DEF TesterTypes
  <2>4. ReturnedHeld'
    BY <2>1, <2>2, <1>1, <1>t, ScanEnds DEF ReturnedHeld, OneAgreed
  <2>5. ScanCounts' /\ NoTesterAlarm'
    BY <2>1 DEF ScanCounts, NoTesterAlarm
  <2> QED
    BY <1>m, <2>3, <2>4, <2>5, TesterAlone
<1>2. CASE tester' = Rescan("scan")
  <2>1. /\ TesterState(tester') /\ tester'.pc = "scan" /\ tester'.count = 0
        /\ tester'.index = tester.index /\ tester'.need = tester.need
    BY <1>2, <1>t, <1>p, RescanState
  <2> QED
    BY <1>m, <2>1, <1>t, TesterElsewhere DEF TesterTypes
<1>3. CASE tester' = TryAgain
  <2> DEFINE t == Rescan("try")
  <2>1. TesterState(t) /\ t.pc = "try" /\ t.count = 0 /\ t.need = tester.need
    BY <1>t, <1>p, RescanState
  <2>2. tester' = [t EXCEPT !.si = N, !.index = 0]
    BY <1>3 DEF TryAgain
  <2> HIDE DEF t
  <2>3. TesterState(tester') /\ tester'.pc = "try" /\ tester'.count = 0 /\ tester'.need = tester.need
    BY <2>1, <2>2, <1>t, CommitAssumption DEF TesterState
  <2> QED
    BY <1>m, <2>3, <1>t, TesterElsewhere DEF TesterTypes
<1>4. CASE tester' = [tester EXCEPT !.pc = "Fatal:no-agreement"]
  <2>1. TesterState(tester') /\ tester'.pc = "Fatal:no-agreement"
    BY <1>4, <1>t DEF TesterState, TesterPcs
  <2> QED
    BY <1>m, <2>1, TesterElsewhere DEF TesterTypes
<1> QED
  BY <1>1, <1>2, <1>3, <1>4 DEF OneDecides, Tester

\* WaitDecides keeps CommitInv.
LEMMA WaitDecidesInv == ASSUME CommitInv, WaitDecides PROVE CommitInv'
<1>t. /\ TesterState(tester) /\ tester.pc = "scan" /\ tester.j = N
      /\ tester.need >= 1 /\ tester.index \in Indices
  BY DEF CommitInv, TesterTypes, WaitDecides
<1>m. TesterMoves
  BY DEF WaitDecides, Tester, TesterMoves
<1>1. CASE tester' = Idle
  <2>1. TesterState(tester') /\ tester'.pc = "idle"
    BY <1>1, CommitAssumption DEF Idle, TesterState, TesterPcs, Entries
  <2> QED
    BY <1>m, <2>1, TesterElsewhere DEF TesterTypes
<1>2. CASE tester' = Rescan("scan") \/ tester' = Rescan("rescan")
  <2>1. /\ TesterState(tester') /\ tester'.pc \in {"scan", "rescan"} /\ tester'.count = 0
        /\ tester'.index = tester.index /\ tester'.need = tester.need
    <3>1. "scan" \in TesterPcs /\ "rescan" \in TesterPcs
      BY DEF TesterPcs
    <3> QED
      BY <3>1, <1>2, <1>t, RescanState
  <2> QED
    BY <1>m, <2>1, <1>t, TesterElsewhere DEF TesterTypes
<1> QED
  BY <1>1, <1>2 DEF WaitDecides, Tester

\* WaitReturns keeps CommitInv.
LEMMA WaitReturnsInv == ASSUME CommitInv, WaitReturns PROVE CommitInv'
<1>t. /\ TesterState(tester) /\ tester.pc = "rescan" /\ tester.j = N
      /\ tester.need >= 1 /\ tester.index \in Indices /\ tester.seen \in Entries
  BY DEF CommitInv, TesterTypes, TesterState, WaitReturns
<1>m. TesterMoves
  BY DEF WaitReturns, Tester, TesterMoves
<1>1. CASE Enough(tester.need) /\ tester' = [Rescan("returned") EXCEPT !.cmd = tester.seen]
  <2>1. /\ TesterState(tester') /\ tester'.pc = "returned"
        /\ tester'.index = tester.index /\ tester'.need = tester.need /\ tester'.cmd = tester.seen
    <3> DEFINE t == Rescan("returned")
    <3>1. TesterState(t) /\ t.pc = "returned" /\ t.index = tester.index /\ t.need = tester.need
      BY <1>t, RescanState DEF TesterPcs
    <3>2. tester' = [t EXCEPT !.cmd = tester.seen]
      BY <1>1
    <3> HIDE DEF t
    <3> QED
      BY <3>1, <3>2, <1>t DEF TesterState
  <2>2. logs' = logs /\ NoErrors' = NoErrors
    BY <1>m DEF TesterMoves, logVars, NoErrors
  <2>3. TesterTypes'
    BY <2>1, <1>t DEF TesterTypes
  <2>4. tester.count > 0 /\ tester.count >= tester.need
    BY <1>1, <1>t, CommitAssumption DEF Enough, TesterState
  <2>5. ReturnedHeld'
    BY <2>1, <2>2, <2>4, <1>t, ScanEnds DEF ReturnedHeld
  <2>6. ScanCounts' /\ NoTesterAlarm'
    BY <2>1 DEF ScanCounts, NoTesterAlarm
  <2> QED
    BY <1>m, <2>3, <2>5, <2>6, TesterAlone
<1>2. CASE tester' = [tester EXCEPT !.pc = "Fatal:only-some-decided"]
  <2>1. TesterState(tester') /\ tester'.pc = "Fatal:only-some-decided"
    BY <1>2, <1>t DEF TesterState, TesterPcs
  <2> QED
    BY <1>m, <2>1, TesterElsewhere DEF TesterTypes
<1> QED
  BY <1>1, <1>2 DEF WaitReturns, Tester

\* Begin keeps CommitInv.
LEMMA BeginInv == ASSUME CommitInv, Begin PROVE CommitInv'
<1>1. maxIndex0' = maxIndex /\ UNCHANGED <<correct, decided, applied, logs, maxIndex, errMsg, tester>>
  BY DEF Begin, raftVars, logVars
<1>2. CommitTypes'
  BY <1>1, CommitAssumption DEF CommitInv, CommitTypes
<1>3. CorrectLogs' /\ CleanLogs'
  BY <1>1 DEF CommitInv, CorrectLogs, CleanLogs, NoErrors, Agree, NoGaps, ReachMaxIndex
<1> QED
  BY <1>1, <1>2, <1>3, TesterUnchanged DEF CommitInv

-----------------------------------------------------------------------------
\* Every step keeps CommitInv.
LEMMA CommitStepInv == CommitInv /\ [CommitNext]_commitVars => CommitInv'
<1> SUFFICES ASSUME CommitInv, [CommitNext]_commitVars PROVE CommitInv'
  OBVIOUS
<1>1. CASE TesterStep
  BY <1>1, CallOneInv, TryStartInv, RoundInv, NCommittedStepInv, OneDecidesInv, WaitDecidesInv,
     WaitReturnsInv, BeginInv DEF TesterStep
<1>2. CASE UNCHANGED commitVars
  <2>1. UNCHANGED judged /\ UNCHANGED <<tester, logs, errMsg, correct>>
    BY <1>2 DEF commitVars, raftVars, logVars, judged
  <2> QED
    BY <2>1, LogsUnchanged, TesterUnchanged DEF CommitInv
<1> QED
  BY <1>1, <1>2, DecideInv, ApplierInv, ApplierFatalInv, RestartInv DEF CommitNext

\* Correct Rafts are blamed by no applier and by no scan of nCommitted
\* (config.go:135-175, 390), for any servers, restarts and lengths of the log.
THEOREM CorrectRaftsNotBlamed == CommitSpec => []NoFalseAlarm
<1>1. CommitInv => NoFalseAlarm
  BY DEF CommitInv, CorrectLogs, NoTesterAlarm, NoFalseAlarm
<1> QED
  BY <1>1, CommitInitInv, CommitStepInv, PTL DEF CommitSpec

\* Logs that differ or have a gap are noticed by an applier (config.go:138-146),
\* whatever incorrect Rafts apply.
THEOREM DivergenceIsCaught == CommitSpec => []DivergenceCaught
<1>1. ASSUME CommitInv PROVE DivergenceCaught
  <2>1. ASSUME NEW k \in Indices, k > 1 PROVE k - 1 \in Indices /\ k - 1 <= k
    BY <2>1, CommitAssumption DEF Indices
  <2> QED
    BY <2>1, <1>1 DEF CommitInv, CleanLogs, Agree, NoGaps, DivergenceCaught
<1> QED
  BY <1>1, CommitInitInv, CommitStepInv, PTL DEF CommitSpec

\* What one and wait return was counted in that many logs, which still hold it
\* (config.go:424-429, 472-477), for any servers and any interleaving of the scan
\* with the appliers.
THEOREM ReturnedIsCommitted == CommitSpec => []ReturnedMeansCommitted
<1>1. ASSUME CommitInv PROVE ReturnedMeansCommitted
  <2> SUFFICES ASSUME tester.pc = "returned", NoErrors
               PROVE  Cardinality({i \in Servers : logs[i][tester.index] = tester.cmd}) >= tester.need
    BY DEF ReturnedMeansCommitted
  <2>1. Holding(logs, N, tester.index, tester.cmd) = {i \in Servers : logs[i][tester.index] = tester.cmd}
    BY DEF Holding, Servers
  <2>2. /\ tester.need <= Cardinality(Holding(logs, N, tester.index, tester.cmd))
        /\ Cardinality(Holding(logs, N, tester.index, tester.cmd)) \in Int /\ tester.need \in Int
    BY <1>1, HoldingFinite, CommitAssumption DEF CommitInv, ReturnedHeld, TesterTypes, TesterState
  <2> QED
    BY <2>1, <2>2
<1> QED
  BY <1>1, CommitInitInv, CommitStepInv, PTL DEF CommitSpec

\* The number of agreements that end() prints is right (config.go:148, 502, 517),
\* for any servers and lengths of the log.
THEOREM AgreementsAreCounted == CommitSpec => []AgreementsCounted
<1>1. ASSUME CommitInv PROVE AgreementsCounted
  <2> SUFFICES ASSUME NoErrors PROVE ncmds = Cardinality({k \in Committed : k > maxIndex0})
    BY DEF AgreementsCounted
  <2>1. /\ NoGaps /\ ReachMaxIndex
        /\ maxIndex \in Nat /\ maxIndex0 \in Nat /\ maxIndex0 <= maxIndex /\ maxIndex <= MaxIndex
    BY <1>1, CommitAssumption DEF CommitInv, CleanLogs, CommitTypes
  <2>2. ASSUME NEW k \in Indices PROVE k \in Committed <=> k <= maxIndex
    <3>1. ASSUME k <= maxIndex PROVE k \in Committed
      <4>1. maxIndex \in Indices /\ maxIndex > 0
        BY <2>1, <3>1, CommitAssumption DEF Indices
      <4>2. PICK i \in Servers : logs[i][maxIndex] # NoCmd
        BY <4>1, <2>1 DEF ReachMaxIndex
      <4> QED
        BY <4>1, <4>2, <3>1, <2>1 DEF NoGaps, Committed
    <3> QED
      BY <3>1, <2>1 DEF Committed, ReachMaxIndex
  <2>3. {k \in Committed : k > maxIndex0} = maxIndex0 + 1..maxIndex
    <3>1. \A k \in maxIndex0 + 1..maxIndex : k \in Indices /\ k > maxIndex0 /\ k <= maxIndex
      BY <2>1, CommitAssumption DEF Indices
    <3>2. Committed \subseteq Indices /\ \A k \in Indices : k \in Int
      BY DEF Committed, Indices
    <3> QED
      BY <3>1, <3>2, <2>1, <2>2
  <2>4. Cardinality(maxIndex0 + 1..maxIndex) = maxIndex - maxIndex0
    <3> DEFINE a == maxIndex0 + 1
    <3>1. a \in Int /\ maxIndex \in Int /\ maxIndex - a + 1 = maxIndex - maxIndex0
          /\ (a > maxIndex => maxIndex - maxIndex0 = 0)
      BY <2>1
    <3> HIDE DEF a
    <3>2. Cardinality(a..maxIndex) = IF a > maxIndex THEN 0 ELSE maxIndex - a + 1
      BY <3>1, FS_Interval
    <3>3. Cardinality(a..maxIndex) = maxIndex - maxIndex0
      BY <3>1, <3>2
    <3> QED
      BY <3>3 DEF a
  <2> QED
    BY <2>3, <2>4 DEF ncmds
<1> QED
  BY <1>1, CommitInitInv, CommitStepInv, PTL DEF CommitSpec

-----------------------------------------------------------------------------
(***************************************************************************)
(* Leaders.  The inductive invariant says where the entries of leaders     *)
(* come from, whatever happened since; and, if nothing has happened since  *)
(* the round began, that the servers asked so far are as they were found.  *)
(***************************************************************************)
LeaderTypes ==
  /\ term \in [Nodes -> Terms] /\ leads \in [Nodes -> BOOLEAN]
  /\ ledBy \in [Terms -> SUBSET Nodes] /\ connected \in SUBSET Nodes
  /\ at \in 0..Peers /\ leaders \in [Terms -> Seq(Nodes)]

\* Who leads has been recorded; safe Rafts have one leader per term.
History ==
  /\ \A i \in Nodes : leads[i] => i \in ledBy[term[i]]
  /\ safe => \A t \in Terms : \A i, j \in ledBy[t] : i = j

\* What checkOneLeader found did lead that term, and is found once.
Found ==
  /\ \A t \in Terms : \A k \in 1..Len(leaders[t]) : leaders[t][k] \in ledBy[t] /\ leaders[t][k] < at
  /\ \A t \in Terms : \A k, l \in 1..Len(leaders[t]) : leaders[t][k] = leaders[t][l] => k = l

\* The servers asked so far, if none has changed.
AskedLeaders ==
  ~moved /\ check = "checkOneLeader" =>
    /\ \A i \in connected : i < at /\ leads[i] =>
         \E k \in 1..Len(leaders[term[i]]) : leaders[term[i]][k] = i
    /\ \A t \in Terms : \A k \in 1..Len(leaders[t]) :
         /\ leaders[t][k] \in connected /\ leads[leaders[t][k]] /\ term[leaders[t][k]] = t

AskedTerms ==
  ~moved /\ check = "checkTerms" =>
    /\ \A i \in connected : i < at => term[i] = xterm
    /\ xterm # -1 => \E i \in connected : term[i] = xterm

AskedNoLeader == ~moved /\ check = "checkNoLeader" => \A i \in connected : i < at => ~leads[i]

LeaderInv ==
  /\ LeaderTypes /\ History /\ Found /\ AskedLeaders /\ AskedTerms /\ AskedNoLeader
  /\ LeadersNotFalselyAccused /\ VerdictsTrueWhenStill

-----------------------------------------------------------------------------
\* A nonempty set of natural numbers has a least element, and a bounded one a
\* greatest: lastTermWithLeader exists.
LEMMA LeastNat ==
  ASSUME NEW T, T \subseteq Nat, T # {}
  PROVE  \E x \in T : \A y \in T : x <= y
<1> DEFINE R == OpToRel(<, Nat)
<1>1. IsWellFoundedOn(R, Nat)
  BY NatLessThanWellFounded
<1>2. \A x, y \in Nat : y < x => <<y, x>> \in R
  BY DEF OpToRel
<1> HIDE DEF R
<1>3. PICK x \in T : \A y \in T : ~ (<<y, x>> \in R)
  BY <1>1, WFMin
<1>4. ASSUME NEW y \in T PROVE x <= y
  <2>1. x \in Nat /\ y \in Nat /\ ~(y < x)
    BY <1>2, <1>3
  <2> QED
    BY <2>1
<1> QED
  BY <1>4

\* A nonempty set of numbers below a bound has a greatest element.
LEMMA GreatestNat ==
  ASSUME NEW m \in Nat, NEW S, S \subseteq 0..m, S # {}
  PROVE  \E x \in S : \A y \in S : y <= x
<1> DEFINE T == {m - x : x \in S}
<1>1. T \subseteq Nat
  <2>1. \A x \in S : m - x \in Nat
    OBVIOUS
  <2> QED
    BY <2>1
<1>2. T # {}
  <2>1. PICK x \in S : TRUE
    OBVIOUS
  <2>2. m - x \in T
    OBVIOUS
  <2> QED
    BY <2>2
<1>3. \E z \in T : \A y \in T : z <= y
  <2> HIDE DEF T
  <2> QED
    BY <1>1, <1>2, LeastNat
<1>4. PICK x \in S : \A y \in S : m - x <= m - y
  BY <1>3
<1>5. ASSUME NEW y \in S PROVE y <= x
  <2>1. x \in Int /\ y \in Int /\ m - x <= m - y
    BY <1>4
  <2> QED
    BY <2>1
<1> QED
  BY <1>5

\* lastTermWithLeader is the last term in which a leader was found.
LEMMA LastTermFound ==
  ASSUME FoundIn # {}
  PROVE  lastTermWithLeader \in FoundIn /\ \A u \in FoundIn : u <= lastTermWithLeader
<1>1. FoundIn \subseteq 0..MaxTerm /\ MaxTerm \in Nat
  BY LeaderAssumption DEF FoundIn, Terms
<1>2. \E t \in FoundIn : \A u \in FoundIn : u <= t
  BY <1>1, GreatestNat
<1> QED
  BY <1>2 DEF lastTermWithLeader

-----------------------------------------------------------------------------
\* LeaderInv holds initially.
LEMMA LeaderInitInv == LeaderInit => LeaderInv
<1> SUFFICES ASSUME LeaderInit PROVE LeaderInv
  OBVIOUS
<1>1. LeaderTypes
  BY LeaderAssumption DEF LeaderInit, LeaderTypes, Terms
<1>2. leaders \in [Terms -> Seq(Nodes)] /\ \A t \in Terms : leaders[t] = <<>> /\ Len(leaders[t]) = 0
  BY DEF LeaderInit
<1>3. History
  BY DEF LeaderInit, History
<1>4. Found
  BY <1>2 DEF Found
<1>5. AskedLeaders /\ AskedTerms /\ AskedNoLeader
  BY DEF LeaderInit, AskedLeaders, AskedTerms, AskedNoLeader
<1>6. LeadersNotFalselyAccused /\ VerdictsTrueWhenStill
  BY DEF LeaderInit, LeadersNotFalselyAccused, VerdictsTrueWhenStill
<1> QED
  BY <1>1, <1>3, <1>4, <1>5, <1>6 DEF LeaderInv

\* A change of a server leaves only what holds whatever happened.
LEMMA MovedInv ==
  ASSUME LeaderInv, moved', LeaderTypes', History', UNCHANGED <<safe, scanVars>>,
         \A t \in Terms : ledBy[t] \subseteq ledBy'[t]
  PROVE  LeaderInv'
<1>1. UNCHANGED <<safe, check, at, leaders>>
  BY DEF scanVars
<1>2. Found'
  BY <1>1 DEF LeaderInv, Found
<1>3. (AskedLeaders /\ AskedTerms /\ AskedNoLeader /\ VerdictsTrueWhenStill)'
  BY DEF AskedLeaders, AskedTerms, AskedNoLeader, VerdictsTrueWhenStill
<1>4. LeadersNotFalselyAccused'
  BY <1>1 DEF LeaderInv, LeadersNotFalselyAccused
<1> QED
  BY <1>2, <1>3, <1>4 DEF LeaderInv

\* NewTerm keeps LeaderInv.
LEMMA NewTermInv == ASSUME LeaderInv, NEW i \in Nodes, NewTerm(i) PROVE LeaderInv'
<1>1. PICK t \in term[i] + 1..MaxTerm : term' = [term EXCEPT ![i] = t]
  BY DEF NewTerm
<1>2. leads' = [leads EXCEPT ![i] = FALSE] /\ moved' = TRUE /\ UNCHANGED <<safe, ledBy, connected, scanVars>>
  BY DEF NewTerm
<1>3. t \in Terms
  BY <1>1, LeaderAssumption DEF LeaderInv, LeaderTypes, Terms
<1>4. LeaderTypes'
  BY <1>1, <1>2, <1>3 DEF LeaderInv, LeaderTypes, scanVars
<1>5. History'
  BY <1>1, <1>2 DEF LeaderInv, LeaderTypes, History
<1> QED
  BY <1>2, <1>4, <1>5, MovedInv

\* BecomeLeader keeps LeaderInv.
LEMMA BecomeLeaderInv == ASSUME LeaderInv, NEW i \in Nodes, BecomeLeader(i) PROVE LeaderInv'
<1>1. /\ safe => ledBy[term[i]] \subseteq {i}
      /\ leads' = [leads EXCEPT ![i] = TRUE]
      /\ ledBy' = [ledBy EXCEPT ![term[i]] = @ \cup {i}]
      /\ moved' = TRUE /\ UNCHANGED <<safe, term, connected, scanVars>>
  BY DEF BecomeLeader
<1>2. term[i] \in Terms
  BY DEF LeaderInv, LeaderTypes
<1>3. \A t \in Terms : ledBy'[t] = IF t = term[i] THEN ledBy[t] \cup {i} ELSE ledBy[t]
  BY <1>1 DEF LeaderInv, LeaderTypes
<1>4. LeaderTypes'
  BY <1>1, <1>2 DEF LeaderInv, LeaderTypes, scanVars
<1>5. History'
  <2>1. \A j \in Nodes : leads'[j] => j \in ledBy'[term'[j]]
    BY <1>1, <1>2, <1>3 DEF LeaderInv, LeaderTypes, History
  <2>2. ASSUME safe, NEW t \in Terms, NEW j \in ledBy'[t], NEW k \in ledBy'[t] PROVE j = k
    <3>1. CASE t = term[i]
      <4>1. ledBy'[t] \subseteq {i}
        BY <3>1, <2>2, <1>1, <1>3
      <4> QED
        BY <4>1
    <3>2. CASE t # term[i]
      BY <3>2, <2>2, <1>3 DEF LeaderInv, History
    <3> QED
      BY <3>1, <3>2
  <2> QED
    BY <2>1, <2>2, <1>1 DEF History
<1>6. \A t \in Terms : ledBy[t] \subseteq ledBy'[t]
  BY <1>3
<1> QED
  BY <1>1, <1>4, <1>5, <1>6, MovedInv


\* Rewire keeps LeaderInv.
LEMMA RewireInv == ASSUME LeaderInv, Rewire PROVE LeaderInv'
<1>1. /\ connected' \in SUBSET Nodes /\ check' = "none" /\ moved' = TRUE
      /\ UNCHANGED <<safe, term, leads, ledBy, at, leaders>>
  BY DEF Rewire
<1>2. LeaderTypes' /\ History' /\ Found'
  BY <1>1 DEF LeaderInv, LeaderTypes, History, Found
<1>3. (AskedLeaders /\ AskedTerms /\ AskedNoLeader)'
  BY <1>1 DEF AskedLeaders, AskedTerms, AskedNoLeader
<1>4. (LeadersNotFalselyAccused /\ VerdictsTrueWhenStill)'
  BY <1>1 DEF LeadersNotFalselyAccused, VerdictsTrueWhenStill
<1> QED
  BY <1>2, <1>3, <1>4 DEF LeaderInv

\* A round that begins has asked nobody.
LEMMA RoundBegins ==
  ASSUME LeaderInv, check' \in {"checkOneLeader", "checkTerms", "checkNoLeader"},
         at' = 0, leaders' = [t \in Terms |-> <<>>], xterm' = -1 \/ check' = "checkOneLeader",
         UNCHANGED electionVars
  PROVE  LeaderInv'
<1>1. UNCHANGED <<safe, term, leads, ledBy, connected>>
  BY DEF electionVars
<1>2. leaders' \in [Terms -> Seq(Nodes)] /\ \A t \in Terms : leaders'[t] = <<>> /\ Len(leaders'[t]) = 0
  OBVIOUS
<1>3. LeaderTypes' /\ History'
  BY <1>1, <1>2, LeaderAssumption DEF LeaderInv, LeaderTypes, History
<1>4. Found'
  BY <1>2 DEF Found
<1>5. \A i \in connected' : ~(i < at')
  BY <1>1 DEF LeaderInv, LeaderTypes, Nodes
<1>6. AskedLeaders'
  BY <1>2, <1>5 DEF AskedLeaders
<1>7. AskedTerms' /\ AskedNoLeader'
  BY <1>5 DEF AskedTerms, AskedNoLeader
<1>8. (LeadersNotFalselyAccused /\ VerdictsTrueWhenStill)'
  BY DEF LeadersNotFalselyAccused, VerdictsTrueWhenStill
<1> QED
  BY <1>3, <1>4, <1>6, <1>7, <1>8 DEF LeaderInv

\* CheckOneLeader, CheckTerms and CheckNoLeader keep LeaderInv.
LEMMA BeginCheckInv ==
  ASSUME LeaderInv, CheckOneLeader \/ CheckTerms \/ CheckNoLeader PROVE LeaderInv'
  BY RoundBegins DEF CheckOneLeader, CheckTerms, CheckNoLeader, BeginCheck

\* The leaders found are servers asked already, and stay so.
LEMMA FoundAreServers ==
  ASSUME LeaderInv, NEW t \in Terms
  PROVE  /\ leaders[t] \in Seq(Nodes) /\ Len(leaders[t]) \in Nat
         /\ \A k \in 1..Len(leaders[t]) : leaders[t][k] \in Nodes /\ leaders[t][k] \in Int
<1>1. leaders[t] \in Seq(Nodes) /\ Peers \in Nat
  BY LeaderAssumption DEF LeaderInv, LeaderTypes
<1> DEFINE s == leaders[t]
<1>2. ASSUME NEW k \in 1..Len(s) PROVE s[k] \in Nodes
  <2>1. s \in Seq(Nodes)
    BY <1>1
  <2> HIDE DEF s
  <2> QED
    BY <2>1
<1>3. Nodes \subseteq Int
  BY <1>1 DEF Nodes
<1>4. Len(s) \in Nat
  BY <1>1
<1> QED
  BY <1>1, <1>2, <1>3, <1>4

\* Passing a server that is not added to leaders keeps what was found.
LEMMA FoundBefore ==
  ASSUME LeaderInv, at' = at + 1, UNCHANGED <<leaders, ledBy>> PROVE Found'
<1>1. at \in Int
  BY DEF LeaderInv, LeaderTypes
<1>2. ASSUME NEW t \in Terms, NEW k \in 1..Len(leaders[t]) PROVE leaders[t][k] < at'
  <2>1. leaders[t][k] \in Int
    BY FoundAreServers
  <2>2. leaders[t][k] < at
    BY DEF LeaderInv, Found
  <2> QED
    BY <1>1, <2>1, <2>2
<1> QED
  BY <1>2 DEF LeaderInv, Found

\* Skip keeps LeaderInv.
LEMMA SkipInv == ASSUME LeaderInv, Skip PROVE LeaderInv'
<1>1. /\ check \in {"checkOneLeader", "checkTerms", "checkNoLeader"}
      /\ at < Peers /\ at \notin connected /\ at' = at + 1
      /\ UNCHANGED <<safe, term, leads, ledBy, connected, check, leaders, xterm, moved>>
  BY DEF Skip, electionVars
<1>2. at \in Nat /\ at' \in 0..Peers
  BY <1>1, LeaderAssumption DEF LeaderInv, LeaderTypes
<1>3. \A i \in connected : i \in Int /\ (i < at' => i < at)
  BY <1>1, <1>2 DEF LeaderInv, LeaderTypes, Nodes
<1>4. LeaderTypes' /\ History'
  BY <1>1, <1>2 DEF LeaderInv, LeaderTypes, History
<1>5. Found'
  BY <1>1, FoundBefore
<1>6. AskedLeaders'
  BY <1>1, <1>3 DEF LeaderInv, AskedLeaders
<1>7. AskedTerms' /\ AskedNoLeader'
  BY <1>1, <1>3 DEF LeaderInv, AskedTerms, AskedNoLeader
<1>8. (LeadersNotFalselyAccused /\ VerdictsTrueWhenStill)'
  BY <1>1 DEF LeadersNotFalselyAccused, VerdictsTrueWhenStill
<1> QED
  BY <1>4, <1>5, <1>6, <1>7, <1>8 DEF LeaderInv

\* AskLeader keeps LeaderInv.
LEMMA AskLeaderInv == ASSUME LeaderInv, AskLeader PROVE LeaderInv'
<1>1. /\ check = "checkOneLeader" /\ at \in connected /\ at' = at + 1
      /\ leaders' = IF leads[at] THEN [leaders EXCEPT ![term[at]] = Append(@, at)] ELSE leaders
      /\ UNCHANGED <<safe, term, leads, ledBy, connected, check, xterm, moved>>
  BY DEF AskLeader, electionVars
<1>2. at \in Nodes /\ term[at] \in Terms /\ at \in Nat /\ at' \in 0..Peers
  BY <1>1, LeaderAssumption DEF LeaderInv, LeaderTypes, Nodes
<1>3. \A t \in Terms : leaders[t] \in Seq(Nodes) /\ Len(leaders[t]) \in Nat
                       /\ \A k \in 1..Len(leaders[t]) : leaders[t][k] \in Int
  BY FoundAreServers
<1>4. \A i \in connected : i \in Int /\ i \in Nodes /\ (i < at' => i < at \/ i = at)
  BY <1>1, <1>2 DEF LeaderInv, LeaderTypes, Nodes
<1>5. leaders' \in [Terms -> Seq(Nodes)]
  BY <1>1, <1>2 DEF LeaderInv, LeaderTypes
<1>6. ASSUME NEW t \in Terms
      PROVE  \/ leaders'[t] = leaders[t] /\ ~(leads[at] /\ t = term[at])
             \/ /\ leads[at] /\ t = term[at] /\ Len(leaders'[t]) = Len(leaders[t]) + 1
                /\ leaders'[t][Len(leaders[t]) + 1] = at
                /\ \A k \in 1..Len(leaders[t]) : leaders'[t][k] = leaders[t][k]
  <2>1. leaders'[t] = IF leads[at] /\ t = term[at] THEN Append(leaders[t], at) ELSE leaders[t]
    BY <1>1, <1>2 DEF LeaderInv, LeaderTypes
  <2> QED
    BY <2>1, <1>3
<1>7. ASSUME NEW t \in Terms, NEW k \in 1..Len(leaders'[t])
      PROVE  \/ k \in 1..Len(leaders[t]) /\ leaders'[t][k] = leaders[t][k]
             \/ k = Len(leaders[t]) + 1 /\ leaders'[t][k] = at /\ leads[at] /\ t = term[at]
  BY <1>3, <1>6
<1>8. LeaderTypes' /\ History'
  BY <1>1, <1>2, <1>5 DEF LeaderInv, LeaderTypes, History
<1>9. Found'
  <2>1. ASSUME NEW t \in Terms, NEW k \in 1..Len(leaders'[t])
        PROVE  leaders'[t][k] \in ledBy'[t] /\ leaders'[t][k] < at'
    BY <1>1, <1>2, <1>3, <1>7 DEF LeaderInv, History, Found
  <2>2. ASSUME NEW t \in Terms, NEW k \in 1..Len(leaders'[t]), NEW l \in 1..Len(leaders'[t]),
               leaders'[t][k] = leaders'[t][l]
        PROVE  k = l
    <3>1. \A m \in 1..Len(leaders[t]) : leaders[t][m] # at
      BY <1>2, <1>3 DEF LeaderInv, Found
    <3> QED
      BY <2>2, <3>1, <1>7 DEF LeaderInv, Found
  <2> QED
    BY <2>1, <2>2 DEF Found
<1>10. AskedLeaders'
  <2> SUFFICES ASSUME ~moved
               PROVE  /\ \A i \in connected : i < at' /\ leads[i] =>
                           \E k \in 1..Len(leaders'[term[i]]) : leaders'[term[i]][k] = i
                      /\ \A t \in Terms : \A k \in 1..Len(leaders'[t]) :
                           /\ leaders'[t][k] \in connected /\ leads[leaders'[t][k]]
                           /\ term[leaders'[t][k]] = t
    BY <1>1 DEF AskedLeaders
  <2>1. ASSUME NEW i \in connected, i < at', leads[i]
        PROVE  \E k \in 1..Len(leaders'[term[i]]) : leaders'[term[i]][k] = i
    <3>1. term[i] \in Terms
      BY <1>4 DEF LeaderInv, LeaderTypes
    <3>2. CASE i = at
      <4>1. Len(leaders'[term[i]]) = Len(leaders[term[i]]) + 1
            /\ leaders'[term[i]][Len(leaders[term[i]]) + 1] = i
        BY <3>1, <3>2, <2>1, <1>6
      <4>2. Len(leaders[term[i]]) \in Nat
        BY <3>1, <1>3
      <4>3. Len(leaders[term[i]]) + 1 \in 1..Len(leaders'[term[i]])
        BY <4>1, <4>2
      <4> QED
        BY <4>1, <4>3
    <3>3. CASE i < at
      <4>1. PICK k \in 1..Len(leaders[term[i]]) : leaders[term[i]][k] = i
        BY <3>3, <2>1, <1>1 DEF LeaderInv, AskedLeaders
      <4> DEFINE n == Len(leaders[term[i]])
      <4>2. \/ leaders'[term[i]] = leaders[term[i]]
            \/ Len(leaders'[term[i]]) = n + 1 /\ leaders'[term[i]][k] = leaders[term[i]][k]
        BY <3>1, <1>6
      <4>3. n \in Nat
        BY <3>1, <1>3
      <4>4. k \in 1..n + 1
        BY <4>3
      <4>5. k \in 1..Len(leaders'[term[i]]) /\ leaders'[term[i]][k] = leaders[term[i]][k]
        BY <4>2, <4>4
      <4> QED
        BY <4>1, <4>5
    <3> QED
      BY <3>2, <3>3, <2>1, <1>4
  <2>2. ASSUME NEW t \in Terms, NEW k \in 1..Len(leaders'[t])
        PROVE  leaders'[t][k] \in connected /\ leads[leaders'[t][k]] /\ term[leaders'[t][k]] = t
    BY <1>1, <1>7 DEF LeaderInv, AskedLeaders
  <2> QED
    BY <2>1, <2>2
<1>11. AskedTerms' /\ AskedNoLeader'
  BY <1>1 DEF AskedTerms, AskedNoLeader
<1>12. (LeadersNotFalselyAccused /\ VerdictsTrueWhenStill)'
  BY <1>1 DEF LeadersNotFalselyAccused, VerdictsTrueWhenStill
<1> QED
  BY <1>8, <1>9, <1>10, <1>11, <1>12 DEF LeaderInv

\* A check that ends leaves what was found, and has to be right.
LEMMA CheckEnds ==
  ASSUME LeaderInv, check' \notin {"checkOneLeader", "checkTerms", "checkNoLeader"},
         UNCHANGED <<electionVars, at, leaders>>,
         LeadersNotFalselyAccused', VerdictsTrueWhenStill'
  PROVE  LeaderInv'
<1>1. UNCHANGED <<safe, term, leads, ledBy, connected, at, leaders>>
  BY DEF electionVars
<1>2. LeaderTypes' /\ History' /\ Found'
  BY <1>1 DEF LeaderInv, LeaderTypes, History, Found
<1>3. (AskedLeaders /\ AskedTerms /\ AskedNoLeader)'
  BY DEF AskedLeaders, AskedTerms, AskedNoLeader
<1> QED
  BY <1>2, <1>3 DEF LeaderInv

\* EndOfRound keeps LeaderInv.
LEMMA EndOfRoundInv == ASSUME LeaderInv, EndOfRound PROVE LeaderInv'
<1>1. check = "checkOneLeader" /\ at = Peers /\ UNCHANGED electionVars
      /\ UNCHANGED <<safe, term, leads, ledBy, connected>>
  BY DEF EndOfRound, electionVars
<1>2. \A i \in connected : i \in Nodes /\ i < at
  BY <1>1, LeaderAssumption DEF LeaderInv, LeaderTypes, Nodes
<1>3. \A t \in Terms : leaders[t] \in Seq(Nodes) /\ Len(leaders[t]) \in Nat
  BY DEF LeaderInv, LeaderTypes
<1>4. \A t \in Terms : leaders[t] # <<>> <=> Len(leaders[t]) > 0
  BY <1>3
<1>5. \A i \in connected : ~moved /\ leads[i] => term[i] \in FoundIn
  <2> SUFFICES ASSUME NEW i \in connected, ~moved, leads[i] PROVE term[i] \in FoundIn
    OBVIOUS
  <2>1. term[i] \in Terms
    BY <1>2 DEF LeaderInv, LeaderTypes
  <2>2. \E k \in 1..Len(leaders[term[i]]) : leaders[term[i]][k] = i
    BY <1>1, <1>2 DEF LeaderInv, AskedLeaders
  <2> QED
    BY <2>1, <2>2, <1>3, <1>4 DEF FoundIn
<1>6. CASE /\ \E t \in Terms : Len(leaders[t]) > 1
           /\ check' = "Fatal:several-leaders" /\ UNCHANGED <<at, leaders>>
  <2>1. ~safe
    <3> SUFFICES ASSUME safe PROVE FALSE
      OBVIOUS
    <3>1. PICK t \in Terms : Len(leaders[t]) > 1
      BY <1>6
    <3>2. 1 \in 1..Len(leaders[t]) /\ 2 \in 1..Len(leaders[t])
      BY <3>1, <1>3
    <3>3. leaders[t][1] \in ledBy[t] /\ leaders[t][2] \in ledBy[t] /\ leaders[t][1] # leaders[t][2]
      BY <3>2 DEF LeaderInv, Found
    <3> QED
      BY <3>3 DEF LeaderInv, History
  <2>2. LeadersNotFalselyAccused' /\ VerdictsTrueWhenStill'
    BY <2>1, <1>1, <1>6 DEF LeadersNotFalselyAccused, VerdictsTrueWhenStill
  <2> QED
    BY <2>2, <1>1, <1>6, CheckEnds
<1>7. CASE /\ \A t \in Terms : Len(leaders[t]) <= 1
           /\ FoundIn # {}
           /\ check' = "returned-leader" /\ result' = leaders[lastTermWithLeader][1]
           /\ UNCHANGED <<at, leaders, moved>>
  <2> DEFINE last == lastTermWithLeader
             who == leaders[last][1]
  <2>1. last \in FoundIn /\ \A u \in FoundIn : u <= last
    BY <1>7, LastTermFound
  <2>2. last \in Terms /\ 1 \in 1..Len(leaders[last]) /\ Len(leaders[last]) <= 1
    BY <2>1, <1>3, <1>4, <1>7 DEF FoundIn
  <2> HIDE DEF last
  <2>3. ASSUME ~moved PROVE who \in connected /\ leads[who] /\ term[who] = last
    BY <2>2, <2>3, <1>1 DEF LeaderInv, AskedLeaders
  <2>4. ASSUME ~moved, NEW i \in connected \ {who}, leads[i] PROVE term[i] < term[who]
    <3>1. term[i] \in FoundIn /\ term[i] \in Terms
      BY <2>4, <1>2, <1>5 DEF FoundIn
    <3>2. term[i] # last
      <4> SUFFICES ASSUME term[i] = last PROVE FALSE
        OBVIOUS
      <4>1. PICK k \in 1..Len(leaders[last]) : leaders[last][k] = i
        BY <2>4, <1>1, <1>2 DEF LeaderInv, AskedLeaders
      <4>2. k = 1
        BY <2>2, <1>3
      <4> QED
        BY <4>1, <4>2, <2>4
    <3> QED
      BY <3>1, <3>2, <2>1, <2>2, <2>3, <2>4 DEF Terms
  <2>5. result' = who
    BY <1>7 DEF last
  <2>6. LeadersNotFalselyAccused' /\ VerdictsTrueWhenStill'
    <3> HIDE DEF who
    <3> QED
      BY <2>3, <2>4, <2>5, <1>1, <1>7 DEF LeadersNotFalselyAccused, VerdictsTrueWhenStill
  <2> QED
    BY <2>6, <1>1, <1>7, CheckEnds
<1>8. CASE /\ at' = 0 /\ leaders' = [t \in Terms |-> <<>>] /\ moved' = FALSE /\ UNCHANGED check
  BY <1>1, <1>8, RoundBegins
<1>9. CASE /\ FoundIn = {} /\ check' = "Fatal:no-leader" /\ UNCHANGED <<at, leaders, result, moved>>
  <2>1. \A i \in connected : ~moved => ~leads[i]
    BY <1>5, <1>9
  <2>2. LeadersNotFalselyAccused' /\ VerdictsTrueWhenStill'
    BY <2>1, <1>1, <1>9 DEF LeadersNotFalselyAccused, VerdictsTrueWhenStill
  <2> QED
    BY <2>2, <1>1, <1>9, CheckEnds
<1> QED
  BY <1>6, <1>7, <1>8, <1>9 DEF EndOfRound

\* AskTerm keeps LeaderInv.
LEMMA AskTermInv == ASSUME LeaderInv, AskTerm PROVE LeaderInv'
<1>1. /\ check = "checkTerms" /\ at \in connected /\ UNCHANGED electionVars
      /\ UNCHANGED <<safe, term, leads, ledBy, connected, leaders, moved>>
  BY DEF AskTerm, electionVars
<1>2. at \in Nodes /\ at \in Nat /\ at + 1 \in 0..Peers /\ term[at] \in Terms
  BY <1>1, LeaderAssumption DEF LeaderInv, LeaderTypes, Nodes
<1>3. CASE TermDiffers /\ check' = "Fatal:terms" /\ UNCHANGED <<at, xterm>>
  <2>1. ~moved => \E i, j \in connected : term[i] # term[j]
    BY <1>1, <1>3 DEF LeaderInv, AskedTerms, TermDiffers
  <2>2. LeadersNotFalselyAccused' /\ VerdictsTrueWhenStill'
    BY <2>1, <1>1, <1>3 DEF LeadersNotFalselyAccused, VerdictsTrueWhenStill
  <2> QED
    BY <2>2, <1>1, <1>3, CheckEnds
<1>4. CASE ~TermDiffers /\ xterm' = term[at] /\ at' = at + 1 /\ UNCHANGED check
  <2>1. LeaderTypes' /\ History'
    BY <1>1, <1>2, <1>4 DEF LeaderInv, LeaderTypes, History
  <2>2. Found'
    BY <1>1, <1>4, FoundBefore
  <2>3. AskedTerms'
    <3>1. \A i \in connected : i \in Int /\ (i < at + 1 => i < at \/ i = at)
      BY <1>2 DEF LeaderInv, LeaderTypes, Nodes
    <3>2. ASSUME ~moved, NEW i \in connected, i < at PROVE term[i] = term[at]
      <4>1. term[i] = xterm /\ term[i] \in Terms
        BY <3>2, <1>1 DEF LeaderInv, AskedTerms, LeaderTypes
      <4>2. xterm # -1
        BY <4>1 DEF Terms
      <4> QED
        BY <4>1, <4>2, <1>4 DEF TermDiffers
    <3> QED
      BY <3>1, <3>2, <1>1, <1>4 DEF AskedTerms
  <2>4. AskedLeaders' /\ AskedNoLeader'
    BY <1>1, <1>4 DEF AskedLeaders, AskedNoLeader
  <2>5. (LeadersNotFalselyAccused /\ VerdictsTrueWhenStill)'
    BY <1>1, <1>4 DEF LeadersNotFalselyAccused, VerdictsTrueWhenStill
  <2> QED
    BY <2>1, <2>2, <2>3, <2>4, <2>5 DEF LeaderInv
<1> QED
  BY <1>3, <1>4 DEF AskTerm

\* AskNoLeader keeps LeaderInv.
LEMMA AskNoLeaderInv == ASSUME LeaderInv, AskNoLeader PROVE LeaderInv'
<1>1. /\ check = "checkNoLeader" /\ at \in connected /\ UNCHANGED electionVars
      /\ UNCHANGED <<safe, term, leads, ledBy, connected, leaders, moved>>
  BY DEF AskNoLeader, electionVars
<1>2. at \in Nodes /\ at \in Nat /\ at + 1 \in 0..Peers
  BY <1>1, LeaderAssumption DEF LeaderInv, LeaderTypes, Nodes
<1>3. CASE leads[at] /\ check' = "Fatal:a-leader" /\ UNCHANGED at
  <2>1. LeadersNotFalselyAccused' /\ VerdictsTrueWhenStill'
    BY <1>1, <1>3 DEF LeadersNotFalselyAccused, VerdictsTrueWhenStill
  <2> QED
    BY <2>1, <1>1, <1>3, CheckEnds
<1>4. CASE ~leads[at] /\ at' = at + 1 /\ UNCHANGED check
  <2>1. LeaderTypes' /\ History'
    BY <1>1, <1>2, <1>4 DEF LeaderInv, LeaderTypes, History
  <2>2. Found'
    BY <1>1, <1>4, FoundBefore
  <2>3. AskedNoLeader'
    <3>1. \A i \in connected : i \in Int /\ (i < at + 1 => i < at \/ i = at)
      BY <1>2 DEF LeaderInv, LeaderTypes, Nodes
    <3> QED
      BY <3>1, <1>1, <1>4 DEF LeaderInv, AskedNoLeader
  <2>4. AskedLeaders' /\ AskedTerms'
    BY <1>1, <1>4 DEF AskedLeaders, AskedTerms
  <2>5. (LeadersNotFalselyAccused /\ VerdictsTrueWhenStill)'
    BY <1>1, <1>4 DEF LeadersNotFalselyAccused, VerdictsTrueWhenStill
  <2> QED
    BY <2>1, <2>2, <2>3, <2>4, <2>5 DEF LeaderInv
<1> QED
  BY <1>3, <1>4 DEF AskNoLeader

\* Pass keeps LeaderInv.
LEMMA PassInv == ASSUME LeaderInv, Pass PROVE LeaderInv'
<1>1. /\ at = Peers /\ UNCHANGED <<electionVars, at, leaders, moved>>
      /\ UNCHANGED <<safe, term, leads, ledBy, connected>>
  BY DEF Pass, electionVars
<1>2. \A i \in connected : i < at
  BY <1>1, LeaderAssumption DEF LeaderInv, LeaderTypes, Nodes
<1>3. LeadersNotFalselyAccused' /\ VerdictsTrueWhenStill'
  <2>1. CASE check = "checkTerms" /\ check' = "returned-term" /\ result' = xterm
    BY <2>1, <1>1, <1>2 DEF LeaderInv, AskedTerms, LeadersNotFalselyAccused, VerdictsTrueWhenStill
  <2>2. CASE check = "checkNoLeader" /\ check' = "passed"
    BY <2>2, <1>1, <1>2 DEF LeaderInv, AskedNoLeader, LeadersNotFalselyAccused, VerdictsTrueWhenStill
  <2> QED
    BY <2>1, <2>2 DEF Pass
<1>4. check' \notin {"checkOneLeader", "checkTerms", "checkNoLeader"}
  BY DEF Pass
<1> QED
  BY <1>1, <1>3, <1>4, CheckEnds

-----------------------------------------------------------------------------
\* Every step keeps LeaderInv.
LEMMA LeaderStepInv == LeaderInv /\ [LeaderNext]_leaderVars => LeaderInv'
<1> SUFFICES ASSUME LeaderInv, [LeaderNext]_leaderVars PROVE LeaderInv'
  OBVIOUS
<1>1. CASE UNCHANGED leaderVars
  <2>1. UNCHANGED <<safe, term, leads, ledBy, connected, check, at, leaders, xterm, result, moved>>
    BY <1>1 DEF leaderVars, electionVars, scanVars
  <2>2. LeaderTypes' /\ History' /\ Found'
    BY <2>1 DEF LeaderInv, LeaderTypes, History, Found
  <2>3. (AskedLeaders /\ AskedTerms /\ AskedNoLeader)'
    BY <2>1 DEF LeaderInv, AskedLeaders, AskedTerms, AskedNoLeader
  <2>4. (LeadersNotFalselyAccused /\ VerdictsTrueWhenStill)'
    BY <2>1 DEF LeaderInv, LeadersNotFalselyAccused, VerdictsTrueWhenStill
  <2> QED
    BY <2>2, <2>3, <2>4 DEF LeaderInv
<1> QED
  BY <1>1, NewTermInv, BecomeLeaderInv, RewireInv, BeginCheckInv, SkipInv, AskLeaderInv,
     EndOfRoundInv, AskTermInv, AskNoLeaderInv, PassInv DEF LeaderNext

\* Safe Rafts are never accused of several leaders in a term (config.go:322-334),
\* for any servers, terms and rounds and any changes during the scan.
THEOREM SafeLeadersNotAccused == LeaderSpec => []LeadersNotFalselyAccused
<1>1. LeaderInv => LeadersNotFalselyAccused
  BY DEF LeaderInv
<1> QED
  BY <1>1, LeaderInitInv, LeaderStepInv, PTL DEF LeaderSpec

\* What checkOneLeader, checkTerms and checkNoLeader say is true of the connected
\* servers, if none changed since the round began (config.go:321-342, 349-374),
\* for any servers and terms, whether the Rafts are safe or not.
THEOREM StillVerdictsAreTrue == LeaderSpec => []VerdictsTrueWhenStill
<1>1. LeaderInv => VerdictsTrueWhenStill
  BY DEF LeaderInv
<1> QED
  BY <1>1, LeaderInitInv, LeaderStepInv, PTL DEF LeaderSpec

(***************************************************************************)
(* labgob.  What a list holds, and how often.                              *)
(***************************************************************************)
Holds(s, x) == \E k \in 1..Len(s) : s[k] = x
Once(s, x) == \A k, l \in 1..Len(s) : s[k] = x /\ s[l] = x => k = l

\* The empty list.
LEMMA EmptyHolds == ASSUME NEW x PROVE ~Holds(<<>>, x) /\ Once(<<>>, x)
  BY DEF Holds, Once

\* A list of one.
LEMMA SingleHolds ==
  ASSUME NEW S, NEW y \in S, NEW x
  PROVE  (Holds(<<y>>, x) <=> x = y) /\ Once(<<y>>, x)
<1>1. Len(<<y>>) = 1 /\ <<y>>[1] = y
  OBVIOUS
<1> QED
  BY <1>1 DEF Holds, Once

\* A list of two.
LEMMA PairHolds ==
  ASSUME NEW S, NEW y \in S, NEW z \in S, NEW x
  PROVE  Holds(<<y, z>>, x) <=> x = y \/ x = z
<1>1. Len(<<y, z>>) = 2 /\ <<y, z>>[1] = y /\ <<y, z>>[2] = z
  OBVIOUS
<1>2. 1..2 = {1, 2}
  OBVIOUS
<1> QED
  BY <1>1, <1>2 DEF Holds

\* Where the elements of a concatenation come from.
LEMMA ConcatAt ==
  ASSUME NEW S, NEW a \in Seq(S), NEW b \in Seq(S)
  PROVE  /\ Len(a) \in Nat /\ Len(b) \in Nat /\ Len(a \o b) = Len(a) + Len(b)
         /\ \A k \in 1..Len(a) : k \in 1..Len(a \o b) /\ (a \o b)[k] = a[k]
         /\ \A k \in 1..Len(b) : k + Len(a) \in 1..Len(a \o b) /\ (a \o b)[k + Len(a)] = b[k]
         /\ \A k \in 1..Len(a \o b) : k \notin 1..Len(a) => k - Len(a) \in 1..Len(b) /\ (a \o b)[k] = b[k - Len(a)]
<1>1. Len(a) \in Nat /\ Len(b) \in Nat /\ Len(a \o b) = Len(a) + Len(b)
  OBVIOUS
<1>2. ASSUME NEW k \in 1..Len(a) PROVE k \in 1..Len(a \o b) /\ (a \o b)[k] = a[k]
  <2>1. k \in 1..Len(a) + Len(b)
    BY <1>1
  <2> QED
    BY <1>1, <2>1
<1>3. ASSUME NEW k \in 1..Len(b)
      PROVE  k + Len(a) \in 1..Len(a \o b) /\ (a \o b)[k + Len(a)] = b[k]
  <2> DEFINE m == k + Len(a)
  <2>1. m \in 1..Len(a) + Len(b) /\ m > Len(a) /\ m - Len(a) = k
    BY <1>1
  <2> HIDE DEF m
  <2>2. m \in 1..Len(a \o b) /\ (a \o b)[m] = b[m - Len(a)]
    BY <1>1, <2>1
  <2> QED
    BY <2>1, <2>2 DEF m
<1>4. ASSUME NEW k \in 1..Len(a \o b), k \notin 1..Len(a)
      PROVE  k - Len(a) \in 1..Len(b) /\ (a \o b)[k] = b[k - Len(a)]
  <2>1. k > Len(a) /\ k \in 1..Len(a) + Len(b)
    BY <1>1, <1>4
  <2> QED
    BY <1>1, <2>1
<1> QED
  BY <1>1, <1>2, <1>3, <1>4, Zenon

\* A concatenation holds what its parts hold.
LEMMA ConcatHolds ==
  ASSUME NEW S, NEW a \in Seq(S), NEW b \in Seq(S), NEW x
  PROVE  /\ Holds(a \o b, x) <=> Holds(a, x) \/ Holds(b, x)
         /\ Once(a, x) /\ Once(b, x) /\ ~(Holds(a, x) /\ Holds(b, x)) => Once(a \o b, x)
<1>1. Holds(a, x) => Holds(a \o b, x)
  BY ConcatAt DEF Holds
<1>2. ASSUME NEW k \in 1..Len(b), b[k] = x PROVE Holds(a \o b, x)
  <2>1. k + Len(a) \in 1..Len(a \o b) /\ (a \o b)[k + Len(a)] = x
    BY <1>2, ConcatAt
  <2> QED
    BY <2>1 DEF Holds
<1>3. Holds(a \o b, x) => Holds(a, x) \/ Holds(b, x)
  BY ConcatAt DEF Holds
<1>4. ASSUME Once(a, x), Once(b, x), ~(Holds(a, x) /\ Holds(b, x)),
             NEW k \in 1..Len(a \o b), NEW l \in 1..Len(a \o b), (a \o b)[k] = x, (a \o b)[l] = x
      PROVE  k = l
  <2>0. ASSUME NEW m \in 1..Len(a \o b), (a \o b)[m] = x
        PROVE  \/ m \in 1..Len(a) /\ a[m] = x /\ Holds(a, x)
               \/ m \notin 1..Len(a) /\ m - Len(a) \in 1..Len(b) /\ b[m - Len(a)] = x /\ Holds(b, x)
    <3>1. CASE m \in 1..Len(a)
      BY <2>0, <3>1, ConcatAt DEF Holds
    <3>2. CASE m \notin 1..Len(a)
      <4>1. m - Len(a) \in 1..Len(b) /\ b[m - Len(a)] = x
        BY <2>0, <3>2, ConcatAt
      <4> QED
        BY <4>1, <3>2 DEF Holds
    <3> QED
      BY <3>1, <3>2
  <2>1. CASE k \in 1..Len(a) /\ l \in 1..Len(a)
    BY <1>4, <2>0, <2>1 DEF Once
  <2>2. CASE k \in 1..Len(a) /\ l \notin 1..Len(a)
    BY <1>4, <2>0, <2>2
  <2>3. CASE k \notin 1..Len(a) /\ l \in 1..Len(a)
    BY <1>4, <2>0, <2>3
  <2>4. CASE k \notin 1..Len(a) /\ l \notin 1..Len(a)
    <3>1. k - Len(a) \in 1..Len(b) /\ l - Len(a) \in 1..Len(b) /\ b[k - Len(a)] = x /\ b[l - Len(a)] = x
      BY <1>4, <2>0, <2>4
    <3>2. k - Len(a) = l - Len(a)
      BY <1>4, <3>1 DEF Once
    <3> QED
      BY <3>2, ConcatAt
  <2> QED
    BY <2>1, <2>2, <2>3, <2>4
<1>5. Holds(b, x) => Holds(a \o b, x)
  BY <1>2 DEF Holds
<1> QED
  BY <1>1, <1>3, <1>4, <1>5 DEF Once

\* Where the elements of a tail come from.
LEMMA TailAt ==
  ASSUME NEW S, NEW s \in Seq(S), s # <<>>
  PROVE  /\ Tail(s) \in Seq(S) /\ Len(s) \in Nat \ {0} /\ Len(Tail(s)) = Len(s) - 1
         /\ Head(s) = s[1] /\ Head(s) \in S
         /\ \A k \in 1..Len(Tail(s)) : k + 1 \in 1..Len(s) /\ Tail(s)[k] = s[k + 1]
  OBVIOUS

\* A list holds its head and what its tail holds.
LEMMA TailHolds ==
  ASSUME NEW S, NEW s \in Seq(S), s # <<>>, NEW x
  PROVE  /\ Holds(s, x) <=> Head(s) = x \/ Holds(Tail(s), x)
         /\ Once(s, x) => Once(Tail(s), x) /\ (Head(s) = x => ~Holds(Tail(s), x))
<1>1. Holds(Tail(s), x) => Holds(s, x)
  BY TailAt DEF Holds
<1>2. Head(s) = x => Holds(s, x)
  BY TailAt DEF Holds
<1>3. ASSUME NEW k \in 1..Len(s), s[k] = x, Head(s) # x PROVE Holds(Tail(s), x)
  <2>1. k # 1 /\ Len(s) \in Nat /\ Len(Tail(s)) = Len(s) - 1
    BY <1>3, TailAt
  <2>2. k - 1 \in 1..Len(Tail(s)) /\ (k - 1) + 1 = k
    BY <2>1
  <2>3. Tail(s)[k - 1] = x
    BY <2>2, <1>3, TailAt
  <2> QED
    BY <2>2, <2>3 DEF Holds
<1>4. ASSUME Once(s, x), NEW k \in 1..Len(Tail(s)), NEW l \in 1..Len(Tail(s)), Tail(s)[k] = x, Tail(s)[l] = x
      PROVE  k = l
  <2>1. k + 1 = l + 1
    BY <1>4, TailAt DEF Once
  <2> QED
    BY <2>1
<1>5. ASSUME Once(s, x), Head(s) = x, NEW k \in 1..Len(Tail(s)), Tail(s)[k] = x PROVE FALSE
  <2>1. k + 1 \in 1..Len(s) /\ s[k + 1] = x /\ 1 \in 1..Len(s) /\ s[1] = x
    BY <1>5, TailAt
  <2>2. k + 1 = 1
    BY <2>1, <1>5 DEF Once
  <2> QED
    BY <2>2
<1> QED
  BY <1>1, <1>2, <1>3, <1>4, <1>5 DEF Holds, Once

\* Appending adds one element.
LEMMA AppendHolds ==
  ASSUME NEW S, NEW s \in Seq(S), NEW y \in S, NEW x
  PROVE  /\ Holds(Append(s, y), x) <=> Holds(s, x) \/ y = x
         /\ Once(s, x) /\ (y = x => ~Holds(s, x)) => Once(Append(s, y), x)
<1> DEFINE n == Len(s)
           e == Append(s, y)
<1>1. n \in Nat /\ Len(e) = n + 1 /\ e[n + 1] = y /\ \A k \in 1..n : e[k] = s[k]
  OBVIOUS
<1>2. 1..n + 1 = 1..n \cup {n + 1} /\ n + 1 \notin 1..n
  BY <1>1
<1>3. Holds(e, x) <=> Holds(s, x) \/ y = x
  <2> HIDE DEF e
  <2> QED
    BY <1>1, <1>2 DEF Holds
<1>4. ASSUME Once(s, x), y = x => ~Holds(s, x) PROVE Once(e, x)
  <2> HIDE DEF e
  <2> QED
    BY <1>1, <1>2, <1>4 DEF Holds, Once
<1> QED
  BY <1>3, <1>4

-----------------------------------------------------------------------------
(***************************************************************************)
(* What is on a list.                                                      *)
(***************************************************************************)
ValueItems == {ValueItem(v, d, ro) : v \in Values, d \in Nat, ro \in BOOLEAN}
Items ==
  {TypeItem(t) : t \in Types} \cup {FieldItem(t, i) : t \in Types, i \in Nat} \cup ValueItems
    \cup {CountItem}

\* The kinds of work items and their fields.
LEMMA ItemsApart ==
  /\ \A t \in Types : TypeItem(t).do = "type" /\ TypeItem(t).type = t
  /\ \A t \in Types, i \in Nat : FieldItem(t, i).do = "field" /\ FieldItem(t, i).type = t
                                  /\ FieldItem(t, i).field = i
  /\ \A v \in Values, d \in Nat, ro \in BOOLEAN :
       /\ ValueItem(v, d, ro).do = "value" /\ ValueItem(v, d, ro).value = v
       /\ ValueItem(v, d, ro).depth = d /\ ValueItem(v, d, ro).ro = ro
  /\ CountItem.do = "count"
  BY DEF TypeItem, FieldItem, ValueItem, CountItem

\* Checks of values are work items.
LEMMA ValuesAreItems ==
  ASSUME NEW v \in Values, NEW d \in Nat, NEW ro \in BOOLEAN
  PROVE  ValueItem(v, d, ro) \in Items /\ ValueItem(v, d, ro).do = "value"
<1>1. ValueItem(v, d, ro) \in ValueItems
  BY SMT DEF ValueItems
<1>2. ValueItem(v, d, ro).do = "value"
  BY DEF ValueItem
<1> QED
  BY <1>1, <1>2 DEF Items

\* The fields of a check of a value.
LEMMA ItemKinds ==
  ASSUME NEW x \in Items, x.do = "value"
  PROVE  x.value \in Values /\ x.depth \in Nat /\ x.ro \in BOOLEAN
  BY ItemsApart DEF Items, ValueItems

\* The fields of a type.
LEMMA FieldsWellTyped ==
  ASSUME NEW t \in Types
  PROVE  /\ Len(Fields[t]) \in Nat /\ DOMAIN Fields[t] = 1..Len(Fields[t])
         /\ \A i \in DOMAIN Fields[t] : /\ i \in Nat /\ Fields[t][i].type \in Types
                                        /\ Fields[t][i].upper \in BOOLEAN
<1> DEFINE fs == Fields[t]
           R == [upper : BOOLEAN, type : Types]
<1>1. fs \in Seq(R)
  BY LabGobAssumption
<1>2. Len(fs) \in Nat /\ DOMAIN fs = 1..Len(fs) /\ \A i \in 1..Len(fs) : fs[i] \in R
  <2> HIDE DEF fs, R
  <2> QED
    BY <1>1
<1>3. \A r \in R : r.type \in Types /\ r.upper \in BOOLEAN
  OBVIOUS
<1> QED
  BY <1>2, <1>3

\* FieldsOf lists each field of the type once, and nothing else.
LEMMA FieldsOfHold ==
  ASSUME NEW t \in Types
  PROVE  /\ FieldsOf(t) \in Seq(Items)
         /\ \A u \in Types : ~Holds(FieldsOf(t), TypeItem(u))
         /\ ~Holds(FieldsOf(t), CountItem)
         /\ \A u \in Types, i \in Nat : /\ Once(FieldsOf(t), FieldItem(u, i))
                                        /\ Holds(FieldsOf(t), FieldItem(u, i)) <=> u = t /\ i \in DOMAIN Fields[t]
<1> DEFINE n == Len(Fields[t])
<1>1. n \in Nat /\ DOMAIN Fields[t] = 1..n
  BY FieldsWellTyped
<1>2. \A i \in 1..n : FieldItem(t, i) \in Items
  BY <1>1 DEF Items
<1>3. FieldsOf(t) \in Seq(Items) /\ Len(FieldsOf(t)) = n /\ \A i \in 1..n : FieldsOf(t)[i] = FieldItem(t, i)
  <2> HIDE DEF n
  <2>1. FieldsOf(t) = [i \in 1..n |-> FieldItem(t, i)]
    BY DEF FieldsOf, n
  <2> QED
    BY <1>1, <1>2, <2>1
<1>4. ~Holds(FieldsOf(t), CountItem) /\ \A u \in Types : ~Holds(FieldsOf(t), TypeItem(u))
  BY <1>1, <1>3, ItemsApart DEF Holds
<1>5. ASSUME NEW u \in Types, NEW i \in Nat
      PROVE  /\ Once(FieldsOf(t), FieldItem(u, i))
             /\ Holds(FieldsOf(t), FieldItem(u, i)) <=> u = t /\ i \in DOMAIN Fields[t]
  BY <1>1, <1>3, ItemsApart DEF Holds, Once
<1> QED
  BY <1>3, <1>4, <1>5

\* What is found in a type that is not a struct.
LEMMA LookIntoHolds ==
  ASSUME NEW t \in Types
  PROVE  /\ LookInto(t) \in Seq(Items)
         /\ Kind[t] = "struct" => LookInto(t) = FieldsOf(t)
         /\ Kind[t] # "struct" =>
              \A x : Holds(LookInto(t), x) <=> \E u \in MadeOf(t) : x = TypeItem(u)
         /\ MadeOf(t) \subseteq Types
         /\ Kind[t] = "struct" => \A u \in MadeOf(t) : \E i \in DOMAIN Fields[t] : Fields[t][i].type = u
<1>1. Elem[t] \in Types /\ Key[t] \in Types /\ TypeItem(Elem[t]) \in Items /\ TypeItem(Key[t]) \in Items
  BY LabGobAssumption DEF Items
<1>2. Kind[t] = "struct" \/ Kind[t] = "elem" \/ Kind[t] = "map" \/ Kind[t] = "basic" \/ Kind[t] = "other"
  BY LabGobAssumption
<1>3. CASE Kind[t] = "struct"
  BY <1>3, FieldsOfHold, FieldsWellTyped DEF LookInto, MadeOf
<1>4. CASE Kind[t] = "elem"
  <2>1. LookInto(t) = <<TypeItem(Elem[t])>> /\ MadeOf(t) = {Elem[t]}
    BY <1>4 DEF LookInto, MadeOf
  <2>2. \A x : Holds(<<TypeItem(Elem[t])>>, x) <=> x = TypeItem(Elem[t])
    BY <1>1, SingleHolds
  <2> QED
    BY <1>1, <1>4, <2>1, <2>2
<1>5. CASE Kind[t] = "map"
  <2>1. LookInto(t) = <<TypeItem(Elem[t]), TypeItem(Key[t])>> /\ MadeOf(t) = {Elem[t], Key[t]}
    BY <1>5 DEF LookInto, MadeOf
  <2>2. \A x : Holds(<<TypeItem(Elem[t]), TypeItem(Key[t])>>, x) <=> x = TypeItem(Elem[t]) \/ x = TypeItem(Key[t])
    BY <1>1, PairHolds
  <2> QED
    BY <1>1, <1>5, <2>1, <2>2
<1>6. CASE Kind[t] = "basic" \/ Kind[t] = "other"
  <2>1. LookInto(t) = <<>> /\ MadeOf(t) = {}
    BY <1>6 DEF LookInto, MadeOf
  <2> QED
    BY <1>6, <2>1, EmptyHolds
<1> QED
  BY <1>2, <1>3, <1>4, <1>5, <1>6

-----------------------------------------------------------------------------
(***************************************************************************)
(* The inductive invariant.  A field appears in one place at most, a list  *)
(* or the complaints, and in none before its type is checked.              *)
(***************************************************************************)
GobTypes ==
  /\ checked \subseteq Types
  /\ todo \in [Procs -> Seq(Items)] /\ complaints \in Seq(Items)
  /\ errorCount \in Nat

FieldsOnce ==
  \A t \in Types : \A i \in DOMAIN Fields[t] :
    /\ t \notin checked =>
         ~Holds(complaints, FieldItem(t, i)) /\ \A p \in Procs : ~Holds(todo[p], FieldItem(t, i))
    /\ Once(complaints, FieldItem(t, i))
    /\ \A p \in Procs : /\ Once(todo[p], FieldItem(t, i))
                        /\ ~(Holds(complaints, FieldItem(t, i)) /\ Holds(todo[p], FieldItem(t, i)))
    /\ \A p, q \in Procs :
         Holds(todo[p], FieldItem(t, i)) /\ Holds(todo[q], FieldItem(t, i)) => p = q

LowerFound ==
  \A t \in checked : \A i \in DOMAIN Fields[t] :
    Kind[t] = "struct" /\ ~Fields[t][i].upper =>
      Holds(complaints, FieldItem(t, i)) \/ \E p \in Procs : Holds(todo[p], FieldItem(t, i))

PartsFound ==
  \A t \in checked : \A u \in MadeOf(t) :
    \/ u \in checked \/ \E p \in Procs : Holds(todo[p], TypeItem(u))
    \/ \E i \in DOMAIN Fields[t] :
         Fields[t][i].type = u /\ \E p \in Procs : Holds(todo[p], FieldItem(t, i))

\* The goroutines that have complained and not yet counted.  The count is the next
\* thing they do.
Counting == {p \in Procs : Holds(todo[p], CountItem)}

CountsFirst ==
  \A p \in Counting : Once(todo[p], CountItem) /\ Head(todo[p]) = CountItem

\* Every complaint has been counted or is about to be.
CountsLag == CountsFirst /\ Len(complaints) <= errorCount + Cardinality(Counting)

GobInv == GobTypes /\ FieldsOnce /\ LowerFound /\ PartsFound /\ CountsLag

\* GobInv holds initially.
LEMMA GobInitInv == GobInit => GobInv
<1> SUFFICES ASSUME GobInit PROVE GobInv
  OBVIOUS
<1>1. /\ checked = {} /\ complaints = <<>> /\ todo \in [Procs -> Seq(Items)]
      /\ \A p \in Procs : todo[p] = <<>>
  BY DEF GobInit
<1>2. GobTypes /\ CountsLag
  <2>1. Counting = {}
    BY <1>1, EmptyHolds DEF Counting
  <2>2. Cardinality({}) = 0
    BY FS_EmptySet
  <2> QED
    BY <1>1, <2>1, <2>2 DEF GobInit, GobTypes, CountsLag, CountsFirst
<1>3. FieldsOnce
  BY <1>1, EmptyHolds DEF FieldsOnce
<1>4. LowerFound /\ PartsFound
  BY <1>1 DEF LowerFound, PartsFound
<1> QED
  BY <1>2, <1>3, <1>4 DEF GobInv

\* The list of p after its first item was replaced by what it leads to.
LEMMA ListReplaced ==
  ASSUME GobTypes, NEW p \in Procs, NEW more \in Seq(Items), todo[p] # <<>>,
         todo' = [todo EXCEPT ![p] = more \o Tail(@)]
  PROVE  /\ todo' \in [Procs -> Seq(Items)]
         /\ \A q \in Procs : q # p => todo'[q] = todo[q]
         /\ Tail(todo[p]) \in Seq(Items) /\ Head(todo[p]) \in Items
         /\ \A x : /\ Holds(todo'[p], x) <=> Holds(more, x) \/ Holds(Tail(todo[p]), x)
                   /\ Holds(todo[p], x) <=> Head(todo[p]) = x \/ Holds(Tail(todo[p]), x)
                   /\ Once(todo[p], x) /\ ~Holds(more, x) => Once(todo'[p], x)
                   /\ Once(todo[p], x) /\ Head(todo[p]) = x => ~Holds(Tail(todo[p]), x)
                   /\ Once(more, x) /\ ~Holds(Tail(todo[p]), x) => Once(todo'[p], x)
<1>1. todo[p] \in Seq(Items) /\ Tail(todo[p]) \in Seq(Items) /\ Head(todo[p]) \in Items
  <2>1. todo[p] \in Seq(Items)
    BY DEF GobTypes
  <2> QED
    BY <2>1, TailAt
<1>2. todo'[p] = more \o Tail(todo[p]) /\ \A q \in Procs : q # p => todo'[q] = todo[q]
  BY DEF GobTypes
<1>3. more \o Tail(todo[p]) \in Seq(Items)
  BY <1>1
<1>4. todo' \in [Procs -> Seq(Items)]
  BY <1>3 DEF GobTypes
<1>5. ASSUME NEW x, ~Holds(more, x) PROVE Once(more, x)
  BY <1>5 DEF Holds, Once
<1>6. ASSUME NEW x, ~Holds(Tail(todo[p]), x) PROVE Once(Tail(todo[p]), x)
  BY <1>6 DEF Holds, Once
<1>7. ASSUME NEW x
      PROVE  /\ Holds(todo[p], x) <=> Head(todo[p]) = x \/ Holds(Tail(todo[p]), x)
             /\ Once(todo[p], x) => Once(Tail(todo[p]), x) /\ (Head(todo[p]) = x => ~Holds(Tail(todo[p]), x))
  BY <1>1, TailHolds
<1>8. ASSUME NEW x
      PROVE  /\ Holds(todo'[p], x) <=> Holds(more, x) \/ Holds(Tail(todo[p]), x)
             /\ Once(more, x) /\ Once(Tail(todo[p]), x) /\ ~(Holds(more, x) /\ Holds(Tail(todo[p]), x))
                  => Once(todo'[p], x)
  <2>1. /\ Holds(more \o Tail(todo[p]), x) <=> Holds(more, x) \/ Holds(Tail(todo[p]), x)
        /\ Once(more, x) /\ Once(Tail(todo[p]), x) /\ ~(Holds(more, x) /\ Holds(Tail(todo[p]), x))
             => Once(more \o Tail(todo[p]), x)
    BY <1>1, ConcatHolds
  <2> QED
    BY <1>2, <2>1
<1> QED
  BY <1>1, <1>2, <1>4, <1>5, <1>6, <1>7, <1>8

\* A list that gains no count and loses none: the counts lag as before.
LEMMA CountsKept ==
  ASSUME GobInv, GobTypes', UNCHANGED <<complaints, errorCount>>,
         NEW p \in Procs, \A q \in Procs : q # p => todo'[q] = todo[q],
         ~Holds(todo[p], CountItem), ~Holds(todo'[p], CountItem)
  PROVE  CountsLag'
<1>1. Counting' = Counting /\ p \notin Counting
  BY DEF Counting
<1>2. CountsFirst'
  BY <1>1 DEF CountsFirst, GobInv, CountsLag, Counting
<1> QED
  BY <1>1, <1>2 DEF GobInv, CountsLag

\* A list whose first item is not a count has none.
LEMMA NoCountLeft ==
  ASSUME GobInv, NEW p \in Procs, Head(todo[p]) # CountItem
  PROVE  ~Holds(todo[p], CountItem)
  BY DEF GobInv, CountsLag, CountsFirst, Counting

\* A list that gains and loses values only: nothing is found or lost.
LEMMA SameItems ==
  ASSUME GobInv, UNCHANGED <<checked, complaints>>, GobTypes', CountsLag',
         NEW p \in Procs, \A q \in Procs : q # p => todo'[q] = todo[q],
         \A t \in Types : Holds(todo[p], TypeItem(t)) => Holds(todo'[p], TypeItem(t)),
         \A t \in Types : \A i \in DOMAIN Fields[t] :
           /\ Holds(todo'[p], FieldItem(t, i)) <=> Holds(todo[p], FieldItem(t, i))
           /\ Once(todo'[p], FieldItem(t, i))
  PROVE  GobInv'
<1>1. \A q \in Procs : \A t \in Types : \A i \in DOMAIN Fields[t] :
        /\ Holds(todo'[q], FieldItem(t, i)) <=> Holds(todo[q], FieldItem(t, i))
        /\ Once(todo'[q], FieldItem(t, i))
  BY DEF GobInv, FieldsOnce
<1>2. \A q \in Procs : \A t \in Types : Holds(todo[q], TypeItem(t)) => Holds(todo'[q], TypeItem(t))
  OBVIOUS
<1>3. FieldsOnce'
  BY <1>1 DEF GobInv, FieldsOnce
<1>4. LowerFound'
  BY <1>1 DEF GobInv, GobTypes, LowerFound
<1>5. PartsFound'
  <2>1. \A t \in checked : t \in Types /\ MadeOf(t) \subseteq Types
    BY LookIntoHolds DEF GobInv, GobTypes
  <2> SUFFICES ASSUME NEW t \in checked, NEW u \in MadeOf(t)
               PROVE  \/ u \in checked \/ \E q \in Procs : Holds(todo'[q], TypeItem(u))
                      \/ \E i \in DOMAIN Fields[t] :
                           Fields[t][i].type = u /\ \E q \in Procs : Holds(todo'[q], FieldItem(t, i))
    BY DEF PartsFound
  <2>2. \/ u \in checked \/ \E q \in Procs : Holds(todo[q], TypeItem(u))
        \/ \E i \in DOMAIN Fields[t] :
             Fields[t][i].type = u /\ \E q \in Procs : Holds(todo[q], FieldItem(t, i))
    BY DEF GobInv, PartsFound
  <2> QED
    BY <1>1, <1>2, <2>1, <2>2
<1> QED
  BY <1>3, <1>4, <1>5 DEF GobInv

-----------------------------------------------------------------------------
(***************************************************************************)
(* One lemma per kind of step.                                             *)
(***************************************************************************)

\* Starting a check that has no field on its list keeps GobInv.
LEMMA CallInv ==
  ASSUME GobInv, NEW p \in Procs, NEW items \in Seq(Items), Enter(p, items),
         ~Holds(items, CountItem),
         \A t \in Types : \A i \in DOMAIN Fields[t] : ~Holds(items, FieldItem(t, i))
  PROVE  GobInv'
<1>1. /\ todo[p] = <<>> /\ todo' = [todo EXCEPT ![p] = items]
      /\ UNCHANGED <<checked, errorCount, complaints>>
  BY DEF Enter
<1>2. todo' \in [Procs -> Seq(Items)] /\ todo'[p] = items /\ \A q \in Procs : q # p => todo'[q] = todo[q]
  BY <1>1 DEF GobInv, GobTypes
<1>4. \A x : ~Holds(todo[p], x)
  BY <1>1, EmptyHolds
<1>3. GobTypes' /\ CountsLag'
  <2>1. GobTypes'
    BY <1>1, <1>2 DEF GobInv, GobTypes
  <2>2. ~Holds(todo[p], CountItem) /\ ~Holds(todo'[p], CountItem)
    BY <1>2, <1>4
  <2> QED
    BY <1>1, <1>2, <2>1, <2>2, CountsKept
<1>5. \A x : ~Holds(items, x) => Once(items, x)
  BY DEF Holds, Once
<1> QED
  BY <1>1, <1>2, <1>3, <1>4, <1>5, SameItems

\* Encode, Register and Decode keep GobInv.
LEMMA CallsInv ==
  ASSUME GobInv, NEW p \in Procs, Encode(p) \/ Register(p) \/ Decode(p) PROVE GobInv'
<1>1. ASSUME NEW t \in Types, Enter(p, <<TypeItem(t)>>) PROVE GobInv'
  <2>1. TypeItem(t) \in Items /\ <<TypeItem(t)>> \in Seq(Items)
    BY DEF Items
  <2>2. \A x : Holds(<<TypeItem(t)>>, x) <=> x = TypeItem(t)
    BY <2>1, SingleHolds
  <2>3. \A u \in Types : \A i \in DOMAIN Fields[u] : ~Holds(<<TypeItem(t)>>, FieldItem(u, i))
    BY <2>2, ItemsApart, FieldsWellTyped
  <2>4. ~Holds(<<TypeItem(t)>>, CountItem)
    BY <2>2, ItemsApart
  <2> QED
    BY <1>1, <2>1, <2>3, <2>4, CallInv
<1>2. ASSUME NEW v \in Values, Enter(p, <<TypeItem(TypeOf[v]), ValueItem(v, 1, FALSE)>>) PROVE GobInv'
  <2> DEFINE t == TypeOf[v]
             x1 == ValueItem(v, 1, FALSE)
  <2>1. t \in Types /\ TypeItem(t) \in Items /\ x1 \in Items /\ x1.do = "value"
    <3>1. t \in Types
      BY LabGobAssumption
    <3>2. x1 \in Items /\ x1.do = "value"
      BY ValuesAreItems
    <3>3. TypeItem(t) \in Items
      <4> HIDE DEF t
      <4> QED
        BY <3>1 DEF Items
    <3> QED
      BY <3>1, <3>2, <3>3
  <2>2. <<TypeItem(t), x1>> \in Seq(Items) /\ \A x : Holds(<<TypeItem(t), x1>>, x) <=> x = TypeItem(t) \/ x = x1
    <3> HIDE DEF x1, t
    <3> QED
      BY <2>1, PairHolds
  <2>3. \A u \in Types : \A i \in DOMAIN Fields[u] : ~Holds(<<TypeItem(t), x1>>, FieldItem(u, i))
    <3> HIDE DEF x1, t
    <3> QED
      <4> SUFFICES ASSUME NEW u \in Types, NEW i \in DOMAIN Fields[u],
                          FieldItem(u, i) = TypeItem(t) \/ FieldItem(u, i) = x1
                   PROVE  FALSE
        BY <2>2
      <4>1. FieldItem(u, i).do = "field" /\ TypeItem(t).do = "type"
        BY <2>1, ItemsApart, FieldsWellTyped
      <4> QED
        BY <2>1, <4>1
  <2>4. ~Holds(<<TypeItem(t), x1>>, CountItem)
    <3> HIDE DEF x1, t
    <3> QED
      BY <2>1, <2>2, ItemsApart
  <2> QED
    BY <1>2, <2>2, <2>3, <2>4, CallInv
<1> QED
  BY <1>1, <1>2, LabGobAssumption DEF Encode, Register, Decode

\* A value leads to values.
LEMMA ValueInv ==
  ASSUME GobInv, NEW p \in Procs, NEW more \in Seq(Items), Proceed(p, "value", more),
         \A k \in 1..Len(more) : more[k].do = "value",
         UNCHANGED <<checked, complaints>>, errorCount' \in Nat, errorCount' >= errorCount
  PROVE  GobInv'
<1>1. todo[p] # <<>> /\ Head(todo[p]).do = "value" /\ todo' = [todo EXCEPT ![p] = more \o Tail(@)]
  BY DEF Proceed
<1>2. GobTypes
  BY DEF GobInv
<1>3. /\ todo' \in [Procs -> Seq(Items)]
      /\ \A q \in Procs : q # p => todo'[q] = todo[q]
      /\ \A x : /\ Holds(todo'[p], x) <=> Holds(more, x) \/ Holds(Tail(todo[p]), x)
                /\ Holds(todo[p], x) <=> Head(todo[p]) = x \/ Holds(Tail(todo[p]), x)
                /\ Once(todo[p], x) /\ ~Holds(more, x) => Once(todo'[p], x)
  BY <1>1, <1>2, ListReplaced
<1>4. ASSUME NEW x, x.do # "value"
      PROVE  /\ Holds(todo'[p], x) <=> Holds(todo[p], x)
             /\ Once(todo[p], x) => Once(todo'[p], x)
  <2>1. ~Holds(more, x)
    BY <1>4 DEF Holds
  <2>2. Head(todo[p]) # x
    BY <1>1, <1>4
  <2> QED
    BY <1>3, <2>1, <2>2
<1>5. \A t \in Types : TypeItem(t).do # "value" /\ \A i \in DOMAIN Fields[t] : FieldItem(t, i).do # "value"
  BY ItemsApart, FieldsWellTyped
<1>6. \A t \in Types : Holds(todo[p], TypeItem(t)) => Holds(todo'[p], TypeItem(t))
  BY <1>4, <1>5
<1>7. \A t \in Types : \A i \in DOMAIN Fields[t] :
        /\ Holds(todo'[p], FieldItem(t, i)) <=> Holds(todo[p], FieldItem(t, i))
        /\ Once(todo'[p], FieldItem(t, i))
  BY <1>4, <1>5 DEF GobInv, FieldsOnce
<1>8. GobTypes'
  BY <1>2, <1>3 DEF GobTypes
<1>9. CountsLag'
  <2>1. ~Holds(todo[p], CountItem) /\ ~Holds(todo'[p], CountItem)
    BY <1>1, <1>4, ItemsApart, NoCountLeft
  <2>2. Counting' = Counting /\ p \notin Counting
    BY <1>3, <2>1 DEF Counting
  <2>3. CountsFirst'
    BY <1>3, <2>2 DEF CountsFirst, GobInv, CountsLag, Counting
  <2>4. Cardinality(Counting) \in Nat /\ Len(complaints) \in Nat /\ errorCount \in Nat
    <3>1. IsFiniteSet(Counting)
      BY LabGobAssumption, FS_Subset DEF Counting
    <3> QED
      BY <1>2, <3>1, FS_CardinalityType DEF GobTypes
  <2> QED
    BY <2>2, <2>3, <2>4 DEF CountsLag, GobInv
<1> QED
  BY <1>3, <1>6, <1>7, <1>8, <1>9, SameItems

\* CheckDefaultDown keeps GobInv.
LEMMA DownInv == ASSUME GobInv, NEW p \in Procs, CheckDefaultDown(p) PROVE GobInv'
<1> DEFINE h == Head(todo[p])
           v == h.value
           d == h.depth
           ro == h.ro
<1>1. /\ todo[p] # <<>> /\ h.do = "value"
      /\ UNCHANGED <<checked, errorCount, complaints>>
      /\ Proceed(p, "value", CASE TooDeep(d) -> <<>>
                               [] Kind[TypeOf[v]] = "struct" -> FieldValues(v, d, ro)
                               [] Kind[TypeOf[v]] = "elem" -> PointeeValues(v, d, ro)
                               [] OTHER -> <<>>)
  BY DEF CheckDefaultDown
<1>2. v \in Values /\ d \in Nat /\ ro \in BOOLEAN
  <2>1. todo[p] \in Seq(Items)
    BY DEF GobInv, GobTypes
  <2>2. h \in Items
    BY <1>1, <2>1, TailAt
  <2> QED
    BY <1>1, <2>2, ItemKinds
<1> HIDE DEF v, d, ro
<1>3. Parts[v] \in Seq(Values) /\ Len(Parts[v]) \in Nat /\ \A k \in 1..Len(Parts[v]) : Parts[v][k] \in Values
  <2>1. Parts[v] \in Seq(Values)
    BY <1>2, LabGobAssumption
  <2> QED
    BY <2>1
<1>4. ASSUME NEW b \in [1..Len(Parts[v]) -> BOOLEAN],
             NEW more, more = [i \in 1..Len(Parts[v]) |-> ValueItem(Parts[v][i], d + 1, b[i])]
      PROVE  more \in Seq(Items) /\ \A k \in 1..Len(more) : more[k].do = "value"
  <2>1. \A i \in 1..Len(Parts[v]) : ValueItem(Parts[v][i], d + 1, b[i]) \in Items
                                    /\ ValueItem(Parts[v][i], d + 1, b[i]).do = "value"
    <3> TAKE i \in 1..Len(Parts[v])
    <3>1. Parts[v][i] \in Values /\ d + 1 \in Nat
      BY <1>2, <1>3
    <3>2. b[i] \in BOOLEAN
      BY Zenon
    <3> QED
      BY <3>1, <3>2, ValuesAreItems
  <2>2. more \in Seq(Items) /\ Len(more) = Len(Parts[v])
    BY <1>3, <1>4, <2>1
  <2> QED
    BY <1>4, <2>1, <2>2
<1>5. FieldValues(v, d, ro) \in Seq(Items) /\ \A k \in 1..Len(FieldValues(v, d, ro)) : FieldValues(v, d, ro)[k].do = "value"
  <2> DEFINE b == [i \in 1..Len(Parts[v]) |-> ro \/ ~Fields[TypeOf[v]][i].upper]
  <2>1. b \in [1..Len(Parts[v]) -> BOOLEAN]
    OBVIOUS
  <2>2. FieldValues(v, d, ro) = [i \in 1..Len(Parts[v]) |-> ValueItem(Parts[v][i], d + 1, b[i])]
    BY DEF FieldValues
  <2> HIDE DEF b
  <2> QED
    BY <1>4, <2>1, <2>2
<1>6. PointeeValues(v, d, ro) \in Seq(Items) /\ \A k \in 1..Len(PointeeValues(v, d, ro)) : PointeeValues(v, d, ro)[k].do = "value"
  <2> DEFINE b == [i \in 1..Len(Parts[v]) |-> ro]
  <2>1. b \in [1..Len(Parts[v]) -> BOOLEAN]
    BY <1>2
  <2>2. PointeeValues(v, d, ro) = [i \in 1..Len(Parts[v]) |-> ValueItem(Parts[v][i], d + 1, b[i])]
    BY DEF PointeeValues
  <2> HIDE DEF b
  <2> QED
    BY <1>4, <2>1, <2>2
<1>7. <<>> \in Seq(Items) /\ \A k \in 1..Len(<<>>) : <<>>[k].do = "value"
  OBVIOUS
<1>8. PICK more : /\ Proceed(p, "value", more)
                  /\ more \in Seq(Items) /\ \A k \in 1..Len(more) : more[k].do = "value"
  <2> DEFINE more == CASE TooDeep(d) -> <<>>
                       [] Kind[TypeOf[v]] = "struct" -> FieldValues(v, d, ro)
                       [] Kind[TypeOf[v]] = "elem" -> PointeeValues(v, d, ro)
                       [] OTHER -> <<>>
  <2>1. more = <<>> \/ more = FieldValues(v, d, ro) \/ more = PointeeValues(v, d, ro)
    OBVIOUS
  <2>2. more \in Seq(Items) /\ \A k \in 1..Len(more) : more[k].do = "value"
    <3> HIDE DEF more
    <3> QED
      BY <1>5, <1>6, <1>7, <2>1
  <2> QED
    BY <1>1, <2>2
<1>9. errorCount' \in Nat /\ errorCount' >= errorCount
  BY <1>1 DEF GobInv, GobTypes
<1> QED
  BY <1>1, <1>8, <1>9, ValueInv

\* CheckDefaultBasic keeps GobInv.
LEMMA BasicInv == ASSUME GobInv, NEW p \in Procs, CheckDefaultBasic(p) PROVE GobInv'
<1>1. /\ Proceed(p, "value", <<>>) /\ UNCHANGED <<checked, complaints>>
      /\ errorCount' = errorCount + 1 \/ errorCount' = errorCount
  BY DEF CheckDefaultBasic
<1>2. errorCount' \in Nat /\ errorCount' >= errorCount
  BY <1>1 DEF GobInv, GobTypes
<1>3. <<>> \in Seq(Items) /\ \A k \in 1..Len(<<>>) : <<>>[k].do = "value"
  OBVIOUS
<1> QED
  BY <1>1, <1>2, <1>3, ValueInv

\* CountError keeps GobInv: one goroutine fewer is behind with its count.
LEMMA CountErrorInv == ASSUME GobInv, NEW p \in Procs, CountError(p) PROVE GobInv'
<1>1. /\ todo[p] # <<>> /\ Head(todo[p]).do = "count" /\ todo' = [todo EXCEPT ![p] = <<>> \o Tail(@)]
      /\ UNCHANGED <<checked, complaints>> /\ errorCount' = errorCount + 1
  BY DEF CountError, Proceed
<1>2. GobTypes /\ <<>> \in Seq(Items)
  BY DEF GobInv
<1>3. /\ todo' \in [Procs -> Seq(Items)]
      /\ \A q \in Procs : q # p => todo'[q] = todo[q]
      /\ Head(todo[p]) \in Items
      /\ \A x : /\ Holds(todo'[p], x) <=> Holds(<<>>, x) \/ Holds(Tail(todo[p]), x)
                /\ Holds(todo[p], x) <=> Head(todo[p]) = x \/ Holds(Tail(todo[p]), x)
                /\ Once(todo[p], x) /\ ~Holds(<<>>, x) => Once(todo'[p], x)
                /\ Once(todo[p], x) /\ Head(todo[p]) = x => ~Holds(Tail(todo[p]), x)
  BY <1>1, <1>2, ListReplaced
<1>4. \A x : ~Holds(<<>>, x)
  BY EmptyHolds
<1>5. Head(todo[p]) = CountItem
  <2>1. \A v \in Values, d \in Nat, ro \in BOOLEAN : ValueItem(v, d, ro).do # "count"
    BY ItemsApart
  <2>2. \A x \in ValueItems : x.do # "count"
    BY <2>1 DEF ValueItems
  <2>3. \A t \in Types : TypeItem(t).do # "count" /\ \A i \in Nat : FieldItem(t, i).do # "count"
    BY ItemsApart
  <2> QED
    BY <1>1, <1>3, <2>2, <2>3 DEF Items
<1>6. GobTypes'
  BY <1>1, <1>2, <1>3 DEF GobTypes
<1>7. CountsLag'
  <2>1. p \in Counting /\ ~Holds(todo'[p], CountItem)
    BY <1>3, <1>4, <1>5 DEF GobInv, CountsLag, CountsFirst, Counting
  <2>2. Counting' = Counting \ {p}
    BY <1>3, <2>1 DEF Counting
  <2>3. CountsFirst'
    BY <1>3, <2>2 DEF GobInv, CountsLag, CountsFirst, Counting
  <2>4. IsFiniteSet(Counting)
    BY LabGobAssumption, FS_Subset DEF Counting
  <2>5. Cardinality(Counting') = Cardinality(Counting) - 1 /\ Cardinality(Counting) \in Nat
    BY <2>1, <2>2, <2>4, FS_RemoveElement, FS_CardinalityType
  <2>6. Len(complaints) \in Nat /\ errorCount \in Nat
    BY <1>2 DEF GobTypes
  <2> QED
    BY <1>1, <2>3, <2>5, <2>6 DEF GobInv, CountsLag
<1>8. ASSUME NEW x, x.do # "count"
      PROVE  /\ Holds(todo'[p], x) <=> Holds(todo[p], x)
             /\ Once(todo[p], x) => Once(todo'[p], x)
  BY <1>1, <1>3, <1>4, <1>8
<1>9. \A t \in Types : TypeItem(t).do # "count" /\ \A i \in DOMAIN Fields[t] : FieldItem(t, i).do # "count"
  BY ItemsApart, FieldsWellTyped
<1>10. \A t \in Types : Holds(todo[p], TypeItem(t)) => Holds(todo'[p], TypeItem(t))
  BY <1>8, <1>9
<1>11. \A t \in Types : \A i \in DOMAIN Fields[t] :
         /\ Holds(todo'[p], FieldItem(t, i)) <=> Holds(todo[p], FieldItem(t, i))
         /\ Once(todo'[p], FieldItem(t, i))
  BY <1>8, <1>9 DEF GobInv, FieldsOnce
<1> QED
  BY <1>1, <1>3, <1>6, <1>7, <1>10, <1>11, SameItems

\* A type that is met again leads nowhere; one that is new is marked, and what
\* it is made of is on the list.
LEMMA CheckTypeInv == ASSUME GobInv, NEW p \in Procs, CheckType(p) PROVE GobInv'
<1>1. PICK t \in Types :
        /\ todo[p] # <<>> /\ Head(todo[p]) = TypeItem(t) /\ checked' = checked \cup {t}
        /\ Proceed(p, "type", IF t \in checked THEN <<>> ELSE LookInto(t))
  BY DEF CheckType
<1>2. UNCHANGED <<errorCount, complaints>>
  BY DEF CheckType
<1> DEFINE more == IF t \in checked THEN <<>> ELSE LookInto(t)
<1>3. todo' = [todo EXCEPT ![p] = more \o Tail(@)]
  BY <1>1 DEF Proceed
<1>4. /\ more \in Seq(Items)
      /\ t \in checked => more = <<>>
      /\ t \notin checked => more = LookInto(t)
  BY LookIntoHolds
<1> HIDE DEF more
<1>5. GobTypes
  BY DEF GobInv
<1>6. /\ todo' \in [Procs -> Seq(Items)]
      /\ \A q \in Procs : q # p => todo'[q] = todo[q]
      /\ \A x : /\ Holds(todo'[p], x) <=> Holds(more, x) \/ Holds(Tail(todo[p]), x)
                /\ Holds(todo[p], x) <=> Head(todo[p]) = x \/ Holds(Tail(todo[p]), x)
                /\ Once(todo[p], x) /\ ~Holds(more, x) => Once(todo'[p], x)
                /\ Once(more, x) /\ ~Holds(Tail(todo[p]), x) => Once(todo'[p], x)
  BY <1>1, <1>3, <1>4, <1>5, ListReplaced
<1>7. GobTypes' /\ CountsLag'
  <2>1. GobTypes'
    BY <1>1, <1>2, <1>6 DEF GobInv, GobTypes
  <2>2. ~Holds(todo[p], CountItem)
    BY <1>1, ItemsApart, NoCountLeft
  <2>3. ~Holds(more, CountItem)
    <3>1. CASE t \in checked
      BY <3>1, <1>4, EmptyHolds
    <3>2. CASE t \notin checked /\ Kind[t] = "struct"
      BY <3>2, <1>4, LookIntoHolds, FieldsOfHold
    <3>3. CASE t \notin checked /\ Kind[t] # "struct"
      BY <3>3, <1>4, LookIntoHolds, ItemsApart
    <3> QED
      BY <3>1, <3>2, <3>3
  <2>4. ~Holds(todo'[p], CountItem)
    BY <1>6, <2>2, <2>3
  <2> QED
    BY <1>2, <1>6, <2>1, <2>2, <2>4, CountsKept
\* The fields that are new on the list.
<1>8. ASSUME NEW u \in Types, NEW i \in DOMAIN Fields[u]
      PROVE  /\ Holds(more, FieldItem(u, i)) => u = t /\ t \notin checked /\ Kind[t] = "struct"
             /\ u = t /\ t \notin checked /\ Kind[t] = "struct" => Holds(more, FieldItem(u, i))
             /\ Once(more, FieldItem(u, i))
  <2>1. i \in Nat /\ FieldItem(u, i).do = "field"
    BY FieldsWellTyped, ItemsApart
  <2>2. CASE t \in checked
    BY <2>2, <1>4, EmptyHolds
  <2>3. CASE t \notin checked /\ Kind[t] = "struct"
    BY <2>1, <2>3, <1>4, LookIntoHolds, FieldsOfHold
  <2>4. CASE t \notin checked /\ Kind[t] # "struct"
    <3>1. ~Holds(more, FieldItem(u, i))
      <4> SUFFICES ASSUME Holds(more, FieldItem(u, i)) PROVE FALSE
        OBVIOUS
      <4>1. PICK w \in MadeOf(t) : FieldItem(u, i) = TypeItem(w)
        BY <2>4, <1>4, LookIntoHolds
      <4>2. TypeItem(w).do = "type"
        BY LookIntoHolds, ItemsApart
      <4> QED
        BY <2>1, <4>1, <4>2
    <3> QED
      BY <2>4, <3>1 DEF Holds, Once
  <2> QED
    BY <2>2, <2>3, <2>4
<1>9. ASSUME NEW u \in Types, NEW i \in DOMAIN Fields[u]
      PROVE  FieldItem(u, i) # Head(todo[p])
  BY <1>1, FieldsWellTyped, ItemsApart
<1>10. ASSUME NEW u \in Types, NEW i \in DOMAIN Fields[u], NEW q \in Procs
       PROVE  /\ Holds(todo'[q], FieldItem(u, i))
                   <=> Holds(todo[q], FieldItem(u, i)) \/ (q = p /\ Holds(more, FieldItem(u, i)))
              /\ Once(todo'[q], FieldItem(u, i))
  <2>1. CASE q # p
    BY <2>1, <1>6 DEF GobInv, FieldsOnce
  <2>2. CASE q = p /\ ~Holds(more, FieldItem(u, i))
    BY <2>2, <1>6, <1>9 DEF GobInv, FieldsOnce
  <2>3. CASE q = p /\ Holds(more, FieldItem(u, i))
    <3>1. ~Holds(todo[p], FieldItem(u, i))
      BY <2>3, <1>8 DEF GobInv, FieldsOnce
    <3> QED
      BY <2>3, <3>1, <1>6, <1>8, <1>9
  <2> QED
    BY <2>1, <2>2, <2>3
<1>11. FieldsOnce'
  <2> SUFFICES ASSUME NEW u \in Types, NEW i \in DOMAIN Fields[u]
               PROVE  /\ u \notin checked' =>
                           ~Holds(complaints, FieldItem(u, i)) /\ \A q \in Procs : ~Holds(todo'[q], FieldItem(u, i))
                      /\ Once(complaints, FieldItem(u, i))
                      /\ \A q \in Procs : /\ Once(todo'[q], FieldItem(u, i))
                                          /\ ~(Holds(complaints, FieldItem(u, i)) /\ Holds(todo'[q], FieldItem(u, i)))
                      /\ \A q, r \in Procs :
                           Holds(todo'[q], FieldItem(u, i)) /\ Holds(todo'[r], FieldItem(u, i)) => q = r
    BY <1>2 DEF FieldsOnce
  <2>1. CASE ~Holds(more, FieldItem(u, i))
    BY <2>1, <1>1, <1>10 DEF GobInv, FieldsOnce
  <2>2. CASE Holds(more, FieldItem(u, i))
    <3>1. u = t /\ t \notin checked
      BY <2>2, <1>8
    <3>2. ~Holds(complaints, FieldItem(u, i)) /\ \A q \in Procs : ~Holds(todo[q], FieldItem(u, i))
      BY <3>1 DEF GobInv, FieldsOnce
    <3> QED
      BY <3>1, <3>2, <1>1, <1>10 DEF GobInv, FieldsOnce
  <2> QED
    BY <2>1, <2>2
<1>12. LowerFound'
  <2> SUFFICES ASSUME NEW u \in checked', NEW i \in DOMAIN Fields[u], Kind[u] = "struct", ~Fields[u][i].upper
               PROVE  \/ Holds(complaints, FieldItem(u, i))
                      \/ \E q \in Procs : Holds(todo'[q], FieldItem(u, i))
    BY <1>2 DEF LowerFound
  <2>1. u \in Types
    BY <1>7 DEF GobTypes
  <2>2. CASE u \in checked
    BY <2>1, <2>2, <1>10 DEF GobInv, LowerFound
  <2>3. CASE u \notin checked
    <3>1. u = t
      BY <2>3, <1>1
    <3> QED
      BY <2>1, <2>3, <3>1, <1>8, <1>10
  <2> QED
    BY <2>2, <2>3
<1>13. PartsFound'
  <2> SUFFICES ASSUME NEW u \in checked', NEW w \in MadeOf(u)
               PROVE  \/ w \in checked' \/ \E q \in Procs : Holds(todo'[q], TypeItem(w))
                      \/ \E i \in DOMAIN Fields[u] :
                           Fields[u][i].type = w /\ \E q \in Procs : Holds(todo'[q], FieldItem(u, i))
    BY DEF PartsFound
  <2>1. u \in Types /\ w \in Types
    BY <1>7, LookIntoHolds DEF GobTypes
  <2>2. CASE u \in checked
    <3>1. CASE w \in checked
      BY <3>1, <1>1
    <3>2. ASSUME NEW q \in Procs, Holds(todo[q], TypeItem(w)) PROVE w = t \/ Holds(todo'[q], TypeItem(w))
      <4>1. TypeItem(w) = Head(todo[p]) => w = t
        BY <2>1, <1>1, ItemsApart
      <4> QED
        BY <3>2, <4>1, <1>6
    <3>3. ASSUME NEW i \in DOMAIN Fields[u], NEW q \in Procs, Holds(todo[q], FieldItem(u, i))
          PROVE  Holds(todo'[q], FieldItem(u, i))
      BY <2>1, <3>3, <1>10
    <3>4. \/ w \in checked \/ \E q \in Procs : Holds(todo[q], TypeItem(w))
          \/ \E i \in DOMAIN Fields[u] :
               Fields[u][i].type = w /\ \E q \in Procs : Holds(todo[q], FieldItem(u, i))
      BY <2>2 DEF GobInv, PartsFound
    <3> QED
      BY <3>1, <3>2, <3>3, <3>4, <1>1
  <2>3. CASE u \notin checked
    <3>1. u = t /\ t \notin checked
      BY <2>3, <1>1
    <3>2. CASE Kind[t] = "struct"
      <4>1. PICK i \in DOMAIN Fields[t] : Fields[t][i].type = w
        BY <3>1, <3>2, LookIntoHolds
      <4>2. Holds(todo'[p], FieldItem(t, i))
        BY <3>1, <3>2, <1>8, <1>10
      <4> QED
        BY <3>1, <4>1, <4>2
    <3>3. CASE Kind[t] # "struct"
      <4>1. Holds(more, TypeItem(w))
        BY <3>1, <3>3, <1>4, LookIntoHolds
      <4> QED
        BY <4>1, <1>6
    <3> QED
      BY <3>2, <3>3
  <2> QED
    BY <2>2, <2>3
<1> QED
  BY <1>7, <1>11, <1>12, <1>13 DEF GobInv

\* A field leaves the list for good: its type takes its place, and a lower-case
\* one is in the complaints.
LEMMA CheckFieldInv == ASSUME GobInv, NEW p \in Procs, CheckField(p) PROVE GobInv'
<1>1. PICK t \in Types : \E i \in DOMAIN Fields[t] :
        /\ todo[p] # <<>> /\ Head(todo[p]) = FieldItem(t, i)
        /\ \/ /\ Fields[t][i].upper
              /\ Proceed(p, "field", <<TypeItem(Fields[t][i].type)>>)
              /\ UNCHANGED complaints
           \/ /\ ~Fields[t][i].upper
              /\ Proceed(p, "field", <<CountItem, TypeItem(Fields[t][i].type)>>)
              /\ complaints' = Append(complaints, FieldItem(t, i))
  BY DEF CheckField
<1>2. PICK i \in DOMAIN Fields[t] :
        /\ todo[p] # <<>> /\ Head(todo[p]) = FieldItem(t, i)
        /\ \/ /\ Fields[t][i].upper
              /\ Proceed(p, "field", <<TypeItem(Fields[t][i].type)>>)
              /\ UNCHANGED complaints
           \/ /\ ~Fields[t][i].upper
              /\ Proceed(p, "field", <<CountItem, TypeItem(Fields[t][i].type)>>)
              /\ complaints' = Append(complaints, FieldItem(t, i))
  BY <1>1
<1>3. UNCHANGED <<checked, errorCount>>
  BY DEF CheckField
<1> DEFINE x0 == FieldItem(t, i)
           ft == Fields[t][i].type
           more == IF Fields[t][i].upper THEN <<TypeItem(ft)>> ELSE <<CountItem, TypeItem(ft)>>
<1>4. ft \in Types /\ i \in Nat /\ x0 \in Items /\ TypeItem(ft) \in Items /\ x0.do = "field"
      /\ CountItem \in Items
  BY FieldsWellTyped, ItemsApart DEF Items
<1>5. /\ more \in Seq(Items) /\ more # <<>>
      /\ \A x : Holds(more, x) <=> x = TypeItem(ft) \/ (x = CountItem /\ ~Fields[t][i].upper)
      /\ ~Fields[t][i].upper => Head(more) = CountItem /\ Once(more, CountItem)
  <2> HIDE DEF ft
  <2>1. CASE Fields[t][i].upper
    BY <1>4, <2>1, SingleHolds
  <2>2. CASE ~Fields[t][i].upper
    <3>1. more = <<CountItem, TypeItem(ft)>>
      BY <2>2
    <3>2. \A x : Holds(<<CountItem, TypeItem(ft)>>, x) <=> x = CountItem \/ x = TypeItem(ft)
      BY <1>4, PairHolds
    <3>3. TypeItem(ft) # CountItem
      BY <1>4, ItemsApart
    <3>4. Once(<<CountItem, TypeItem(ft)>>, CountItem)
      <4>1. Len(<<CountItem, TypeItem(ft)>>) = 2 /\ <<CountItem, TypeItem(ft)>>[2] = TypeItem(ft)
        OBVIOUS
      <4>2. 1..2 = {1, 2}
        OBVIOUS
      <4> QED
        BY <3>3, <4>1, <4>2 DEF Once
    <3> HIDE DEF more
    <3>5. <<CountItem, TypeItem(ft)>> \in Seq(Items) /\ <<CountItem, TypeItem(ft)>> # <<>>
          /\ Head(<<CountItem, TypeItem(ft)>>) = CountItem
      BY <1>4
    <3> QED
      BY <2>2, <3>1, <3>2, <3>4, <3>5
  <2> QED
    BY <2>1, <2>2
<1>6. todo' = [todo EXCEPT ![p] = more \o Tail(@)]
  BY <1>2 DEF Proceed
<1>7. GobTypes
  BY DEF GobInv
<1> HIDE DEF more, ft
<1>8. /\ todo' \in [Procs -> Seq(Items)]
      /\ \A q \in Procs : q # p => todo'[q] = todo[q]
      /\ \A x : /\ Holds(todo'[p], x) <=> Holds(more, x) \/ Holds(Tail(todo[p]), x)
                /\ Holds(todo[p], x) <=> Head(todo[p]) = x \/ Holds(Tail(todo[p]), x)
                /\ Once(todo[p], x) /\ ~Holds(more, x) => Once(todo'[p], x)
                /\ Once(todo[p], x) /\ Head(todo[p]) = x => ~Holds(Tail(todo[p]), x)
                /\ Once(more, x) /\ ~Holds(Tail(todo[p]), x) => Once(todo'[p], x)
  BY <1>2, <1>5, <1>6, <1>7, ListReplaced
<1>9. Holds(todo[p], x0) /\ t \in checked /\ ~Holds(complaints, x0) /\ Once(todo[p], x0)
      /\ \A q \in Procs : Holds(todo[q], x0) => q = p
  BY <1>2, <1>8 DEF GobInv, FieldsOnce
\* The complaints.
<1>10. /\ complaints' \in Seq(Items) /\ Len(complaints) \in Nat /\ Len(complaints') \in Nat
       /\ \A x : Holds(complaints', x) <=> Holds(complaints, x) \/ (x = x0 /\ ~Fields[t][i].upper)
       /\ \A x : Once(complaints, x) => Once(complaints', x)
       /\ Len(complaints') = IF Fields[t][i].upper THEN Len(complaints) ELSE Len(complaints) + 1
  <2>1. complaints \in Seq(Items) /\ Len(complaints) \in Nat
    BY <1>7 DEF GobTypes
  <2>2. CASE Fields[t][i].upper /\ UNCHANGED complaints
    BY <2>1, <2>2
  <2>3. CASE ~Fields[t][i].upper /\ complaints' = Append(complaints, x0)
    <3> HIDE DEF x0
    <3>1. Append(complaints, x0) \in Seq(Items) /\ Len(Append(complaints, x0)) = Len(complaints) + 1
      BY <2>1, <1>4
    <3>2. \A x : /\ Holds(Append(complaints, x0), x) <=> Holds(complaints, x) \/ x0 = x
                 /\ Once(complaints, x) /\ (x0 = x => ~Holds(complaints, x)) => Once(Append(complaints, x0), x)
      BY <2>1, <1>4, AppendHolds
    <3> QED
      BY <2>1, <2>3, <3>1, <3>2, <1>9
  <2> QED
    BY <2>2, <2>3, <1>2
<1>11. GobTypes'
  BY <1>3, <1>7, <1>8, <1>10 DEF GobTypes
<1>12. CountsLag'
  <2>1. ~Holds(todo[p], CountItem) /\ ~Holds(Tail(todo[p]), CountItem) /\ TypeItem(ft) # CountItem
    <3>1. Head(todo[p]) # CountItem
      BY <1>2, <1>4, ItemsApart
    <3> QED
      BY <3>1, <1>4, <1>8, ItemsApart, NoCountLeft
  <2>2. CASE Fields[t][i].upper
    <3>1. ~Holds(todo'[p], CountItem) /\ complaints' = complaints
      BY <2>1, <2>2, <1>2, <1>5, <1>8
    <3> QED
      BY <2>1, <3>1, <1>3, <1>8, <1>11, CountsKept
  <2>3. CASE ~Fields[t][i].upper
    <3>1. Holds(todo'[p], CountItem) /\ Once(todo'[p], CountItem)
      BY <2>1, <2>3, <1>5, <1>8
    <3>2. Head(todo'[p]) = CountItem
      <4>1. Tail(todo[p]) \in Seq(Items) /\ todo'[p] = more \o Tail(todo[p])
        BY <1>2, <1>6, <1>7, ListReplaced, <1>5 DEF GobTypes
      <4>2. Head(more \o Tail(todo[p])) = Head(more)
        BY <1>5, <4>1
      <4> QED
        BY <2>3, <4>1, <4>2, <1>5
    <3>3. Counting' = Counting \cup {p} /\ p \notin Counting
      BY <2>1, <3>1, <1>8 DEF Counting
    <3>4. CountsFirst'
      BY <3>1, <3>2, <3>3, <1>8 DEF GobInv, CountsLag, CountsFirst, Counting
    <3>5. IsFiniteSet(Counting)
      BY LabGobAssumption, FS_Subset DEF Counting
    <3>6. Cardinality(Counting') = Cardinality(Counting) + 1 /\ Cardinality(Counting) \in Nat
      BY <3>3, <3>5, FS_AddElement, FS_CardinalityType
    <3>7. errorCount \in Nat /\ errorCount' = errorCount
      BY <1>3, <1>7 DEF GobTypes
    <3> QED
      BY <2>3, <3>4, <3>6, <3>7, <1>10 DEF GobInv, CountsLag
  <2> QED
    BY <2>2, <2>3
\* The other fields are where they were.
<1>13. ASSUME NEW u \in Types, NEW j \in DOMAIN Fields[u]
       PROVE  /\ FieldItem(u, j).do = "field" /\ ~Holds(more, FieldItem(u, j))
              /\ FieldItem(u, j) = x0 => u = t /\ j = i
  <2>1. j \in Nat /\ FieldItem(u, j).do = "field" /\ FieldItem(u, j).type = u /\ FieldItem(u, j).field = j
    BY FieldsWellTyped, ItemsApart
  <2>2. x0.type = t /\ x0.field = i /\ TypeItem(ft).do = "type" /\ CountItem.do = "count"
    BY <1>4, ItemsApart
  <2> HIDE DEF x0
  <2> QED
    BY <2>1, <2>2, <1>5
<1>14. \A q \in Procs : ~Holds(todo'[q], x0)
  BY <1>2, <1>8, <1>9, <1>13
<1>15. ASSUME NEW u \in Types, NEW j \in DOMAIN Fields[u], NEW q \in Procs
       PROVE  /\ FieldItem(u, j) # x0 => (Holds(todo'[q], FieldItem(u, j)) <=> Holds(todo[q], FieldItem(u, j)))
              /\ Once(todo'[q], FieldItem(u, j))
  <2> HIDE DEF x0
  <2>1. Once(todo[q], FieldItem(u, j)) /\ Head(todo[p]) = x0
    BY <1>2 DEF GobInv, FieldsOnce, x0
  <2> QED
    BY <2>1, <1>8, <1>13
<1>16. FieldsOnce'
  <2> SUFFICES ASSUME NEW u \in Types, NEW j \in DOMAIN Fields[u]
               PROVE  /\ u \notin checked =>
                           ~Holds(complaints', FieldItem(u, j)) /\ \A q \in Procs : ~Holds(todo'[q], FieldItem(u, j))
                      /\ Once(complaints', FieldItem(u, j))
                      /\ \A q \in Procs : /\ Once(todo'[q], FieldItem(u, j))
                                          /\ ~(Holds(complaints', FieldItem(u, j)) /\ Holds(todo'[q], FieldItem(u, j)))
                      /\ \A q, r \in Procs :
                           Holds(todo'[q], FieldItem(u, j)) /\ Holds(todo'[r], FieldItem(u, j)) => q = r
    BY <1>3 DEF FieldsOnce
  <2>1. Once(complaints, FieldItem(u, j))
    BY DEF GobInv, FieldsOnce
  <2>2. CASE FieldItem(u, j) = x0
    BY <2>1, <2>2, <1>9, <1>10, <1>13, <1>14, <1>15
  <2>3. CASE FieldItem(u, j) # x0
    BY <2>1, <2>3, <1>10, <1>15 DEF GobInv, FieldsOnce
  <2> QED
    BY <2>2, <2>3
<1>17. LowerFound'
  <2> SUFFICES ASSUME NEW u \in checked, NEW j \in DOMAIN Fields[u], Kind[u] = "struct", ~Fields[u][j].upper
               PROVE  \/ Holds(complaints', FieldItem(u, j))
                      \/ \E q \in Procs : Holds(todo'[q], FieldItem(u, j))
    BY <1>3 DEF LowerFound
  <2>1. u \in Types
    BY <1>7 DEF GobTypes
  <2>2. Holds(complaints, FieldItem(u, j)) \/ \E q \in Procs : Holds(todo[q], FieldItem(u, j))
    BY DEF GobInv, LowerFound
  <2>3. CASE FieldItem(u, j) = x0
    BY <2>1, <2>3, <1>10, <1>13
  <2>4. CASE FieldItem(u, j) # x0
    BY <2>1, <2>2, <2>4, <1>10, <1>15
  <2> QED
    BY <2>3, <2>4
<1>18. PartsFound'
  <2> SUFFICES ASSUME NEW u \in checked, NEW w \in MadeOf(u)
               PROVE  \/ w \in checked \/ \E q \in Procs : Holds(todo'[q], TypeItem(w))
                      \/ \E j \in DOMAIN Fields[u] :
                           Fields[u][j].type = w /\ \E q \in Procs : Holds(todo'[q], FieldItem(u, j))
    BY <1>3 DEF PartsFound
  <2>1. u \in Types /\ w \in Types
    BY <1>7, LookIntoHolds DEF GobTypes
  <2>2. ASSUME NEW q \in Procs, Holds(todo[q], TypeItem(w)) PROVE Holds(todo'[q], TypeItem(w))
    <3>1. TypeItem(w) # x0
      BY <2>1, <1>4, ItemsApart
    <3> HIDE DEF x0
    <3>2. Head(todo[p]) = x0
      BY <1>2 DEF x0
    <3> QED
      BY <2>2, <3>1, <3>2, <1>8
  <2>3. ASSUME NEW j \in DOMAIN Fields[u], Fields[u][j].type = w, NEW q \in Procs, Holds(todo[q], FieldItem(u, j))
        PROVE  Holds(todo'[q], FieldItem(u, j)) \/ Holds(todo'[p], TypeItem(w))
    <3>1. CASE FieldItem(u, j) = x0
      <4>1. w = ft
        BY <2>1, <2>3, <3>1, <1>13 DEF ft
      <4> QED
        BY <4>1, <1>5, <1>8
    <3>2. CASE FieldItem(u, j) # x0
      BY <2>1, <2>3, <3>2, <1>15
    <3> QED
      BY <3>1, <3>2
  <2>4. \/ w \in checked \/ \E q \in Procs : Holds(todo[q], TypeItem(w))
        \/ \E j \in DOMAIN Fields[u] :
             Fields[u][j].type = w /\ \E q \in Procs : Holds(todo[q], FieldItem(u, j))
    BY DEF GobInv, PartsFound
  <2> QED
    BY <2>2, <2>3, <2>4
<1> QED
  BY <1>11, <1>12, <1>16, <1>17, <1>18 DEF GobInv

\* Every step keeps GobInv.
LEMMA GobStepInv == GobInv /\ [GobNext]_gobVars => GobInv'
<1> SUFFICES ASSUME GobInv, [GobNext]_gobVars PROVE GobInv'
  OBVIOUS
<1>1. ASSUME NEW p \in Procs, Encode(p) \/ Register(p) \/ Decode(p) PROVE GobInv'
  BY <1>1, CallsInv
<1>2. ASSUME NEW p \in Procs, CheckStep(p) PROVE GobInv'
  BY <1>2, CheckTypeInv, CheckFieldInv, CountErrorInv, DownInv, BasicInv DEF CheckStep
<1>3. CASE UNCHANGED gobVars
  BY <1>3 DEF gobVars, GobInv, GobTypes, FieldsOnce, LowerFound, PartsFound, CountsLag, CountsFirst,
     Counting
<1> QED
  BY <1>1, <1>2, <1>3 DEF GobNext

-----------------------------------------------------------------------------
(***************************************************************************)
(* The theorems.                                                           *)
(***************************************************************************)

\* Where an item is pending, and where it is not.
LEMMA PendingIs ==
  ASSUME GobTypes, NEW x
  PROVE  /\ Pending(x) # {} <=> \E p \in Procs : Holds(todo[p], x)
         /\ (\A p \in Procs : Once(todo[p], x))
              /\ (\A p, q \in Procs : Holds(todo[p], x) /\ Holds(todo[q], x) => p = q)
              => \A e, f \in Pending(x) : e = f
<1>1. ASSUME NEW p \in Procs PROVE DOMAIN todo[p] = 1..Len(todo[p])
  <2>1. todo[p] \in Seq(Items)
    BY DEF GobTypes
  <2> QED
    BY <2>1
<1>2. ASSUME NEW p \in Procs, NEW k \in 1..Len(todo[p]), todo[p][k] = x PROVE <<p, k>> \in Pending(x)
  BY <1>1, <1>2 DEF Pending
<1>3. ASSUME NEW e \in Pending(x)
      PROVE  \E p \in Procs : \E k \in 1..Len(todo[p]) : e = <<p, k>> /\ todo[p][k] = x
  BY <1>1, <1>3 DEF Pending
<1>4. Pending(x) # {} <=> \E p \in Procs : Holds(todo[p], x)
  BY <1>2, <1>3 DEF Holds
<1>5. ASSUME \A p \in Procs : Once(todo[p], x),
             \A p, q \in Procs : Holds(todo[p], x) /\ Holds(todo[q], x) => p = q,
             NEW e \in Pending(x), NEW f \in Pending(x)
      PROVE  e = f
  <2>1. PICK p \in Procs : \E k \in 1..Len(todo[p]) : e = <<p, k>> /\ todo[p][k] = x
    BY <1>3
  <2>2. PICK k \in 1..Len(todo[p]) : e = <<p, k>> /\ todo[p][k] = x
    BY <2>1
  <2>3. PICK q \in Procs : \E l \in 1..Len(todo[q]) : f = <<q, l>> /\ todo[q][l] = x
    BY <1>3
  <2>4. PICK l \in 1..Len(todo[q]) : f = <<q, l>> /\ todo[q][l] = x
    BY <2>3
  <2>5. p = q
    BY <1>5, <2>2, <2>4 DEF Holds
  <2>6. k = l
    BY <1>5, <2>2, <2>4, <2>5 DEF Once
  <2> QED
    BY <2>2, <2>4, <2>5, <2>6
<1> QED
  BY <1>4, <1>5

\* The size of a set whose elements are all the same.
LEMMA AtMostOne ==
  ASSUME NEW S, \A e, f \in S : e = f
  PROVE  Cardinality(S) = IF S = {} THEN 0 ELSE 1
<1>1. CASE S = {}
  BY <1>1, FS_EmptySet
<1>2. CASE S # {}
  <2>1. PICK e \in S : TRUE
    BY <1>2
  <2>2. S = {e}
    BY <2>1
  <2> QED
    BY <1>2, <2>2, FS_Singleton
<1> QED
  BY <1>1, <1>2

\* GobInv says that each field is complained about once.
LEMMA OnceComplained == GobInv => ComplainedOnce
<1> SUFFICES ASSUME GobInv, NEW t \in Types, NEW i \in DOMAIN Fields[t],
                    Kind[t] = "struct", ~Fields[t][i].upper
             PROVE  Cardinality({k \in DOMAIN complaints : complaints[k] = FieldItem(t, i)})
                      + Cardinality(Pending(FieldItem(t, i))) = IF t \in checked THEN 1 ELSE 0
  BY DEF ComplainedOnce
<1> DEFINE x == FieldItem(t, i)
           C == {k \in DOMAIN complaints : complaints[k] = x}
           P == Pending(x)
<1>1. GobTypes /\ DOMAIN complaints = 1..Len(complaints)
  <2>1. complaints \in Seq(Items)
    BY DEF GobInv, GobTypes
  <2> QED
    BY <2>1 DEF GobInv
<1>2. /\ t \notin checked => ~Holds(complaints, x) /\ \A p \in Procs : ~Holds(todo[p], x)
      /\ Once(complaints, x)
      /\ \A p \in Procs : Once(todo[p], x) /\ ~(Holds(complaints, x) /\ Holds(todo[p], x))
      /\ \A p, q \in Procs : Holds(todo[p], x) /\ Holds(todo[q], x) => p = q
  BY DEF GobInv, FieldsOnce
<1>3. t \in checked => Holds(complaints, x) \/ \E p \in Procs : Holds(todo[p], x)
  BY DEF GobInv, LowerFound
<1> HIDE DEF x
<1>4. (C # {} <=> Holds(complaints, x)) /\ \A k, l \in C : k = l
  BY <1>1, <1>2 DEF Holds, Once
<1>5. (P # {} <=> \E p \in Procs : Holds(todo[p], x)) /\ \A e, f \in P : e = f
  BY <1>1, <1>2, PendingIs
<1> HIDE DEF C, P
<1>6. Cardinality(C) = (IF C = {} THEN 0 ELSE 1) /\ Cardinality(P) = (IF P = {} THEN 0 ELSE 1)
  BY <1>4, <1>5, AtMostOne
<1>7. Cardinality(C) + Cardinality(P) = IF t \in checked THEN 1 ELSE 0
  BY <1>2, <1>3, <1>4, <1>5, <1>6
<1> QED
  BY <1>7 DEF x, C, P

\* "only complain once" (labgob.go:76) holds for any types, however they refer to
\* each other, and any goroutines: a lower-case field of a checked type is in the
\* complaints or waiting on one list, never twice.
THEOREM FieldsComplainedOnce == GobSpec => []ComplainedOnce
<1>1. GobInv => ComplainedOnce
  BY OnceComplained
<1> QED
  BY <1>1, GobInitInv, GobStepInv, PTL DEF GobSpec

\* Marking a type before its parts are looked at skips none of them
\* (labgob.go:80-113).
THEOREM NoPartSkipped == GobSpec => []NothingSkipped
<1>1. GobInv => NothingSkipped
  <2> SUFFICES ASSUME GobInv, NEW t \in checked, NEW u \in MadeOf(t)
               PROVE  \/ u \in checked \/ Pending(TypeItem(u)) # {}
                      \/ \E i \in DOMAIN Fields[t] :
                           Fields[t][i].type = u /\ Pending(FieldItem(t, i)) # {}
    BY DEF NothingSkipped
  <2>1. \A x : Pending(x) # {} <=> \E p \in Procs : Holds(todo[p], x)
    BY PendingIs DEF GobInv
  <2> QED
    BY <2>1 DEF GobInv, PartsFound
<1> QED
  BY <1>1, GobInitInv, GobStepInv, PTL DEF GobSpec

\* No complaint goes uncounted (labgob.go:94-98): when every call has returned,
\* errorCount is at least the number of lower-case fields among the types seen, for
\* any types and goroutines, although they complain before they take mu to count.
THEOREM ErrorsAreCounted == GobSpec => []ComplaintsCounted
<1>1. GobInv => ComplaintsCounted
  <2> SUFFICES ASSUME GobInv, AllReturned PROVE Cardinality(LowerFields) <= errorCount
    BY DEF ComplaintsCounted
  <2> DEFINE n == Len(complaints)
             D == 1..n
             C == {complaints[k] : k \in D}
  <2>1. \A p \in Procs : \A x : ~Holds(todo[p], x)
    BY EmptyHolds DEF AllReturned
  <2>2. n \in Nat /\ errorCount \in Nat
    BY DEF GobInv, GobTypes
  <2>3. n <= errorCount
    <3>1. Counting = {}
      BY <2>1 DEF Counting
    <3>2. Cardinality({}) = 0
      BY FS_EmptySet
    <3> QED
      BY <2>2, <3>1, <3>2 DEF GobInv, CountsLag
  <2>4. LowerFields \subseteq C
    <3> SUFFICES ASSUME NEW t \in checked, Kind[t] = "struct", NEW i \in DOMAIN Fields[t], ~Fields[t][i].upper
                 PROVE  FieldItem(t, i) \in C
      BY DEF LowerFields
    <3>1. Holds(complaints, FieldItem(t, i))
      BY <2>1 DEF GobInv, LowerFound
    <3> QED
      BY <3>1 DEF Holds
  <2>5. IsFiniteSet(D) /\ Cardinality(D) = n
    <3> HIDE DEF n
    <3> QED
      BY <2>2, FS_Interval
  <2>6. IsFiniteSet(C) /\ Cardinality(C) <= Cardinality(D)
    <3> DEFINE f == [k \in D |-> complaints[k]]
    <3>1. f \in Surjection(D, C)
      BY DEF Surjection
    <3> HIDE DEF f, D, C
    <3> QED
      BY <2>5, <3>1, FS_Surjection
  <2> HIDE DEF C, D, n
  <2>7. Cardinality(LowerFields) <= Cardinality(C) /\ IsFiniteSet(LowerFields)
    BY <2>4, <2>6, FS_Subset
  <2>8. Cardinality(LowerFields) \in Nat /\ Cardinality(C) \in Nat
    BY <2>6, <2>7, FS_CardinalityType
  <2> QED
    BY <2>2, <2>3, <2>5, <2>6, <2>7, <2>8
<1> QED
  BY <1>1, GobInitInv, GobStepInv, PTL DEF GobSpec
=============================================================================
