---------------------------- MODULE MCRaftChecks ----------------------------
(***************************************************************************)
(* The harness's judgement of logs and of leaders, one per behaviour: the  *)
(* two read different parts of the Rafts' state.                           *)
(***************************************************************************)
EXTENDS CommitChecks, LeaderChecks, TLC

VARIABLE subject
checkVars == <<commitVars, leaderVars, subject>>

ChecksInit ==
  /\ CommitInit /\ LeaderInit
  /\ \/ subject = "commits" /\ safe
     \/ subject = "leaders" /\ correct

ChecksNext ==
  /\ \/ subject = "commits" /\ CommitNext /\ UNCHANGED leaderVars
     \/ subject = "leaders" /\ LeaderNext /\ UNCHANGED commitVars
  /\ UNCHANGED subject

ChecksSpec == ChecksInit /\ [][ChecksNext]_checkVars

MCSymmetry == Permutations(Cmds)
=============================================================================
