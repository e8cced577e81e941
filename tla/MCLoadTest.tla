----------------------------- MODULE MCLoadTest -----------------------------
(***************************************************************************)
(* What has to be right before a load test means anything: the data the    *)
(* services make up when they start, and the numbers counted afterwards.   *)
(* The two meet only in the user ids, so the first state names the subject *)
(* of a behaviour and only that one moves.                                 *)
(***************************************************************************)
EXTENDS LoadedIds, TLC

VARIABLE subject

\* The choices that only the other subject makes are fixed.
LoadTestInit ==
  /\ Init /\ DbInit
  /\ \/ subject = "counters" /\ seed["user"] = 1 /\ seed["video"] = 1
     \/ subject = "databases" /\ reader = "GetStats"

LoadTestNext ==
  /\ \/ subject = "counters" /\ Next /\ UNCHANGED dbVars
     \/ subject = "databases" /\ DbNext /\ UNCHANGED vars
  /\ UNCHANGED subject

LoadTestSpec == LoadTestInit /\ [][LoadTestNext]_<<vars, dbVars, subject>>

MCSeeds == {1, 2}
\* After either seed, the draws that follow the first differ from it.
MCStream == << <<0, 1, 1, 0>>, <<1, 0, 0, 1>> >>
MCUserRange  == [spread |-> 1, least |-> MinUserCount]
MCVideoRange == [spread |-> 2, least |-> 1]
MCSymmetry == Permutations(Requests)
=============================================================================
