------------------------------ MODULE MCLabRpc ------------------------------
(***************************************************************************)
(* The network with its statistics, for TLC.  A test makes two Servers for *)
(* one name and one for the other, and has connected an end to each name;  *)
(* everything else it does is still to come.  The network is unreliable    *)
(* throughout: it may drop a request or a reply but need not, so that it   *)
(* does all that a reliable one does.                                      *)
(***************************************************************************)
EXTENDS RpcCounts, TLC

MCServerNames == {"s1", "s2"}
MCInstances == {"r1", "r2", "r3"}
MCNameOf == "r1" :> "s1" @@ "r2" :> "s1" @@ "r3" :> "s2"
MCEnds == {"e1", "e2"}
MCSymmetry == Permutations(Calls)

\* CountInit after Reliable(FALSE), Connect("e1", "s1") and Connect("e2", "s2").
MCInit ==
  /\ connections = ("e1" :> "s1" @@ "e2" :> "s2")
  /\ reliable = FALSE /\ enabled = [e \in Ends |-> FALSE]
  /\ servers = [s \in ServerNames |-> Nil]
  /\ InitCalls /\ InitStatistics

MCSpec == MCInit /\ [][CountNext /\ UNCHANGED reliable]_countVars
=============================================================================
