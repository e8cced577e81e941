--------------------------- MODULE MCRaftHarness ----------------------------
(* Instances of RaftLives for TLC. *)
EXTENDS RaftLives, TLC

CONSTANT MCServers

MCIncarnations == 1..MaxIncarnation
MCInstances == MCServers \X MCIncarnations
MCEnds == MCServers \X MCIncarnations \X MCServers
MCSymmetry == Permutations(Calls) \cup Permutations(MCServers)
=============================================================================
