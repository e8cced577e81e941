----------------------------- MODULE MCLab3Lib ------------------------------
(***************************************************************************)
(* The two libraries that lab3's Rafts call, in one run: the first state   *)
(* names the subject of a behaviour and only that one moves.  For labgob,  *)
(* a recursive struct with a lower-case pointer to itself and a map whose  *)
(* key is a struct with a lower-case field, and values of them, one of     *)
(* which cannot be decoded into.  For labrpc, calls on one end, the        *)
(* handler of one of which may hang.                                       *)
(***************************************************************************)
EXTENDS LabGob, LabRpc, TLC

MCTypes == {"Args", "*Args", "map", "Key", "int"}
MCKind == "Args" :> "struct" @@ "*Args" :> "elem" @@ "map" :> "map" @@ "Key" :> "struct" @@ "int" :> "basic"
MCFields == [t \in MCTypes |->
  CASE t = "Args" -> <<[upper |-> FALSE, type |-> "*Args"], [upper |-> TRUE, type |-> "int"],
                       [upper |-> TRUE, type |-> "map"]>>
    [] t = "Key" -> <<[upper |-> FALSE, type |-> "int"]>>
    [] OTHER -> <<>>]
MCElem == [t \in MCTypes |-> IF t = "*Args" THEN "Args" ELSE "int"]
MCKey == [t \in MCTypes |-> IF t = "map" THEN "Key" ELSE "int"]

\* &Args{nil, 0, m}, a pointer to a cycle of Args, and a Key.
MCValues == {"ptr", "args", "nil", "m", "zero", "cycle", "loop", "seven", "key"}
MCTypeOf == [v \in MCValues |->
  CASE v \in {"ptr", "nil", "loop"} -> "*Args"
    [] v \in {"args", "cycle"} -> "Args"
    [] v = "m" -> "map"
    [] v = "key" -> "Key"
    [] OTHER -> "int"]
MCParts == [v \in MCValues |->
  CASE v = "ptr" -> <<"args">> [] v = "args" -> <<"nil", "zero", "m">>
    [] v = "loop" -> <<"cycle">> [] v = "cycle" -> <<"loop", "seven", "m">>
    [] v = "key" -> <<"zero">> [] OTHER -> <<>>]

VARIABLE subject

LibInit == GobInit /\ Init /\ subject \in {"labgob", "labrpc"}

LibNext ==
  /\ \/ subject = "labgob" /\ GobNext /\ UNCHANGED rpcVars
     \/ subject = "labrpc" /\ Next /\ UNCHANGED gobVars
  /\ UNCHANGED subject

LibSpec ==
  /\ LibInit /\ [][LibNext]_<<gobVars, rpcVars, subject>>
  /\ GobFairness /\ CallFairness
=============================================================================
