----------------------------- MODULE LoadedIds ------------------------------
(***************************************************************************)
(* Where the load test and the databases meet: the ids that one program    *)
(* gives another.  Nothing passes between them but numbers that both sides *)
(* were compiled with.                                                     *)
(***************************************************************************)
EXTENDS LoadTest, Databases

\* The constants of loadgen.go and of UserService, in separate packages.
ASSUME LoadedIdsAssumption ==
  /\ UserIdOffset = USER_ID_OFFSET
  /\ MinUserCount <= UserRange.least

\* loadgen goes round the users MIN_USER_COUNT at a time without asking how many
\* there are (loadgen.go:45-50): whatever was drawn, UserService has all of them.
LoadedUsersExist == started["user"] = "up" => Users \subseteq DOMAIN users

\* Every id that one program gives another leads to a record there: the users of
\* loadgen, the liked videos, and what the services' own records name.
IdsResolve == LoadedUsersExist /\ LikedVideosExist /\ RecordsResolve
=============================================================================
