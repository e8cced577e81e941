------------------------------ MODULE Backends ------------------------------
(***************************************************************************)
(* The two services VideoRecService depends on, as their callers see them: *)
(* UserService.GetUser, VideoService.GetVideo and GetTrendingVideos, with  *)
(* the failure injector that runs before each of them.                     *)
(*                                                                         *)
(* The databases are filled once at start-up and never change, so they are *)
(* constants.  A user's or a video's record is fetched by id and used only *)
(* through its id, so an answer is abstracted to its status code: on "OK"  *)
(* the caller gets exactly the records of the ids it sent, in that order.  *)
(***************************************************************************)
EXTENDS IdLists, Naturals, Sequences, SequencesExt

CONSTANTS
  Users,              \* ids in the UserService database
  Videos,             \* ids in the VideoService database
  SubscribedTo,       \* user -> sequence of users (may hold duplicates)
  LikedVideos,        \* user -> sequence of videos (may hold duplicates)
  TrendingVideos,     \* VideoService's topVideos, deduplicated at start-up
  UserServiceBatch,   \* MaxBatchSize option of UserService
  VideoServiceBatch   \* MaxBatchSize option of VideoService

ASSUME BackendsAssumption ==
  /\ SubscribedTo \in [Users -> Seq(Users)]
  /\ LikedVideos \in [Users -> Seq(Videos)]
  /\ TrendingVideos \in Seq(Videos) \ {<<>>}
  /\ IsInjective(TrendingVideos)
  /\ UserServiceBatch \in Nat
  /\ VideoServiceBatch \in Nat

Codes == {"OK", "Internal", "InvalidArgument", "NotFound",
          "Unavailable", "DeadlineExceeded"}

(***************************************************************************)
(* Failure injection: a rate of n means "one in n", 0 means never.         *)
(***************************************************************************)
FiConfigType == [FailureRate : Nat, ResponseOmissionRate : Nat]

NoFailures == [FailureRate |-> 0, ResponseOmissionRate |-> 0]

\* The possible results of oneIn(n).
oneIn(n) == CASE n = 0 -> {FALSE}
              [] n = 1 -> {TRUE}
              [] OTHER -> BOOLEAN

\* What MaybeInject can do to a request: an omitted response blocks the
\* handler for ever, whatever shouldError says.
MaybeInject(config) ==
  {IF shouldOmitResponse THEN "Hang" ELSE IF shouldError THEN "Fail" ELSE "Pass" :
     shouldOmitResponse \in oneIn(config.ResponseOmissionRate),
     shouldError \in oneIn(config.FailureRate)}

\* The answers of a handler that would answer `code` if nothing is injected.
Answers(config, code) ==
  {CASE fate = "Hang" -> "Hang"
     [] fate = "Fail" -> "Internal"
     [] OTHER -> code : fate \in MaybeInject(config)}

(***************************************************************************)
(* The handlers.                                                           *)
(***************************************************************************)
GetUser(config, userIds) ==
  Answers(config,
          CASE Len(userIds) \notin 1..UserServiceBatch -> "InvalidArgument"
            [] ~(ToSet(userIds) \subseteq Users) -> "NotFound"
            [] OTHER -> "OK")

\* VideoService rejects a batch whose deduplicated ids are fewer than its ids.
HasDuplicates(videoIds) == Len(deduplicateIds(videoIds)) # Len(videoIds)

GetVideo(config, videoIds) ==
  Answers(config,
          CASE Len(videoIds) \notin 1..VideoServiceBatch -> "InvalidArgument"
            [] HasDuplicates(videoIds) -> "InvalidArgument"
            [] ~(ToSet(videoIds) \subseteq Videos) -> "NotFound"
            [] OTHER -> "OK")

\* Answers TrendingVideos, with an expiration time TtlSeconds away.
GetTrendingVideos(config) == Answers(config, "OK")

=============================================================================
