------------------------- MODULE MCVideoRecService -------------------------
(***************************************************************************)
(* Instances of VideoRecService for TLC.  User 1 is subscribed to three    *)
(* users (one twice), which with MaxBatchSize 2 makes two batches of users *)
(* and two of videos; users 2 and 3 are subscribed to nobody; user 0 does  *)
(* not exist.                                                              *)
(***************************************************************************)
EXTENDS VideoRecService

MCUsers        == {1, 2, 3}
MCVideos       == {11, 12, 13}
MCSubscribedTo == <<  <<2, 3, 2>>, <<>>, <<2>>  >>
MCLikedVideos  == <<  <<>>, <<11, 12>>, <<12, 13, 12>>  >>
MCTrending     == <<13, 11>>
MCScore        == [u \in MCUsers |-> (11 :> 5 @@ 12 :> 7 @@ 13 :> 7)]

MCLimits == {-1, 0, 2}

MCSymmetry == Permutations(Requests)

Rate(fail, omit) == [FailureRate |-> fail, ResponseOmissionRate |-> omit]

\* failing, but every request is answered
MCAnswering == {NoFailures, Rate(2, 0)}
\* responses may also be omitted
MCOmitting == {NoFailures, Rate(2, 2), Rate(1, 0)}

Options(fallback, retry) == [DisableFallback |-> ~fallback, DisableRetry |-> ~retry]

\* the defaults, and everything switched off
MCOptions == {Options(TRUE, TRUE), Options(FALSE, FALSE)}
=============================================================================
