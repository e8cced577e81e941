------------------------- MODULE MCFallbackRanking -------------------------
(***************************************************************************)
(* Instances of FallbackRanking for TLC: three trending videos that two    *)
(* users rank in opposite orders, one of them with a tie; a refresh may    *)
(* also find a shorter list, with a video that the other does not have.    *)
(***************************************************************************)
EXTENDS FallbackRanking, TLC

MCUsers    == {1, 2}
MCScore    == << 11 :> 1 @@ 12 :> 2 @@ 13 :> 3 @@ 14 :> 2, 11 :> 3 @@ 12 :> 1 @@ 13 :> 1 @@ 14 :> 0 >>
MCTrending == {<<11, 12, 13>>, <<12, 14>>}
MCSymmetry == Permutations(Handlers)
=============================================================================
