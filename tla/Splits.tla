------------------------------- MODULE Splits -------------------------------
(***************************************************************************)
(* What merging several sequences means: the merged values, each tagged    *)
(* with its source, hold the first values of every source in order and     *)
(* once each, and the rest of the source is still elsewhere.               *)
(***************************************************************************)
EXTENDS Integers, Sequences, FiniteSets

\* How many of the first k merged values came from s.
CountFrom(s, merged, k) == Cardinality({j \in 1..k : merged[j].from = s})

\* Of all the values of s the merged ones and then the rest are, in this order,
\* each one once.
IsSplit(all, s, merged, rest) ==
  LET n == CountFrom(s, merged, Len(merged))
  IN  /\ n <= Len(all) /\ rest = SubSeq(all, n + 1, Len(all))
      /\ \A k \in DOMAIN merged :
           merged[k].from = s => merged[k].value = all[CountFrom(s, merged, k)]
=============================================================================
