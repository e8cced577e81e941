------------------------------ MODULE IdLists -------------------------------
(***************************************************************************)
(* The loops over lists of ids that the lab1 services have in common, each *)
(* as the function of how far it has come.                                 *)
(***************************************************************************)
EXTENDS Integers, Sequences

\* Both services' deduplicateIds: set holds the ids before the n-th.
deduplicateIds(ids) ==
  LET deduped[n \in 0..Len(ids)] ==
        IF n = 0 THEN <<>>
        ELSE IF \E k \in 1..(n - 1) : ids[k] = ids[n] THEN deduped[n - 1]
             ELSE Append(deduped[n - 1], ids[n])
  IN  deduped[Len(ids)]

\* makeRandomUser's loop: an id that is drawn for its own user is skipped.
SkipSelf(ids, self) ==
  LET kept[n \in 0..Len(ids)] ==
        IF n = 0 THEN <<>>
        ELSE IF ids[n] = self THEN kept[n - 1] ELSE Append(kept[n - 1], ids[n])
  IN  kept[Len(ids)]
=============================================================================
