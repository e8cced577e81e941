----------------------------- MODULE Semaphore -----------------------------
(***************************************************************************)
(* lab0's Semaphore: Post adds one to an atomic counter; Wait spins, and   *)
(* on each round first looks at its context, then loads the counter, then  *)
(* tries to take one with a compare-and-swap.  Each atomic operation is a  *)
(* step.  A goroutine that has returned from Wait may call it again.       *)
(***************************************************************************)
EXTENDS Integers, FiniteSets

CONSTANTS
  Waiters,    \* goroutines that call Wait
  MaxPosts    \* bound on the calls of Post, by any goroutines

ASSUME SemaphoreAssumption == IsFiniteSet(Waiters) /\ MaxPosts \in Nat

VARIABLES
  v,          \* the counter
  posts,      \* calls of Post so far (history)
  acquired,   \* calls of Wait that returned nil so far (history)
  wpc,         \* what a waiter does next
  ctxDone,    \* whether its context is done
  val         \* the value it has loaded, while it uses it

semVars == <<v, posts, acquired, wpc, ctxDone, val>>

SemInit ==
  /\ v = 0 /\ posts = 0 /\ acquired = 0
  /\ wpc = [w \in Waiters |-> "idle"]
  /\ ctxDone = [w \in Waiters |-> FALSE]
  /\ val = [w \in Waiters |-> 0]

Post ==
  /\ posts < MaxPosts
  /\ v' = v + 1
  /\ posts' = posts + 1
  /\ UNCHANGED <<acquired, wpc, ctxDone, val>>

Wait(w) ==
  /\ wpc[w] = "idle"
  /\ wpc' = [wpc EXCEPT ![w] = "select"]
  /\ UNCHANGED <<v, posts, acquired, ctxDone, val>>

\* The context of a waiting call is cancelled or times out.
Cancel(w) ==
  /\ wpc[w] \in {"select", "load", "cas"} /\ ~ctxDone[w]
  /\ ctxDone' = [ctxDone EXCEPT ![w] = TRUE]
  /\ UNCHANGED <<v, posts, acquired, wpc, val>>

\* Mutant of Select: the context is only looked at when Wait is called.
SelectIgnoresContext(w) ==
  /\ wpc[w] = "select"
  /\ wpc' = [wpc EXCEPT ![w] = "load"]
  /\ UNCHANGED <<v, posts, acquired, ctxDone, val>>

\* select { case <-ctx.Done(): return ctx.Err(); default: ...
Select(w) ==
  /\ wpc[w] = "select"
  /\ \/ ctxDone[w] /\ wpc' = [wpc EXCEPT ![w] = "err"]
     \/ ~ctxDone[w] /\ wpc' = [wpc EXCEPT ![w] = "load"]
  /\ UNCHANGED <<v, posts, acquired, ctxDone, val>>

\* val := s.v.Load(); if val > 0 ...
Load(w) ==
  /\ wpc[w] = "load"
  /\ val' = [val EXCEPT ![w] = v]
  /\ \/ v > 0 /\ wpc' = [wpc EXCEPT ![w] = "cas"]
     \/ v <= 0 /\ wpc' = [wpc EXCEPT ![w] = "select"]
  /\ UNCHANGED <<v, posts, acquired, ctxDone>>

\* Mutant of CompareAndSwap: its result is not looked at.
SwapUnchecked(w) ==
  /\ wpc[w] = "cas"
  /\ v' = IF v = val[w] THEN v - 1 ELSE v
  /\ acquired' = acquired + 1 /\ wpc' = [wpc EXCEPT ![w] = "ok"]
  /\ val' = [val EXCEPT ![w] = 0]
  /\ UNCHANGED <<posts, ctxDone>>

\* swapped = s.v.CompareAndSwap(val, val-1)
CompareAndSwap(w) ==
  /\ wpc[w] = "cas"
  /\ \/ /\ v = val[w]
        /\ v' = v - 1 /\ acquired' = acquired + 1 /\ wpc' = [wpc EXCEPT ![w] = "ok"]
     \/ /\ v # val[w]
        /\ wpc' = [wpc EXCEPT ![w] = "select"]
        /\ UNCHANGED <<v, acquired>>
  /\ val' = [val EXCEPT ![w] = 0]
  /\ UNCHANGED <<posts, ctxDone>>

\* The caller has the result of Wait and may call it again, with another context.
Return(w) ==
  /\ wpc[w] \in {"ok", "err"}
  /\ wpc' = [wpc EXCEPT ![w] = "idle"]
  /\ ctxDone' = [ctxDone EXCEPT ![w] = FALSE]
  /\ UNCHANGED <<v, posts, acquired, val>>

WaitStep(w) == Select(w) \/ Load(w) \/ CompareAndSwap(w)

SemNext == Post \/ \E w \in Waiters : Wait(w) \/ Cancel(w) \/ WaitStep(w) \/ Return(w)

SemSpec == SemInit /\ [][SemNext]_semVars

\* A goroutine inside Wait keeps running.  Nobody has to call Post or Wait, and
\* no context has to end.
SemFairness == \A w \in Waiters : WF_semVars(WaitStep(w))

-----------------------------------------------------------------------------
Spinning == {w \in Waiters : wpc[w] \in {"select", "load", "cas"}}

\* Every variable keeps its type; in particular the counter is never negative.
SemTypeOK ==
  /\ v \in Nat /\ posts \in 0..MaxPosts /\ acquired \in Nat
  /\ wpc \in [Waiters -> {"idle", "select", "load", "cas", "ok", "err"}]
  /\ ctxDone \in [Waiters -> BOOLEAN]
  /\ val \in [Waiters -> Int]

\* Waits succeed no more often than Post was called, and the counter is what
\* is left: racing waiters never take the same unit twice and none is lost
\* (Post and Wait, semaphore.go:38-75).
UnitsConserved == acquired <= posts /\ v = posts - acquired

\* No Wait spins for ever beside units that stay available: there is no wakeup
\* to lose, and a compare-and-swap fails only because a Post or another Wait
\* succeeded, which a finite number of posts ends.
UnitsReachWaiters == <>[](v > 0) => \A w \in Waiters : []<>(w \notin Spinning)

\* A Wait whose context is done returns.
CancelledWaitsReturn ==
  \A w \in Waiters : (w \in Spinning /\ ctxDone[w]) ~> (wpc[w] \in {"ok", "err"})

=============================================================================
