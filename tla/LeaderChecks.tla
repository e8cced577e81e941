---------------------------- MODULE LeaderChecks ----------------------------
(***************************************************************************)
(* How lab3's harness judges who leads: checkOneLeader, checkTerms and     *)
(* checkNoLeader ask the connected servers for their state one after the   *)
(* other, while terms pass and leaders change.  The Rafts are external:    *)
(* correct ones have one leader per term at most, ever; incorrect ones     *)
(* lead as they like.  A term never decreases.                             *)
(***************************************************************************)
EXTENDS Integers, Sequences, FiniteSets

CONSTANTS
  Peers,      \* cfg.n: servers are 0..Peers-1
  MaxTerm,    \* bound on terms
  MaxIters    \* rounds of checkOneLeader

ASSUME LeaderAssumption == Peers \in Nat \ {0} /\ MaxTerm \in Nat /\ MaxIters \in Nat \ {0}

Nodes == 0..Peers - 1
Terms == 0..MaxTerm

VARIABLES
  safe,        \* whether the Rafts' elections are
  term, leads, \* each server's state
  ledBy,       \* who has led each term (history)
  connected,   \* cfg.connected
  check,       \* the check that runs, and how it ended
  at,          \* the server it asks next
  iters,       \* rounds of checkOneLeader so far
  leaders,     \* checkOneLeader: the leaders found in each term, in order
  xterm,       \* checkTerms: the term found, or -1
  result,      \* what checkOneLeader or checkTerms returned
  moved        \* whether a server's state changed since the round began (history)

electionVars == <<safe, term, leads, ledBy, connected>>
scanVars == <<check, at, iters, leaders, xterm, result>>
leaderVars == <<electionVars, scanVars, moved>>

LeaderInit ==
  /\ safe \in BOOLEAN
  /\ term = [i \in Nodes |-> 0] /\ leads = [i \in Nodes |-> FALSE]
  /\ ledBy = [t \in Terms |-> {}]
  /\ connected = Nodes
  /\ check = "none" /\ at = 0 /\ iters = 0 /\ leaders = [t \in Terms |-> <<>>]
  /\ xterm = -1 /\ result = -1 /\ moved = FALSE

-----------------------------------------------------------------------------
(***************************************************************************)
(* Rafts, and the test that connects and disconnects them between checks.  *)
(***************************************************************************)

NewTerm(i) ==
  /\ term[i] < MaxTerm
  /\ \E t \in term[i] + 1..MaxTerm : term' = [term EXCEPT ![i] = t]
  /\ leads' = [leads EXCEPT ![i] = FALSE]
  /\ moved' = TRUE
  /\ UNCHANGED <<safe, ledBy, connected, scanVars>>

BecomeLeader(i) ==
  /\ ~leads[i] /\ (safe => ledBy[term[i]] \subseteq {i})
  /\ leads' = [leads EXCEPT ![i] = TRUE]
  /\ ledBy' = [ledBy EXCEPT ![term[i]] = @ \cup {i}]
  /\ moved' = TRUE
  /\ UNCHANGED <<safe, term, connected, scanVars>>

Finished == {"none", "returned-leader", "returned-term", "passed"}

Rewire ==
  /\ check \in Finished
  /\ \E c \in SUBSET Nodes : c # connected /\ connected' = c
  /\ check' = "none" /\ result' = -1 /\ moved' = TRUE
  /\ UNCHANGED <<safe, term, leads, ledBy, at, iters, leaders, xterm>>

-----------------------------------------------------------------------------
(***************************************************************************)
(* The checks.                                                             *)
(***************************************************************************)

BeginCheck(c) ==
  /\ check \in Finished
  /\ check' = c /\ at' = 0 /\ iters' = 0 /\ leaders' = [t \in Terms |-> <<>>]
  /\ xterm' = -1 /\ result' = -1 /\ moved' = FALSE
  /\ UNCHANGED electionVars

CheckOneLeader == BeginCheck("checkOneLeader")
CheckTerms == BeginCheck("checkTerms")
CheckNoLeader == BeginCheck("checkNoLeader")

Skip ==
  /\ check \in {"checkOneLeader", "checkTerms", "checkNoLeader"}
  /\ at < Peers /\ at \notin connected
  /\ at' = at + 1
  /\ UNCHANGED <<electionVars, check, iters, leaders, xterm, result, moved>>

\* Mutant of AskLeader: the leaders of all terms in one list.
AskLeaderAnyTerm ==
  /\ check = "checkOneLeader" /\ at \in connected
  /\ at' = at + 1
  /\ leaders' = IF leads[at] THEN [leaders EXCEPT ![0] = Append(@, at)] ELSE leaders
  /\ UNCHANGED <<electionVars, check, iters, xterm, result, moved>>

\* if term, leader := GetState(); leader { append }
AskLeader ==
  /\ check = "checkOneLeader" /\ at \in connected
  /\ at' = at + 1
  /\ leaders' = IF leads[at] THEN [leaders EXCEPT ![term[at]] = Append(@, at)] ELSE leaders
  /\ UNCHANGED <<electionVars, check, iters, xterm, result, moved>>

FoundIn == {t \in Terms : leaders[t] # <<>>}

lastTermWithLeader == CHOOSE t \in FoundIn : \A u \in FoundIn : u <= t

MoreRounds == iters + 1 < MaxIters

\* The end of a round: two leaders of a term are fatal, a leader is returned,
\* and without one the next round begins, up to ten.
EndOfRound ==
  /\ check = "checkOneLeader" /\ at = Peers
  /\ \/ /\ \E t \in Terms : Len(leaders[t]) > 1
        /\ check' = "Fatal:several-leaders" /\ UNCHANGED <<at, iters, leaders, result, moved>>
     \/ /\ \A t \in Terms : Len(leaders[t]) <= 1
        /\ FoundIn # {}
        /\ check' = "returned-leader" /\ result' = leaders[lastTermWithLeader][1]
        /\ UNCHANGED <<at, iters, leaders, moved>>
     \/ /\ FoundIn = {} /\ MoreRounds
        /\ iters' = iters + 1 /\ at' = 0 /\ leaders' = [t \in Terms |-> <<>>]
        /\ moved' = FALSE /\ UNCHANGED <<check, result>>
     \/ /\ FoundIn = {} /\ ~MoreRounds
        /\ check' = "Fatal:no-leader" /\ UNCHANGED <<at, iters, leaders, result, moved>>
  /\ UNCHANGED <<electionVars, xterm>>

\* Mutant of TermDiffers: a server that is behind is forgiven.
TermAhead == xterm # -1 /\ term[at] > xterm

TermDiffers == xterm # -1 /\ term[at] # xterm

AskTerm ==
  /\ check = "checkTerms" /\ at \in connected
  /\ \/ TermDiffers /\ check' = "Fatal:terms" /\ UNCHANGED <<at, xterm>>
     \/ ~TermDiffers /\ xterm' = term[at] /\ at' = at + 1 /\ UNCHANGED check
  /\ UNCHANGED <<electionVars, iters, leaders, result, moved>>

AskNoLeader ==
  /\ check = "checkNoLeader" /\ at \in connected
  /\ \/ leads[at] /\ check' = "Fatal:a-leader" /\ UNCHANGED at
     \/ ~leads[at] /\ at' = at + 1 /\ UNCHANGED check
  /\ UNCHANGED <<electionVars, iters, leaders, xterm, result, moved>>

Pass ==
  /\ at = Peers
  /\ \/ check = "checkTerms" /\ check' = "returned-term" /\ result' = xterm
     \/ check = "checkNoLeader" /\ check' = "passed" /\ UNCHANGED result
  /\ UNCHANGED <<electionVars, at, iters, leaders, xterm, moved>>

LeaderNext ==
  \/ \E i \in Nodes : NewTerm(i) \/ BecomeLeader(i)
  \/ Rewire \/ CheckOneLeader \/ CheckTerms \/ CheckNoLeader
  \/ Skip \/ AskLeader \/ EndOfRound \/ AskTerm \/ AskNoLeader \/ Pass

LeaderSpec == LeaderInit /\ [][LeaderNext]_leaderVars

-----------------------------------------------------------------------------
\* Safe Rafts are never accused of several leaders in a term, although the
\* servers are asked one after the other while leaders come and go
\* (config.go:322-334).
LeadersNotFalselyAccused == safe => check # "Fatal:several-leaders"

\* If no server changed since the round began, what a check says is true of the
\* connected servers, whether the Rafts are safe or not.  The leader that
\* checkOneLeader returns is connected, leads, and every other connected leader
\* is of an older term (config.go:321-342); a check of the terms or for no leader
\* that passed, or failed, tells the truth about every one (config.go:349-374).
VerdictsTrueWhenStill ==
  ~moved =>
    /\ check = "returned-leader" =>
         /\ result \in connected /\ leads[result]
         /\ \A i \in connected \ {result} : leads[i] => term[i] < term[result]
    /\ check = "returned-term" => \A i \in connected : term[i] = result
    /\ check = "passed" => \A i \in connected : ~leads[i]
    /\ check = "Fatal:terms" => \E i, j \in connected : term[i] # term[j]
    /\ check = "Fatal:a-leader" => \E i \in connected : leads[i]
    /\ check = "Fatal:no-leader" => \A i \in connected : ~leads[i]
=============================================================================
