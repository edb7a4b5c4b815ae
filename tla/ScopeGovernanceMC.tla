------------------------- MODULE ScopeGovernanceMC -------------------------
(***************************************************************************)
(* Instances of ScopeGovernance for TLC: a private community whose         *)
(* requests on two proposals come one at a time, one with two requests in  *)
(* flight on one proposal, and one of three people with one proposal.  In  *)
(* a scenario one of them moves, the others stay as they begin.            *)
(***************************************************************************)
EXTENDS ScopeGovernance, TLC

CONSTANTS ana, cem, Pair, still

VARIABLES scenario, pairCommunity, pairProposals, pairVotes, pairExpired, pairJob,
          threeCommunity, threeProposals, threeVotes, threeExpired, threeJob

Concurrent == INSTANCE ScopeGovernance WITH
  Names <- {still}, Workers <- Pair, MaxProposals <- 1,
  community <- pairCommunity, proposals <- pairProposals, votes <- pairVotes,
  expired <- pairExpired, job <- pairJob

Three == INSTANCE ScopeGovernance WITH
  Users <- Users \cup {cem}, Names <- {still}, MaxProposals <- 1,
  community <- threeCommunity, proposals <- threeProposals, votes <- threeVotes,
  expired <- threeExpired, job <- threeJob

(* All but the founder are interchangeable, so are the workers and names.  *)
Symmetry ==
  Permutations((Users \ {Founder}) \cup {cem}) \cup Permutations(Pair) \cup Permutations(Names)

pairVars  == <<pairCommunity, pairProposals, pairVotes, pairExpired, pairJob>>
threeVars == <<threeCommunity, threeProposals, threeVotes, threeExpired, threeJob>>
allVars   == <<scenario, vars, pairVars, threeVars>>

Resting(c) == c.mode = "collaborative"
MCInit ==
  /\ scenario \in {"alone", "concurrent", "three"}
  /\ Init /\ Concurrent!Init /\ Three!Init
  /\ scenario # "alone" => Resting(community)
  /\ scenario # "concurrent" => Resting(pairCommunity)
  /\ scenario # "three" => Resting(threeCommunity)

MCNext ==
  /\ UNCHANGED scenario
  /\ \/ scenario = "alone" /\ Next /\ UNCHANGED <<pairVars, threeVars>>
     \/ scenario = "concurrent" /\ Concurrent!Next /\ UNCHANGED <<vars, threeVars>>
     \/ scenario = "three" /\ Three!Next /\ UNCHANGED <<vars, pairVars>>

MCSpec == MCInit /\ [][MCNext]_allVars

-----------------------------------------------------------------------------
(* However many requests are in flight, a settled proposal is disturbed    *)
(* only by those that saw it open (scope_governance.py:286 and 407).       *)
SettledStays == Concurrent!SettledIsFinal

(* One request at a time, what could still pass is not voted down, and     *)
(* power goes back to the members by 66% of the organizers only            *)
(* (scope_governance.py:178-204).                                          *)
VotesAreFair == Three!RejectionIsFair /\ Three!OrganizersDecideTheSwitch
=============================================================================
