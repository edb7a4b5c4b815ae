-------------------------- MODULE ProjectPhasesMC --------------------------
(***************************************************************************)
(* Instances of ProjectPhases for TLC: a collective service with two       *)
(* requests in flight, and a productive project whose requests come one at *)
(* a time.  In a scenario one of them moves, the other stays as it begins. *)
(***************************************************************************)
EXTENDS ProjectPhases, TLC

CONSTANT w1

VARIABLES scenario,
          aloneProject, aloneConversions, aloneRequests, aloneVotes, alonePlans, aloneSignals,
          aloneJob

AllFull == [u \in Users |-> "full"]

Alone == INSTANCE ProjectPhases WITH
  Workers <- {w1}, Targets <- {2, 7}, Populations <- {2}, Mode <- "productive",
  PlanSubtypes <- {"keep", "software"}, PlanPhases <- {2}, SignalsMove <- TRUE,
  project <- aloneProject, conversions <- aloneConversions, requests <- aloneRequests,
  votes <- aloneVotes, plans <- alonePlans, signals <- aloneSignals, job <- aloneJob

(* Requests, workers and equally weighted members are interchangeable.     *)
Symmetry ==
  Permutations(Users) \cup Permutations(Workers) \cup Permutations(Requests)

aloneVars == <<aloneProject, aloneConversions, aloneRequests, aloneVotes, alonePlans,
               aloneSignals, aloneJob>>
allVars   == <<scenario, vars, aloneVars>>

(* A collective service has no phase that its subtype would tell apart.    *)
MCInit ==
  /\ scenario \in {"concurrent", "alone"}
  /\ Init /\ Alone!Init
  /\ project.subtype = "standard"
  /\ scenario = "concurrent" => aloneProject.subtype = "standard" /\ ~ aloneSignals
  /\ scenario = "alone" => ~ signals

MCNext ==
  /\ UNCHANGED scenario
  /\ \/ scenario = "concurrent" /\ Next /\ UNCHANGED aloneVars
     \/ scenario = "alone" /\ Alone!Next /\ UNCHANGED vars

MCSpec == MCInit /\ [][MCNext]_allVars

-----------------------------------------------------------------------------
(* One handler at a time, the ballots of an approved request carry it, two *)
(* votes of a kind on one phase are never open, and none stays open that   *)
(* its ballots carry (phases/phase_requests.py:130-141 and 297-360).       *)
VotesDecide ==
  Alone!ApprovedByBallots /\ Alone!NoDuplicateVotes /\ Alone!NoLostDecision
=============================================================================
