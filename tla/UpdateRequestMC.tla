-------------------------- MODULE UpdateRequestMC --------------------------
(***************************************************************************)
(* Instances of UpdateRequest, EventGovernance and Links for TLC: one      *)
(* update request with three requests in flight, one whose votes come one  *)
(* at a time, an event whose phase is voted on while signals come and go,  *)
(* one whose phase, text and updates are voted on, and links between       *)
(* details and between projects.  In a scenario one of them moves, the     *)
(* others stay as they begin.                                              *)
(***************************************************************************)
EXTENDS Approvals

CONSTANTS ana, ben, dia, w1

VARIABLES scenario,
          aloneStatus, aloneVotes, aloneUpdates, aloneRequest

Mixed == [u \in Users |-> IF u = ana THEN "full"
                          ELSE IF u = ben THEN "warm" ELSE "new"]

AllUsers == Users \cup {dia}
Alone == INSTANCE UpdateRequest WITH
  Users <- AllUsers, Level <- [u \in AllUsers |-> "full"], Workers <- {w1}, Populations <- {4},
  status <- aloneStatus, votes <- aloneVotes, updates <- aloneUpdates, request <- aloneRequest

AllFull == [u \in {ana, ben} |-> "full"]
Governances == [governance : {"collaborative", "organizer_controlled"}, platform : {FALSE}]
EditedEvent == INSTANCE EventGovernance WITH
  Users <- EventUsers, Level <- EventLevel, Workers <- EventWorkers, Promotable <- {}, Signalers <- {},
  Kinds <- {"phase", "edit", "update"}, updates <- eventUpdates

TwoSides(source, target) == [s \in {"source", "target"} |-> IF s = "source" THEN source ELSE target]
DetailSides == TwoSides({ana}, {ana, ben})
Projects == INSTANCE Links WITH
  Users <- {ana, ben, dia}, Level <- [u \in {ana, ben, dia} |-> IF u = dia THEN "warm" ELSE "full"],
  Members <- TwoSides({ana, dia}, {ben}), Scheme <- "project",
  Workers <- {w1}, MaxRequests <- 2, requests <- linkRequests, job <- linkJob

aloneVars == <<aloneStatus, aloneVotes, aloneUpdates, aloneRequest>>
eventVars == <<setting, phase, text, eventUpdates, members, count, editors, signals, requests, job>>
linkVars  == <<links, linkRequests, linkJob>>
allVars   == <<scenario, vars, aloneVars, eventVars, linkVars>>

MCInit ==
  /\ scenario \in {"concurrent", "alone", "event", "edited event", "details", "projects"}
  /\ Init /\ Alone!Init /\ Event!Init /\ Linked!Init
  /\ scenario \notin {"event", "edited event"} => setting.governance = "collaborative"

MCNext ==
  /\ UNCHANGED scenario
  /\ \/ scenario = "concurrent" /\ Next /\ UNCHANGED <<aloneVars, eventVars, linkVars>>
     \/ scenario = "alone" /\ Alone!Next /\ UNCHANGED <<vars, eventVars, linkVars>>
     \/ scenario = "event" /\ Event!Next /\ UNCHANGED <<vars, aloneVars, linkVars>>
     \/ scenario = "edited event" /\ EditedEvent!Next /\ UNCHANGED <<vars, aloneVars, linkVars>>
     \/ scenario = "details" /\ Linked!Next /\ UNCHANGED <<vars, aloneVars, eventVars>>
     \/ scenario = "projects" /\ Projects!Next /\ UNCHANGED <<vars, aloneVars, eventVars>>

MCSpec == MCInit /\ [][MCNext]_allVars

-----------------------------------------------------------------------------
(* One vote at a time, a request is rejected only when nothing the others  *)
(* may still cast would pass it, and one that is decided is closed at once *)
(* (update_requests.py:192-217, votes.py's can_still_pass).                *)
DecidedInTime == Alone!RejectionIsFair /\ Alone!NoLostDecision

(* One vote at a time, a request is published exactly when it is approved, *)
(* once, and stays decided (update_requests.py:153, 196-217).              *)
DecidedOnce == Alone!IsADecision
=============================================================================
