----------------------------- MODULE Approvals -----------------------------
(***************************************************************************)
(* What members approve, side by side: the updates of a project, what an   *)
(* event does next, and the links between two records.  They share the     *)
(* vote arithmetic and no state.                                           *)
(***************************************************************************)
EXTENDS UpdateRequest

CONSTANTS EventUsers, EventLevel, EventWorkers,   \* the people and workers of the event,
          Creator, Promotable, Signalers,         \* and what EventGovernance says of them
          Settings, Kinds, QuietMembers, MaxRequests,
          LinkUsers, LinkLevel, LinkWorkers,      \* those of the links,
          LinkMembers, LinkScheme, MaxLinkRequests \* and their two sides

VARIABLES setting, phase, text, eventUpdates, members, count, editors, signals, requests, job,
          links, linkRequests, linkJob

Event == INSTANCE EventGovernance WITH
  Users <- EventUsers, Level <- EventLevel, Workers <- EventWorkers, updates <- eventUpdates
Linked == INSTANCE Links WITH
  Users <- LinkUsers, Level <- LinkLevel, Workers <- LinkWorkers, Members <- LinkMembers,
  Scheme <- LinkScheme, MaxRequests <- MaxLinkRequests, requests <- linkRequests, job <- linkJob

(* One request at a time, a phase change of an event is voted on only from *)
(* the phase the event is in, organizers are never outvoted, and members   *)
(* are counted (events/phases/phase_requests.py:72 and 304-312,            *)
(* edit_requests.py:47, events/actions.py:96-113).                         *)
EventVotesAreCurrent ==
  Event!OpenVotesAreCurrent /\ Event!NoVoteUnderOrganizers /\ Event!CountIsExact

(* One request at a time, an event changes only by ballots that carry the  *)
(* change and the support it needs, and an edit that passes undoes no      *)
(* other (events/phases/edit_requests.py:57-64, gates.py:103-121).         *)
EventChangesAreCarried ==
  /\ Event!ChangesAreCarried
  /\ Event!EditsNeverUndo
  /\ Event!SupportOpensPlanning

(* One request at a time, the links are what the decisions say, and a      *)
(* request is rejected only when its side cannot approve it any more       *)
(* (detail_links.py:834-868).                                              *)
LinksFollowDecisions == Linked!LinksFollowDecisions /\ Linked!RejectionIsFair
=============================================================================
