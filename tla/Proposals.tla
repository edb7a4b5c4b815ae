----------------------------- MODULE Proposals -----------------------------
(***************************************************************************)
(* What members propose and vote on one by one: changes of a project's     *)
(* text (app/services/projects/phases/edit_requests.py), of the settings   *)
(* of a collective service (projects_service_request_settings.py), and the *)
(* values a project or an event should hold to (projects/actions.py,       *)
(* events/actions.py).                                                     *)
(*                                                                         *)
(* A worker looks first and writes later: proposals, votes and values go   *)
(* through a step that reads and one that commits.                         *)
(***************************************************************************)
EXTENDS Votes, Sequences

CONSTANTS Users, Level, Members,
          Scheme,      \* "edit" or "settings": what is proposed,
          Fields, Texts,
          Owner,       \* "project" or "event": whose values,
          Controlled,  \* an event that its organizers control
          Labels,      \* and the values that are tried
          Workers,     \* requests the API serves at the same time
          MaxRequests, MaxRows   \* bounds

VARIABLES text,      \* the fields of the project, or the settings of the service
          requests,  \* project_edit_requests or ..._setting_changes, with their votes
          proposal,  \* whether the record is in its proposal phase
          values,    \* how many rows of project_values or event_values have a label
          weights,   \* and how important each voter finds it
          job        \* what each worker is doing

vars == <<text, requests, proposal, values, weights, job>>

Idle      == [op |-> "idle"]
Unchanged == "unchanged"
VoteValues == {"yes", "no", "neutral"}
Outcomes  == {"open", "approved", "rejected"}
Weight    == [u \in Users |-> WeightOf(Level[u])]
Changes   == [Fields -> Texts \cup {Unchanged}]

(* seen is what the proposer was shown, for the properties only.           *)
RequestRow == [changes : Changes, seen : [Fields -> Texts], status : Outcomes,
               votes : [Users -> Ballots]]
Jobs ==
  {Idle}
  \cup [op : {"propose"}, user : Users, changes : Changes, seen : [Fields -> Texts]]
  \cup [op : {"own"}, user : Users, id : 1..MaxRequests]
  \cup [op : {"read"}, user : Users, id : 1..MaxRequests, vote : VoteValues, found : Ballots]
  \cup [op : {"tallied"}, user : Users, id : 1..MaxRequests, vote : VoteValues, found : Ballots,
        outcome : Outcomes]
  \cup [op : {"value"}, label : Labels]

TypeOK ==
  /\ text \in [Fields -> Texts]
  /\ requests \in Seq(RequestRow) /\ Len(requests) <= MaxRequests
  /\ proposal \in BOOLEAN
  /\ values \in [Labels -> 0..MaxRows]
  /\ weights \in [Labels -> [Users -> 0..10]]
  /\ job \in [Workers -> Jobs]

Init ==
  /\ \E t \in Texts : text = [f \in Fields |-> t]
  /\ requests = <<>>
  /\ proposal = TRUE
  /\ values = [l \in Labels |-> 0]
  /\ weights = [l \in Labels |-> [u \in Users |-> 0]]
  /\ job = [w \in Workers |-> Idle]

StartJob(w, j) == job[w] = Idle /\ job' = [job EXCEPT ![w] = j]
EndJob(w) == job' = [job EXCEPT ![w] = Idle]
Free == \E w \in Workers : job[w] = Idle
MayVote(u) == u \in Members /\ CanVote(Level[u])

-----------------------------------------------------------------------------
(* A proposal.  The form comes with every field; what is stored is what    *)
(* differs from the text now.                                              *)
ChangedText(form) == [f \in Fields |-> IF form[f] = text[f] THEN Unchanged ELSE form[f]]
Changing(changes) == {f \in Fields : changes[f] # Unchanged}

(* Mutant: another edit of a field may be open.                            *)
NeverOverlapping(changes) == FALSE
OverlappingEdit(changes) ==
  \E r \in DOMAIN requests :
    requests[r].status = "open" /\ Changing(requests[r].changes) \cap Changing(changes) # {}

StartProjectEdit(w, u, form) ==
  /\ Scheme = "edit"
  /\ u \in Members
  /\ LET changes == ChangedText(form)
     IN  /\ Changing(changes) # {}
         /\ ~ OverlappingEdit(changes)
         /\ StartJob(w, [op |-> "propose", user |-> u, changes |-> changes, seen |-> text])
  /\ UNCHANGED <<text, requests, proposal, values, weights>>

StartSettingsChange(w, u, form) ==
  /\ Scheme = "settings"
  /\ u \in Members
  /\ StartJob(w, [op |-> "propose", user |-> u, changes |-> form, seen |-> text])
  /\ UNCHANGED <<text, requests, proposal, values, weights>>

(* The proposer of an edit votes for it, as a transaction of its own.      *)
CommitProposal(w) ==
  /\ job[w].op = "propose"
  /\ Len(requests) < MaxRequests
  /\ LET j == job[w]
     IN  /\ requests' = Append(requests,
              [changes |-> j.changes, seen |-> j.seen, status |-> "open",
               votes |-> [u \in Users |-> "none"]])
         /\ job' = [job EXCEPT ![w] =
              IF Scheme = "edit" /\ MayVote(j.user)
              THEN [op |-> "own", user |-> j.user, id |-> Len(requests) + 1] ELSE Idle]
  /\ UNCHANGED <<text, proposal, values, weights>>

-----------------------------------------------------------------------------
(* Votes.                                                                  *)
Read(u, id, vote) == [op |-> "read", user |-> u, id |-> id, vote |-> vote,
                      found |-> requests[id].votes[u]]

StartVote(w, u, id, vote) ==
  /\ MayVote(u)
  /\ requests[id].status = "open"
  /\ StartJob(w, Read(u, id, vote))
  /\ UNCHANGED <<text, requests, proposal, values, weights>>

StartEditVote(w, u, id, vote) == Scheme = "edit" /\ StartVote(w, u, id, vote)
StartSettingsVote(w, u, id, vote) == Scheme = "settings" /\ StartVote(w, u, id, vote)

CastProposerYes(w) ==
  /\ job[w].op = "own"
  /\ LET j == job[w]
     IN  job' = [job EXCEPT ![w] =
           IF requests[j.id].status = "open" THEN Read(j.user, j.id, "yes") ELSE Idle]
  /\ UNCHANGED <<text, requests, proposal, values, weights>>

Cast(j) == [requests[j.id].votes EXCEPT ![j.user] = Recorded(j.found, @, j.vote)]

(* Settings are never rejected.  All full members were active in the week. *)
Population == Cardinality({u \in Members : CountsForQuorum(Level[u])})
Tallied(votes) ==
  IF Scheme = "edit" THEN Decide(votes, Weight, Population)
  ELSE IF IsPassing(votes, Weight, Population) THEN "approved" ELSE "open"

Tally(w) ==
  /\ job[w].op = "read"
  /\ LET j == job[w]
     IN  job' = [job EXCEPT ![w] =
           [op |-> "tallied", user |-> j.user, id |-> j.id, vote |-> j.vote, found |-> j.found,
            outcome |-> Tallied(Cast(j))]]
  /\ UNCHANGED <<text, requests, proposal, values, weights>>

Applied(changes) == [f \in Fields |-> IF changes[f] = Unchanged THEN text[f] ELSE changes[f]]

CommitVote(w) ==
  /\ job[w].op = "tallied"
  /\ LET j == job[w]
     IN  /\ ~ Duplicate(j.found, requests[j.id].votes[j.user], j.vote)
         /\ requests' = [requests EXCEPT ![j.id].votes = Cast(j),
                                         ![j.id].status = IF j.outcome = "open" THEN @ ELSE j.outcome]
         /\ text' = IF j.outcome = "approved" THEN Applied(requests[j.id].changes) ELSE text
  /\ EndJob(w)
  /\ UNCHANGED <<proposal, values, weights>>

CommitEditVote(w) == Scheme = "edit" /\ CommitVote(w)
CommitSettingsVote(w) == Scheme = "settings" /\ CommitVote(w)

-----------------------------------------------------------------------------
(* Values.  Anybody may name one of a project, its members one of an event *)
(* that is not under its organizers; a label is looked for, then inserted. *)
LeaveProposalPhase ==
  /\ proposal' = ~ proposal
  /\ UNCHANGED <<text, requests, values, weights, job>>

StartAddValue(w, l) ==
  /\ proposal
  /\ values[l] = 0
  /\ StartJob(w, [op |-> "value", label |-> l])
  /\ UNCHANGED <<text, requests, proposal, values, weights>>

AddProjectValue(w, u, l) == Owner = "project" /\ StartAddValue(w, l)
AddEventValue(w, u, l) == Owner = "event" /\ u \in Members /\ ~ Controlled /\ StartAddValue(w, l)

CommitValue(w) ==
  /\ job[w].op = "value"
  /\ values[job[w].label] < MaxRows
  /\ values' = [values EXCEPT ![job[w].label] = @ + 1]
  /\ EndJob(w)
  /\ UNCHANGED <<text, requests, proposal, weights>>

(* Importance: one row for each voter, inserted or changed.                *)
Weigh(u, l, n) ==
  /\ MayVote(u)
  /\ proposal
  /\ n \in 1..10
  /\ values[l] > 0
  /\ weights' = [weights EXCEPT ![l][u] = n]
  /\ UNCHANGED <<text, requests, proposal, values, job>>

VoteProjectValue(u, l, n) == Owner = "project" /\ Weigh(u, l, n)
VoteEventValue(u, l, n) == Owner = "event" /\ ~ Controlled /\ Weigh(u, l, n)

Rollback(w) == job[w] # Idle /\ EndJob(w)
               /\ UNCHANGED <<text, requests, proposal, values, weights>>

-----------------------------------------------------------------------------
Next ==
  \/ Labels # {} /\ LeaveProposalPhase
  \/ \E u \in Users, l \in Labels, n \in {1, 10} : Free /\
       (VoteProjectValue(u, l, n) \/ VoteEventValue(u, l, n))
  \/ \E w \in Workers :
       \/ \E u \in Users, form \in [Fields -> Texts] :
            StartProjectEdit(w, u, form) \/ StartSettingsChange(w, u, form)
       \/ CommitProposal(w)
       \/ CastProposerYes(w)
       \/ \E u \in Users, id \in DOMAIN requests, vote \in VoteValues :
            StartEditVote(w, u, id, vote) \/ StartSettingsVote(w, u, id, vote)
       \/ Tally(w)
       \/ CommitEditVote(w)
       \/ CommitSettingsVote(w)
       \/ \E u \in Users, l \in Labels : AddProjectValue(w, u, l) \/ AddEventValue(w, u, l)
       \/ CommitValue(w)
       \/ Rollback(w)

Spec == Init /\ [][Next]_vars

-----------------------------------------------------------------------------
(* One request at a time, an edit that passes replaces the text its        *)
(* proposer was shown: "two passed edits never undo each other"            *)
(* (edit_requests.py:65-84).                                               *)
EditsNeverUndo ==
  \A r \in DOMAIN requests :
    requests'[r].status = "approved" /\ requests[r].status = "open"
      => \A f \in Changing(requests[r].changes) : text[f] = requests[r].seen[f]
=============================================================================
