-------------------------- MODULE EventGovernance --------------------------
(***************************************************************************)
(* One event: its members, organizers and support signals, and the three   *)
(* things its members vote on: phase changes, updates and edits            *)
(* (app/services/events/phases, app/services/events/actions.py).           *)
(*                                                                         *)
(* A handler reads and checks in one step and writes in a later one; what  *)
(* other workers commit in between it does not see.  The tally is part of  *)
(* the writing step (UpdateRequest and ProjectPhases take it apart).       *)
(***************************************************************************)
EXTENDS Votes, Sequences

CONSTANTS Users,        \* the people who may ever be members
          Creator,      \* created_by
          Promotable,   \* bound: those an organizer promotes
          Signalers,    \* bound: those who give and take back signals
          Level,        \* the standing of each person
          Workers,      \* requests the API serves at the same time
          Settings,     \* governance and platform tag an event may have
          Kinds,        \* bound: what is voted on
          QuietMembers, \* whether members may have been inactive for a week
          MaxRequests   \* bound: requests posted, of all kinds

VARIABLES setting,   \* the governance of the event, fixed when it is created
          phase,     \* current_phase_id: proposal, event-plan, activity, closed
          text,      \* title and description, each as the request that set it
          updates,   \* event_updates rows published for each request
          members,   \* event_memberships
          count,     \* events.member_count
          editors,   \* event_editors
          signals,   \* event_signals
          requests,  \* the three request tables with their ballots
          job        \* what each worker is doing

vars    == <<setting, phase, text, updates, members, count, editors, signals, requests, job>>
people  == <<members, count, editors>>
content == <<phase, text, updates>>

Phases     == 1..4
Fields     == {"title", "description"}
Statuses   == {"open", "approved", "rejected", "closed"}
Ids        == 1..Len(requests)
Weight     == [u \in Users |-> WeightOf(Level[u])]
NoBallots  == [u \in Users |-> "none"]

(* A row of event_phase_change_requests, event_edit_requests or            *)
(* event_update_requests; was is what the fields it changes said then.     *)
Row == [about : {"phase", "edit", "update"}, author : Users, status : Statuses,
        votes : [Users -> Ballots], from : Phases, target : Phases,
        change : SUBSET Fields,
        was : UNION {[change -> 0..MaxRequests] : change \in SUBSET Fields}]

Idle        == [op |-> "idle"]
PostJob     == [op : {"post"}, row : Row, direct : BOOLEAN]
ProposerJob == [op : {"proposer"}, user : Users, id : 1..MaxRequests, ballot : {"yes"}]
VoteJob     == [op : {"vote"}, user : Users, id : 1..MaxRequests, ballot : {"yes", "no"},
                insert : BOOLEAN]
MemberJob   == [op : {"join", "leave"}, user : Users]
GrantJob    == [op : {"grant", "appoint"}, user : Users]
Jobs        == {Idle} \cup PostJob \cup ProposerJob \cup VoteJob \cup MemberJob \cup GrantJob

TypeOK ==
  /\ setting \in Settings
  /\ phase \in Phases
  /\ text \in [Fields -> 0..MaxRequests]
  /\ updates \in [1..MaxRequests -> Nat]
  /\ members \subseteq Users
  /\ count \in Nat
  /\ editors \subseteq Users
  /\ signals \in [Users -> {"none", "demand", "opposition"}]
  /\ requests \in Seq(Row)
  /\ Len(requests) <= MaxRequests
  /\ job \in [Workers -> Jobs]

OrganizerControlled == setting.governance = "organizer_controlled"
IsOrganizer(u) == u = Creator \/ u \in editors
CanDriveLifecycle(u) == IF OrganizerControlled THEN IsOrganizer(u) ELSE u \in members

Init ==
  /\ setting \in Settings
  /\ phase = IF OrganizerControlled THEN 3 ELSE 1
  /\ text = [f \in Fields |-> 0]
  /\ updates = [i \in 1..MaxRequests |-> 0]
  /\ members = {Creator}
  /\ count = 1
  /\ editors = {}
  /\ signals = [u \in Users |-> "none"]
  /\ requests = <<>>
  /\ job = [w \in Workers |-> Idle]

-----------------------------------------------------------------------------
(* Who is counted: the full members among those who may vote, or fewer     *)
(* when some did nothing this week.                                        *)
Electorate  == IF setting.platform THEN Users ELSE members
FullMembers == Cardinality({u \in Electorate : CountsForQuorum(Level[u])})
WeeklyActive == IF QuietMembers THEN 0..FullMembers ELSE {FullMembers}

(* proposal_advancement_unlocked: enough of the active signals are demand, *)
(* and on the platform enough of the population signals it.                *)
Demand     == Cardinality({u \in Users : signals[u] = "demand"})
Opposition == Cardinality({u \in Users : signals[u] = "opposition"})
Supported  == Demand + Opposition > 0 /\ 100 * Demand >= 66 * (Demand + Opposition)
Unlocked(n) == Supported /\ (setting.platform => Demand >= RequiredVotes(n))

SignalGate(kind, from, n) == from = 1 /\ kind = "advance" => Unlocked(n)

ChangeKind(target, current) ==
  IF target = 4 THEN "close" ELSE IF target < current THEN "return" ELSE "advance"

Open(i) == requests[i].status = "open"

StartJob(w, j) == job[w] = Idle /\ job' = [job EXCEPT ![w] = j]
NewRow(about, u, direct, target, change) ==
  [about |-> about, author |-> u, status |-> IF direct THEN "approved" ELSE "open",
   votes |-> IF direct /\ about # "phase" THEN [NoBallots EXCEPT ![u] = "yes"] ELSE NoBallots,
   from |-> phase, target |-> target, change |-> change,
   was |-> [f \in change |-> text[f]]]

-----------------------------------------------------------------------------
(* Posting.  In an organizer-controlled event organizers decide phase      *)
(* changes and edits by posting them.                                      *)
OpenPhaseVote(target) ==
  \E i \in Ids : Open(i) /\ requests[i].about = "phase" /\ requests[i].target = target

CheckPhaseChange(w, u, target) ==
  /\ "phase" \in Kinds
  /\ CanDriveLifecycle(u)
  /\ target # phase
  /\ ~ (OrganizerControlled /\ target = 1)
  /\ \E n \in WeeklyActive : SignalGate(ChangeKind(target, phase), phase, n)
  /\ OrganizerControlled \/ ~ OpenPhaseVote(target)
  /\ StartJob(w, [op |-> "post", direct |-> OrganizerControlled,
                  row |-> NewRow("phase", u, OrganizerControlled, target, {})])

(* Mutant: nothing is compared with the open edits.                        *)
OverlapIgnored(change) == FALSE
Overlaps(change) ==
  \E i \in Ids : Open(i) /\ requests[i].about = "edit" /\ requests[i].change \cap change # {}

EditIsDirect(u) == OrganizerControlled

CheckEdit(w, u, change) ==
  /\ "edit" \in Kinds
  /\ CanDriveLifecycle(u)
  /\ EditIsDirect(u) \/ ~ Overlaps(change)
  /\ StartJob(w, [op |-> "post", direct |-> EditIsDirect(u),
                  row |-> NewRow("edit", u, EditIsDirect(u), phase, change)])

CheckUpdate(w, u) ==
  /\ "update" \in Kinds
  /\ u \in members
  /\ \E n \in WeeklyActive :
       LET direct == n <= 1 \/ (OrganizerControlled /\ IsOrganizer(u))
       IN  StartJob(w, [op |-> "post", direct |-> direct,
                        row |-> NewRow("update", u, direct, phase, {})])

(* What an approval does.                                                  *)
(* Mutant: the other open phase votes stay open.                           *)
LeaveOthersOpen(rows, i) == rows
CloseOtherVotes(rows, i) ==
  [k \in DOMAIN rows |->
     IF k # i /\ rows[k].about = "phase" /\ rows[k].status = "open"
     THEN [rows[k] EXCEPT !.status = "closed"] ELSE rows[k]]

ChangePhase(rows, i) ==
  /\ rows[i].about = "phase"
  /\ phase' = rows[i].target
  /\ requests' = CloseOtherVotes(rows, i)
  /\ UNCHANGED <<text, updates>>

ApplyEdit(rows, i) ==
  /\ rows[i].about = "edit"
  /\ text' = [f \in Fields |-> IF f \in rows[i].change THEN i ELSE text[f]]
  /\ requests' = rows
  /\ UNCHANGED <<phase, updates>>

PublishUpdate(rows, i) ==
  /\ rows[i].about = "update"
  /\ updates' = [updates EXCEPT ![i] = @ + 1]
  /\ requests' = rows
  /\ UNCHANGED <<phase, text>>

Execute(rows, i) == ChangePhase(rows, i) \/ ApplyEdit(rows, i) \/ PublishUpdate(rows, i)

(* The insert.  A request that is voted on goes on to its proposer's yes.  *)
Post(w) ==
  /\ job[w].op = "post"
  /\ Len(requests) < MaxRequests
  /\ LET rows == Append(requests, job[w].row)
         id   == Len(rows)
     IN  IF job[w].direct
         THEN Execute(rows, id) /\ job' = [job EXCEPT ![w] = Idle]
         ELSE /\ requests' = rows
              /\ job' = [job EXCEPT ![w] =
                   [op |-> "proposer", user |-> job[w].row.author, id |-> id, ballot |-> "yes"]]
              /\ UNCHANGED content
  /\ UNCHANGED <<setting, people, signals>>

-----------------------------------------------------------------------------
(* Voting.                                                                 *)
Admits(u, i) ==
  /\ Open(i)
  /\ u \in Electorate
  /\ CanVote(Level[u])
  /\ ~ (requests[i].about = "phase" /\ OrganizerControlled)

VoteOn(u, i, ballot) ==
  [op |-> "vote", user |-> u, id |-> i, ballot |-> ballot,
   insert |-> requests[i].votes[u] = "none"]

StartVote(w, u, i, ballot) ==
  /\ Admits(u, i)
  /\ StartJob(w, VoteOn(u, i, ballot))

(* cast_proposer_yes swallows the refusal.                                 *)
ProposerVote(w) ==
  /\ job[w].op = "proposer"
  /\ job' = [job EXCEPT ![w] =
       IF Admits(job[w].user, job[w].id) THEN VoteOn(job[w].user, job[w].id, "yes") ELSE Idle]

GateAtApproval(row, n) ==
  row.about = "phase" => SignalGate(ChangeKind(row.target, row.from), row.from, n)

Tallied(row, u, ballot, n) == Decide([row.votes EXCEPT ![u] = ballot], Weight, n)

(* The ballot and the decision it leads to.  A first ballot is an INSERT,  *)
(* refused by the primary key if the voter's other request came first; a   *)
(* passing advance whose signal gate is shut is rolled back.  The status   *)
(* read at the start is not read again.                                    *)
CommitVote(w) ==
  /\ job[w].op = "vote"
  /\ LET j    == job[w]
         row  == requests[j.id]
         cast == [requests EXCEPT ![j.id].votes[j.user] = j.ballot]
     IN  /\ ~ (j.insert /\ row.votes[j.user] # "none")
         /\ \E n \in WeeklyActive :
              \/ /\ Tallied(row, j.user, j.ballot, n) = "approved"
                 /\ GateAtApproval(row, n)
                 /\ Execute([cast EXCEPT ![j.id].status = "approved"], j.id)
              \/ /\ Tallied(row, j.user, j.ballot, n) = "rejected"
                 /\ requests' = [cast EXCEPT ![j.id].status = "rejected"]
                 /\ UNCHANGED content
              \/ /\ Tallied(row, j.user, j.ballot, n) = "open"
                 /\ requests' = cast
                 /\ UNCHANGED content
  /\ job' = [job EXCEPT ![w] = Idle]
  /\ UNCHANGED <<setting, people, signals>>

(* A refused commit, a lost connection or a restart undoes the transaction.*)
Rollback(w) ==
  /\ job[w].op # "idle"
  /\ job' = [job EXCEPT ![w] = Idle]

-----------------------------------------------------------------------------
(* Membership.  A second join is refused by the primary key; a second      *)
(* leave deletes nothing and still takes one off the count.                *)
StartJoin(w, u) ==
  /\ Level[u] # "paused"
  /\ u \notin members
  /\ StartJob(w, [op |-> "join", user |-> u])

StartLeave(w, u) ==
  /\ u \in members
  /\ StartJob(w, [op |-> "leave", user |-> u])

Join(w) ==
  /\ job[w].op = "join"
  /\ job[w].user \notin members
  /\ members' = members \cup {job[w].user}
  /\ count' = count + 1
  /\ UNCHANGED editors

Leave(w) ==
  /\ job[w].op = "leave"
  /\ members' = members \ {job[w].user}
  /\ count' = AtLeastZero(count - 1)
  /\ UNCHANGED editors

(* Promoting makes the person a member first, in a transaction of its own. *)
StartGrant(w, u, other) ==
  /\ IsOrganizer(u)
  /\ StartJob(w, [op |-> IF other \in members THEN "appoint" ELSE "grant", user |-> other])

AdmitEditor(w) ==
  /\ job[w].op = "grant"
  /\ members' = members \cup {job[w].user}
  /\ count' = IF job[w].user \in members THEN count ELSE count + 1
  /\ job' = [job EXCEPT ![w] = [op |-> "appoint", user |-> job[w].user]]
  /\ UNCHANGED editors

Grant(w) ==
  /\ job[w].op = "appoint"
  /\ editors' = editors \cup {job[w].user}
  /\ UNCHANGED <<members, count>>

ChangePeople(w) ==
  /\ \/ AdmitEditor(w)
     \/ /\ Join(w) \/ Leave(w) \/ Grant(w)
        /\ job' = [job EXCEPT ![w] = Idle]
  /\ UNCHANGED <<setting, content, signals, requests>>

Revoke(u, other) ==
  /\ IsOrganizer(u)
  /\ other \in editors
  /\ editors' = editors \ {other}
  /\ UNCHANGED <<setting, content, members, count, signals, requests, job>>

(* Taking one's own signal back is always allowed.                         *)
ToggleSignal(u, signal) ==
  /\ phase # 4
  /\ ~ OrganizerControlled
  /\ signals[u] = signal \/ CanVote(Level[u])
  /\ signals' = [signals EXCEPT ![u] = IF @ = signal THEN "none" ELSE signal]
  /\ UNCHANGED <<setting, content, people, requests, job>>

-----------------------------------------------------------------------------
Start(w) ==
  /\ \E u \in Users :
       \/ \E target \in Phases : CheckPhaseChange(w, u, target)
       \/ \E change \in SUBSET Fields \ {{}} : CheckEdit(w, u, change)
       \/ CheckUpdate(w, u)
       \/ \E i \in Ids, ballot \in {"yes", "no"} : StartVote(w, u, i, ballot)
       \/ StartJoin(w, u)
       \/ StartLeave(w, u)
       \/ \E other \in Promotable : StartGrant(w, u, other)
  /\ UNCHANGED <<setting, content, people, signals, requests>>

Continue(w) ==
  /\ ProposerVote(w) \/ Rollback(w)
  /\ UNCHANGED <<setting, content, people, signals, requests>>

Next ==
  \/ \E w \in Workers :
       \/ Start(w)
       \/ Continue(w)
       \/ Post(w)
       \/ CommitVote(w)
       \/ ChangePeople(w)
  \/ \E u \in Users, other \in Promotable : Revoke(u, other)
  \/ \E u \in Signalers, signal \in {"demand", "opposition"} : ToggleSignal(u, signal)

Spec == Init /\ [][Next]_vars

-----------------------------------------------------------------------------
BecomesApproved(i) ==
  /\ requests'[i].status = "approved"
  /\ i \in Ids => requests[i].status # "approved"

(* Passed edits never undo each other: when an edit is applied, each field *)
(* it changes still says what it said when the edit was proposed (the      *)
(* overlap check of events/phases/edit_requests.py:57-64).                 *)
EditsNeverUndo ==
  [][\A i \in DOMAIN requests' :
       BecomesApproved(i) /\ requests'[i].about = "edit" =>
         \A f \in requests'[i].change : text[f] = requests'[i].was[f]]_vars

(* A phase change is only ever voted on from the phase the event is in:    *)
(* the first one to pass closes the others (phase_requests.py:304-312), so *)
(* the support checked for a vote opened in the proposal is not stale.     *)
OpenVotesAreCurrent ==
  \A i \in Ids : Open(i) /\ requests[i].about = "phase" => requests[i].from = phase

(* A collaborative event leaves its proposal for planning only while the   *)
(* active signals support it (gates.py:103-121).                           *)
SupportOpensPlanning ==
  [][~ OrganizerControlled /\ phase = 1 /\ phase' \in {2, 3} => Supported]_vars

(* What a collaborative event says and the phase it is in change only with *)
(* the approval of one request, on ballots that carry it among the members *)
(* the event has at that moment (the executed branch of the vote handlers).*)
Carried(row) == \E n \in WeeklyActive : IsPassing(row.votes, Weight, n)
ChangesAreCarried ==
  [][~ OrganizerControlled /\ <<phase, text>>' # <<phase, text>> =>
       \E i \in Ids : BecomesApproved(i) /\ Carried(requests'[i])]_vars

(* Organizers decide in an organizer-controlled event: no phase change or  *)
(* edit of it is ever open for a vote (phase_requests.py:72,               *)
(* edit_requests.py:47).                                                   *)
NoVoteUnderOrganizers ==
  OrganizerControlled => \A i \in Ids : Open(i) => requests[i].about = "update"

(* member_count is the number of memberships: join, leave and promotion    *)
(* keep them together (actions.py:96-113, 163-176 and 337-360).            *)
CountIsExact == count = Cardinality(members)
=============================================================================
