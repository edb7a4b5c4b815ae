------------------------------- MODULE Links -------------------------------
(***************************************************************************)
(* Links between two records, made and severed by votes of the members of  *)
(* both: app/services/detail_links.py, where each side has to pass on its  *)
(* own and ballots count by head, and app/services/projects_links.py,      *)
(* where the weighted ballots of both sides are one vote.                  *)
(*                                                                         *)
(* A vote reads the request, tallies its own ballot with the committed     *)
(* ones and commits: a job goes through the steps read and tallied.        *)
(***************************************************************************)
EXTENDS Votes, Sequences

CONSTANTS Users, Level,
          Members,     \* the members of each side
          Scheme,      \* "detail" or "project"
          Workers,     \* requests the API serves at the same time
          MaxRequests  \* bound

VARIABLES requests,  \* detail_link_requests or project_link_requests, with their votes
          links,     \* detail_links or project_links, in the order they were made
          job        \* what each worker is doing

vars == <<requests, links, job>>

Sides    == {"source", "target"}
Types    == {"create", "sever"}
Idle     == [op |-> "idle"]
NoLink   == 0
VoteValues == {"yes", "no", "neutral"}
Weight   == [u \in Users |-> WeightOf(Level[u])]
Outcomes == {"open", "approved", "rejected"}

(* link is the link a sever request is about.                              *)
RequestRow == [type : Types, link : 0..MaxRequests, status : Outcomes,
               votes : [Sides -> [Users -> Ballots]]]
LinkRow == [request : 1..MaxRequests, active : BOOLEAN]
VoteJob == [op : {"read"}, id : 1..MaxRequests, side : Sides, user : Users, vote : VoteValues,
            found : Ballots]
TallyJob == [op : {"tallied"}, id : 1..MaxRequests, side : Sides, user : Users, vote : VoteValues,
             found : Ballots, outcome : Outcomes]

TypeOK ==
  /\ requests \in Seq(RequestRow) /\ Len(requests) <= MaxRequests
  /\ links \in Seq(LinkRow)
  /\ job \in [Workers -> {Idle} \cup VoteJob \cup TallyJob]

Init ==
  /\ requests = <<>>
  /\ links = <<>>
  /\ job = [w \in Workers |-> Idle]

EndJob(w) == job' = [job EXCEPT ![w] = Idle]
Free == \E w \in Workers : job[w] = Idle
NoBallots == [s \in Sides |-> [u \in Users |-> "none"]]
ActiveLinks == {n \in DOMAIN links : links[n].active}

-----------------------------------------------------------------------------
(* Requests.  A detail link is not asked for while there is one; a link is *)
(* severed by one open request at a time, and asking again returns it.     *)
Ask(type, link) ==
  /\ Len(requests) < MaxRequests
  /\ requests' = Append(requests, [type |-> type, link |-> link, status |-> "open",
                                   votes |-> NoBallots])
  /\ UNCHANGED <<links, job>>

CreateDetailLinkRequest(u) ==
  /\ Scheme = "detail"
  /\ u \in Members["source"]
  /\ ActiveLinks = {}
  /\ Ask("create", NoLink)

CreateDetailLinkSeverRequest(u, n) ==
  /\ Scheme = "detail"
  /\ u \in Members["source"] \cup Members["target"]
  /\ links[n].active
  /\ ~ \E r \in DOMAIN requests :
         requests[r].type = "sever" /\ requests[r].link = n /\ requests[r].status = "open"
  /\ Ask("sever", n)

CreateProjectLinkRequest(u) ==
  /\ Scheme = "project"
  /\ u \in Members["source"]
  /\ Ask("create", NoLink)

-----------------------------------------------------------------------------
(* A vote, as a member of one of the sides.                                *)
Admits(u, id, side) == u \in Members[side] /\ requests[id].status = "open"

StartVote(w, u, id, side, vote) ==
  /\ Admits(u, id, side)
  /\ job[w] = Idle
  /\ job' = [job EXCEPT ![w] = [op |-> "read", id |-> id, side |-> side, user |-> u,
                                vote |-> vote, found |-> requests[id].votes[side][u]]]
  /\ UNCHANGED <<requests, links>>

StartDetailLinkVote(w, u, id, side, vote) ==
  Scheme = "detail" /\ StartVote(w, u, id, side, vote)
StartProjectLinkVote(w, u, id, side, vote) ==
  Scheme = "project" /\ StartVote(w, u, id, side, vote)

Cast(j) == [requests[j.id].votes EXCEPT ![j.side][j.user] = Recorded(j.found, @, j.vote)]

(* One side by head.                                                       *)
Heads(votes, ballot) == 2 * Cardinality({u \in Users : votes[u] = ballot})
SideState(votes, n) == Outcome(Heads(votes, "yes"), Heads(votes, "no"), n)

DetailOutcome(votes, n) ==
  LET states == {SideState(votes[s], n[s]) : s \in Sides}
  IN  IF states = {"approved"} THEN "approved"
      ELSE IF "rejected" \in states THEN "rejected" ELSE "open"

(* Both sides by weight, in the population of both; never rejected.  The   *)
(* same member of both has two ballots.                                    *)
JointWeight(votes, ballot) == MapThenSumSet(LAMBDA s : WeightFor(ballot, votes[s], Weight), Sides)
ProjectOutcome(votes, n) ==
  IF Passing(JointWeight(votes, "yes"), JointWeight(votes, "no"), n["source"] + n["target"])
  THEN "approved" ELSE "open"

Tallied(votes, n) == IF Scheme = "detail" THEN DetailOutcome(votes, n) ELSE ProjectOutcome(votes, n)

(* All full members of a side were active in the week.                     *)
Population == [s \in Sides |-> Cardinality({u \in Members[s] : CountsForQuorum(Level[u])})]

Tally(w) ==
  /\ job[w].op = "read"
  /\ LET j == job[w]
     IN  job' = [job EXCEPT ![w] = [op |-> "tallied", id |-> j.id, side |-> j.side, user |-> j.user,
                                    vote |-> j.vote, found |-> j.found,
                                    outcome |-> Tallied(Cast(j), Population)]]
  /\ UNCHANGED <<requests, links>>

(* Approval makes the link or severs it.                                   *)
(* Mutant: severing leaves the link active.                                *)
OnlyMake(j) ==
  IF j.outcome # "approved" THEN links ELSE Append(links, [request |-> j.id, active |-> TRUE])
Effect(j) ==
  IF j.outcome # "approved" THEN links
  ELSE IF requests[j.id].type = "sever"
       THEN [links EXCEPT ![requests[j.id].link].active = FALSE]
       ELSE Append(links, [request |-> j.id, active |-> TRUE])

CommitVote(w) ==
  /\ job[w].op = "tallied"
  /\ LET j == job[w]
     IN  /\ ~ Duplicate(j.found, requests[j.id].votes[j.side][j.user], j.vote)
         /\ requests' = [requests EXCEPT ![j.id].votes = Cast(j),
                                         ![j.id].status = IF j.outcome = "open" THEN @ ELSE j.outcome]
         /\ links' = Effect(j)
  /\ EndJob(w)

CommitDetailLinkVote(w) == Scheme = "detail" /\ CommitVote(w)
CommitProjectLinkVote(w) == Scheme = "project" /\ CommitVote(w)

Rollback(w) == job[w] # Idle /\ EndJob(w) /\ UNCHANGED <<requests, links>>

-----------------------------------------------------------------------------
Next ==
  \/ \E u \in Users : Free /\
       \/ CreateDetailLinkRequest(u)
       \/ CreateProjectLinkRequest(u)
       \/ \E n \in DOMAIN links : CreateDetailLinkSeverRequest(u, n)
  \/ \E w \in Workers :
       \/ \E u \in Users, id \in DOMAIN requests, side \in Sides, vote \in VoteValues :
            \/ StartDetailLinkVote(w, u, id, side, vote)
            \/ StartProjectLinkVote(w, u, id, side, vote)
       \/ Tally(w)
       \/ CommitDetailLinkVote(w)
       \/ CommitProjectLinkVote(w)
       \/ Rollback(w)

Spec == Init /\ [][Next]_vars

-----------------------------------------------------------------------------
(* One request at a time, the links are what the decisions say: one for    *)
(* each approved request, inactive when a request to sever it was approved *)
(* (detail_links.py:834-860).                                              *)
Approved(type) == {r \in DOMAIN requests : requests[r].type = type /\ requests[r].status = "approved"}
LinksFollowDecisions ==
  /\ \A r \in Approved("create") : Cardinality({n \in DOMAIN links : links[n].request = r}) = 1
  /\ \A n \in DOMAIN links :
       /\ links[n].request \in Approved("create")
       /\ links[n].active <=> \A r \in Approved("sever") : requests[r].link # n

(* One request at a time, a request is rejected only when the ballots a    *)
(* side has left could not approve it on that side (detail_links.py:208-   *)
(* 216 and 861-868).                                                       *)
Hopeless(r) ==
  \E s \in Sides :
    LET votes == requests[r].votes[s]
        all == [u \in Users |-> IF votes[u] = "none" /\ u \in Members[s] THEN "yes" ELSE votes[u]]
    IN  ~ Passing(Heads(all, "yes"), Heads(all, "no"), Population[s])
RejectionIsFair == \A r \in DOMAIN requests : requests[r].status = "rejected" => Hopeless(r)
=============================================================================
