------------------------------ MODULE Reports ------------------------------
(***************************************************************************)
(* Reports on one piece of content (app/services/moderation/): who files   *)
(* one, the votes on it, the thresholds a vote is held against, and what   *)
(* becomes of the content, its author and, for a project, its members.     *)
(*                                                                         *)
(* A vote reads the report first, then records the ballot and weighs what  *)
(* it finds, then writes the report, the content and the penalty from the  *)
(* resolution it read.                                                     *)
(***************************************************************************)
EXTENDS Votes, Sequences

CONSTANTS Users,
          Targets,     \* the pieces of content it may be
          Reasons,     \* subset of {"spam", "serious-harm"}
          Workers,     \* requests the API serves at the same time
          MaxReports   \* bound

VARIABLES target,     \* which of them it is
          content,    \* moderation_state of the content
          reports,    \* with their votes
          penalties,  \* content-removed actions of the author
          age,
          running,    \* the members and the open requests of a project are still there
          job         \* what each worker is doing

vars == <<target, content, reports, penalties, age, running, job>>

(* What is known of the content.                                           *)
Author     == target.author
Kind       == target.kind        \* "message", "comment", "post" or "project"
Voters     == target.voters      \* those whom it is shown to,
Audience   == target.audience    \* and their number, its author left out
Popularity == target.popularity  \* distinct voters and twice the distinct commenters
Ages       == 1..target.oldest   \* how far it ages: indices of AgeBoosts

Idle        == [op |-> "idle"]
Active      == {"open", "under_review", "hidden"}
Resolutions == Active \cup {"removed", "dismissed"}
ReportRow   == [reason : Reasons, resolution : Resolutions, votes : [Voters -> Ballots]]
Jobs ==
  {Idle}
  \cup [op : {"read"}, user : Voters, id : 1..MaxReports, vote : {"yes", "no"}, found : Ballots,
        was : Active]
  \cup [op : {"tallied"}, user : Voters, id : 1..MaxReports, vote : {"yes", "no"},
        found : Ballots, was : Active, now : Resolutions]

TypeOK ==
  /\ target \in Targets
  /\ content \in {"visible", "under_review", "hidden", "removed"}
  /\ reports \in Seq(ReportRow) /\ Len(reports) <= MaxReports
  /\ penalties \in 0..(MaxReports + Cardinality(Workers))
  /\ age \in Ages
  /\ running \in BOOLEAN
  /\ job \in [Workers -> Jobs]

Init ==
  /\ target \in Targets
  /\ content = "visible"
  /\ reports = <<>>
  /\ penalties = 0
  /\ age = 1
  /\ running = TRUE
  /\ job = [w \in Workers |-> Idle]

EndJob(w) == job' = [job EXCEPT ![w] = Idle]

-----------------------------------------------------------------------------
(* Thresholds, in percent: older and more popular content needs a larger   *)
(* share of yes votes.                                                     *)
AgeBoosts == <<0, 10, 20, 30, 35>>
PopularityBoost ==
  CASE Popularity < 2 -> 0
    [] Popularity \in 2..7 -> 5
    [] Popularity \in 8..19 -> 10
    [] Popularity \in 20..49 -> 15
    [] OTHER -> 20
Boost == AgeBoosts[age] + PopularityBoost

DeleteYesShare(reason) ==
  IF reason = "serious-harm" THEN AtMost(85, 66 + Boost \div 2) ELSE AtMost(90, 66 + Boost)
HideYesShare == AtMost(80, 66 + Boost \div 4)

TinyPrivateDm == Kind = "message" /\ Audience <= 1
BaseQuorum == RequiredVotes(Audience)
DeleteQuorum(reason) ==
  IF TinyPrivateDm THEN 1
  ELSE IF reason = "serious-harm" THEN Max({5, CeilDiv(66 * BaseQuorum, 100)})
  ELSE Max({3, BaseQuorum})
HideQuorum == IF TinyPrivateDm THEN 1 ELSE Max({3, CeilDiv(33 * BaseQuorum, 100)})

Count(side, votes) == Cardinality({u \in Voters : votes[u] = side})
Cast(votes)        == Count("yes", votes) + Count("no", votes)
Reaches(yes, total, quorum, share) == total >= quorum /\ total > 0 /\ 100 * yes >= share * total

(* Ballots of people who left the audience can exceed it.                  *)
MaxTotal(votes) == Max({Audience, Cast(votes)})
CanStillReachDeletion(reason, votes) ==
  Reaches(MaxTotal(votes) - Count("no", votes), MaxTotal(votes), DeleteQuorum(reason),
          DeleteYesShare(reason))
DeletionReady(reason, votes) ==
  Reaches(Count("yes", votes), Cast(votes), DeleteQuorum(reason), DeleteYesShare(reason))
HideReady(reason, votes) ==
  /\ reason = "serious-harm"
  /\ Reaches(Count("yes", votes), Cast(votes), HideQuorum, HideYesShare)

-----------------------------------------------------------------------------
(* One step of a report, and as many steps as one vote takes it: the first *)
(* yes puts it under review, and only in a chat of two does it delete.     *)
NextResolution(current, reason, votes) ==
  IF current \in {"under_review", "hidden"} /\ ~ CanStillReachDeletion(reason, votes)
    THEN "dismissed"
  ELSE IF current = "open" /\ Count("yes", votes) >= 1
    THEN IF TinyPrivateDm /\ DeletionReady(reason, votes) THEN "removed" ELSE "under_review"
  ELSE IF DeletionReady(reason, votes) /\ current \in {"under_review", "hidden"} THEN "removed"
  ELSE IF HideReady(reason, votes) /\ current = "under_review" THEN "hidden"
  ELSE current

AdvanceResolution(current, reason, votes) ==
  LET next    == NextResolution(current, reason, votes)
      further == NextResolution(next, reason, votes)
  IN  IF current = "open" /\ next = "under_review" /\ further = "hidden" THEN "hidden" ELSE next

(* What a resolution makes of the content.                                 *)
(* Mutant: content that was cleared stays flagged.                         *)
EffectLeft(resolution) == IF resolution \in {"open", "dismissed"} THEN content ELSE resolution
Effect(resolution) ==
  CASE resolution = "dismissed" -> "visible"
    [] resolution = "open" -> content
    [] OTHER -> resolution

(* The author is held to account once, when the report first hides or      *)
(* removes the content.                                                    *)
Penalized(was, now) == was \notin {"hidden", "removed"} /\ now \in {"hidden", "removed"}
Penalty(was, now) == penalties' = IF Penalized(was, now) THEN penalties + 1 ELSE penalties

EndRemovedProject(now) == running' = (running /\ ~ (Kind = "project" /\ now = "removed"))

ApplyResolution(was, now) ==
  /\ content' = Effect(now)
  /\ Penalty(was, now)
  /\ EndRemovedProject(now)

-----------------------------------------------------------------------------
(* Anybody but the author may report, removed content too; the database    *)
(* keeps one active report of a target.  A reporter who may vote, votes.   *)
ActiveReports(rs) == {i \in DOMAIN rs : rs[i].resolution \in Active}

SubmitReport(u, reason) ==
  /\ u # Author
  /\ Len(reports) < MaxReports
  /\ ActiveReports(reports) = {}
  /\ LET votes == [v \in Voters |-> IF v = u THEN "yes" ELSE "none"]
         now   == AdvanceResolution("open", reason, votes)
     IN  /\ reports' = Append(reports, [reason |-> reason, resolution |-> now, votes |-> votes])
         /\ ApplyResolution("open", now)
  /\ UNCHANGED <<age, job>>

StartReportVote(w, u, id, vote) ==
  /\ job[w] = Idle
  /\ reports[id].resolution \in Active
  /\ reports[id].votes[u] # vote
  /\ job' = [job EXCEPT ![w] = [op |-> "read", user |-> u, id |-> id, vote |-> vote,
                                found |-> reports[id].votes[u],
                                was |-> reports[id].resolution]]
  /\ UNCHANGED <<content, reports, penalties, age, running>>

Voted(j) == [reports[j.id].votes EXCEPT ![j.user] = Recorded(j.found, @, j.vote)]

TallyReportVote(w) ==
  /\ job[w].op = "read"
  /\ LET j == job[w]
     IN  job' = [job EXCEPT ![w] =
           [op |-> "tallied", user |-> j.user, id |-> j.id, vote |-> j.vote, found |-> j.found,
            was |-> j.was, now |-> AdvanceResolution(j.was, reports[j.id].reason, Voted(j))]]
  /\ UNCHANGED <<content, reports, penalties, age, running>>

(* A report that another vote closed is opened again by one that read it   *)
(* before, unless a newer one is active.                                   *)
CommitReportVote(w) ==
  /\ job[w].op = "tallied"
  /\ LET j     == job[w]
         after == [reports EXCEPT ![j.id].votes = Voted(j), ![j.id].resolution = j.now]
     IN  /\ ~ Duplicate(j.found, reports[j.id].votes[j.user], j.vote)
         /\ Cardinality(ActiveReports(after)) <= 1
         /\ reports' = after
         /\ ApplyResolution(j.was, j.now)
  /\ EndJob(w)
  /\ UNCHANGED age

Rollback(w) == job[w] # Idle /\ EndJob(w)
               /\ UNCHANGED <<content, reports, penalties, age, running>>

Grow ==
  /\ age + 1 \in Ages
  /\ age' = age + 1
  /\ UNCHANGED <<content, reports, penalties, running, job>>

Next ==
  /\ UNCHANGED target
  /\ \/ \E u \in Users, reason \in Reasons : SubmitReport(u, reason)
     \/ \E w \in Workers :
          \/ \E u \in Voters, id \in DOMAIN reports, vote \in {"yes", "no"} :
               StartReportVote(w, u, id, vote)
          \/ TallyReportVote(w)
          \/ CommitReportVote(w)
          \/ Rollback(w)
     \/ Grow

Spec == Init /\ [][Next]_vars

-----------------------------------------------------------------------------
(* One vote at a time, the content is in the state that the last report    *)
(* with a yes vote asks for; a report hides nothing but serious harm, and  *)
(* is dismissed only when it cannot delete any more.                       *)
Answered == {i \in DOMAIN reports : reports[i].resolution # "open"}
Asked == IF Answered = {} THEN "dismissed" ELSE reports[Max(Answered)].resolution
StateFollowsReports ==
  /\ content = IF Asked = "dismissed" THEN "visible" ELSE Asked
  /\ \A i \in DOMAIN reports :
       /\ reports[i].resolution = "hidden" => reports[i].reason = "serious-harm"
       /\ reports[i].resolution = "dismissed" =>
            ~ CanStillReachDeletion(reports[i].reason, reports[i].votes)
=============================================================================
