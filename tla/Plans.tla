------------------------------- MODULE Plans -------------------------------
(***************************************************************************)
(* The plans of a project or an event and which of them leads:             *)
(* app/services/projects_plans.py, events_plans.py and plan_criteria.py.   *)
(*                                                                         *)
(* A vote reads the voter's ballot, writes its own, recounts all plans and *)
(* commits: a job goes through the steps read and tallied.  Writing the    *)
(* leading flags locks the rows of the plans, so that commits follow each  *)
(* other, but a recount only knows the ballots committed before it.        *)
(* What a plan says is its content: a subtype of projects or the schedule  *)
(* of an event.                                                            *)
(***************************************************************************)
EXTENDS Votes, Sequences

CONSTANTS Users, Level, Members,
          Kind,        \* "project" or "event"
          Controlled,  \* an event that its organizers control
          Organizers,
          Workers,     \* requests the API serves at the same time
          Kinds,       \* the kinds of its plans
          Authors,     \* those who submit plans,
          Contents,    \* and what the plans say,
          Answers,     \* the votes that are cast: "yes", "no", "neutral",
          Targets,     \* whether plans, their values or both are voted on,
          Stars,       \* the ratings
          Rated,       \* and the criteria
          MaxPlans     \* bound

ProjectKinds == {"production", "distribution"}

ASSUME PeopleAssumption == Members \subseteq Users /\ Organizers \subseteq Users
ASSUME KindsAssumption ==
  \/ Kind = "project" /\ ~ Controlled /\ Kinds \subseteq ProjectKinds
  \/ Kind = "event" /\ Kinds = {"event"}
ASSUME InputsAssumption ==
  /\ Answers \subseteq {"yes", "no", "neutral"}
  /\ Targets \subseteq {"plan", "value"}
  /\ MaxPlans \in Nat

VARIABLES phase,    \* the kind of plan the phase asks for
          plans,    \* project_plans or event_plans with their votes and ratings
          adopted,  \* what the record has taken over from a leading plan
          job       \* what each worker is doing

vars == <<phase, plans, adopted, job>>

Idle    == [op |-> "idle"]
Nothing == "none"
NoPlan  == 0
Weight  == [u \in Users |-> WeightOf(Level[u])]

(* merger holds the "plan-creator" of a software project.                  *)
Adopted == [content : Contents \cup {Nothing}, merger : {{}} \cup {{u} : u \in Users}]
PlanRow == [author : Users, kind : Kinds, content : Contents \cup {Nothing},
            votes : [{"plan", "value"} -> [Users -> Ballots]],
            stars : [Rated -> [Users -> {0} \cup Stars]], leading : BOOLEAN, approved : BOOLEAN]
Jobs ==
  {Idle}
  \cup [op : {"read"}, user : Users, plan : 1..MaxPlans, on : Targets, vote : Answers,
        found : Ballots]
  \cup [op : {"tallied"}, user : Users, plan : 1..MaxPlans, vote : Answers, found : Ballots,
        leader : 0..MaxPlans]
  \cup [op : {"submit"}, user : Users, content : Contents \cup {Nothing},
        seen : SUBSET (1..MaxPlans)]

TypeOK ==
  /\ phase \in Kinds \cup {Nothing}
  /\ plans \in Seq(PlanRow) /\ Len(plans) <= MaxPlans
  /\ adopted \in Adopted
  /\ job \in [Workers -> Jobs]

Init ==
  /\ phase \in Kinds
  /\ plans = <<>>
  /\ adopted = [content |-> Nothing, merger |-> {}]
  /\ job = [w \in Workers |-> Idle]

StartJob(w, j) == job[w] = Idle /\ job' = [job EXCEPT ![w] = j]
EndJob(w) == job' = [job EXCEPT ![w] = Idle]
Free == \E w \in Workers : job[w] = Idle
Leading(kind) == {p \in DOMAIN plans : plans[p].kind = kind /\ plans[p].leading}

ChangePhase ==
  /\ phase' \in (Kinds \cup {Nothing}) \ {phase}
  /\ UNCHANGED <<plans, adopted, job>>

-----------------------------------------------------------------------------
(* Adoption.  A production plan that leads gives the project its subtype;  *)
(* whatever kind of plan leads a software project, its author may merge.   *)
(* The schedule of an event's plan becomes the event's.  Nothing undoes    *)
(* either when the plan leads no more.                                     *)
SyncMergeCapability(content, p, merger) == IF content = "software" THEN {p.author} ELSE merger
(* Mutant: the project takes over whatever plan leads.                     *)
AdoptWhateverLeads(p) ==
  [content |-> p.content, merger |-> SyncMergeCapability(p.content, p, adopted.merger)]
AdoptProjectPlan(p) ==
  LET content == IF p.kind = "production" /\ p.content # Nothing THEN p.content ELSE adopted.content
  IN  [content |-> content, merger |-> SyncMergeCapability(content, p, adopted.merger)]
(* Mutant: what was adopted first stays.                                   *)
AdoptFirst(p) == IF adopted.content # Nothing THEN adopted ELSE [adopted EXCEPT !.content = p.content]
AdoptEventPlan(p) == IF p.content = Nothing THEN adopted ELSE [adopted EXCEPT !.content = p.content]
Adopt(p) == IF Kind = "project" THEN AdoptProjectPlan(p) ELSE AdoptEventPlan(p)

(* A schedule that ends before it starts is only noticed here, and fails   *)
(* whatever was about to make the plan lead.                               *)
Adoptable(p) == Kind = "event" => p.content # "backwards"

-----------------------------------------------------------------------------
(* Submission.                                                             *)
NewPlan(u, kind, content, leads) ==
  [author |-> u, kind |-> kind, content |-> content,
   votes |-> [on \in {"plan", "value"} |-> [v \in Users |-> "none"]],
   stars |-> [c \in Rated |-> [v \in Users |-> 0]], leading |-> leads, approved |-> leads]

SubmitProjectPlan(u, content) ==
  /\ Kind = "project"
  /\ phase \in Kinds
  /\ u \in Members
  /\ Len(plans) < MaxPlans
  /\ plans' = Append(plans, NewPlan(u, phase, content, FALSE))
  /\ UNCHANGED <<phase, adopted, job>>

SubmitEventPlan(u, content) ==
  /\ Kind = "event" /\ ~ Controlled
  /\ phase \in Kinds
  /\ u \in Members
  /\ Len(plans) < MaxPlans
  /\ plans' = Append(plans, NewPlan(u, phase, content, FALSE))
  /\ UNCHANGED <<phase, adopted, job>>

(* An organizer's plan leads at once, and the other plans it can see no    *)
(* more.                                                                   *)
StartOrganizerPlan(w, u, content) ==
  /\ Kind = "event" /\ Controlled
  /\ phase \in Kinds
  /\ u \in Organizers
  /\ StartJob(w, [op |-> "submit", user |-> u, content |-> content, seen |-> DOMAIN plans])
  /\ UNCHANGED <<phase, plans, adopted>>

CommitOrganizerPlan(w) ==
  /\ job[w].op = "submit"
  /\ Len(plans) < MaxPlans
  /\ LET j == job[w]
         plan == NewPlan(j.user, "event", j.content, TRUE)
     IN  /\ Adoptable(plan)
         /\ plans' = Append([p \in DOMAIN plans |->
                               [plans[p] EXCEPT !.leading = @ /\ p \notin j.seen]], plan)
         /\ adopted' = Adopt(plan)
  /\ EndJob(w)
  /\ UNCHANGED phase

-----------------------------------------------------------------------------
(* Ratings.  The average of a criterion is rounded to hundredths, that of  *)
(* a plan is the average of its rated criteria, to ten-thousandths.        *)
Rounded(a, b) == (2 * a + b) \div (2 * b)
Raters(stars) == {u \in Users : stars[u] # 0}
CriterionAverage(stars) ==
  Rounded(100 * MapThenSumSet(LAMBDA u : stars[u], Raters(stars)), Cardinality(Raters(stars)))
AverageRating(p) ==
  LET rated == {c \in Rated : Raters(p.stars[c]) # {}}
  IN  IF rated = {} THEN 0
      ELSE Rounded(100 * MapThenSumSet(LAMBDA c : CriterionAverage(p.stars[c]), rated),
                   Cardinality(rated))

(* The leader: of the plans that pass, the one with the highest approval,  *)
(* then the best rated.  Equal ones leave no leader.  The weekly count does*)
(* not move here: all full members were active (the code counts again with *)
(* every vote, and a leader stays until the next one).                     *)
Population == Cardinality({u \in Members : CountsForQuorum(Level[u])})
Yes(p) == YesWeight(p.votes["plan"], Weight)
All(p) == Yes(p) + NoWeightCast(p.votes["plan"], Weight)
HigherRatio(p, q) == Yes(p) * All(q) > Yes(q) * All(p)
Winning(rows, kind) ==
  {p \in DOMAIN rows : rows[p].kind = kind /\ IsPassing(rows[p].votes["plan"], Weight, Population)}
TopRatio(rows, kind) ==
  {p \in Winning(rows, kind) : \A q \in Winning(rows, kind) : ~ HigherRatio(rows[q], rows[p])}
Only(set) == IF Cardinality(set) = 1 THEN CHOOSE p \in set : TRUE ELSE NoPlan

(* Mutant: the best rated of those that pass, whatever their approval.     *)
PickBestRated(rows, kind) ==
  Only({p \in Winning(rows, kind) :
          \A q \in Winning(rows, kind) : AverageRating(rows[q]) <= AverageRating(rows[p])})
PickLeading(rows, kind) ==
  LET top == TopRatio(rows, kind)
  IN  IF Cardinality(top) = 1 THEN Only(top)
      ELSE Only({p \in top : \A q \in top : AverageRating(rows[q]) <= AverageRating(rows[p])})

-----------------------------------------------------------------------------
(* Votes.                                                                  *)
MayVote(u) == u \in Members /\ CanVote(Level[u]) /\ ~ Controlled

StartVote(w, u, p, on, vote) ==
  /\ MayVote(u)
  /\ StartJob(w, [op |-> "read", user |-> u, plan |-> p, on |-> on, vote |-> vote,
                  found |-> plans[p].votes[on][u]])
  /\ UNCHANGED <<phase, plans, adopted>>

StartProjectPlanVote(w, u, p, vote) == Kind = "project" /\ StartVote(w, u, p, "plan", vote)
StartProjectPlanValueVote(w, u, p, vote) == Kind = "project" /\ StartVote(w, u, p, "value", vote)
StartEventPlanVote(w, u, p, vote) == Kind = "event" /\ StartVote(w, u, p, "plan", vote)
StartEventPlanValueVote(w, u, p, vote) == Kind = "event" /\ StartVote(w, u, p, "value", vote)

Cast(j, on) == [plans EXCEPT ![j.plan].votes[on][j.user] = Recorded(j.found, @, j.vote)]
Taken(j, on) == Duplicate(j.found, plans[j.plan].votes[on][j.user], j.vote)

SyncProjectPlanLeadingFlags(rows, kind) == PickLeading(rows, kind)
SyncEventPlanLeadingFlags(rows) == PickLeading(rows, "event")

Tally(w) ==
  /\ job[w].op = "read" /\ job[w].on = "plan"
  /\ LET j == job[w]
         rows == Cast(j, "plan")
         leader == IF Kind = "project" THEN SyncProjectPlanLeadingFlags(rows, plans[j.plan].kind)
                   ELSE SyncEventPlanLeadingFlags(rows)
     IN  job' = [job EXCEPT ![w] =
           IF leader # NoPlan /\ ~ Adoptable(rows[leader]) THEN Idle
           ELSE [op |-> "tallied", user |-> j.user, plan |-> j.plan, vote |-> j.vote,
                 found |-> j.found, leader |-> leader]]
  /\ UNCHANGED <<phase, plans, adopted>>

(* The flags of the plans of this kind are cleared and set; "approved" is  *)
(* for good.                                                               *)
Unflag(p, j) == IF p.kind = plans[j.plan].kind THEN [p EXCEPT !.leading = FALSE] ELSE p
Flagged(rows, j) ==
  [p \in DOMAIN rows |->
     IF p = j.leader THEN [rows[p] EXCEPT !.leading = TRUE, !.approved = TRUE]
     ELSE Unflag(rows[p], j)]

CommitPlanVote(w) ==
  /\ job[w].op = "tallied"
  /\ LET j == job[w]
     IN  /\ ~ Taken(j, "plan")
         /\ plans' = Flagged(Cast(j, "plan"), j)
         /\ adopted' = IF j.leader = NoPlan THEN adopted ELSE Adopt(plans[j.leader])
  /\ EndJob(w)
  /\ UNCHANGED phase

CommitProjectPlanVote(w) == Kind = "project" /\ CommitPlanVote(w)
CommitEventPlanVote(w) == Kind = "event" /\ CommitPlanVote(w)

(* A vote on a plan's value changes nothing else.                          *)
CommitValueVote(w) ==
  /\ job[w].op = "read" /\ job[w].on = "value"
  /\ ~ Taken(job[w], "value")
  /\ plans' = Cast(job[w], "value")
  /\ EndJob(w)
  /\ UNCHANGED <<phase, adopted>>

CommitProjectPlanValueVote(w) == Kind = "project" /\ CommitValueVote(w)
CommitEventPlanValueVote(w) == Kind = "event" /\ CommitValueVote(w)

(* The criteria of a plan follow its kind and subtype.                     *)
CriteriaFor(p) ==
  {"clarity", "achievable", "value"}
  \cup (IF p.kind = "event" THEN {"timing", "location"} ELSE {})
  \cup (IF p.kind = "production"
        THEN {"approach"} \cup (IF p.content = "software" THEN {"repository"} ELSE {}) ELSE {})
  \cup (IF p.kind = "distribution" THEN {"access"} ELSE {})

(* A rating of 0 takes it back.  The leader is not picked again.           *)
Rate(u, p, c, n) ==
  /\ MayVote(u)
  /\ c \in CriteriaFor(plans[p])
  /\ plans' = [plans EXCEPT ![p].stars[c][u] = n]
  /\ UNCHANGED <<phase, adopted, job>>

RateProjectPlan(u, p, c, n) == Kind = "project" /\ Rate(u, p, c, n)
RateEventPlan(u, p, c, n) == Kind = "event" /\ Rate(u, p, c, n)

Rollback(w) == job[w] # Idle /\ EndJob(w) /\ UNCHANGED <<phase, plans, adopted>>

-----------------------------------------------------------------------------
Next ==
  \/ ChangePhase
  \/ \E u \in Authors, content \in Contents : Free /\
       (SubmitProjectPlan(u, content) \/ SubmitEventPlan(u, content))
  \/ \E u \in Users, p \in DOMAIN plans, c \in Rated, n \in Stars \cup {0} : Free /\
       (RateProjectPlan(u, p, c, n) \/ RateEventPlan(u, p, c, n))
  \/ \E w \in Workers :
       \/ \E u \in Authors, content \in Contents : StartOrganizerPlan(w, u, content)
       \/ \E u \in Users, p \in DOMAIN plans, vote \in Answers :
            \/ "plan" \in Targets /\ (StartProjectPlanVote(w, u, p, vote) \/ StartEventPlanVote(w, u, p, vote))
            \/ "value" \in Targets /\ (StartProjectPlanValueVote(w, u, p, vote)
                                       \/ StartEventPlanValueVote(w, u, p, vote))
       \/ Tally(w)
       \/ CommitProjectPlanVote(w)
       \/ CommitEventPlanVote(w)
       \/ CommitProjectPlanValueVote(w)
       \/ CommitEventPlanValueVote(w)
       \/ CommitOrganizerPlan(w)
       \/ Rollback(w)

Spec == Init /\ [][Next]_vars

-----------------------------------------------------------------------------
(* One vote at a time, the plan that leads has passed and none that passed *)
(* has a higher approval, and a plan that alone has the highest leads,     *)
(* unless its schedule cannot be adopted (projects_plans.py:155-233).      *)
LeaderIsAhead ==
  ~ Controlled =>
    \A kind \in ProjectKinds \cup {"event"} :
      LET top == TopRatio(plans, kind)
      IN  /\ Leading(kind) \subseteq top
          /\ \A p \in top : top = {p} => Leading(kind) = top

(* However votes overlap, one plan of a kind leads, and what the project   *)
(* or event has taken over is that plan's (projects_plans.py:187-231,      *)
(* events_plans.py:64-106).                                                *)
LeaderIsAdopted ==
  \A kind \in ProjectKinds \cup {"event"} :
    \A p \in Leading(kind) :
      /\ Leading(kind) = {p}
      /\ plans[p].approved
      /\ kind # "distribution" /\ plans[p].content # Nothing
           => adopted.content = plans[p].content
=============================================================================
