----------------------------- MODULE Activities -----------------------------
(***************************************************************************)
(* The activities of a project or an event: who takes which role in them,  *)
(* who is suggested for one, and what is said of them once they are over   *)
(* (app/services/projects/actions.py and events/actions.py,                *)
(* activity_roles.py, activity_role_suggestions.py, activity_history.py).  *)
(*                                                                         *)
(* A handler reads in one step and writes in a later one.  A member here   *)
(* is whoever the membership tables say at that moment (Membership).       *)
(***************************************************************************)
EXTENDS Integers, Sequences, FiniteSetsExt

CONSTANTS Users,
          Kind,           \* "project", "personal-service" or "event"
          Author,         \* of the project, creator of the event
          Organizers,     \* of an event: its creator and its editors
          Controlled,     \* whether the event is controlled by them
          Workers,        \* requests the API serves at the same time
          Shapes,         \* the roles an activity can be created with: a
                          \* sequence of [required, maximum], 0 for no maximum
          MaxTime, MaxActivities   \* bounds

VARIABLES now,        \* the clock
          members,    \* the membership rows
          phase,      \* whether the phase is the activity phase
          activities, \* activities with their roles, assignments and suggestions
          marks,      \* what a participant says of an ended activity
          ratings,    \* who has rated it
          job         \* what each worker is doing

vars == <<now, members, phase, activities, marks, ratings, job>>

Nobody   == {}
Idle     == [op |-> "idle"]
Says     == {"none", "completed", "uncompleted"}
MaxRoles == Max({Len(s) : s \in Shapes})

(* suggested is the person suggested for the role, declined tells that     *)
(* somebody turned it down; failed is participant_auto_uncompleted_at.     *)
RoleRow == [required : Nat, maximum : Nat, taken : SUBSET Users,
            suggested : {Nobody} \cup {{u} : u \in Users}, declined : BOOLEAN]
ActivityRow == [ends : 0..MaxTime, roles : Seq(RoleRow), failed : BOOLEAN]
Jobs == {Idle}
        \cup [op : {"take"}, user : Users, activity : 1..MaxActivities, role : 1..MaxRoles]
        \cup [op : {"drop"}, user : Users, activity : 1..MaxActivities]
        \cup [op : {"suggest", "decline"}, user : Users, activity : 1..MaxActivities,
              role : 1..MaxRoles]
        \cup [op : {"mark"}, user : Users, activity : 1..MaxActivities, says : Says,
              found : Says]
        \cup [op : {"rate"}, user : Users, activity : 1..MaxActivities]

TypeOK ==
  /\ now \in 0..MaxTime
  /\ members \subseteq Users
  /\ phase \in BOOLEAN
  /\ activities \in Seq(ActivityRow) /\ Len(activities) <= MaxActivities
  /\ marks \in [1..MaxActivities -> [Users -> Says]]
  /\ ratings \in [1..MaxActivities -> SUBSET Users]
  /\ job \in [Workers -> Jobs]

Init ==
  /\ now = 0
  /\ members = {Author}
  /\ phase = TRUE
  /\ activities = <<>>
  /\ marks = [a \in 1..MaxActivities |-> [u \in Users |-> "none"]]
  /\ ratings = [a \in 1..MaxActivities |-> {}]
  /\ job = [w \in Workers |-> Idle]

StartJob(w, j) ==
  /\ job[w] = Idle
  /\ job' = [job EXCEPT ![w] = j]
  /\ UNCHANGED <<now, members, phase, activities, marks, ratings>>
EndJob(w) == job' = [job EXCEPT ![w] = Idle]

Free == \E w \in Workers : job[w] = Idle
Ended(a) == activities[a].ends <= now
Roles(a) == DOMAIN activities[a].roles
Taken(a, r) == activities[a].roles[r].taken
Seated(a) == UNION {Taken(a, r) : r \in Roles(a)}
IsEvent == Kind = "event"

-----------------------------------------------------------------------------
(* The world around them.                                                  *)
Tick ==
  /\ now < MaxTime
  /\ now' = now + 1
  /\ UNCHANGED <<members, phase, activities, marks, ratings, job>>

ChangePhase ==
  /\ phase' = ~ phase
  /\ UNCHANGED <<now, members, activities, marks, ratings, job>>

Join(u) ==
  /\ members' = members \cup {u}
  /\ UNCHANGED <<now, phase, activities, marks, ratings, job>>

(* Leaving gives up the roles of activities that are not over; those that  *)
(* are keep theirs.                                                        *)
(* Mutant: the roles stay taken.                                           *)
ReleaseNothing(u) == activities
ReleaseUpcoming(u) ==
  [a \in DOMAIN activities |->
     IF Ended(a) THEN activities[a]
     ELSE [activities[a] EXCEPT !.roles =
             [r \in Roles(a) |-> [@[r] EXCEPT !.taken = @ \ {u}]]]]

Leave(u) ==
  /\ u \in members
  /\ members' = members \ {u}
  /\ activities' = ReleaseUpcoming(u)
  /\ UNCHANGED <<now, phase, marks, ratings, job>>

-----------------------------------------------------------------------------
(* Creating one.  The roles may come with a suggestion each; each asks for *)
(* somebody, and its maximum for no fewer than are required.               *)
ValidRoles(shape) ==
  \A r \in DOMAIN shape :
    /\ shape[r].required >= 1
    /\ shape[r].maximum # 0 => shape[r].maximum >= shape[r].required

Created(ends, shape, suggested) ==
  [ends |-> ends, failed |-> FALSE,
   roles |-> [r \in DOMAIN shape |->
                [required |-> shape[r].required, maximum |-> shape[r].maximum,
                 taken |-> {}, suggested |-> suggested, declined |-> FALSE]]]

CreateActivity(ends, shape, suggested) ==
  /\ Len(activities) < MaxActivities
  /\ phase
  /\ ends > now
  /\ ValidRoles(shape)
  /\ activities' = Append(activities, Created(ends, shape, suggested))
  /\ UNCHANGED <<now, members, phase, marks, ratings, job>>

CreateProjectActivity(u, ends, shape, suggested) ==
  /\ ~ IsEvent
  /\ IF Kind = "personal-service" THEN u = Author ELSE u \in members
  /\ CreateActivity(ends, shape, suggested)

CreateEventActivity(u, ends, shape, suggested) ==
  /\ IsEvent
  /\ u \in members
  /\ Controlled => u \in Organizers
  /\ CreateActivity(ends, shape, suggested)

-----------------------------------------------------------------------------
(* Taking a role: a member, one role an activity, while there is room.     *)
HasRoom(a, r) ==
  LET row == activities[a].roles[r]
  IN  row.maximum # 0 => Cardinality(row.taken) < row.maximum

MayTake(u, a, r) ==
  /\ u \in members
  /\ ~ Ended(a)
  /\ u \notin Seated(a)
  /\ HasRoom(a, r)

StartCommitProjectRole(w, u, a, r) ==
  ~ IsEvent /\ MayTake(u, a, r)
  /\ StartJob(w, [op |-> "take", user |-> u, activity |-> a, role |-> r])
StartCommitEventRole(w, u, a, r) ==
  IsEvent /\ MayTake(u, a, r)
  /\ StartJob(w, [op |-> "take", user |-> u, activity |-> a, role |-> r])

(* The primary key refuses the same person in the same role, nothing else. *)
CommitRole(w) ==
  /\ job[w].op = "take"
  /\ LET j == job[w]
     IN  /\ j.user \notin Taken(j.activity, j.role)
         /\ activities' = [activities EXCEPT ![j.activity].roles[j.role].taken = @ \cup {j.user}]
  /\ EndJob(w)
  /\ UNCHANGED <<now, members, phase, marks, ratings>>

(* Mutant: the roles are not locked when the activity is over.             *)
MayAlwaysDrop(u, a) == u \in members
MayDrop(u, a) == u \in members /\ ~ Ended(a)

StartUncommitProjectRole(w, u, a) ==
  ~ IsEvent /\ MayDrop(u, a) /\ StartJob(w, [op |-> "drop", user |-> u, activity |-> a])
StartUncommitEventRole(w, u, a) ==
  IsEvent /\ MayDrop(u, a) /\ StartJob(w, [op |-> "drop", user |-> u, activity |-> a])

UncommitRole(w) ==
  /\ job[w].op = "drop"
  /\ LET a == job[w].activity
     IN  activities' = [activities EXCEPT ![a].roles =
           [r \in Roles(a) |-> [@[r] EXCEPT !.taken = @ \ {job[w].user}]]]
  /\ EndJob(w)
  /\ UNCHANGED <<now, members, phase, marks, ratings>>

-----------------------------------------------------------------------------
(* Suggestions.  The last one counts, whatever became of the one before;   *)
(* only the person suggested declines, and whoever is suggested by then is *)
(* forgotten.  A project refuses to suggest oneself.                       *)
StartSuggestProjectRole(w, u, a, r, target) ==
  ~ IsEvent /\ u \in members /\ target # u
  /\ StartJob(w, [op |-> "suggest", user |-> target, activity |-> a, role |-> r])
StartSuggestEventRole(w, u, a, r, target) ==
  IsEvent /\ u \in members
  /\ StartJob(w, [op |-> "suggest", user |-> target, activity |-> a, role |-> r])

MayDecline(u, a, r) == activities[a].roles[r].suggested = {u}
StartDeclineProjectRole(w, u, a, r) ==
  ~ IsEvent /\ MayDecline(u, a, r)
  /\ StartJob(w, [op |-> "decline", user |-> u, activity |-> a, role |-> r])
StartDeclineEventRole(w, u, a, r) ==
  IsEvent /\ MayDecline(u, a, r)
  /\ StartJob(w, [op |-> "decline", user |-> u, activity |-> a, role |-> r])

Suggestion(w) ==
  /\ job[w].op \in {"suggest", "decline"}
  /\ LET j == job[w]
     IN  activities' = [activities EXCEPT ![j.activity].roles[j.role] =
           [@ EXCEPT !.suggested = IF j.op = "suggest" THEN {j.user} ELSE Nobody,
                     !.declined = j.op = "decline"]]
  /\ EndJob(w)
  /\ UNCHANGED <<now, members, phase, marks, ratings>>

-----------------------------------------------------------------------------
(* Once it is over.  Understaffed, it is marked uncompleted when somebody  *)
(* first looks at the history; else those who took part say what happened, *)
(* and rate it.                                                            *)
Committed(a) == MapThenSumSet(LAMBDA r : Cardinality(Taken(a, r)), Roles(a))
Minimum(a) == MapThenSumSet(LAMBDA r : activities[a].roles[r].required, Roles(a))
StaffingFailed(a) == Committed(a) <= 0 \/ Committed(a) < Minimum(a)

BuildHistory ==
  /\ \E a \in DOMAIN activities : Ended(a) /\ StaffingFailed(a) /\ ~ activities[a].failed
  /\ activities' = [a \in DOMAIN activities |->
       IF Ended(a) /\ StaffingFailed(a) THEN [activities[a] EXCEPT !.failed = TRUE]
       ELSE activities[a]]
  /\ UNCHANGED <<now, members, phase, marks, ratings, job>>

BuildProjectHistory == ~ IsEvent /\ BuildHistory
BuildEventHistory == IsEvent /\ BuildHistory

(* Projects keep these rows with those of service requests, which is where *)
(* they are modelled (ServiceRequests).                                    *)
StartMarkEvent(w, u, a, says) ==
  /\ IsEvent
  /\ Ended(a)
  /\ u \in Seated(a)
  /\ ~ StaffingFailed(a)
  /\ StartJob(w, [op |-> "mark", user |-> u, activity |-> a, says |-> says,
                  found |-> marks[a][u]])

ToggleEventCompletion(w) ==
  /\ job[w].op = "mark"
  /\ LET j == job[w]
     IN  /\ ~ (j.found = "none" /\ marks[j.activity][j.user] # "none")
         /\ marks' = [marks EXCEPT ![j.activity][j.user] = j.says]
  /\ EndJob(w)
  /\ UNCHANGED <<now, members, phase, activities, ratings>>

StartRateProject(w, u, a) ==
  ~ IsEvent /\ Ended(a) /\ u \in Seated(a)
  /\ StartJob(w, [op |-> "rate", user |-> u, activity |-> a])
StartRateEvent(w, u, a) ==
  IsEvent /\ Ended(a) /\ u \in Seated(a)
  /\ StartJob(w, [op |-> "rate", user |-> u, activity |-> a])

Rate(w) ==
  /\ job[w].op = "rate"
  /\ ratings' = [ratings EXCEPT ![job[w].activity] = @ \cup {job[w].user}]
  /\ EndJob(w)
  /\ UNCHANGED <<now, members, phase, activities, marks>>

DeleteProjectRating(u, a) ==
  /\ ~ IsEvent
  /\ ratings' = [ratings EXCEPT ![a] = @ \ {u}]
  /\ UNCHANGED <<now, members, phase, activities, marks, job>>
DeleteEventRating(u, a) ==
  /\ IsEvent
  /\ ratings' = [ratings EXCEPT ![a] = @ \ {u}]
  /\ UNCHANGED <<now, members, phase, activities, marks, job>>

Rollback(w) == job[w] # Idle /\ EndJob(w)
               /\ UNCHANGED <<now, members, phase, activities, marks, ratings>>

(* What the history says of the activity: one side of it, and both.  The   *)
(* requester's side is there when a service request led to the activity.   *)
SideStates(says) ==
  {IF s = "none" THEN "pending" ELSE s : s \in says}
ParticipantStates(a) ==
  IF StaffingFailed(a) THEN {"uncompleted"}
  ELSE SideStates({marks[a][u] : u \in Seated(a)})
Aggregate(states) ==
  IF states \subseteq {"pending"} THEN "mixed"
  ELSE IF "uncompleted" \in states /\ "completed" \notin states THEN "uncompleted"
  ELSE IF states = {"completed"} THEN "completed" ELSE "mixed"

-----------------------------------------------------------------------------
Handlers(w, u, a) ==
  \/ \E r \in Roles(a) :
       \/ StartCommitProjectRole(w, u, a, r)
       \/ StartCommitEventRole(w, u, a, r)
       \/ StartDeclineProjectRole(w, u, a, r)
       \/ StartDeclineEventRole(w, u, a, r)
       \/ \E target \in Users :
            \/ StartSuggestProjectRole(w, u, a, r, target)
            \/ StartSuggestEventRole(w, u, a, r, target)
  \/ StartUncommitProjectRole(w, u, a)
  \/ StartUncommitEventRole(w, u, a)
  \/ \E says \in Says \ {"none"} : StartMarkEvent(w, u, a, says)
  \/ StartRateProject(w, u, a)
  \/ StartRateEvent(w, u, a)

Next ==
  \/ Tick
  \/ ChangePhase
  \/ Free /\ BuildProjectHistory
  \/ Free /\ BuildEventHistory
  \/ \E u \in Users : Free /\
       \/ Join(u)
       \/ Leave(u)
       \/ \E ends \in 0..MaxTime, shape \in Shapes, suggested \in {Nobody} \cup {{v} : v \in Users} :
            \/ CreateProjectActivity(u, ends, shape, suggested)
            \/ CreateEventActivity(u, ends, shape, suggested)
       \/ \E a \in DOMAIN activities : DeleteProjectRating(u, a) \/ DeleteEventRating(u, a)
  \/ \E w \in Workers :
       \/ \E u \in Users, a \in DOMAIN activities : Handlers(w, u, a)
       \/ CommitRole(w)
       \/ UncommitRole(w)
       \/ Suggestion(w)
       \/ ToggleEventCompletion(w)
       \/ Rate(w)
       \/ Rollback(w)

Spec == Init /\ [][Next]_vars

-----------------------------------------------------------------------------
(* One request at a time, no role has more people than its maximum and     *)
(* nobody two roles of one activity; the places of an activity still to    *)
(* come are held by members, whoever left (projects/actions.py:586-625,    *)
(* activity_roles.py:35-60).                                               *)
SeatsWithinBounds ==
  \A a \in DOMAIN activities :
    /\ \A r \in Roles(a) :
         LET maximum == activities[a].roles[r].maximum
         IN  maximum # 0 => Cardinality(Taken(a, r)) <= maximum
    /\ \A r, s \in Roles(a) : r # s => Taken(a, r) \cap Taken(a, s) = {}
    /\ ~ Ended(a) => Seated(a) \subseteq members

(* Once an activity is over the people in it change only by a request that *)
(* was let in before, and the history of one nobody is late for is fixed   *)
(* but for what its people say of it.  One request at a time, an activity  *)
(* marked as understaffed is never shown as anything but uncompleted       *)
(* (activity_history.py:48-57 and 122-160).                                *)
Late(a) == {w \in Workers : job[w].op \in {"take", "drop"} /\ job[w].activity = a}
HistoryStep ==
  \A a \in DOMAIN activities :
    Ended(a) =>
      /\ Late(a)' \subseteq Late(a)
      /\ Late(a) = {} =>
           /\ Seated(a)' = Seated(a)
           /\ StaffingFailed(a)' = StaffingFailed(a)
      /\ activities'[a].failed /\ Cardinality(Workers) = 1 =>
           Aggregate(ParticipantStates(a))' = "uncompleted"
HistoryStands == [][HistoryStep]_vars
=============================================================================
