----------------------------- MODULE Membership -----------------------------
(***************************************************************************)
(* Who belongs to a project or an event, the signals people give it while  *)
(* it is a proposal and the counts kept of both: in the row, and of the    *)
(* signals in Redis (app/services/projects/actions.py and helpers.py, and  *)
(* their twins in app/services/events).                                    *)
(*                                                                         *)
(* The statements of a handler up to its commit are one step, and what it  *)
(* read before them is in its job.  A signal is the number of its row, so  *)
(* that one removed and given again is not the same.                       *)
(***************************************************************************)
EXTENDS Votes

CONSTANTS Users, Author, Level,
          Kind,         \* "project" or "event"
          Residents,    \* members of the home community of a private event
          Workers,      \* requests the API serves at the same time
          MaxSignals    \* bound: signal rows ever made

VARIABLES row,          \* the audience, and whether its organizers control it
          open,         \* neither is_closed nor the phase "closed"
          members,      \* project_memberships, event_memberships
          memberCount,  \* member_count of the row
          editors,      \* event_editors
          signals,      \* the signal rows: user |-> row
          made,         \* signal rows made so far
          signalCount,  \* signal_count of the project
          cached,       \* the signal counts in Redis, if any
          job           \* what each worker is doing

vars == <<row, open, members, memberCount, editors, signals, made, signalCount, cached, job>>

Types    == {"demand", "opposition"}
NoSignal == [id |-> 0, type |-> "none"]
NoCounts == {}
Idle     == [op |-> "idle"]

Audiences == {"public", "private_community", "invite_only"}
NoRow     == [audience |-> "none", controlled |-> FALSE]

Signal == {NoSignal} \cup [id : 1..MaxSignals, type : Types]
Counts == [demand : 0..Cardinality(Users), opposition : 0..Cardinality(Users)]
Jobs   == {Idle}
          \cup [op : {"leave"}, user : Users]
          \cup [op : {"grant", "promote"}, user : Users, member : BOOLEAN]
          \cup [op : {"signal"}, user : Users, type : Types, existing : Signal]
          \cup [op : {"count"}]
          \cup [op : {"cache"}, counts : Counts]

TypeOK ==
  /\ row \in {NoRow} \cup [audience : Audiences, controlled : BOOLEAN]
  /\ open \in BOOLEAN
  /\ members \subseteq Users
  /\ memberCount \in 0..(Cardinality(Users) + Cardinality(Workers))
  /\ editors \subseteq Users
  /\ signals \in [Users -> Signal]
  /\ made \in 0..MaxSignals
  /\ signalCount \in 0..MaxSignals
  /\ cached \in {NoCounts} \cup {{c} : c \in Counts}
  /\ job \in [Workers -> Jobs]

Init ==
  /\ row = NoRow
  /\ open = FALSE
  /\ members = {}
  /\ memberCount = 0
  /\ editors = {}
  /\ signals = [u \in Users |-> NoSignal]
  /\ made = 0
  /\ signalCount = 0
  /\ cached = NoCounts
  /\ job = [w \in Workers |-> Idle]

StartJob(w, j) == job[w] = Idle /\ job' = [job EXCEPT ![w] = j]
EndJob(w) == job' = [job EXCEPT ![w] = Idle]
Free == \E w \in Workers : job[w] = Idle
LessOne(n) == AtLeastZero(n - 1)

(* Creating it makes its creator a member; the co-organizers named for a   *)
(* private event join and are counted one by one, the others it invites    *)
(* are asked (Invites).  A public event belongs to its members.            *)
CreateProject ==
  /\ Kind = "project"
  /\ row = NoRow
  /\ row' = [audience |-> "public", controlled |-> FALSE]
  /\ open' = TRUE
  /\ members' = {Author}
  /\ memberCount' = 1
  /\ UNCHANGED <<editors, signals, made, signalCount, cached, job>>

CreateEvent(audience, controlled, chosen) ==
  /\ Kind = "event"
  /\ row = NoRow
  /\ audience = "public" => ~ controlled /\ chosen = {}
  /\ row' = [audience |-> audience, controlled |-> controlled]
  /\ open' = TRUE
  /\ editors' = chosen \ {Author}
  /\ members' = {Author} \cup chosen
  /\ memberCount' = 1 + Cardinality(chosen \ {Author})
  /\ UNCHANGED <<signals, made, signalCount, cached, job>>

CanParticipate(u) == Level[u] # "paused"

-----------------------------------------------------------------------------
(* Joining and leaving.  The membership is inserted or refused by its      *)
(* primary key, and counted only if inserted.                              *)
AddMember(u) ==
  /\ row # NoRow
  /\ u \notin members
  /\ members' = members \cup {u}
  /\ memberCount' = memberCount + 1

JoinProject(u) ==
  /\ Kind = "project"
  /\ CanParticipate(u)
  /\ AddMember(u)
  /\ UNCHANGED <<row, open, editors, signals, made, signalCount, cached, job>>

AudienceAdmits(u) ==
  \/ row.audience = "public"
  \/ row.audience = "private_community" /\ u \in Residents

JoinEvent(u) ==
  /\ Kind = "event"
  /\ CanParticipate(u)
  /\ AudienceAdmits(u)
  /\ AddMember(u)
  /\ UNCHANGED <<row, open, editors, signals, made, signalCount, cached, job>>

(* Mutant: the count falls whether or not there was a row to delete.       *)
UncountAlways(u) == LessOne(memberCount)
UncountIfDeleted(u) == IF u \in members THEN LessOne(memberCount) ELSE memberCount

LeaveProject(u) ==
  /\ Kind = "project"
  /\ members' = members \ {u}
  /\ memberCount' = UncountIfDeleted(u)
  /\ UNCHANGED <<row, open, editors, signals, made, signalCount, cached, job>>

(* An event is left in two steps, and the count falls in the second        *)
(* whether or not the member is still there.                               *)
StartLeaveEvent(w, u) ==
  /\ Kind = "event"
  /\ u \in members
  /\ StartJob(w, [op |-> "leave", user |-> u])
  /\ UNCHANGED <<row, open, members, memberCount, editors, signals, made, signalCount, cached>>

LeaveEvent(w) ==
  /\ job[w].op = "leave"
  /\ members' = members \ {job[w].user}
  /\ memberCount' = LessOne(memberCount)
  /\ EndJob(w)
  /\ UNCHANGED <<row, open, editors, signals, made, signalCount, cached>>

-----------------------------------------------------------------------------
(* Co-organizers.  Promoting someone invites them first: a transaction     *)
(* for the membership, then one for the authority, and a refusal by a      *)
(* primary key is swallowed in either.                                     *)
Organizer(u) == u = Author \/ u \in editors

StartGrant(w, u, target) ==
  /\ Kind = "event"
  /\ row # NoRow
  /\ Organizer(u)
  /\ target # Author
  /\ StartJob(w, [op |-> "grant", user |-> target, member |-> target \in members])
  /\ UNCHANGED <<row, open, members, memberCount, editors, signals, made, signalCount, cached>>

AdmitEditor(w) ==
  /\ job[w].op = "grant"
  /\ IF job[w].member \/ job[w].user \in members
     THEN UNCHANGED <<members, memberCount>>
     ELSE AddMember(job[w].user)
  /\ job' = [job EXCEPT ![w].op = "promote"]
  /\ UNCHANGED <<row, open, editors, signals, made, signalCount, cached>>

GrantEventEditor(w) ==
  /\ job[w].op = "promote"
  /\ editors' = editors \cup {job[w].user}
  /\ EndJob(w)
  /\ UNCHANGED <<row, open, members, memberCount, signals, made, signalCount, cached>>

RevokeEventEditor(u, target) ==
  /\ Kind = "event"
  /\ Organizer(u)
  /\ target # Author
  /\ editors' = editors \ {target}
  /\ UNCHANGED <<row, open, members, memberCount, signals, made, signalCount, cached, job>>

-----------------------------------------------------------------------------
(* Signals.                                                                *)
CountsOf(type) == Cardinality({u \in Users : signals[u].type = type})
SignalCounts == [demand |-> CountsOf("demand"), opposition |-> CountsOf("opposition")]

(* Removing one's own is always allowed; giving or changing one is a vote. *)
StartSignal(w, u, type) ==
  /\ open
  /\ signals[u].type # type => CanVote(Level[u])
  /\ StartJob(w, [op |-> "signal", user |-> u, type |-> type, existing |-> signals[u]])
  /\ UNCHANGED <<row, open, members, memberCount, editors, signals, made, signalCount, cached>>

StartProjectSignal(w, u, type) == Kind = "project" /\ StartSignal(w, u, type)
StartEventSignal(w, u, type) == Kind = "event" /\ ~ row.controlled /\ StartSignal(w, u, type)

GiveSignal(u, type) ==
  /\ signals[u] = NoSignal
  /\ made < MaxSignals
  /\ made' = made + 1
  /\ signals' = [signals EXCEPT ![u] = [id |-> made + 1, type |-> type]]

(* What is deleted or changed is the row that was read, if it is there.    *)
RemoveSignal(u, seen) ==
  /\ signals' = [signals EXCEPT ![u] = IF @ = NoSignal \/ @.id # seen.id THEN @ ELSE NoSignal]
  /\ UNCHANGED made

SwitchSignal(u, seen, type) ==
  /\ signals' = [signals EXCEPT ![u] = IF @ = NoSignal \/ @.id # seen.id THEN @
                                       ELSE [@ EXCEPT !.type = type]]
  /\ UNCHANGED made

(* signal_count follows what the handler meant to do, not what it did.     *)
Delta(j) == IF j.existing = NoSignal THEN 1
            ELSE IF j.existing.type = j.type THEN -1 ELSE 0

CountFrom(j) == AtLeastZero(signalCount + Delta(j))

ToggleSignal(w) ==
  /\ job[w].op = "signal"
  /\ LET j == job[w]
     IN  /\ \/ j.existing = NoSignal /\ GiveSignal(j.user, j.type)
            \/ j.existing # NoSignal /\ j.existing.type = j.type /\ RemoveSignal(j.user, j.existing)
            \/ /\ j.existing # NoSignal /\ j.existing.type # j.type
               /\ SwitchSignal(j.user, j.existing, j.type)
         /\ signalCount' = IF Kind = "project" THEN CountFrom(j)
                           ELSE signalCount
  /\ job' = [job EXCEPT ![w] = [op |-> "count"]]
  /\ UNCHANGED <<row, open, members, memberCount, editors, cached>>

(* The counts are read once more and then written to Redis; a reader that  *)
(* finds none there does the same.                                         *)
MissSignalCounts(w) ==
  /\ cached = NoCounts
  /\ StartJob(w, [op |-> "count"])
  /\ UNCHANGED <<row, open, members, memberCount, editors, signals, made, signalCount, cached>>

CountSignals(w) ==
  /\ job[w].op = "count"
  /\ job' = [job EXCEPT ![w] = [op |-> "cache", counts |-> SignalCounts]]
  /\ UNCHANGED <<row, open, members, memberCount, editors, signals, made, signalCount, cached>>

WriteSignalCounts(w) ==
  /\ job[w].op = "cache"
  /\ cached' = {job[w].counts}
  /\ EndJob(w)
  /\ UNCHANGED <<row, open, members, memberCount, editors, signals, made, signalCount>>

Expire ==
  /\ cached # NoCounts
  /\ cached' = NoCounts
  /\ UNCHANGED <<row, open, members, memberCount, editors, signals, made, signalCount, job>>

(* A refusal by a unique key, a lost connection or, once committed, a      *)
(* cache that does not answer.                                             *)
Fail(w) ==
  /\ job[w] # Idle
  /\ EndJob(w)
  /\ UNCHANGED <<row, open, members, memberCount, editors, signals, made, signalCount, cached>>

(* The phase request that closes it (ProjectPhases, EventGovernance).      *)
Close ==
  /\ open
  /\ open' = FALSE
  /\ UNCHANGED <<row, members, memberCount, editors, signals, made, signalCount, cached, job>>

-----------------------------------------------------------------------------
Next ==
  \/ CreateProject
  \/ \E audience \in Audiences, controlled \in BOOLEAN, chosen \in SUBSET Users :
       CreateEvent(audience, controlled, chosen)
  \/ Close
  \/ Expire
  \/ \E u \in Users : Free /\
       \/ JoinProject(u)
       \/ JoinEvent(u)
       \/ LeaveProject(u)
       \/ \E target \in Users : RevokeEventEditor(u, target)
  \/ \E w \in Workers :
       \/ \E u \in Users :
            \/ StartLeaveEvent(w, u)
            \/ \E target \in Users : StartGrant(w, u, target)
            \/ \E type \in Types : StartProjectSignal(w, u, type) \/ StartEventSignal(w, u, type)
       \/ LeaveEvent(w)
       \/ AdmitEditor(w)
       \/ GrantEventEditor(w)
       \/ ToggleSignal(w)
       \/ MissSignalCounts(w)
       \/ CountSignals(w)
       \/ WriteSignalCounts(w)
       \/ Fail(w)

Spec == Init /\ [][Next]_vars

-----------------------------------------------------------------------------
(* A project counts its members exactly, however joins and leaves overlap: *)
(* what is counted is what the database did (actions.py:54-140).           *)
MembersAreCounted == memberCount = Cardinality(members)

(* One request at a time, an event does so too, and a project counts its   *)
(* signals (events/actions.py:122-170, projects/actions.py:893-935).       *)
SignalsAreCounted ==
  Kind = "project" => signalCount = Cardinality({u \in Users : signals[u] # NoSignal})
=============================================================================
