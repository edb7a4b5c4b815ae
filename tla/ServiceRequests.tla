--------------------------- MODULE ServiceRequests ---------------------------
(***************************************************************************)
(* Requests made to a service project, the time slots its creator offers,  *)
(* the bookings that come of them and what both sides say afterwards       *)
(* (app/services/projects_service_requests.py, _availability.py and        *)
(* _request_settings.py).                                                  *)
(*                                                                         *)
(* Times are the numbers 0..MaxTime and an interval is a pair of them.  A  *)
(* rule that recurs every week is its occurrences, each an offer of its    *)
(* own, and so is an activity of the project that no request led to.       *)
(* Messages and notifications about a request are not modelled.            *)
(***************************************************************************)
EXTENDS Integers, Sequences, FiniteSets

CONSTANTS Users, Author, Managers,  \* Author: the creator of the project
          Personal,     \* personal-service rather than collective-service
          Workers,      \* requests the API serves at the same time
          Intervals,    \* the times that can be offered or asked for
          SettingsChosen,  \* the settings that are tried,
          StatusesChosen,  \* the statuses that are asked for
          Selections,      \* and what is said of an activity
          MaxTime, MaxRequests, MaxBookings   \* bounds

ASSUME PeopleAssumption == Author \in Users /\ Personal \in BOOLEAN
ASSUME TimesAssumption  == Intervals \subseteq Nat \X Nat
ASSUME InputsAssumption ==
  /\ SettingsChosen \subseteq
       [enabled : BOOLEAN, mode : {"calendar", "direct", "both"}, offSchedule : BOOLEAN]
  /\ StatusesChosen \subseteq {"open", "planned", "accepted", "declined", "cancelled"}
  /\ Selections \subseteq {"completed", "uncompleted"}
  /\ MaxTime \in Nat /\ MaxRequests \in Nat /\ MaxBookings \in Nat

VARIABLES now,       \* the clock
          settings,  \* project_service_request_settings, or what their absence means
          offers,    \* the occurrences of the availability rules
          requests,  \* project_service_requests
          bookings,  \* project_activities with a linked_request_id, and their roles
          holds,     \* how many project_service_slot_holds rows each request has
          marks,     \* project_service_history_completions, by activity, user and role
          job        \* what each worker is doing

vars == <<now, settings, offers, requests, bookings, holds, marks, job>>

NoTime    == <<>>
Statuses  == {"open", "planned", "accepted", "declined", "cancelled"}
Settings  == [enabled : BOOLEAN, mode : {"calendar", "direct", "both"}, offSchedule : BOOLEAN]
Keys      == (1..MaxBookings) \X Users \X {"requester", "participants"}

RequestRow == [by : Users, time : Intervals \cup {NoTime}, status : Statuses,
               linked : 0..MaxBookings, chat : BOOLEAN]
BookingRow == [request : 1..MaxRequests, time : Intervals, need : {0, 1}, staff : SUBSET Users]

Idle == [op |-> "idle"]
Jobs ==
  {Idle}
  \cup [op : {"chat"}, id : 1..MaxRequests]
  \cup [op : {"status"}, id : 1..MaxRequests, to : Statuses, linked : 0..MaxBookings]
  \cup [op : {"update"}, id : 1..MaxRequests, to : Statuses, linked : 0..MaxBookings, fits : BOOLEAN]
  \cup [op : {"plan"}, id : 1..MaxRequests]
  \cup [op : {"mark"}, key : Keys, found : {"none"} \cup Selections, as : Selections]

TypeOK ==
  /\ now \in 0..MaxTime
  /\ settings \in Settings
  /\ offers \subseteq Intervals
  /\ requests \in Seq(RequestRow) /\ Len(requests) <= MaxRequests
  /\ bookings \in Seq(BookingRow) /\ Len(bookings) <= MaxBookings
  /\ holds \in [1..MaxRequests -> 0..MaxRequests]
  /\ DOMAIN marks = Keys /\ \A k \in Keys : marks[k] \in Seq(Selections)
  /\ job \in [Workers -> Jobs]

Init ==
  /\ now = 0
  /\ settings = [enabled |-> Personal, mode |-> "both", offSchedule |-> Personal]
  /\ offers = {}
  /\ requests = <<>>
  /\ bookings = <<>>
  /\ holds = [r \in 1..MaxRequests |-> 0]
  /\ marks = [k \in Keys |-> <<>>]
  /\ job = [w \in Workers |-> Idle]

StartJob(w, j) == job[w] = Idle /\ job' = [job EXCEPT ![w] = j]
Free == \E w \in Workers : job[w] = Idle
EndJob(w) == job' = [job EXCEPT ![w] = Idle]

Reviewer(u) == u \in Managers \/ (Personal /\ u = Author)

-----------------------------------------------------------------------------
(* The calendar.                                                           *)
Overlaps(i, j)  == i[1] < j[2] /\ j[1] < i[2]
Contained(i, j) == i[1] >= j[1] /\ i[2] <= j[2]
Ended(i)        == i[2] <= now

HeldTimes == {requests[r].time : r \in {q \in DOMAIN requests : holds[q] > 0}}

(* The offered slots that are not held.  Bookings and accepted requests    *)
(* show as slots too, but never as ones a request can be put into.         *)
OpenSlots == {o \in offers : ~ Ended(o) /\ \A h \in HeldTimes : ~ Overlaps(o, h)}

(* Mutant: a slot that is held is offered still.                           *)
FitsAnySlot(time) == time # NoTime /\ \E o \in offers : ~ Ended(o) /\ Contained(time, o)
FitsOpenSlot(time) == time # NoTime /\ \E o \in OpenSlots : Contained(time, o)

(* A slot is offered by a rule of a personal service, or by an activity of *)
(* the project that no request has asked for.                              *)
OfferSlot(i) ==
  /\ i \notin offers
  /\ offers' = offers \cup {i}
  /\ UNCHANGED <<now, settings, requests, bookings, holds, marks, job>>

WithdrawSlot(i) ==
  /\ i \in offers
  /\ offers' = offers \ {i}
  /\ UNCHANGED <<now, settings, requests, bookings, holds, marks, job>>

Tick ==
  /\ now < MaxTime
  /\ now' = now + 1
  /\ UNCHANGED <<settings, offers, requests, bookings, holds, marks, job>>

(* The creator of a personal service sets them at once, a collective one   *)
(* by a vote (the settings of Agreements).                                 *)
ChangeSettings(s) ==
  /\ settings' = s
  /\ UNCHANGED <<now, offers, requests, bookings, holds, marks, job>>

-----------------------------------------------------------------------------
(* A request.                                                              *)
RequestsEnabled(time) ==
  /\ settings.enabled
  /\ settings.mode = "calendar" => time # NoTime
  /\ settings.mode = "direct" /\ ~ settings.offSchedule => time = NoTime
  /\ Personal /\ ~ settings.offSchedule /\ settings.mode \in {"calendar", "both"} /\ time # NoTime
       => FitsOpenSlot(time)

CreateRequest(w, u, time) ==
  /\ Len(requests) < MaxRequests
  /\ ~ (Personal /\ u = Author)
  /\ RequestsEnabled(time)
  /\ requests' = Append(requests, [by |-> u, time |-> time, status |-> "open",
                                   linked |-> 0, chat |-> FALSE])
  /\ IF Personal THEN StartJob(w, [op |-> "chat", id |-> Len(requests) + 1])
                 ELSE job[w] = Idle /\ UNCHANGED job
  /\ UNCHANGED <<now, settings, offers, bookings, holds, marks>>

(* A transaction of its own: the request stands without a conversation if  *)
(* it fails.                                                               *)
OpenConversation(w) ==
  /\ job[w].op = "chat"
  /\ requests' = [requests EXCEPT ![job[w].id].chat = TRUE]
  /\ EndJob(w)
  /\ UNCHANGED <<now, settings, offers, bookings, holds, marks>>

(* A status is read, then written: the reviewer may choose any from any,   *)
(* the requester may only withdraw what is pending.                        *)
MayBecome(u, id, to) ==
  IF to = "cancelled" THEN requests[id].by = u /\ requests[id].status \in {"open", "planned"}
  ELSE Reviewer(u)

StartStatus(w, u, id, to) ==
  /\ MayBecome(u, id, to)
  /\ StartJob(w, [op |-> "status", id |-> id, to |-> to, linked |-> requests[id].linked])
  /\ UNCHANGED <<now, settings, offers, requests, bookings, holds, marks>>

(* The UPDATE locks the row until the commit, so that the slots are looked *)
(* at by one acceptance of this request at a time.                         *)
Locked(id) == \E v \in Workers : job[v].op = "update" /\ job[v].id = id

UpdateStatus(w) ==
  /\ job[w].op = "status"
  /\ LET j == job[w]
     IN  /\ ~ Locked(j.id)
         /\ job' = [job EXCEPT ![w] =
              [op |-> "update", id |-> j.id, to |-> j.to, linked |-> j.linked,
               fits |-> j.to = "accepted" /\ FitsOpenSlot(requests[j.id].time)]]
  /\ UNCHANGED <<now, settings, offers, requests, bookings, holds, marks>>

CreateSlotHold(id) == IF holds[id] > 0 THEN holds ELSE [holds EXCEPT ![id] = @ + 1]

(* An accepted request with a time becomes an activity of the provider's,  *)
(* unless one was linked when the row was read.                            *)
(* Mutant: only what fits a slot is booked.                                *)
BooksIfFits(j) == j.to = "accepted" /\ Personal /\ j.fits /\ j.linked = 0
Books(j) == j.to = "accepted" /\ Personal /\ requests[j.id].time # NoTime /\ j.linked = 0

CommitStatus(w) ==
  /\ job[w].op = "update"
  /\ LET j == job[w]
         time == requests[j.id].time
     IN  /\ holds' = IF j.fits THEN CreateSlotHold(j.id) ELSE holds
         /\ IF Books(j)
            THEN /\ Len(bookings) < MaxBookings
                 /\ bookings' = Append(bookings, [request |-> j.id, time |-> time,
                                                  need |-> 1, staff |-> {Author}])
                 /\ requests' = [requests EXCEPT ![j.id].status = j.to,
                                                 ![j.id].linked = Len(bookings) + 1]
            ELSE /\ requests' = [requests EXCEPT ![j.id].status = j.to]
                 /\ UNCHANGED bookings
  /\ EndJob(w)
  /\ UNCHANGED <<now, settings, offers, marks>>

(* Planning an open request: an activity with the roles asked for, whoever *)
(* else may have planned it since it was read.                             *)
StartPlan(w, u, id) ==
  /\ Reviewer(u)
  /\ requests[id].status = "open"
  /\ requests[id].time # NoTime
  /\ StartJob(w, [op |-> "plan", id |-> id])
  /\ UNCHANGED <<now, settings, offers, requests, bookings, holds, marks>>

CommitPlan(w, need) ==
  /\ job[w].op = "plan"
  /\ ~ Locked(job[w].id)
  /\ Len(bookings) < MaxBookings
  /\ LET id == job[w].id
     IN  /\ bookings' = Append(bookings, [request |-> id, time |-> requests[id].time,
                                          need |-> need, staff |-> {}])
         /\ requests' = [requests EXCEPT ![id].status = "planned",
                                         ![id].linked = Len(bookings) + 1]
  /\ EndJob(w)
  /\ UNCHANGED <<now, settings, offers, holds, marks>>

-----------------------------------------------------------------------------
(* The people of a booking come and go until it has ended.                 *)
ChangeStaff(u, b) ==
  /\ ~ Ended(bookings[b].time)
  /\ bookings[b].need > 0
  /\ LET staff == bookings[b].staff
     IN  bookings' = [bookings EXCEPT ![b].staff = IF u \in staff THEN @ \ {u} ELSE {u}]
  /\ UNCHANGED <<now, settings, offers, requests, holds, marks, job>>

(* Afterwards the requester and those who took part say whether it took    *)
(* place; the row is looked for, then inserted or changed.                 *)
StaffingFailed(b) == Cardinality(bookings[b].staff) <= 0
                     \/ Cardinality(bookings[b].staff) < bookings[b].need
MayMark(u, b, role) ==
  /\ Ended(bookings[b].time)
  /\ IF role = "requester"
     THEN \E r \in DOMAIN requests : requests[r].linked = b /\ requests[r].by = u
     ELSE u \in bookings[b].staff /\ ~ StaffingFailed(b)

Found(rows) == IF rows = <<>> THEN {"none"} ELSE {rows[n] : n \in DOMAIN rows}

StartMark(w, u, b, role, selection) ==
  /\ MayMark(u, b, role)
  /\ \E found \in Found(marks[<<b, u, role>>]) :
       StartJob(w, [op |-> "mark", key |-> <<b, u, role>>, found |-> found, as |-> selection])
  /\ UNCHANGED <<now, settings, offers, requests, bookings, holds, marks>>

(* The unique key of the table has a NULL in every row, so that it refuses *)
(* nothing.                                                                *)
Marked(rows, j) ==
  IF j.found = j.as THEN rows
  ELSE IF j.found = "none" THEN Append(rows, j.as)
  ELSE [n \in DOMAIN rows |-> j.as]

CommitMark(w) ==
  /\ job[w].op = "mark"
  /\ marks' = [marks EXCEPT ![job[w].key] = Marked(@, job[w])]
  /\ EndJob(w)
  /\ UNCHANGED <<now, settings, offers, requests, bookings, holds>>

(* A worker fails before its commit.                                       *)
Rollback(w) ==
  /\ job[w] # Idle
  /\ EndJob(w)
  /\ UNCHANGED <<now, settings, offers, requests, bookings, holds, marks>>

-----------------------------------------------------------------------------
Next ==
  \/ Tick
  \/ \E i \in Intervals : Free /\ (OfferSlot(i) \/ WithdrawSlot(i))
  \/ \E s \in SettingsChosen : Free /\ ChangeSettings(s)
  \/ \E u \in Users, b \in DOMAIN bookings : Free /\ ChangeStaff(u, b)
  \/ \E w \in Workers :
       \/ \E u \in Users, time \in Intervals \cup {NoTime} : CreateRequest(w, u, time)
       \/ OpenConversation(w)
       \/ \E u \in Users, id \in DOMAIN requests :
            \/ \E to \in StatusesChosen : StartStatus(w, u, id, to)
            \/ StartPlan(w, u, id)
       \/ UpdateStatus(w)
       \/ CommitStatus(w)
       \/ \E need \in {0, 1} : CommitPlan(w, need)
       \/ \E u \in Users, b \in DOMAIN bookings, role \in {"requester", "participants"},
             selection \in Selections : StartMark(w, u, b, role, selection)
       \/ CommitMark(w)
       \/ Rollback(w)

Spec == Init /\ [][Next]_vars

-----------------------------------------------------------------------------
(* However acceptances overlap, a request holds at most one slot, and an   *)
(* accepted request for a time has its activity in the provider's agenda   *)
(* (projects_service_requests.py:485-540).                                 *)
AcceptedIsBooked ==
  \A r \in DOMAIN requests :
    /\ holds[r] <= 1
    /\ Personal /\ requests[r].status = "accepted" /\ requests[r].time # NoTime
         => requests[r].linked # 0 /\ bookings[requests[r].linked].request = r

(* One acceptance at a time, no two requests hold the same time, whatever  *)
(* becomes of the rules that offered it (availability.py:326-341).         *)
HoldsNeverOverlap ==
  \A q, r \in DOMAIN requests :
    q # r /\ holds[q] > 0 /\ holds[r] > 0 => ~ Overlaps(requests[q].time, requests[r].time)

(* One request at a time, a person's word on an activity is one row: there *)
(* is never a completed beside an uncompleted of the same person           *)
(* (projects_service_requests.py:840-895).                                 *)
MarkedOnce == \A k \in Keys : Len(marks[k]) <= 1
=============================================================================
