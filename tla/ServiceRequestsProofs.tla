----------------------- MODULE ServiceRequestsProofs -----------------------
(***************************************************************************)
(* The requests made to a service, and the members and signals of a        *)
(* project or an event, for any people and any number of workers.          *)
(*                                                                         *)
(* IInv holds for any number of requests at a time: what a worker read and *)
(* still uses stays true, because a request is never removed, keeps its    *)
(* time and, once linked, is linked for good.  That an accepted request is *)
(* in the agenda follows.  OneInv needs one request at a time: it adds     *)
(* what was found in the slots and in the marks still stands at the write. *)
(*                                                                         *)
(* Members are counted (Counted) because a project's count follows what    *)
(* the database did; that an event's does too, and the signals of a        *)
(* project, takes that what a handler read is still so (Reads).            *)
(***************************************************************************)
EXTENDS ServiceRequests, FiniteSetTheorems, TLAPS

OneAtATime == \A v, w \in Workers : v = w

(* What a worker has read still stands: requests stay and keep their time, *)
(* and one that led to an activity leads to one for good.                  *)
JobOK(j) ==
  /\ j.op \in {"chat", "status", "update", "plan"} => j.id \in DOMAIN requests
  /\ j.op \in {"status", "update"} /\ j.linked # 0 => requests[j.id].linked # 0
  /\ j.op = "update" /\ j.fits => requests[j.id].time \in Intervals
  /\ j.op = "plan" => requests[j.id].time \in Intervals
JobsOK == \A w \in Workers : JobOK(job[w])

(* The links between the tables, and what an acceptance leaves behind.     *)
LinksOK ==
  \A r \in DOMAIN requests :
    /\ requests[r].linked # 0 =>
         requests[r].linked \in DOMAIN bookings /\ bookings[requests[r].linked].request = r
    /\ Personal /\ requests[r].status = "accepted" /\ requests[r].time # NoTime
         => requests[r].linked # 0
HoldsOK ==
  \A r \in 1..MaxRequests :
    holds[r] # 0 => holds[r] = 1 /\ r \in DOMAIN requests /\ requests[r].time \in Intervals

IInv == TypeOK /\ JobsOK /\ LinksOK /\ HoldsOK

-----------------------------------------------------------------------------
LEMMA InitIInv == Init => IInv
<1> SUFFICES ASSUME Init PROVE IInv
  OBVIOUS
<1>1. requests \in Seq(RequestRow) /\ Len(requests) <= MaxRequests /\ DOMAIN requests = {}
  BY InputsAssumption DEF Init
<1>2. bookings \in Seq(BookingRow) /\ Len(bookings) <= MaxBookings
  BY InputsAssumption DEF Init
<1>3. settings \in Settings /\ offers \subseteq Intervals /\ now \in 0..MaxTime
  BY PeopleAssumption, InputsAssumption DEF Init, Settings
<1>4. DOMAIN marks = Keys /\ \A k \in Keys : marks[k] \in Seq(Selections)
  BY DEF Init
<1>5. holds \in [1..MaxRequests -> 0..MaxRequests] /\ \A r \in 1..MaxRequests : holds[r] = 0
  BY InputsAssumption DEF Init
<1>6. job \in [Workers -> Jobs] /\ \A w \in Workers : job[w].op = "idle"
  BY DEF Init, Jobs, Idle
<1>7. TypeOK
  BY <1>1, <1>2, <1>3, <1>4, <1>5, <1>6 DEF TypeOK
<1>8. JobsOK /\ LinksOK /\ HoldsOK
  BY <1>1, <1>5, <1>6 DEF JobsOK, JobOK, LinksOK, HoldsOK
<1>9. QED
  BY <1>7, <1>8 DEF IInv

LEMMA JobShapes ==
  ASSUME TypeOK, NEW w \in Workers
  PROVE  /\ job[w].op \in {"idle", "chat", "status", "update", "plan", "mark"}
         /\ job[w].op = "idle" => job[w] = Idle
         /\ job[w].op \in {"chat", "status", "update", "plan"} => job[w].id \in 1..MaxRequests
         /\ job[w].op \in {"status", "update"} =>
              job[w].to \in Statuses /\ job[w].linked \in 0..MaxBookings
         /\ job[w].op = "update" => job[w].fits \in BOOLEAN
         /\ job[w].op = "mark" =>
              /\ job[w].key \in Keys /\ job[w].as \in Selections
              /\ job[w].found \in {"none"} \cup Selections
  BY DEF TypeOK, Jobs, Idle

LEMMA RowFields ==
  ASSUME NEW r \in RequestRow
  PROVE  /\ r.by \in Users /\ r.time \in Intervals \cup {NoTime} /\ r.status \in Statuses
         /\ r.linked \in 0..MaxBookings /\ r.chat \in BOOLEAN
         /\ r = [by |-> r.by, time |-> r.time, status |-> r.status, linked |-> r.linked, chat |-> r.chat]
  BY DEF RequestRow

(* The rows of requests after a change to one of them.                     *)
RowSet(new, id, status, linked) ==
  /\ new \in Seq(RequestRow) /\ Len(new) = Len(requests) /\ DOMAIN new = DOMAIN requests
  /\ \A r \in DOMAIN requests :
       /\ r # id => new[r] = requests[r]
       /\ new[r].time = requests[r].time
  /\ new[id].status = status
  /\ new[id].linked = linked

LEMMA ReplacingRow ==
  ASSUME TypeOK, NEW id \in DOMAIN requests, NEW r \in RequestRow, r.time = requests[id].time
  PROVE  RowSet([requests EXCEPT ![id] = r], id, r.status, r.linked)
<1>1. requests \in Seq(RequestRow)
  BY DEF TypeOK
<1>2. QED
  BY <1>1 DEF RowSet

LEMMA SettingStatus ==
  ASSUME TypeOK, NEW id \in DOMAIN requests, NEW s \in Statuses
  PROVE  RowSet([requests EXCEPT ![id].status = s], id, s, requests[id].linked)
<1> DEFINE r == requests[id]
           new == [by |-> r.by, time |-> r.time, status |-> s, linked |-> r.linked, chat |-> r.chat]
<1>1. r \in RequestRow /\ requests \in Seq(RequestRow)
  BY DEF TypeOK
<1>2. r = [by |-> r.by, time |-> r.time, status |-> r.status, linked |-> r.linked, chat |-> r.chat]
  BY <1>1, RowFields
<1>3. new \in RequestRow /\ new.time = r.time /\ new.status = s /\ new.linked = r.linked
  BY <1>1, RowFields DEF RequestRow
<1>4. [requests EXCEPT ![id].status = s] = [requests EXCEPT ![id] = new]
  <2>1. [r EXCEPT !.status = s] = new
    BY <1>2
  <2>2. QED
    BY <1>1, <2>1
<1> HIDE DEF new
<1>5. QED
  BY <1>3, <1>4, ReplacingRow

LEMMA SettingRow ==
  ASSUME TypeOK, NEW id \in DOMAIN requests, NEW s \in Statuses, NEW b \in 0..MaxBookings
  PROVE  RowSet([requests EXCEPT ![id].status = s, ![id].linked = b], id, s, b)
<1> DEFINE r == requests[id]
           mid == [by |-> r.by, time |-> r.time, status |-> s, linked |-> r.linked, chat |-> r.chat]
           new == [by |-> r.by, time |-> r.time, status |-> s, linked |-> b, chat |-> r.chat]
<1>1. r \in RequestRow /\ requests \in Seq(RequestRow)
  BY DEF TypeOK
<1>2. r = [by |-> r.by, time |-> r.time, status |-> r.status, linked |-> r.linked, chat |-> r.chat]
  BY <1>1, RowFields
<1>3. new \in RequestRow /\ new.time = r.time /\ new.status = s /\ new.linked = b
  BY <1>1, RowFields DEF RequestRow
<1>4. [requests EXCEPT ![id].status = s] = [requests EXCEPT ![id] = mid]
  <2>1. [r EXCEPT !.status = s] = mid
    BY <1>2
  <2>2. QED
    BY <1>1, <2>1
<1>5. [mid EXCEPT !.linked = b] = new
  OBVIOUS
<1>6. [requests EXCEPT ![id].status = s, ![id].linked = b] = [[requests EXCEPT ![id] = mid] EXCEPT ![id].linked = b]
  BY <1>4
<1> HIDE DEF new, mid
<1>7. [[requests EXCEPT ![id] = mid] EXCEPT ![id].linked = b] = [requests EXCEPT ![id] = new]
  BY <1>1, <1>5
<1>8. QED
  BY <1>3, <1>6, <1>7, ReplacingRow

LEMMA SettingChat ==
  ASSUME TypeOK, NEW id \in DOMAIN requests
  PROVE  RowSet([requests EXCEPT ![id].chat = TRUE], id, requests[id].status, requests[id].linked)
<1> DEFINE r == requests[id]
           yes == TRUE
           new == [by |-> r.by, time |-> r.time, status |-> r.status, linked |-> r.linked, chat |-> yes]
<1>1. r \in RequestRow /\ requests \in Seq(RequestRow) /\ yes \in BOOLEAN
  BY DEF TypeOK
<1>2. [requests EXCEPT ![id].chat = TRUE] = [requests EXCEPT ![id].chat = yes]
  OBVIOUS
<1> HIDE DEF yes
<1>3. r = [by |-> r.by, time |-> r.time, status |-> r.status, linked |-> r.linked, chat |-> r.chat]
  BY <1>1, RowFields
<1>4. new \in RequestRow /\ new.time = r.time /\ new.status = r.status /\ new.linked = r.linked
  BY <1>1, RowFields DEF RequestRow
<1>5. [requests EXCEPT ![id].chat = yes] = [requests EXCEPT ![id] = new]
  <2>1. [r EXCEPT !.chat = yes] = new
    BY <1>3
  <2>2. QED
    BY <1>1, <2>1
<1> HIDE DEF new
<1>6. QED
  BY <1>2, <1>4, <1>5, ReplacingRow

LEMMA AddRow ==
  ASSUME NEW R, NEW s \in Seq(R), NEW r \in R
  PROVE  /\ Append(s, r) \in Seq(R)
         /\ Len(Append(s, r)) = Len(s) + 1
         /\ DOMAIN Append(s, r) = DOMAIN s \cup {Len(s) + 1}
         /\ Len(s) + 1 \notin DOMAIN s
         /\ \A i \in DOMAIN s : Append(s, r)[i] = s[i]
         /\ Append(s, r)[Len(s) + 1] = r
  OBVIOUS

-----------------------------------------------------------------------------
(* What a step does to jobs and links.                                     *)
LEMMA JobsStay ==
  ASSUME IInv, NEW w \in Workers,
         DOMAIN requests \subseteq DOMAIN requests',
         \A r \in DOMAIN requests :
           /\ requests'[r].time = requests[r].time
           /\ requests[r].linked # 0 => requests'[r].linked # 0,
         \A v \in Workers : job'[v] = job[v] \/ job'[v] = Idle \/ JobOK(job[v])'
  PROVE  JobsOK'
<1> SUFFICES ASSUME NEW v \in Workers PROVE JobOK(job[v])'
  BY DEF JobsOK
<1>1. CASE job'[v] = job[v]
  <2>1. JobOK(job[v])
    BY DEF IInv, JobsOK
  <2>2. QED
    BY <1>1, <2>1 DEF JobOK
<1>2. CASE job'[v] = Idle
  BY <1>2 DEF JobOK, Idle
<1>3. QED
  BY <1>1, <1>2

LEMMA StartJobStep ==
  ASSUME IInv, NEW w \in Workers, NEW j, j \in Jobs, JobOK(j), job' = [job EXCEPT ![w] = j],
         UNCHANGED <<now, settings, offers, requests, bookings, holds, marks>>
  PROVE  IInv'
<1>1. \A v \in Workers : job'[v] = job[v] \/ job'[v] = j
  BY DEF IInv, TypeOK
<1>2. job' \in [Workers -> Jobs]
  BY DEF IInv, TypeOK
<1>3. TypeOK' /\ LinksOK' /\ HoldsOK'
  BY <1>2 DEF IInv, TypeOK, LinksOK, HoldsOK
<1>4. JobsOK'
  BY <1>1 DEF IInv, JobsOK, JobOK
<1>5. QED
  BY <1>3, <1>4 DEF IInv

LEMMA IdleStep ==
  ASSUME IInv, NEW w \in Workers, EndJob(w)
  PROVE  job' \in [Workers -> Jobs] /\ \A v \in Workers : job'[v] = job[v] \/ job'[v] = Idle
  BY DEF IInv, TypeOK, EndJob, Jobs

LEMMA LinksStep ==
  ASSUME IInv, NEW id \in DOMAIN requests, NEW s, NEW b, RowSet(requests', id, s, b),
         DOMAIN bookings \subseteq DOMAIN bookings',
         \A c \in DOMAIN bookings : bookings'[c].request = bookings[c].request,
         b # 0 => b \in DOMAIN bookings' /\ bookings'[b].request = id,
         Personal /\ s = "accepted" /\ requests[id].time # NoTime => b # 0
  PROVE  LinksOK'
<1> SUFFICES ASSUME NEW r \in DOMAIN requests'
             PROVE  /\ requests'[r].linked # 0 =>
                         /\ requests'[r].linked \in DOMAIN bookings'
                         /\ bookings'[requests'[r].linked].request = r
                    /\ Personal /\ requests'[r].status = "accepted" /\ requests'[r].time # NoTime
                         => requests'[r].linked # 0
  BY DEF LinksOK
<1>1. r \in DOMAIN requests /\ requests'[r].time = requests[r].time
  BY DEF RowSet
<1>2. CASE r = id
  BY <1>1, <1>2 DEF RowSet
<1>3. CASE r # id
  BY <1>1, <1>3 DEF RowSet, IInv, LinksOK
<1>4. QED
  BY <1>2, <1>3

(* A request and the rows of the calendar after a step that appends an     *)
(* activity for it.                                                        *)
LEMMA BookingStep ==
  ASSUME IInv, NEW id \in DOMAIN requests, requests[id].time \in Intervals,
         Len(bookings) < MaxBookings, NEW need \in {0, 1}, NEW staff \in SUBSET Users,
         bookings' = Append(bookings, [request |-> id, time |-> requests[id].time,
                                       need |-> need, staff |-> staff])
  PROVE  /\ bookings' \in Seq(BookingRow) /\ Len(bookings') <= MaxBookings
         /\ DOMAIN bookings \subseteq DOMAIN bookings'
         /\ \A c \in DOMAIN bookings : bookings'[c].request = bookings[c].request
         /\ Len(bookings) + 1 \in DOMAIN bookings' /\ bookings'[Len(bookings) + 1].request = id
         /\ Len(bookings) + 1 \in 0..MaxBookings /\ Len(bookings) + 1 # 0
<1> DEFINE b == [request |-> id, time |-> requests[id].time, need |-> need, staff |-> staff]
<1>1. id \in 1..MaxRequests
  BY InputsAssumption DEF IInv, TypeOK
<1>2. b \in BookingRow /\ b.request = id
  BY <1>1 DEF BookingRow
<1>3. bookings \in Seq(BookingRow) /\ Len(bookings) \in Nat
  BY DEF IInv, TypeOK
<1>4. bookings' = Append(bookings, b)
  OBVIOUS
<1> HIDE DEF b
<1>5. /\ bookings' \in Seq(BookingRow) /\ Len(bookings') = Len(bookings) + 1
      /\ DOMAIN bookings' = DOMAIN bookings \cup {Len(bookings) + 1}
      /\ \A c \in DOMAIN bookings : bookings'[c] = bookings[c]
      /\ bookings'[Len(bookings) + 1] = b
  BY <1>2, <1>3, <1>4, AddRow
<1>6. QED
  BY <1>2, <1>3, <1>5, InputsAssumption

LEMMA CommitStatusEffect ==
  ASSUME IInv, NEW w \in Workers, CommitStatus(w)
  PROVE  /\ job[w].op = "update" /\ job[w].id \in DOMAIN requests
         /\ \E b \in 0..MaxBookings :
              /\ RowSet(requests', job[w].id, job[w].to, b)
              /\ requests[job[w].id].linked # 0 => b # 0
              /\ b # 0 => b \in DOMAIN bookings' /\ bookings'[b].request = job[w].id
              /\ Personal /\ job[w].to = "accepted" /\ requests[job[w].id].time # NoTime => b # 0
         /\ bookings' \in Seq(BookingRow) /\ Len(bookings') <= MaxBookings
         /\ DOMAIN bookings \subseteq DOMAIN bookings'
         /\ \A c \in DOMAIN bookings : bookings'[c].request = bookings[c].request
         /\ holds' = IF job[w].fits /\ holds[job[w].id] = 0 THEN [holds EXCEPT ![job[w].id] = 1] ELSE holds
         /\ job[w].fits => requests[job[w].id].time \in Intervals
         /\ EndJob(w) /\ UNCHANGED <<now, settings, offers, marks>>
<1> DEFINE j == job[w]
           id == j.id
<1>1. /\ j.op = "update" /\ id \in DOMAIN requests /\ id \in 1..MaxRequests /\ j.to \in Statuses
      /\ j.linked # 0 => requests[id].linked # 0
      /\ j.fits => requests[id].time \in Intervals
  BY JobShapes DEF IInv, JobsOK, JobOK, CommitStatus
<1>2. /\ holds' = IF j.fits THEN CreateSlotHold(id) ELSE holds
      /\ EndJob(w) /\ UNCHANGED <<now, settings, offers, marks>>
      /\ IF Books(j)
         THEN /\ Len(bookings) < MaxBookings
              /\ bookings' = Append(bookings, [request |-> id, time |-> requests[id].time,
                                               need |-> 1, staff |-> {Author}])
              /\ requests' = [requests EXCEPT ![id].status = j.to, ![id].linked = Len(bookings) + 1]
         ELSE requests' = [requests EXCEPT ![id].status = j.to] /\ UNCHANGED bookings
  BY DEF CommitStatus
<1>3. TypeOK /\ LinksOK
  BY DEF IInv
<1>4. requests[id].time \in Intervals \cup {NoTime} /\ requests[id].linked \in 0..MaxBookings
  <2>1. requests[id] \in RequestRow
    BY <1>1, <1>3 DEF TypeOK
  <2>2. QED
    BY <2>1, RowFields
<1>5. Books(j) <=> j.to = "accepted" /\ Personal /\ requests[id].time # NoTime /\ j.linked = 0
  BY DEF Books
<1> HIDE DEF j, id
<1>6. holds' = IF j.fits /\ holds[id] = 0 THEN [holds EXCEPT ![id] = 1] ELSE holds
  <2>1. holds[id] \in Nat
    BY <1>1, <1>3, InputsAssumption DEF TypeOK
  <2>2. holds[id] = 0 => [holds EXCEPT ![id] = @ + 1] = [holds EXCEPT ![id] = 1]
    OBVIOUS
  <2>3. QED
    BY <1>2, <2>1, <2>2 DEF CreateSlotHold
<1>7. CASE Books(j)
  <2> DEFINE b == Len(bookings) + 1
  <2>1. requests[id].time \in Intervals
    BY <1>4, <1>5, <1>7
  <2>2. {Author} \in SUBSET Users /\ 1 \in {0, 1}
    BY PeopleAssumption
  <2>3. /\ bookings' \in Seq(BookingRow) /\ Len(bookings') <= MaxBookings
        /\ DOMAIN bookings \subseteq DOMAIN bookings'
        /\ \A c \in DOMAIN bookings : bookings'[c].request = bookings[c].request
        /\ b \in DOMAIN bookings' /\ bookings'[b].request = id
        /\ b \in 0..MaxBookings /\ b # 0
    BY <1>1, <1>2, <1>7, <2>1, <2>2, BookingStep
  <2>4. requests' = [requests EXCEPT ![id].status = j.to, ![id].linked = b]
    BY <1>2, <1>7
  <2> HIDE DEF b
  <2>5. RowSet(requests', id, j.to, b)
    BY <1>1, <1>3, <2>3, <2>4, SettingRow
  <2>6. QED
    BY <1>1, <1>2, <1>6, <2>3, <2>5 DEF j, id
<1>8. CASE ~ Books(j)
  <2> DEFINE b == requests[id].linked
  <2>1. RowSet(requests', id, j.to, b)
    BY <1>1, <1>2, <1>3, <1>8, SettingStatus
  <2>2. b # 0 => b \in DOMAIN bookings /\ bookings[b].request = id
    BY <1>1, <1>3 DEF LinksOK
  <2>3. Personal /\ j.to = "accepted" /\ requests[id].time # NoTime => b # 0
    BY <1>1, <1>5, <1>8
  <2>4. bookings' = bookings /\ bookings \in Seq(BookingRow) /\ Len(bookings) <= MaxBookings
    BY <1>2, <1>3, <1>8 DEF TypeOK
  <2>5. b \in 0..MaxBookings
    BY <1>4
  <2> HIDE DEF b
  <2>6. requests[id].linked # 0 => b # 0
    BY DEF b
  <2>7. QED
    BY <1>1, <1>2, <1>6, <2>1, <2>2, <2>3, <2>4, <2>5, <2>6 DEF j, id
<1>9. QED
  BY <1>7, <1>8

LEMMA CommitPlanEffect ==
  ASSUME IInv, NEW w \in Workers, NEW need \in {0, 1}, CommitPlan(w, need)
  PROVE  /\ job[w].op = "plan" /\ job[w].id \in DOMAIN requests
         /\ RowSet(requests', job[w].id, "planned", Len(bookings) + 1)
         /\ bookings' \in Seq(BookingRow) /\ Len(bookings') <= MaxBookings
         /\ DOMAIN bookings \subseteq DOMAIN bookings'
         /\ \A c \in DOMAIN bookings : bookings'[c].request = bookings[c].request
         /\ Len(bookings) + 1 \in DOMAIN bookings' /\ bookings'[Len(bookings) + 1].request = job[w].id
         /\ Len(bookings) + 1 # 0
         /\ EndJob(w) /\ UNCHANGED <<now, settings, offers, holds, marks>>
<1> DEFINE id == job[w].id
           b == Len(bookings) + 1
<1>1. /\ job[w].op = "plan" /\ id \in DOMAIN requests /\ requests[id].time \in Intervals
  BY DEF IInv, JobsOK, JobOK, CommitPlan
<1>2. /\ Len(bookings) < MaxBookings
      /\ bookings' = Append(bookings, [request |-> id, time |-> requests[id].time,
                                       need |-> need, staff |-> {}])
      /\ requests' = [requests EXCEPT ![id].status = "planned", ![id].linked = b]
      /\ EndJob(w) /\ UNCHANGED <<now, settings, offers, holds, marks>>
  BY DEF CommitPlan
<1> HIDE DEF id
<1>3. /\ bookings' \in Seq(BookingRow) /\ Len(bookings') <= MaxBookings
      /\ DOMAIN bookings \subseteq DOMAIN bookings'
      /\ \A c \in DOMAIN bookings : bookings'[c].request = bookings[c].request
      /\ b \in DOMAIN bookings' /\ bookings'[b].request = id
      /\ b \in 0..MaxBookings /\ b # 0
  <2>1. {} \in SUBSET Users
    OBVIOUS
  <2>2. QED
    BY <1>1, <1>2, <2>1, BookingStep
<1>4. RowSet(requests', id, "planned", b)
  <2>1. "planned" \in Statuses /\ TypeOK
    BY DEF Statuses, IInv
  <2>2. QED
    BY <1>1, <1>2, <1>3, <2>1, SettingRow
<1>5. QED
  BY <1>1, <1>2, <1>3, <1>4 DEF id

LEMMA CreateEffect ==
  ASSUME IInv, NEW w \in Workers, NEW u \in Users, NEW time \in Intervals \cup {NoTime},
         CreateRequest(w, u, time)
  PROVE  /\ requests' \in Seq(RequestRow) /\ Len(requests') <= MaxRequests
         /\ DOMAIN requests' = DOMAIN requests \cup {Len(requests) + 1}
         /\ Len(requests) + 1 \notin DOMAIN requests
         /\ \A r \in DOMAIN requests : requests'[r] = requests[r]
         /\ requests'[Len(requests) + 1].status = "open" /\ requests'[Len(requests) + 1].linked = 0
         /\ job' \in [Workers -> Jobs]
         /\ \A v \in Workers : v # w => job'[v] = job[v]
         /\ job'[w] = Idle \/ job'[w] = [op |-> "chat", id |-> Len(requests) + 1]
         /\ job[w] = Idle
         /\ UNCHANGED <<now, settings, offers, bookings, holds, marks>>
<1> DEFINE r == [by |-> u, time |-> time, status |-> "open", linked |-> 0, chat |-> FALSE]
           j == [op |-> "chat", id |-> Len(requests) + 1]
<1>1. /\ Len(requests) < MaxRequests /\ job[w] = Idle
      /\ requests' = Append(requests, r)
      /\ job' = job \/ job' = [job EXCEPT ![w] = j]
      /\ UNCHANGED <<now, settings, offers, bookings, holds, marks>>
  BY DEF CreateRequest, StartJob
<1>2. r \in RequestRow
  BY InputsAssumption DEF RequestRow, Statuses
<1>3. requests \in Seq(RequestRow) /\ Len(requests) \in Nat
  BY DEF IInv, TypeOK
<1>4. j \in Jobs
  BY <1>1, <1>3, InputsAssumption DEF Jobs
<1>5. job' \in [Workers -> Jobs] /\ (\A v \in Workers : v # w => job'[v] = job[v]) /\ (job'[w] = Idle \/ job'[w] = j)
  BY <1>1, <1>4 DEF IInv, TypeOK
<1>6. r.status = "open" /\ r.linked = 0
  OBVIOUS
<1> HIDE DEF r
<1>7. /\ requests' \in Seq(RequestRow) /\ Len(requests') = Len(requests) + 1
      /\ DOMAIN requests' = DOMAIN requests \cup {Len(requests) + 1}
      /\ Len(requests) + 1 \notin DOMAIN requests
      /\ \A i \in DOMAIN requests : requests'[i] = requests[i]
      /\ requests'[Len(requests) + 1] = r
  BY <1>1, <1>2, <1>3, AddRow
<1>8. Len(requests') <= MaxRequests
  BY <1>1, <1>3, <1>7, InputsAssumption
<1>9. QED
  BY <1>1, <1>5, <1>6, <1>7, <1>8

LEMMA InvStep == IInv /\ [Next]_vars => IInv'
<1> SUFFICES ASSUME IInv, [Next]_vars PROVE IInv'
  OBVIOUS
<1>1. ASSUME UNCHANGED <<requests, bookings, holds, marks, job>>, now' \in 0..MaxTime,
             settings' \in Settings, offers' \subseteq Intervals
      PROVE  IInv'
  BY <1>1 DEF IInv, TypeOK, JobsOK, JobOK, LinksOK, HoldsOK
<1>2. Tick => UNCHANGED <<settings, offers, requests, bookings, holds, marks, job>> /\ now' \in 0..MaxTime
  BY InputsAssumption DEF Tick, IInv, TypeOK
<1>3. ASSUME NEW i \in Intervals, OfferSlot(i) \/ WithdrawSlot(i) PROVE IInv'
  <2>1. /\ UNCHANGED <<now, settings, requests, bookings, holds, marks, job>>
        /\ offers' \subseteq Intervals
    BY <1>3 DEF OfferSlot, WithdrawSlot, IInv, TypeOK
  <2>2. QED
    BY <1>1, <2>1 DEF IInv, TypeOK
<1>4. ASSUME NEW s \in SettingsChosen, ChangeSettings(s) PROVE IInv'
  <2>1. s \in Settings
    BY InputsAssumption DEF Settings
  <2>2. QED
    BY <1>1, <1>4, <2>1 DEF ChangeSettings, IInv, TypeOK
<1>5. ASSUME NEW u \in Users, NEW b \in DOMAIN bookings, ChangeStaff(u, b) PROVE IInv'
  <2> DEFINE r == bookings[b]
             staff == IF u \in r.staff THEN r.staff \ {u} ELSE {u}
             new == [request |-> r.request, time |-> r.time, need |-> r.need, staff |-> staff]
  <2>1. r \in BookingRow /\ bookings \in Seq(BookingRow)
    BY DEF IInv, TypeOK
  <2>2. r = [request |-> r.request, time |-> r.time, need |-> r.need, staff |-> r.staff]
    BY <2>1 DEF BookingRow
  <2>3. staff \in SUBSET Users
    BY <2>1 DEF BookingRow
  <2>4. bookings' = [bookings EXCEPT ![b].staff = staff]
        /\ UNCHANGED <<now, settings, offers, requests, holds, marks, job>>
    BY <1>5 DEF ChangeStaff
  <2> HIDE DEF r, staff
  <2>5. new \in BookingRow /\ new.request = r.request
    BY <2>1, <2>3 DEF BookingRow
  <2>6. [r EXCEPT !.staff = staff] = new
    BY <2>2
  <2> HIDE DEF new
  <2>7. bookings' = [bookings EXCEPT ![b] = new]
    BY <2>1, <2>4, <2>6 DEF r
  <2>8. /\ bookings' \in Seq(BookingRow) /\ Len(bookings') = Len(bookings)
        /\ DOMAIN bookings' = DOMAIN bookings
        /\ \A c \in DOMAIN bookings : bookings'[c].request = bookings[c].request
    BY <2>1, <2>5, <2>7 DEF r
  <2>9. QED
    BY <2>4, <2>8 DEF IInv, TypeOK, JobsOK, JobOK, LinksOK, HoldsOK
<1>6. ASSUME NEW w \in Workers, NEW u \in Users, NEW time \in Intervals \cup {NoTime},
             CreateRequest(w, u, time)
      PROVE  IInv'
  <2> DEFINE n == Len(requests) + 1
  <2>1. /\ requests' \in Seq(RequestRow) /\ Len(requests') <= MaxRequests
        /\ DOMAIN requests' = DOMAIN requests \cup {n} /\ n \notin DOMAIN requests
        /\ \A r \in DOMAIN requests : requests'[r] = requests[r]
        /\ requests'[n].status = "open" /\ requests'[n].linked = 0
        /\ job' \in [Workers -> Jobs]
        /\ \A v \in Workers : v # w => job'[v] = job[v]
        /\ job'[w] = Idle \/ job'[w] = [op |-> "chat", id |-> n]
        /\ UNCHANGED <<now, settings, offers, bookings, holds, marks>>
    BY <1>6, CreateEffect
  <2> HIDE DEF n
  <2>2. TypeOK'
    BY <2>1 DEF IInv, TypeOK
  <2>3. LinksOK'
    BY <2>1 DEF IInv, LinksOK
  <2>4. HoldsOK'
    BY <2>1 DEF IInv, HoldsOK
  <2>5. ASSUME job'[w] = [op |-> "chat", id |-> n] PROVE JobOK(job[w])'
    <3>1. job'[w].op = "chat" /\ job'[w].id = n /\ n \in DOMAIN requests'
      BY <2>1, <2>5
    <3>2. QED
      BY <3>1 DEF JobOK
  <2>6. \A v \in Workers : job'[v] = job[v] \/ job'[v] = Idle \/ JobOK(job[v])'
    <3> SUFFICES ASSUME NEW v \in Workers, job'[v] # job[v], job'[v] # Idle PROVE JobOK(job[v])'
      OBVIOUS
    <3>1. v = w
      BY <2>1
    <3>2. QED
      BY <2>1, <2>5, <3>1
  <2>7. JobsOK'
    BY <2>1, <2>6, JobsStay
  <2>8. QED
    BY <2>2, <2>3, <2>4, <2>7 DEF IInv
<1>7. ASSUME NEW w \in Workers, OpenConversation(w) PROVE IInv'
  <2> DEFINE id == job[w].id
  <2>1. /\ id \in DOMAIN requests /\ requests' = [requests EXCEPT ![id].chat = TRUE] /\ EndJob(w)
        /\ UNCHANGED <<now, settings, offers, bookings, holds, marks>>
    BY <1>7 DEF OpenConversation, IInv, JobsOK, JobOK
  <2> HIDE DEF id
  <2>2. RowSet(requests', id, requests[id].status, requests[id].linked)
    BY <2>1, SettingChat DEF IInv
  <2>3. LinksOK'
    <3>1. requests[id].linked # 0 => requests[id].linked \in DOMAIN bookings /\ bookings[requests[id].linked].request = id
      BY <2>1 DEF IInv, LinksOK
    <3>2. Personal /\ requests[id].status = "accepted" /\ requests[id].time # NoTime => requests[id].linked # 0
      BY <2>1 DEF IInv, LinksOK
    <3>3. QED
      BY <2>1, <2>2, <3>1, <3>2, LinksStep
  <2>4. job' \in [Workers -> Jobs] /\ \A v \in Workers : job'[v] = job[v] \/ job'[v] = Idle
    BY <2>1, IdleStep
  <2>5. TypeOK' /\ HoldsOK'
    BY <2>1, <2>2, <2>4 DEF IInv, TypeOK, HoldsOK, RowSet
  <2>6. \A r \in DOMAIN requests : requests[r].linked # 0 => requests'[r].linked # 0
    BY <2>1, <2>2 DEF RowSet
  <2>7. JobsOK'
    BY <2>2, <2>4, <2>6, JobsStay DEF RowSet
  <2>8. QED
    BY <2>3, <2>5, <2>7 DEF IInv
<1>8. ASSUME NEW w \in Workers, NEW u \in Users, NEW id \in DOMAIN requests,
             NEW to \in StatusesChosen,
             StartStatus(w, u, id, to)
      PROVE  IInv'
  <2> DEFINE j == [op |-> "status", id |-> id, to |-> to, linked |-> requests[id].linked]
  <2>1. job' = [job EXCEPT ![w] = j] /\ UNCHANGED <<now, settings, offers, requests, bookings, holds, marks>>
    BY <1>8 DEF StartStatus, StartJob
  <2>2. requests[id] \in RequestRow /\ id \in 1..MaxRequests
    BY InputsAssumption DEF IInv, TypeOK
  <2>3. requests[id].linked \in 0..MaxBookings
    BY <2>2, RowFields
  <2>4. j \in Jobs /\ JobOK(j)
    BY <2>2, <2>3, InputsAssumption DEF Jobs, JobOK, Statuses
  <2> HIDE DEF j
  <2>5. QED
    BY <2>1, <2>4, StartJobStep
<1>9. ASSUME NEW w \in Workers, NEW u \in Users, NEW id \in DOMAIN requests,
             StartPlan(w, u, id) PROVE IInv'
  <2> DEFINE j == [op |-> "plan", id |-> id]
  <2>1. /\ job' = [job EXCEPT ![w] = j] /\ requests[id].time # NoTime
        /\ UNCHANGED <<now, settings, offers, requests, bookings, holds, marks>>
    BY <1>9 DEF StartPlan, StartJob
  <2>2. requests[id] \in RequestRow /\ id \in 1..MaxRequests
    BY InputsAssumption DEF IInv, TypeOK
  <2>3. requests[id].time \in Intervals
    BY <2>1, <2>2, RowFields
  <2>4. j \in Jobs /\ JobOK(j)
    BY <2>2, <2>3 DEF Jobs, JobOK
  <2> HIDE DEF j
  <2>5. QED
    BY <2>1, <2>4, StartJobStep
<1>10. ASSUME NEW w \in Workers, UpdateStatus(w) PROVE IInv'
  <2> DEFINE i == job[w]
             fits == i.to = "accepted" /\ FitsOpenSlot(requests[i.id].time)
             j == [op |-> "update", id |-> i.id, to |-> i.to, linked |-> i.linked, fits |-> fits]
  <2>1. job' = [job EXCEPT ![w] = j] /\ UNCHANGED <<now, settings, offers, requests, bookings, holds, marks>>
    BY <1>10 DEF UpdateStatus
  <2>2. /\ i.op = "status" /\ i.id \in DOMAIN requests /\ i.id \in 1..MaxRequests
        /\ i.to \in Statuses /\ i.linked \in 0..MaxBookings
        /\ i.linked # 0 => requests[i.id].linked # 0
    BY <1>10, JobShapes DEF IInv, JobsOK, JobOK, UpdateStatus
  <2>3. fits => requests[i.id].time \in Intervals
    <3>1. requests[i.id] \in RequestRow
      BY <2>2 DEF IInv, TypeOK
    <3>2. QED
      BY <3>1, RowFields DEF FitsOpenSlot
  <2>4. fits \in BOOLEAN
    OBVIOUS
  <2> HIDE DEF i, fits
  <2>5. j \in Jobs /\ JobOK(j)
    BY <2>2, <2>3, <2>4 DEF Jobs, JobOK
  <2> HIDE DEF j
  <2>6. QED
    BY <2>1, <2>5, StartJobStep
<1>11. ASSUME NEW w \in Workers, CommitStatus(w) PROVE IInv'
  <2> DEFINE id == job[w].id
             s == job[w].to
             fits == job[w].fits
  <2>1. id \in DOMAIN requests
    BY <1>11, CommitStatusEffect
  <2>2. PICK b \in 0..MaxBookings :
              /\ RowSet(requests', id, s, b)
              /\ requests[id].linked # 0 => b # 0
              /\ b # 0 => b \in DOMAIN bookings' /\ bookings'[b].request = id
              /\ Personal /\ s = "accepted" /\ requests[id].time # NoTime => b # 0
    BY <1>11, CommitStatusEffect
  <2>3. /\ bookings' \in Seq(BookingRow) /\ Len(bookings') <= MaxBookings
        /\ DOMAIN bookings \subseteq DOMAIN bookings'
        /\ \A c \in DOMAIN bookings : bookings'[c].request = bookings[c].request
        /\ holds' = IF fits /\ holds[id] = 0 THEN [holds EXCEPT ![id] = 1] ELSE holds
        /\ fits => requests[id].time \in Intervals
        /\ EndJob(w) /\ UNCHANGED <<now, settings, offers, marks>>
    BY <1>11, CommitStatusEffect
  <2> HIDE DEF id, s, fits
  <2>4. LinksOK'
    BY <2>1, <2>2, <2>3, LinksStep
  <2>5. job' \in [Workers -> Jobs] /\ \A v \in Workers : job'[v] = job[v] \/ job'[v] = Idle
    BY <2>3, IdleStep
  <2>6. holds' \in [1..MaxRequests -> 0..MaxRequests]
    BY <2>1, <2>3, InputsAssumption DEF IInv, TypeOK
  <2>7. TypeOK'
    BY <2>2, <2>3, <2>5, <2>6 DEF IInv, TypeOK, RowSet
  <2>8. HoldsOK'
    <3> SUFFICES ASSUME NEW r \in 1..MaxRequests, holds'[r] # 0
                 PROVE  holds'[r] = 1 /\ r \in DOMAIN requests' /\ requests'[r].time \in Intervals
      BY DEF HoldsOK
    <3>1. CASE holds'[r] = holds[r]
      BY <2>2, <3>1 DEF IInv, HoldsOK, RowSet
    <3>2. CASE holds'[r] # holds[r]
      <4>1. r = id /\ fits /\ holds'[r] = 1
        BY <2>3, <3>2 DEF IInv, TypeOK
      <4>2. QED
        BY <2>1, <2>2, <2>3, <4>1 DEF RowSet
    <3>3. QED
      BY <3>1, <3>2
  <2>9. \A r \in DOMAIN requests : requests[r].linked # 0 => requests'[r].linked # 0
    BY <2>1, <2>2 DEF RowSet
  <2>10. JobsOK'
    BY <2>2, <2>5, <2>9, JobsStay DEF RowSet
  <2>11. QED
    BY <2>4, <2>7, <2>8, <2>10 DEF IInv
<1>12. ASSUME NEW w \in Workers, NEW need \in {0, 1}, CommitPlan(w, need) PROVE IInv'
  <2> DEFINE id == job[w].id
             b == Len(bookings) + 1
  <2>1. /\ id \in DOMAIN requests
        /\ RowSet(requests', id, "planned", b)
        /\ bookings' \in Seq(BookingRow) /\ Len(bookings') <= MaxBookings
        /\ DOMAIN bookings \subseteq DOMAIN bookings'
        /\ \A c \in DOMAIN bookings : bookings'[c].request = bookings[c].request
        /\ b \in DOMAIN bookings' /\ bookings'[b].request = id /\ b # 0
        /\ EndJob(w) /\ UNCHANGED <<now, settings, offers, holds, marks>>
    BY <1>12, CommitPlanEffect
  <2> HIDE DEF id, b
  <2>2. LinksOK'
    BY <2>1, LinksStep
  <2>3. job' \in [Workers -> Jobs] /\ \A v \in Workers : job'[v] = job[v] \/ job'[v] = Idle
    BY <2>1, IdleStep
  <2>4. TypeOK' /\ HoldsOK'
    BY <2>1, <2>3 DEF IInv, TypeOK, HoldsOK, RowSet
  <2>5. \A r \in DOMAIN requests : requests[r].linked # 0 => requests'[r].linked # 0
    BY <2>1 DEF RowSet
  <2>6. JobsOK'
    BY <2>1, <2>3, <2>5, JobsStay DEF RowSet
  <2>7. QED
    BY <2>2, <2>4, <2>6 DEF IInv
<1>13. ASSUME NEW w \in Workers, NEW u \in Users, NEW b \in DOMAIN bookings,
              NEW role \in {"requester", "participants"}, NEW selection \in Selections,
              StartMark(w, u, b, role, selection)
       PROVE  IInv'
  <2>1. PICK found \in Found(marks[<<b, u, role>>]) :
          job' = [job EXCEPT ![w] = [op |-> "mark", key |-> <<b, u, role>>, found |-> found, as |-> selection]]
    BY <1>13 DEF StartMark, StartJob
  <2> DEFINE j == [op |-> "mark", key |-> <<b, u, role>>, found |-> found, as |-> selection]
  <2>2. <<b, u, role>> \in Keys
    BY InputsAssumption DEF Keys, IInv, TypeOK
  <2>3. found \in {"none"} \cup Selections
    <3>1. marks[<<b, u, role>>] \in Seq(Selections)
      BY <2>2 DEF IInv, TypeOK
    <3>2. QED
      BY <3>1 DEF Found
  <2>4. j \in Jobs /\ JobOK(j)
    BY <2>2, <2>3 DEF Jobs, JobOK
  <2>5. job' = [job EXCEPT ![w] = j] /\ UNCHANGED <<now, settings, offers, requests, bookings, holds, marks>>
    BY <1>13, <2>1 DEF StartMark
  <2> HIDE DEF j
  <2>6. QED
    BY <2>4, <2>5, StartJobStep
<1>14. ASSUME NEW w \in Workers, CommitMark(w) PROVE IInv'
  <2> DEFINE j == job[w]
  <2>1. j.key \in Keys /\ j.as \in Selections
    BY <1>14, JobShapes DEF IInv, CommitMark
  <2>2. /\ marks' = [marks EXCEPT ![j.key] = Marked(marks[j.key], j)] /\ EndJob(w)
        /\ UNCHANGED <<now, settings, offers, requests, bookings, holds>>
    BY <1>14 DEF CommitMark
  <2> HIDE DEF j
  <2>3. job' \in [Workers -> Jobs] /\ \A v \in Workers : job'[v] = job[v] \/ job'[v] = Idle
    BY <2>2, IdleStep
  <2>4. DOMAIN marks' = Keys /\ \A k \in Keys : marks'[k] \in Seq(Selections)
    <3>1. marks[j.key] \in Seq(Selections)
      BY <2>1 DEF IInv, TypeOK
    <3>2. Marked(marks[j.key], j) \in Seq(Selections)
      <4>1. [n \in DOMAIN marks[j.key] |-> j.as] \in Seq(Selections)
        BY <2>1, <3>1
      <4>2. QED
        BY <2>1, <3>1, <4>1 DEF Marked
    <3>3. QED
      BY <2>2, <3>2 DEF IInv, TypeOK
  <2>5. TypeOK' /\ LinksOK' /\ HoldsOK'
    BY <2>2, <2>3, <2>4 DEF IInv, TypeOK, LinksOK, HoldsOK
  <2>6. JobsOK'
    BY <2>2, <2>3, JobsStay
  <2>7. QED
    BY <2>5, <2>6 DEF IInv
<1>15. ASSUME NEW w \in Workers, Rollback(w) PROVE IInv'
  <2>1. EndJob(w) /\ UNCHANGED <<now, settings, offers, requests, bookings, holds, marks>>
    BY <1>15 DEF Rollback
  <2>2. job' \in [Workers -> Jobs] /\ \A v \in Workers : job'[v] = job[v] \/ job'[v] = Idle
    BY <2>1, IdleStep
  <2>3. TypeOK' /\ LinksOK' /\ HoldsOK'
    BY <2>1, <2>2 DEF IInv, TypeOK, LinksOK, HoldsOK
  <2>4. JobsOK'
    BY <2>1, <2>2, JobsStay
  <2>5. QED
    BY <2>3, <2>4 DEF IInv
<1>16. CASE Tick
  BY <1>1, <1>2, <1>16 DEF IInv, TypeOK
<1>17. CASE UNCHANGED vars
  BY <1>1, <1>17 DEF vars, IInv, TypeOK
<1>18. QED
  BY <1>3, <1>4, <1>5, <1>6, <1>7, <1>8, <1>9, <1>10, <1>11, <1>12, <1>13, <1>14, <1>15, <1>16,
     <1>17
  DEF Next

THEOREM Invariant == Spec => []IInv
  BY InitIInv, InvStep, PTL DEF Spec

(* The type invariant, for any people, requests, activities and workers.   *)
THEOREM TypeCorrect == Spec => []TypeOK
<1>1. IInv => TypeOK
  BY DEF IInv
<1>2. QED
  BY <1>1, Invariant, PTL

(* However requests overlap, a request holds one slot at most, and what is *)
(* accepted for a time has its activity in the provider's agenda           *)
(* (projects_service_requests.py:485-540).                                 *)
THEOREM Booked == Spec => []AcceptedIsBooked
<1>1. IInv => AcceptedIsBooked
  <2> SUFFICES ASSUME IInv, NEW r \in DOMAIN requests
               PROVE  /\ holds[r] <= 1
                      /\ Personal /\ requests[r].status = "accepted" /\ requests[r].time # NoTime
                           => requests[r].linked # 0 /\ bookings[requests[r].linked].request = r
    BY DEF AcceptedIsBooked
  <2>1. r \in 1..MaxRequests
    BY InputsAssumption DEF IInv, TypeOK
  <2>2. QED
    BY <2>1 DEF IInv, HoldsOK, LinksOK
<1>2. QED
  BY <1>1, Invariant, PTL

-----------------------------------------------------------------------------
(* One request at a time: nothing moves between the look at the slots and  *)
(* the hold, or between the search for a mark and its row, but the clock.  *)
Apart(j) ==
  j.op = "update" /\ j.fits =>
    \A q \in DOMAIN requests :
      q # j.id /\ holds[q] > 0 => ~ Overlaps(requests[j.id].time, requests[q].time)
Unmarked(j) == j.op = "mark" /\ j.found = "none" => marks[j.key] = <<>>

OneInv ==
  /\ HoldsNeverOverlap
  /\ MarkedOnce
  /\ \A w \in Workers : Apart(job[w]) /\ Unmarked(job[w])

LEMMA OneInit == Init => OneInv
<1> SUFFICES ASSUME Init PROVE OneInv
  OBVIOUS
<1>1. DOMAIN requests = {} /\ (\A k \in Keys : Len(marks[k]) = 0)
  BY DEF Init
<1>2. \A w \in Workers : job[w].op = "idle"
  BY DEF Init, Idle
<1>3. QED
  BY <1>1, <1>2 DEF OneInv, HoldsNeverOverlap, MarkedOnce, Apart, Unmarked

(* A slot that is contained in an open one is clear of every held one.     *)
LEMMA FitIsClear ==
  ASSUME IInv, NEW id \in DOMAIN requests, FitsOpenSlot(requests[id].time),
         NEW q \in DOMAIN requests, holds[q] > 0
  PROVE  ~ Overlaps(requests[id].time, requests[q].time)
<1> DEFINE time == requests[id].time
           held == requests[q].time
<1>1. PICK o \in OpenSlots : Contained(time, o)
  BY DEF FitsOpenSlot
<1>2. o \in Intervals /\ ~ Overlaps(o, held)
  BY DEF OpenSlots, HeldTimes, IInv, TypeOK
<1>3. time \in Intervals
  <2>1. requests[id] \in RequestRow /\ time # NoTime
    BY DEF IInv, TypeOK, FitsOpenSlot
  <2>2. QED
    BY <2>1, RowFields
<1>4. held \in Intervals
  <2>1. q \in 1..MaxRequests /\ holds[q] # 0
    BY InputsAssumption DEF IInv, TypeOK
  <2>2. QED
    BY <2>1 DEF IInv, HoldsOK
<1> HIDE DEF time, held
<1>5. \A i \in Intervals : i[1] \in Nat /\ i[2] \in Nat
  BY TimesAssumption
<1>6. ~ Overlaps(time, held)
  BY <1>1, <1>2, <1>3, <1>4, <1>5 DEF Contained, Overlaps
<1>7. QED
  BY <1>6 DEF time, held

(* The steps that touch neither holds nor marks.                           *)
LEMMA OneStays ==
  ASSUME IInv, OneInv, holds' = holds, marks' = marks,
         DOMAIN requests \subseteq DOMAIN requests',
         \A r \in DOMAIN requests : requests'[r].time = requests[r].time,
         \A q \in DOMAIN requests' \ DOMAIN requests : q \in 1..MaxRequests,
         \A v \in Workers : job'[v] = job[v] \/ (Apart(job[v]) /\ Unmarked(job[v]))'
  PROVE  OneInv'
<1>1. \A q \in DOMAIN requests' : holds'[q] > 0 => q \in DOMAIN requests
  <2> SUFFICES ASSUME NEW q \in DOMAIN requests', holds'[q] > 0,
                      q \notin DOMAIN requests PROVE FALSE
    OBVIOUS
  <2>1. q \in 1..MaxRequests /\ holds[q] # 0
    OBVIOUS
  <2>2. QED
    BY <2>1 DEF IInv, HoldsOK
<1>2. HoldsNeverOverlap' /\ MarkedOnce'
  BY <1>1 DEF OneInv, HoldsNeverOverlap, MarkedOnce
<1>3. ASSUME NEW v \in Workers PROVE (Apart(job[v]) /\ Unmarked(job[v]))'
  <2>1. CASE job'[v] = job[v]
    <3>1. Apart(job[v]) /\ Unmarked(job[v])
      BY DEF OneInv
    <3>2. Unmarked(job[v])'
      BY <2>1, <3>1 DEF Unmarked
    <3>3. Apart(job[v])'
      <4>1. JobOK(job[v])
        BY DEF IInv, JobsOK
      <4>2. QED
        BY <1>1, <2>1, <3>1, <4>1 DEF Apart, JobOK
    <3>4. QED
      BY <3>2, <3>3
  <2>2. QED
    BY <2>1
<1>4. QED
  BY <1>2, <1>3 DEF OneInv

LEMMA IdleIsClear ==
  ASSUME NEW v, job'[v] = Idle PROVE (Apart(job[v]) /\ Unmarked(job[v]))'
BY DEF Apart, Unmarked, Idle

(* The only worker has looked at the slots, and holds the one it found.    *)
LEMMA OneCommit ==
  ASSUME OneAtATime, IInv, OneInv, NEW w \in Workers, CommitStatus(w)
  PROVE  OneInv'
<1> DEFINE id == job[w].id
           fits == job[w].fits
<1>1. /\ id \in DOMAIN requests
      /\ \E s, b : RowSet(requests', id, s, b)
      /\ holds' = IF fits /\ holds[id] = 0 THEN [holds EXCEPT ![id] = 1] ELSE holds
      /\ fits => \A q \in DOMAIN requests :
                  q # id /\ holds[q] > 0 => ~ Overlaps(requests[id].time, requests[q].time)
      /\ EndJob(w) /\ marks' = marks
  BY CommitStatusEffect DEF OneInv, Apart
<1> HIDE DEF id, fits
<1>2. DOMAIN requests' = DOMAIN requests /\ \A r \in DOMAIN requests : requests'[r].time = requests[r].time
  BY <1>1 DEF RowSet
<1>3. \A v \in Workers : (Apart(job[v]) /\ Unmarked(job[v]))'
  BY <1>1, IdleIsClear DEF EndJob, OneAtATime, IInv, TypeOK
<1>4. CASE holds' = holds
  BY <1>1, <1>2, <1>3, <1>4, OneStays
<1>5. CASE holds' # holds
  <2>1. fits /\ holds' = [holds EXCEPT ![id] = 1]
    BY <1>1, <1>5
  <2>2. \A q \in DOMAIN requests : q # id => holds'[q] = holds[q]
    BY <2>1 DEF IInv, TypeOK
  <2>3. \A i, j : Overlaps(i, j) <=> Overlaps(j, i)
    BY DEF Overlaps
  <2>4. HoldsNeverOverlap'
    <3> SUFFICES ASSUME NEW q \in DOMAIN requests, NEW r \in DOMAIN requests,
                        q # r, holds'[q] > 0, holds'[r] > 0
                 PROVE  ~ Overlaps(requests[q].time, requests[r].time)
      BY <1>2 DEF HoldsNeverOverlap
    <3>1. CASE q # id /\ r # id
      BY <2>2, <3>1 DEF OneInv, HoldsNeverOverlap
    <3>2. CASE q = id
      BY <1>1, <2>1, <2>2, <3>2
    <3>3. CASE r = id
      BY <1>1, <2>1, <2>2, <2>3, <3>3
    <3>4. QED
      BY <3>1, <3>2, <3>3
  <2>5. QED
    BY <1>1, <1>3, <2>4 DEF OneInv, MarkedOnce
<1>6. QED
  BY <1>4, <1>5

LEMMA OneCommitMark ==
  ASSUME OneAtATime, IInv, OneInv, NEW w \in Workers, CommitMark(w)
  PROVE  OneInv'
<1> DEFINE j == job[w]
           key == j.key
           rows == marks[key]
<1>1. key \in Keys /\ j.as \in Selections /\ (j.found = "none" => rows = <<>>)
  BY JobShapes DEF IInv, OneInv, Unmarked, CommitMark
<1>2. /\ marks' = [marks EXCEPT ![key] = Marked(rows, j)] /\ EndJob(w)
      /\ UNCHANGED <<requests, holds>>
  BY DEF CommitMark
<1>3. rows \in Seq(Selections) /\ Len(rows) <= 1
  BY <1>1 DEF IInv, TypeOK, OneInv, MarkedOnce
<1> HIDE DEF j, key, rows
<1>4. Len(Marked(rows, j)) <= 1
  <2>1. CASE j.found = j.as
    BY <1>3, <2>1 DEF Marked
  <2>2. CASE j.found # j.as /\ j.found = "none"
    <3>1. Marked(rows, j) = Append(<<>>, j.as)
      BY <1>1, <2>2 DEF Marked
    <3>2. QED
      BY <3>1
  <2>3. CASE j.found # j.as /\ j.found # "none"
    <3>1. Marked(rows, j) = [n \in 1..Len(rows) |-> j.as] /\ Len(rows) \in Nat
      BY <1>3, <2>3 DEF Marked
    <3>2. Len(Marked(rows, j)) = Len(rows)
      BY <3>1
    <3>3. QED
      BY <1>3, <3>2
  <2>4. QED
    BY <2>1, <2>2, <2>3
<1>5. MarkedOnce'
  BY <1>1, <1>2, <1>4 DEF OneInv, MarkedOnce, IInv, TypeOK
<1>6. \A v \in Workers : (Apart(job[v]) /\ Unmarked(job[v]))'
  BY <1>2, IdleIsClear DEF EndJob, OneAtATime, IInv, TypeOK
<1>7. QED
  BY <1>2, <1>5, <1>6 DEF OneInv, HoldsNeverOverlap

LEMMA OneStep ==
  ASSUME OneAtATime, IInv, OneInv, [Next]_vars
  PROVE  OneInv'
<1>1. ASSUME UNCHANGED <<requests, holds, marks, job>> PROVE OneInv'
  BY <1>1 DEF OneInv, HoldsNeverOverlap, MarkedOnce, Apart, Unmarked
<1>2. CASE Tick
  BY <1>1, <1>2 DEF Tick
<1>3. ASSUME NEW i \in Intervals, OfferSlot(i) \/ WithdrawSlot(i) PROVE OneInv'
  BY <1>1, <1>3 DEF OfferSlot, WithdrawSlot
<1>4. ASSUME NEW s \in SettingsChosen, ChangeSettings(s) PROVE OneInv'
  BY <1>1, <1>4 DEF ChangeSettings
<1>5. ASSUME NEW u \in Users, NEW b \in DOMAIN bookings, ChangeStaff(u, b) PROVE OneInv'
  BY <1>1, <1>5 DEF ChangeStaff
<1>6. ASSUME NEW w \in Workers, NEW u \in Users, NEW time \in Intervals \cup {NoTime},
             CreateRequest(w, u, time)
      PROVE  OneInv'
  <2> DEFINE n == Len(requests) + 1
  <2>1. /\ requests' \in Seq(RequestRow) /\ Len(requests') <= MaxRequests
        /\ DOMAIN requests' = DOMAIN requests \cup {n}
        /\ \A r \in DOMAIN requests : requests'[r] = requests[r]
        /\ \A v \in Workers : v # w => job'[v] = job[v]
        /\ job'[w] = Idle \/ job'[w] = [op |-> "chat", id |-> n]
        /\ UNCHANGED <<holds, marks>>
    BY <1>6, CreateEffect
  <2> HIDE DEF n
  <2>2. \A q \in DOMAIN requests' : q \in 1..MaxRequests
    BY <2>1, InputsAssumption
  <2>3. (Apart(job[w]) /\ Unmarked(job[w]))'
    <3>1. job'[w].op # "update" /\ job'[w].op # "mark"
      BY <2>1 DEF Idle
    <3>2. QED
      BY <3>1 DEF Apart, Unmarked
  <2>4. \A v \in Workers : job'[v] = job[v] \/ (Apart(job[v]) /\ Unmarked(job[v]))'
    BY <2>1, <2>3
  <2>5. QED
    BY <2>1, <2>2, <2>4, OneStays
<1>7. ASSUME NEW w \in Workers, EndJob(w), UNCHANGED <<holds, marks>>,
             DOMAIN requests' = DOMAIN requests,
             \A r \in DOMAIN requests : requests'[r].time = requests[r].time
      PROVE  OneInv'
  <2>1. \A v \in Workers : job'[v] = job[v] \/ (Apart(job[v]) /\ Unmarked(job[v]))'
    BY <1>7, IdleStep, IdleIsClear
  <2>2. QED
    BY <1>7, <2>1, OneStays
<1>8. ASSUME NEW w \in Workers, OpenConversation(w) PROVE OneInv'
  <2> DEFINE id == job[w].id
  <2>1. /\ id \in DOMAIN requests /\ requests' = [requests EXCEPT ![id].chat = TRUE] /\ EndJob(w)
        /\ UNCHANGED <<holds, marks>>
    BY <1>8 DEF OpenConversation, IInv, JobsOK, JobOK
  <2>2. RowSet(requests', id, requests[id].status, requests[id].linked)
    BY <2>1, SettingChat DEF IInv
  <2>3. QED
    BY <1>7, <2>1, <2>2 DEF RowSet
<1>9. ASSUME NEW w \in Workers, NEW need \in {0, 1}, CommitPlan(w, need) PROVE OneInv'
  BY <1>7, <1>9, CommitPlanEffect DEF RowSet
<1>10. ASSUME NEW w \in Workers, Rollback(w) PROVE OneInv'
  BY <1>7, <1>10 DEF Rollback
<1>11. ASSUME NEW w \in Workers, NEW j, job' = [job EXCEPT ![w] = j],
              UNCHANGED <<requests, holds, marks>>, (Apart(j) /\ Unmarked(j))
       PROVE  OneInv'
  <2>1. \A v \in Workers : job'[v] = job[v] \/ job'[v] = j
    BY <1>11 DEF IInv, TypeOK
  <2>2. \A v \in Workers : Apart(job'[v]) /\ Unmarked(job'[v])
    BY <1>11, <2>1 DEF OneInv
  <2>3. QED
    BY <1>11, <2>2 DEF OneInv, HoldsNeverOverlap, MarkedOnce, Apart, Unmarked
<1>12. ASSUME NEW w \in Workers, NEW u \in Users, NEW id \in DOMAIN requests,
              NEW to \in StatusesChosen,
              StartStatus(w, u, id, to)
       PROVE  OneInv'
  <2> DEFINE j == [op |-> "status", id |-> id, to |-> to, linked |-> requests[id].linked]
  <2>1. Apart(j) /\ Unmarked(j)
    BY DEF Apart, Unmarked
  <2>2. job' = [job EXCEPT ![w] = j] /\ UNCHANGED <<requests, holds, marks>>
    BY <1>12 DEF StartStatus, StartJob
  <2> HIDE DEF j
  <2>3. QED
    BY <1>11, <2>1, <2>2
<1>13. ASSUME NEW w \in Workers, NEW u \in Users, NEW id \in DOMAIN requests,
              StartPlan(w, u, id) PROVE OneInv'
  <2> DEFINE j == [op |-> "plan", id |-> id]
  <2>1. Apart(j) /\ Unmarked(j)
    BY DEF Apart, Unmarked
  <2>2. job' = [job EXCEPT ![w] = j] /\ UNCHANGED <<requests, holds, marks>>
    BY <1>13 DEF StartPlan, StartJob
  <2> HIDE DEF j
  <2>3. QED
    BY <1>11, <2>1, <2>2
<1>14. ASSUME NEW w \in Workers, UpdateStatus(w) PROVE OneInv'
  <2> DEFINE i == job[w]
             fits == i.to = "accepted" /\ FitsOpenSlot(requests[i.id].time)
             j == [op |-> "update", id |-> i.id, to |-> i.to, linked |-> i.linked, fits |-> fits]
  <2>1. job' = [job EXCEPT ![w] = j] /\ UNCHANGED <<requests, holds, marks>>
    BY <1>14 DEF UpdateStatus
  <2>2. i.id \in DOMAIN requests
    BY <1>14 DEF IInv, JobsOK, JobOK, UpdateStatus
  <2>3. fits => \A q \in DOMAIN requests :
                  holds[q] > 0 => ~ Overlaps(requests[i.id].time, requests[q].time)
    BY <2>2, FitIsClear
  <2> HIDE DEF i, fits
  <2>4. j.op = "update" /\ j.id = i.id /\ j.fits = fits
    OBVIOUS
  <2> HIDE DEF j
  <2>5. Apart(j) /\ Unmarked(j)
    BY <2>3, <2>4 DEF Apart, Unmarked
  <2>6. QED
    BY <1>11, <2>1, <2>5
<1>15. ASSUME NEW w \in Workers, NEW u \in Users, NEW b \in DOMAIN bookings,
              NEW role \in {"requester", "participants"}, NEW selection \in Selections,
              StartMark(w, u, b, role, selection)
       PROVE  OneInv'
  <2> DEFINE key == <<b, u, role>>
  <2>1. PICK found \in Found(marks[key]) :
          job' = [job EXCEPT ![w] = [op |-> "mark", key |-> key, found |-> found, as |-> selection]]
    BY <1>15 DEF StartMark, StartJob
  <2> DEFINE j == [op |-> "mark", key |-> key, found |-> found, as |-> selection]
  <2>2. key \in Keys
    BY InputsAssumption DEF Keys, IInv, TypeOK
  <2>3. job' = [job EXCEPT ![w] = j] /\ UNCHANGED <<requests, holds, marks>>
    BY <1>15, <2>1 DEF StartMark
  <2>4. j.op = "mark" /\ j.key = key /\ j.found = found
    OBVIOUS
  <2> HIDE DEF j, key
  <2>5. found = "none" => marks[key] = <<>>
    <3>1. marks[key] \in Seq(Selections) /\ "none" \notin Selections
      BY <2>2, InputsAssumption DEF IInv, TypeOK
    <3>2. QED
      BY <2>1, <3>1 DEF Found
  <2>6. Apart(j) /\ Unmarked(j)
    BY <2>4, <2>5 DEF Apart, Unmarked
  <2>7. QED
    BY <1>11, <2>3, <2>6
<1>16. CASE UNCHANGED vars
  BY <1>1, <1>16 DEF vars
<1>17. QED
  BY <1>2, <1>3, <1>4, <1>5, <1>6, <1>8, <1>9, <1>10, <1>12, <1>13, <1>14, <1>15, <1>16,
     OneCommit, OneCommitMark DEF Next

(* One acceptance at a time, no two requests hold overlapping times,       *)
(* whatever rules come and go and whatever is planned, declined or         *)
(* accepted again (availability.py:326-341).                               *)
THEOREM NoOverlap ==
  ASSUME OneAtATime
  PROVE  Spec => []HoldsNeverOverlap
<1>1. Init => OneInv
  BY OneInit
<1>2. IInv /\ OneInv /\ [Next]_vars => OneInv'
  BY OneStep
<1>3. OneInv => HoldsNeverOverlap
  BY DEF OneInv
<1>4. QED
  BY <1>1, <1>2, <1>3, Invariant, PTL DEF Spec

(* One word at a time, nobody has two rows about one activity in one role, *)
(* although the table's unique key does not refuse them                    *)
(* (projects_service_requests.py:840-895).                                 *)
THEOREM OneRowEach ==
  ASSUME OneAtATime
  PROVE  Spec => []MarkedOnce
<1>1. Init => OneInv
  BY OneInit
<1>2. IInv /\ OneInv /\ [Next]_vars => OneInv'
  BY OneStep
<1>3. OneInv => MarkedOnce
  BY DEF OneInv
<1>4. QED
  BY <1>1, <1>2, <1>3, Invariant, PTL DEF Spec

-----------------------------------------------------------------------------
(* The members of a project or an event, its signals and their counts: the *)
(* records of Membership, next to the requests made to a service.          *)
CONSTANTS Kind, MemberLevel, Residents, MaxSignals
VARIABLES row, open, members, memberCount, editors, signals, made, signalCount, cached, memberJob

Community == INSTANCE Membership WITH Level <- MemberLevel, job <- memberJob

LEMMA CommunityCount == \A S : Community!Cardinality(S) = Cardinality(S)
  BY DEF Community!Cardinality, Cardinality

(* Finitely many people, one of whom made the record.                      *)
CommunityPeople == IsFiniteSet(Users) /\ Author \in Users /\ MaxSignals \in Nat

(* What the jobs and the signals look like.                                *)
Shapes == memberJob \in [Workers -> Community!Jobs]
Signalled == signals \in [Users -> Community!Signal] /\ made \in 0..MaxSignals

LEMMA JobFields ==
  ASSUME Shapes, NEW w \in Workers
  PROVE  /\ memberJob[w].op \in {"idle", "leave", "grant", "promote", "signal", "count", "cache"}
         /\ memberJob[w].op = "idle" <=> memberJob[w] = Community!Idle
         /\ memberJob[w].op \in {"leave", "grant", "promote", "signal"} => memberJob[w].user \in Users
         /\ memberJob[w].op \in {"grant", "promote"} => memberJob[w].member \in BOOLEAN
         /\ memberJob[w].op = "signal" => memberJob[w].type \in Community!Types /\ memberJob[w].existing \in Community!Signal
         /\ memberJob[w].op = "cache" => memberJob[w].counts \in Community!Counts
  BY DEF Shapes, Community!Jobs, Community!Idle

(* The members after one of them is added or removed.                      *)
LEMMA OneMore ==
  ASSUME NEW S, NEW T, IsFiniteSet(T), S \subseteq T, NEW u \in T
  PROVE  /\ Cardinality(S) \in Nat
         /\ u \notin S => Cardinality(S \cup {u}) = Cardinality(S) + 1
         /\ u \in S => /\ Cardinality(S \ {u}) = Cardinality(S) - 1
                       /\ Cardinality(S) >= 1
<1>1. IsFiniteSet(S)
  BY FS_Subset
<1>2. Cardinality(S) \in Nat
  BY <1>1, FS_CardinalityType
<1>3. ASSUME u \in S
      PROVE  Cardinality(S \ {u}) = Cardinality(S) - 1 /\ Cardinality(S) >= 1
  <2>1. Cardinality(S \ {u}) = Cardinality(S) - 1
    BY <1>1, <1>3, FS_RemoveElement
  <2>2. S # {}
    BY <1>3
  <2>3. Cardinality(S) # 0
    BY <1>1, <2>2, FS_EmptySet
  <2>4. Cardinality(S) >= 1
    BY <1>2, <2>3
  <2>5. QED
    BY <2>1, <2>4
<1>4. ASSUME u \notin S
      PROVE  Cardinality(S \cup {u}) = Cardinality(S) + 1
  BY <1>1, <1>4, FS_AddElement
<1>5. QED
  BY <1>2, <1>3, <1>4

-----------------------------------------------------------------------------
(* What a step leaves alone.                                               *)
Counted == members \subseteq Users /\ Community!MembersAreCounted

LEMMA AddedIsCounted ==
  ASSUME CommunityPeople, Counted, NEW u \in Users, Community!AddMember(u)
  PROVE  Counted'
<1>1. Cardinality(members) \in Nat /\ Cardinality(members \cup {u}) = Cardinality(members) + 1
  BY OneMore DEF Community!AddMember, CommunityPeople, Counted
<1>2. QED
  BY <1>1, CommunityCount DEF Community!AddMember, Counted, Community!MembersAreCounted

LEMMA RemovedIsCounted ==
  ASSUME CommunityPeople, Counted, NEW u \in Users,
         u \in members, members' = members \ {u}, memberCount' = Community!LessOne(memberCount)
  PROVE  Counted'
<1>1. /\ Cardinality(members) \in Nat /\ Cardinality(members) >= 1
      /\ Cardinality(members \ {u}) = Cardinality(members) - 1
  BY OneMore DEF CommunityPeople, Counted
<1>2. Community!LessOne(memberCount) = memberCount - 1
  BY <1>1, CommunityCount DEF Counted, Community!MembersAreCounted, Community!LessOne,
     Community!AtLeastZero
<1>3. QED
  BY <1>1, <1>2, CommunityCount DEF Counted, Community!MembersAreCounted

LEMMA CreatedIsCounted ==
  ASSUME CommunityPeople, NEW chosen \in SUBSET Users,
         members' = {Author} \cup chosen, memberCount' = 1 + Cardinality(chosen \ {Author})
  PROVE  Counted'
<1> DEFINE S == chosen \ {Author}
<1>1. /\ Cardinality(S) \in Nat
      /\ Cardinality(S \cup {Author}) = Cardinality(S) + 1
  <2>1. S \subseteq Users /\ Author \in Users /\ IsFiniteSet(Users) /\ Author \notin S
    BY DEF CommunityPeople
  <2>2. QED
    BY <2>1, OneMore
<1>2. members' = S \cup {Author}
  OBVIOUS
<1>3. members' \subseteq Users
  BY DEF CommunityPeople
<1>4. Cardinality(members') = Cardinality(S) + 1
  BY <1>1, <1>2
<1>5. memberCount' = 1 + Cardinality(S)
  OBVIOUS
<1> HIDE DEF S
<1>6. memberCount' = Cardinality(members')
  BY <1>1, <1>4, <1>5
<1>7. QED
  BY <1>3, <1>6, CommunityCount DEF Counted, Community!MembersAreCounted

(* A member who leaves an event, one request at a time, is still there     *)
(* when the leaving is written.                                            *)
Reads ==
  \A w \in Workers :
    /\ memberJob[w].op = "leave" => Kind = "event" /\ memberJob[w].user \in members
    /\ memberJob[w].op = "signal" => memberJob[w].existing = signals[memberJob[w].user]

(* A project needs nothing of its jobs: it is left in one step.            *)
ProjectLeaves == Kind = "project" => \A w \in Workers : memberJob[w].op # "leave"

Quiet == UNCHANGED <<members, memberCount>>

LEMMA QuietCounted == Counted /\ Quiet => Counted'
  BY DEF Counted, Quiet, Community!MembersAreCounted

(* Every step but the leaving of an event keeps the count.                 *)
LEMMA Counting ==
  ASSUME CommunityPeople, Shapes, Counted, [Community!Next]_(Community!vars)
  PROVE  \/ Counted'
         \/ \E w \in Workers : Community!LeaveEvent(w)
<1>1. CASE UNCHANGED Community!vars
  BY <1>1, QuietCounted DEF Community!vars, Quiet
<1>2. CASE Community!CreateProject
  <2>1. members' = {Author} \cup {} /\ {} \ {Author} = {} /\ memberCount' = 1 + 0
    BY <1>2 DEF Community!CreateProject
  <2>2. Cardinality({}) = 0
    BY FS_EmptySet
  <2>3. memberCount' = 1 + Cardinality({} \ {Author})
    BY <2>1, <2>2
  <2>4. QED
    BY <2>1, <2>3, CreatedIsCounted
<1>3. ASSUME NEW audience \in Community!Audiences, NEW controlled \in BOOLEAN,
             NEW chosen \in SUBSET Users,
             Community!CreateEvent(audience, controlled, chosen)
      PROVE  Counted'
  BY <1>3, CreatedIsCounted, CommunityCount DEF Community!CreateEvent
<1>4. ASSUME NEW u \in Users, Community!JoinProject(u) \/ Community!JoinEvent(u)
      PROVE  Counted'
  BY <1>4, AddedIsCounted DEF Community!JoinProject, Community!JoinEvent
<1>5. ASSUME NEW u \in Users, Community!LeaveProject(u)
      PROVE  Counted'
  <2>1. CASE u \in members
    BY <1>5, <2>1, RemovedIsCounted DEF Community!LeaveProject, Community!UncountIfDeleted
  <2>2. CASE u \notin members
    <3>1. members \ {u} = members
      BY <2>2
    <3>2. QED
      BY <1>5, <2>2, <3>1, QuietCounted DEF Community!LeaveProject, Community!UncountIfDeleted,
         Quiet
  <2>3. QED
    BY <2>1, <2>2
<1>6. ASSUME NEW w \in Workers, Community!AdmitEditor(w)
      PROVE  Counted'
  <2>1. memberJob[w].user \in Users
    BY <1>6, JobFields DEF Community!AdmitEditor
  <2>2. QED
    BY <1>6, <2>1, AddedIsCounted, QuietCounted DEF Community!AdmitEditor, Quiet
<1>7. ASSUME Community!Close \/ Community!Expire
             \/ (\E u, target \in Users : Community!RevokeEventEditor(u, target))
             \/ (\E w \in Workers :
                   \/ \E u \in Users :
                        \/ Community!StartLeaveEvent(w, u)
                        \/ \E target \in Users : Community!StartGrant(w, u, target)
                        \/ \E type \in Community!Types :
                             Community!StartProjectSignal(w, u, type) \/ Community!StartEventSignal(w, u, type)
                   \/ Community!GrantEventEditor(w) \/ Community!ToggleSignal(w) \/ Community!MissSignalCounts(w)
                   \/ Community!CountSignals(w) \/ Community!WriteSignalCounts(w) \/ Community!Fail(w))
      PROVE  Counted'
  <2>1. Quiet
    BY <1>7 DEF Quiet, Community!Close, Community!Expire, Community!RevokeEventEditor,
       Community!StartLeaveEvent, Community!StartGrant,
                Community!StartProjectSignal, Community!StartEventSignal, Community!StartSignal, Community!GrantEventEditor,
                Community!ToggleSignal, Community!MissSignalCounts, Community!CountSignals, Community!WriteSignalCounts, Community!Fail
  <2>2. QED
    BY <2>1, QuietCounted
<1>8. QED
  BY <1>1, <1>2, <1>3, <1>4, <1>5, <1>6, <1>7 DEF Community!Next

(* The jobs and the signals keep their shapes, whatever overlaps.          *)
Fine == Shapes /\ Signalled

LEMMA CountsInRange ==
  ASSUME CommunityPeople
  PROVE  Community!SignalCounts \in Community!Counts
<1>1. ASSUME NEW type \in Community!Types PROVE Community!CountsOf(type) \in 0..Cardinality(Users)
  <2> DEFINE S == {u \in Users : signals[u].type = type}
  <2>1. IsFiniteSet(Users)
    BY DEF CommunityPeople
  <2>2. S \subseteq Users
    OBVIOUS
  <2>3. IsFiniteSet(S) /\ Cardinality(S) <= Cardinality(Users)
    BY <2>1, <2>2, FS_Subset
  <2>4. Cardinality(S) \in Nat /\ Cardinality(Users) \in Nat
    BY <2>1, <2>3, FS_CardinalityType
  <2>5. Community!CountsOf(type) = Cardinality(S)
    BY CommunityCount DEF Community!CountsOf
  <2> HIDE DEF S
  <2>6. QED
    BY <2>3, <2>4, <2>5
<1>2. "demand" \in Community!Types /\ "opposition" \in Community!Types
  BY DEF Community!Types
<1>3. Community!CountsOf("demand") \in 0..Cardinality(Users) /\ Community!CountsOf("opposition") \in 0..Cardinality(Users)
  BY <1>1, <1>2
<1>4. QED
  BY <1>3, CommunityCount DEF Community!SignalCounts, Community!Counts

LEMMA StartsFine ==
  ASSUME Shapes, NEW w \in Workers, NEW j \in Community!Jobs, Community!StartJob(w, j)
  PROVE  Shapes'
  BY DEF Shapes, Community!StartJob

LEMMA EndsFine ==
  ASSUME Shapes, NEW w \in Workers, Community!EndJob(w)
  PROVE  Shapes'
<1>1. Community!Idle \in Community!Jobs
  BY DEF Community!Jobs
<1>2. QED
  BY <1>1 DEF Shapes, Community!EndJob

LEMMA ToggledFine ==
  ASSUME CommunityPeople, Fine, NEW w \in Workers, Community!ToggleSignal(w)
  PROVE  Fine'
<1>1. /\ memberJob[w].user \in Users /\ memberJob[w].type \in Community!Types
  BY JobFields DEF Fine, Community!ToggleSignal
<1>2. [op |-> "count"] \in Community!Jobs
  BY DEF Community!Jobs
<1>3. Shapes'
  BY <1>2 DEF Fine, Shapes, Community!ToggleSignal
<1> DEFINE u == memberJob[w].user
           t == memberJob[w].type
           e == memberJob[w].existing
<1>4. ASSUME Community!GiveSignal(u, t) PROVE Signalled'
  BY <1>1, <1>4 DEF Community!GiveSignal, Fine, Signalled, Community!Signal, CommunityPeople
<1>5. ASSUME Community!RemoveSignal(u, e) PROVE Signalled'
  BY <1>1, <1>5 DEF Community!RemoveSignal, Fine, Signalled, Community!Signal
<1>6. ASSUME Community!SwitchSignal(u, e, t) PROVE Signalled'
  BY <1>1, <1>6 DEF Community!SwitchSignal, Fine, Signalled, Community!Signal
<1>7. Community!GiveSignal(u, t) \/ Community!RemoveSignal(u, e) \/ Community!SwitchSignal(u, e, t)
  BY DEF Community!ToggleSignal
<1>8. QED
  BY <1>3, <1>4, <1>5, <1>6, <1>7 DEF Fine

LEMMA KeepsFine ==
  ASSUME CommunityPeople, Fine, [Community!Next]_(Community!vars)
  PROVE  Fine'
<1> DEFINE Still == UNCHANGED <<signals, made>>
<1>1. Still => Signalled'
  BY DEF Fine, Signalled
<1>2. ASSUME UNCHANGED memberJob, Still PROVE Fine'
  BY <1>1, <1>2 DEF Fine, Shapes
<1>3. ASSUME NEW u \in Users, NEW w \in Workers, Community!StartLeaveEvent(w, u) PROVE Fine'
  <2>1. [op |-> "leave", user |-> u] \in Community!Jobs
    BY DEF Community!Jobs
  <2>2. QED
    BY <1>1, <1>3, <2>1, StartsFine DEF Fine, Community!StartLeaveEvent
<1>4. ASSUME NEW u \in Users, NEW w \in Workers, NEW target \in Users,
             Community!StartGrant(w, u, target)
      PROVE  Fine'
  <2>1. [op |-> "grant", user |-> target, member |-> target \in members] \in Community!Jobs
    BY DEF Community!Jobs
  <2>2. QED
    BY <1>1, <1>4, <2>1, StartsFine DEF Fine, Community!StartGrant
<1>5. ASSUME NEW u \in Users, NEW w \in Workers, NEW type \in Community!Types,
             Community!StartSignal(w, u, type)
      PROVE  Fine'
  <2>1. signals[u] \in Community!Signal
    BY DEF Fine, Signalled
  <2>2. [op |-> "signal", user |-> u, type |-> type, existing |-> signals[u]] \in Community!Jobs
    BY <2>1 DEF Community!Jobs
  <2>3. QED
    BY <1>1, <1>5, <2>2, StartsFine DEF Fine, Community!StartSignal
<1>6. ASSUME NEW w \in Workers, Community!MissSignalCounts(w) PROVE Fine'
  <2>1. [op |-> "count"] \in Community!Jobs
    BY DEF Community!Jobs
  <2>2. QED
    BY <1>1, <1>6, <2>1, StartsFine DEF Fine, Community!MissSignalCounts
<1>7. ASSUME NEW w \in Workers, Community!CountSignals(w) PROVE Fine'
  <2>1. [op |-> "cache", counts |-> Community!SignalCounts] \in Community!Jobs
    BY CountsInRange DEF Community!Jobs
  <2>2. QED
    BY <1>1, <1>7, <2>1 DEF Fine, Shapes, Community!CountSignals
<1>8. ASSUME NEW w \in Workers, Community!AdmitEditor(w) PROVE Fine'
  <2>1. memberJob[w] \in Community!Jobs /\ memberJob[w].op = "grant"
    BY <1>8 DEF Fine, Shapes, Community!AdmitEditor
  <2>2. [memberJob[w] EXCEPT !.op = "promote"] \in Community!Jobs
    BY <2>1 DEF Community!Jobs, Community!Idle
  <2>3. memberJob' = [memberJob EXCEPT ![w] = [memberJob[w] EXCEPT !.op = "promote"]]
    BY <1>8 DEF Community!AdmitEditor
  <2>4. Shapes'
    BY <2>2, <2>3 DEF Fine, Shapes
  <2>5. QED
    BY <1>1, <1>8, <2>4 DEF Fine, Community!AdmitEditor
<1>9. ASSUME NEW w \in Workers,
             Community!LeaveEvent(w) \/ Community!GrantEventEditor(w) \/ Community!WriteSignalCounts(w) \/ Community!Fail(w)
      PROVE  Fine'
  BY <1>1, <1>9, EndsFine DEF Fine, Community!LeaveEvent, Community!GrantEventEditor,
     Community!WriteSignalCounts, Community!Fail
<1>10. ASSUME NEW w \in Workers, NEW u \in Users,
              \/ Community!StartLeaveEvent(w, u)
              \/ \E target \in Users : Community!StartGrant(w, u, target)
              \/ \E type \in Community!Types : Community!StartProjectSignal(w, u, type) \/ Community!StartEventSignal(w, u, type)
       PROVE  Fine'
  BY <1>3, <1>4, <1>5, <1>10 DEF Community!StartProjectSignal, Community!StartEventSignal
<1>11. CASE UNCHANGED Community!vars
  BY <1>2, <1>11 DEF Community!vars
<1>12. ASSUME \/ Community!CreateProject
              \/ \E audience \in Community!Audiences, controlled \in BOOLEAN, chosen \in SUBSET Users :
                   Community!CreateEvent(audience, controlled, chosen)
              \/ Community!Close \/ Community!Expire
              \/ \E u \in Users :
                   \/ Community!JoinProject(u) \/ Community!JoinEvent(u) \/ Community!LeaveProject(u)
                   \/ \E target \in Users : Community!RevokeEventEditor(u, target)
       PROVE  Fine'
  BY <1>2, <1>12 DEF Community!CreateProject, Community!CreateEvent, Community!Close,
     Community!Expire, Community!JoinProject, Community!JoinEvent,
                     Community!LeaveProject, Community!RevokeEventEditor
<1>13. QED
  BY <1>6, <1>7, <1>8, <1>9, <1>10, <1>11, <1>12, ToggledFine DEF Community!Next

LEMMA OneMemberJob ==
  ASSUME OneAtATime, NEW w \in Workers, Shapes, NEW j, memberJob' = [memberJob EXCEPT ![w] = j]
  PROVE  \A v \in Workers : memberJob'[v] = j
  BY DEF OneAtATime, Shapes

(* Nobody is a member of what is not there yet.                            *)
Unborn == row = Community!NoRow => members = {}

LEMMA KeepsUnborn ==
  ASSUME Unborn, [Community!Next]_(Community!vars)
  PROVE  Unborn'
<1>1. Community!NoRow \notin [audience : Community!Audiences, controlled : BOOLEAN]
  BY DEF Community!NoRow, Community!Audiences
<1>2. CASE Community!CreateProject
  BY <1>2 DEF Community!CreateProject, Unborn, Community!NoRow
<1>3. ASSUME NEW audience \in Community!Audiences, NEW controlled \in BOOLEAN,
             NEW chosen \in SUBSET Users,
             Community!CreateEvent(audience, controlled, chosen)
      PROVE  Unborn'
  BY <1>1, <1>3 DEF Community!CreateEvent, Unborn
<1>4. ASSUME NEW u \in Users, Community!JoinProject(u) \/ Community!JoinEvent(u)
      PROVE  Unborn'
  BY <1>4 DEF Community!JoinProject, Community!JoinEvent, Community!AddMember, Unborn
<1>5. ASSUME UNCHANGED row, members' \subseteq members
      PROVE  Unborn'
  BY <1>5 DEF Unborn
<1>6. ASSUME NEW w \in Workers, Community!AdmitEditor(w)
      PROVE  Unborn'
  BY <1>5, <1>6 DEF Community!AdmitEditor, Community!AddMember, Unborn
<1>7. ASSUME NEW w \in Workers, NEW u \in Users,
             \/ Community!StartLeaveEvent(w, u)
             \/ \E target \in Users : Community!StartGrant(w, u, target)
             \/ \E type \in Community!Types : Community!StartProjectSignal(w, u, type) \/ Community!StartEventSignal(w, u, type)
      PROVE  Unborn'
  BY <1>5, <1>7 DEF Community!StartLeaveEvent, Community!StartGrant,
     Community!StartProjectSignal, Community!StartEventSignal, Community!StartSignal
<1>8. ASSUME NEW w \in Workers,
             \/ Community!LeaveEvent(w) \/ Community!GrantEventEditor(w) \/ Community!ToggleSignal(w) \/ Community!MissSignalCounts(w)
             \/ Community!CountSignals(w) \/ Community!WriteSignalCounts(w) \/ Community!Fail(w)
      PROVE  Unborn'
  BY <1>5, <1>8 DEF Community!LeaveEvent, Community!GrantEventEditor, Community!ToggleSignal,
     Community!MissSignalCounts, Community!CountSignals,
                    Community!WriteSignalCounts, Community!Fail
<1>9. ASSUME \/ Community!Close \/ Community!Expire \/ UNCHANGED Community!vars
             \/ \E u \in Users : Community!LeaveProject(u) \/ \E target \in Users : Community!RevokeEventEditor(u, target)
      PROVE  Unborn'
  BY <1>5, <1>9 DEF Community!Close, Community!Expire, Community!vars, Community!LeaveProject,
     Community!RevokeEventEditor
<1>10. QED
  BY <1>2, <1>3, <1>4, <1>6, <1>7, <1>8, <1>9 DEF Community!Next

LEMMA KeepsReads ==
  ASSUME OneAtATime, Fine, Unborn, Reads, [Community!Next]_(Community!vars)
  PROVE  Reads'
<1>1. ASSUME NEW w \in Workers, NEW j, memberJob' = [memberJob EXCEPT ![w] = j],
             j.op \notin {"leave", "signal"}
      PROVE  Reads'
  <2>1. \A v \in Workers : memberJob'[v] = j
    BY <1>1, OneMemberJob DEF Fine
  <2>2. \A v \in Workers : memberJob'[v].op \notin {"leave", "signal"}
    BY <1>1, <2>1
  <2>3. QED
    BY <2>2 DEF Reads
<1>2. ASSUME NEW w \in Workers, NEW j, Community!StartJob(w, j), UNCHANGED <<members, signals>>,
             j.op = "leave" => Kind = "event" /\ j.user \in members,
             j.op = "signal" => j.existing = signals[j.user]
      PROVE  Reads'
  BY <1>2, OneMemberJob DEF Fine, Reads, Community!StartJob
<1>3. ASSUME NEW w \in Workers, memberJob[w] = Community!Idle, UNCHANGED memberJob
      PROVE  Reads'
  <2>1. \A v \in Workers : memberJob'[v].op = "idle"
    BY <1>3 DEF OneAtATime, Community!Idle
  <2>2. QED
    BY <2>1 DEF Reads
<1>4. ASSUME UNCHANGED <<memberJob, members, signals>> PROVE Reads'
  BY <1>4 DEF Reads
<1>5. ASSUME NEW w \in Workers, NEW u \in Users, Community!StartLeaveEvent(w, u) PROVE Reads'
  BY <1>2, <1>5 DEF Community!StartLeaveEvent
<1>6. ASSUME NEW w \in Workers, NEW u \in Users, NEW target \in Users,
             Community!StartGrant(w, u, target)
      PROVE  Reads'
  BY <1>2, <1>6 DEF Community!StartGrant
<1>7. ASSUME NEW w \in Workers, NEW u \in Users, NEW type \in Community!Types,
             Community!StartSignal(w, u, type)
      PROVE  Reads'
  BY <1>2, <1>7 DEF Community!StartSignal
<1>8. ASSUME NEW w \in Workers, Community!AdmitEditor(w) PROVE Reads'
  <2>1. memberJob' = [memberJob EXCEPT ![w] = [memberJob[w] EXCEPT !.op = "promote"]]
    BY <1>8 DEF Community!AdmitEditor
  <2>2. memberJob[w] \in Community!Jobs /\ memberJob[w].op = "grant"
    BY <1>8 DEF Community!AdmitEditor, Fine, Shapes
  <2>3. [memberJob[w] EXCEPT !.op = "promote"].op = "promote"
    BY <2>2 DEF Community!Jobs, Community!Idle
  <2>4. QED
    BY <1>1, <2>1, <2>3
<1>9. ASSUME NEW w \in Workers,
             Community!LeaveEvent(w) \/ Community!GrantEventEditor(w) \/ Community!WriteSignalCounts(w) \/ Community!Fail(w)
      PROVE  Reads'
  BY <1>1, <1>9 DEF Community!LeaveEvent, Community!GrantEventEditor,
     Community!WriteSignalCounts, Community!Fail, Community!EndJob, Community!Idle
<1>10. ASSUME NEW w \in Workers,
              Community!ToggleSignal(w) \/ Community!CountSignals(w) \/ Community!MissSignalCounts(w)
       PROVE  Reads'
  BY <1>1, <1>10 DEF Community!ToggleSignal, Community!CountSignals, Community!MissSignalCounts,
     Community!StartJob
<1>11. ASSUME NEW u \in Users, Community!Free,
              \/ Community!JoinProject(u) \/ Community!JoinEvent(u) \/ Community!LeaveProject(u)
              \/ \E target \in Users : Community!RevokeEventEditor(u, target)
       PROVE  Reads'
  BY <1>3, <1>11 DEF Community!Free, Community!JoinProject, Community!JoinEvent,
     Community!LeaveProject, Community!RevokeEventEditor
<1>12. ASSUME \/ Community!CreateProject
              \/ \E audience \in Community!Audiences, controlled \in BOOLEAN, chosen \in SUBSET Users :
                   Community!CreateEvent(audience, controlled, chosen)
       PROVE  Reads'
  <2>1. row = Community!NoRow /\ UNCHANGED <<signals, memberJob>>
    BY <1>12 DEF Community!CreateProject, Community!CreateEvent
  <2>2. \A w \in Workers : memberJob[w].op # "leave"
    BY <2>1 DEF Reads, Unborn
  <2>3. QED
    BY <2>1, <2>2 DEF Reads
<1>13. CASE Community!Close \/ Community!Expire \/ UNCHANGED Community!vars
  BY <1>4, <1>13 DEF Community!Close, Community!Expire, Community!vars
<1>14. ASSUME NEW w \in Workers, NEW u \in Users,
              \/ Community!StartLeaveEvent(w, u)
              \/ \E target \in Users : Community!StartGrant(w, u, target)
              \/ \E type \in Community!Types : Community!StartProjectSignal(w, u, type) \/ Community!StartEventSignal(w, u, type)
       PROVE  Reads'
  BY <1>5, <1>6, <1>7, <1>14 DEF Community!StartProjectSignal, Community!StartEventSignal
<1>15. QED
  BY <1>8, <1>9, <1>10, <1>11, <1>12, <1>13, <1>14 DEF Community!Next

(* Leaving an event is counted when the member is still there.             *)
LEMMA LeavingCounts ==
  ASSUME CommunityPeople, Fine, Reads, Counted, [Community!Next]_(Community!vars)
  PROVE  Counted'
<1>1. ASSUME NEW w \in Workers, Community!LeaveEvent(w) PROVE Counted'
  <2>1. memberJob[w].user \in members /\ memberJob[w].user \in Users
    BY <1>1, JobFields DEF Community!LeaveEvent, Reads, Fine
  <2>2. QED
    BY <1>1, <2>1, RemovedIsCounted DEF Community!LeaveEvent
<1>2. QED
  BY <1>1, Counting DEF Fine

-----------------------------------------------------------------------------
(* The signals and their count.                                            *)
Given(s) == {u \in Users : s[u] # Community!NoSignal}

LEMMA Togglings ==
  ASSUME CommunityPeople, Fine, Reads, Community!SignalsAreCounted, NEW w \in Workers,
         Community!ToggleSignal(w)
  PROVE  Community!SignalsAreCounted'
<1> SUFFICES ASSUME Kind = "project"
             PROVE  signalCount' = Cardinality(Given(signals'))
  BY CommunityCount DEF Community!SignalsAreCounted, Given
<1> DEFINE u == memberJob[w].user
           t == memberJob[w].type
           e == memberJob[w].existing
<1>1. /\ memberJob[w].op = "signal" /\ u \in Users /\ t \in Community!Types /\ e \in Community!Signal /\ e = signals[u]
      /\ signalCount' = Community!CountFrom(memberJob[w])
  BY JobFields DEF Community!ToggleSignal, Fine, Reads
<1>2. signals \in [Users -> Community!Signal] /\ made \in 0..MaxSignals /\ MaxSignals \in Nat
  BY DEF Fine, Signalled, CommunityPeople
<1>3. /\ Cardinality(Given(signals)) \in Nat
      /\ u \notin Given(signals) =>
           Cardinality(Given(signals) \cup {u}) = Cardinality(Given(signals)) + 1
      /\ u \in Given(signals) =>
           /\ Cardinality(Given(signals) \ {u}) = Cardinality(Given(signals)) - 1
           /\ Cardinality(Given(signals)) >= 1
  <2>1. Given(signals) \subseteq Users /\ IsFiniteSet(Users)
    BY DEF Given, CommunityPeople
  <2>2. QED
    BY <1>1, <2>1, OneMore
<1>4. signalCount = Cardinality(Given(signals))
  BY CommunityCount DEF Community!SignalsAreCounted, Given
<1>5. CASE e = Community!NoSignal /\ Community!GiveSignal(u, t)
  <2>1. signals' = [signals EXCEPT ![u] = [id |-> made + 1, type |-> t]]
    BY <1>5 DEF Community!GiveSignal
  <2>2. [id |-> made + 1, type |-> t] # Community!NoSignal
    BY <1>1 DEF Community!NoSignal, Community!Types
  <2>3. Given(signals') = Given(signals) \cup {u}
    BY <1>1, <1>2, <2>1, <2>2 DEF Given
  <2>4. u \notin Given(signals)
    BY <1>1, <1>5 DEF Given
  <2>5. Community!CountFrom(memberJob[w]) = signalCount + 1
    BY <1>3, <1>4, <1>5 DEF Community!CountFrom, Community!Delta, Community!AtLeastZero
  <2>6. QED
    BY <1>1, <1>3, <1>4, <2>3, <2>4, <2>5
<1>6. CASE e # Community!NoSignal /\ e.type = t /\ Community!RemoveSignal(u, e)
  <2>1. signals' = [signals EXCEPT ![u] = Community!NoSignal]
    BY <1>1, <1>2, <1>6 DEF Community!RemoveSignal
  <2>2. Given(signals') = Given(signals) \ {u}
    BY <1>1, <1>2, <2>1 DEF Given
  <2>3. u \in Given(signals)
    BY <1>1, <1>6 DEF Given
  <2>4. Community!CountFrom(memberJob[w]) = signalCount - 1
    <3>1. Community!Delta(memberJob[w]) = -1
      BY <1>6 DEF Community!Delta
    <3>2. QED
      BY <1>3, <1>4, <2>3, <3>1 DEF Community!CountFrom, Community!AtLeastZero
  <2>5. QED
    BY <1>1, <1>3, <1>4, <2>2, <2>3, <2>4
<1>7. CASE e # Community!NoSignal /\ e.type # t /\ Community!SwitchSignal(u, e, t)
  <2>1. signals' = [signals EXCEPT ![u] = [e EXCEPT !.type = t]]
    BY <1>1, <1>2, <1>7 DEF Community!SwitchSignal
  <2>2. [e EXCEPT !.type = t] # Community!NoSignal
    BY <1>1, <1>7 DEF Community!NoSignal, Community!Types, Community!Signal
  <2>3. Given(signals') = Given(signals)
    BY <1>1, <1>2, <1>7, <2>1, <2>2 DEF Given
  <2>4. Community!CountFrom(memberJob[w]) = signalCount
    <3>1. Community!Delta(memberJob[w]) = 0
      BY <1>7 DEF Community!Delta
    <3>2. QED
      BY <1>3, <1>4, <3>1 DEF Community!CountFrom, Community!AtLeastZero
  <2>5. QED
    BY <1>1, <1>4, <2>3, <2>4
<1>8. QED
  BY <1>5, <1>6, <1>7 DEF Community!ToggleSignal

LEMMA SignalsCounted ==
  ASSUME CommunityPeople, Fine, Reads, Community!SignalsAreCounted,
         [Community!Next]_(Community!vars)
  PROVE  Community!SignalsAreCounted'
<1>1. ASSUME UNCHANGED <<signals, signalCount>> PROVE Community!SignalsAreCounted'
  BY <1>1 DEF Community!SignalsAreCounted
<1>2. ASSUME NEW w \in Workers, NEW u \in Users,
             \/ Community!StartLeaveEvent(w, u)
             \/ \E target \in Users : Community!StartGrant(w, u, target)
             \/ \E type \in Community!Types : Community!StartProjectSignal(w, u, type) \/ Community!StartEventSignal(w, u, type)
      PROVE  Community!SignalsAreCounted'
  BY <1>1, <1>2 DEF Community!StartLeaveEvent, Community!StartGrant,
     Community!StartProjectSignal, Community!StartEventSignal, Community!StartSignal
<1>3. ASSUME NEW w \in Workers,
             \/ Community!LeaveEvent(w) \/ Community!AdmitEditor(w) \/ Community!GrantEventEditor(w) \/ Community!MissSignalCounts(w)
             \/ Community!CountSignals(w) \/ Community!WriteSignalCounts(w) \/ Community!Fail(w)
      PROVE  Community!SignalsAreCounted'
  BY <1>1, <1>3 DEF Community!LeaveEvent, Community!AdmitEditor, Community!GrantEventEditor,
     Community!MissSignalCounts, Community!CountSignals,
                    Community!WriteSignalCounts, Community!Fail
<1>4. ASSUME \/ Community!CreateProject
             \/ \E audience \in Community!Audiences, controlled \in BOOLEAN, chosen \in SUBSET Users :
                  Community!CreateEvent(audience, controlled, chosen)
             \/ Community!Close \/ Community!Expire \/ UNCHANGED Community!vars
             \/ \E u \in Users :
                  \/ Community!JoinProject(u) \/ Community!JoinEvent(u) \/ Community!LeaveProject(u)
                  \/ \E target \in Users : Community!RevokeEventEditor(u, target)
      PROVE  Community!SignalsAreCounted'
  BY <1>1, <1>4 DEF Community!CreateProject, Community!CreateEvent, Community!Close,
     Community!Expire, Community!vars, Community!JoinProject, Community!JoinEvent,
                    Community!LeaveProject, Community!RevokeEventEditor
<1>5. QED
  BY <1>2, <1>3, <1>4, Togglings DEF Community!Next

-----------------------------------------------------------------------------
LEMMA Begins ==
  ASSUME CommunityPeople, Community!Init
  PROVE  Fine /\ Reads /\ Unborn /\ Counted /\ Community!SignalsAreCounted /\ ProjectLeaves
<1>1. Cardinality({}) = 0
  BY FS_EmptySet
<1>2. Fine /\ Reads /\ Unborn /\ ProjectLeaves
  BY DEF Community!Init, Fine, Shapes, Signalled, Reads, Unborn, ProjectLeaves, Community!Jobs,
     Community!Signal, Community!Idle, CommunityPeople
<1>3. {u \in Users : signals[u] # Community!NoSignal} = {}
  BY DEF Community!Init
<1>4. QED
  BY <1>1, <1>2, <1>3, CommunityCount DEF Community!Init, Counted, Community!MembersAreCounted,
     Community!SignalsAreCounted

LEMMA KeepsProjectLeaves ==
  ASSUME CommunityPeople, Fine, ProjectLeaves, [Community!Next]_(Community!vars)
  PROVE  ProjectLeaves'
<1> SUFFICES ASSUME Kind = "project", NEW v \in Workers PROVE memberJob'[v].op # "leave"
  BY DEF ProjectLeaves
<1>1. \A w \in Workers : memberJob[w].op # "leave"
  BY DEF ProjectLeaves
<1>2. ASSUME NEW w \in Workers, NEW j, memberJob' = [memberJob EXCEPT ![w] = j], j.op # "leave"
      PROVE  memberJob'[v].op # "leave"
  BY <1>1, <1>2 DEF Fine, Shapes
<1>3. ASSUME NEW w \in Workers, NEW u \in Users,
             \/ Community!StartLeaveEvent(w, u)
             \/ \E target \in Users : Community!StartGrant(w, u, target)
             \/ \E type \in Community!Types : Community!StartProjectSignal(w, u, type) \/ Community!StartEventSignal(w, u, type)
      PROVE  memberJob'[v].op # "leave"
  <2>1. Community!StartLeaveEvent(w, u) => FALSE
    BY DEF Community!StartLeaveEvent
  <2>2. (\E target \in Users : Community!StartGrant(w, u, target)) => FALSE
    BY DEF Community!StartGrant
  <2>3. PICK type \in Community!Types : Community!StartSignal(w, u, type)
    BY <1>3, <2>1, <2>2 DEF Community!StartProjectSignal, Community!StartEventSignal
  <2>4. memberJob' = [memberJob EXCEPT ![w] =
                  [op |-> "signal", user |-> u, type |-> type, existing |-> signals[u]]]
    BY <2>3 DEF Community!StartSignal, Community!StartJob
  <2>5. [op |-> "signal", user |-> u, type |-> type, existing |-> signals[u]].op # "leave"
    OBVIOUS
  <2>6. QED
    BY <1>2, <2>4, <2>5
<1>4. ASSUME NEW w \in Workers, Community!AdmitEditor(w) PROVE memberJob'[v].op # "leave"
  <2>1. memberJob' = [memberJob EXCEPT ![w] = [memberJob[w] EXCEPT !.op = "promote"]]
    BY <1>4 DEF Community!AdmitEditor
  <2>2. memberJob[w] \in Community!Jobs /\ memberJob[w].op = "grant"
    BY <1>4 DEF Community!AdmitEditor, Fine, Shapes
  <2>3. [memberJob[w] EXCEPT !.op = "promote"].op = "promote"
    BY <2>2 DEF Community!Jobs, Community!Idle
  <2>4. QED
    BY <1>2, <2>1, <2>3
<1>5. ASSUME NEW w \in Workers,
             \/ Community!LeaveEvent(w) \/ Community!GrantEventEditor(w) \/ Community!WriteSignalCounts(w) \/ Community!Fail(w)
             \/ Community!ToggleSignal(w) \/ Community!CountSignals(w) \/ Community!MissSignalCounts(w)
      PROVE  memberJob'[v].op # "leave"
  BY <1>2, <1>5 DEF Community!LeaveEvent, Community!GrantEventEditor,
     Community!WriteSignalCounts, Community!Fail, Community!EndJob, Community!Idle,
                    Community!ToggleSignal, Community!CountSignals, Community!MissSignalCounts, Community!StartJob
<1>6. ASSUME UNCHANGED memberJob PROVE memberJob'[v].op # "leave"
  BY <1>1, <1>6
<1>7. ASSUME \/ Community!CreateProject
             \/ \E audience \in Community!Audiences, controlled \in BOOLEAN, chosen \in SUBSET Users :
                  Community!CreateEvent(audience, controlled, chosen)
             \/ Community!Close \/ Community!Expire \/ UNCHANGED Community!vars
             \/ \E u \in Users :
                  \/ Community!JoinProject(u) \/ Community!JoinEvent(u) \/ Community!LeaveProject(u)
                  \/ \E target \in Users : Community!RevokeEventEditor(u, target)
      PROVE  memberJob'[v].op # "leave"
  BY <1>6, <1>7 DEF Community!CreateProject, Community!CreateEvent, Community!Close,
     Community!Expire, Community!vars, Community!JoinProject, Community!JoinEvent,
                    Community!LeaveProject, Community!RevokeEventEditor
<1>8. QED
  BY <1>3, <1>4, <1>5, <1>7 DEF Community!Next

(* A project's member count is exact, however joins and leaves overlap:    *)
(* what is counted is what the database did (projects/actions.py:54-140).  *)
THEOREM ProjectMembersCounted ==
  ASSUME CommunityPeople, Kind = "project"
  PROVE  Community!Spec => []Community!MembersAreCounted
<1> DEFINE AllInv == Fine /\ Counted /\ ProjectLeaves
<1>1. Community!Init => AllInv
  BY Begins
<1>2. AllInv /\ [Community!Next]_(Community!vars) => AllInv'
  <2> SUFFICES ASSUME AllInv, [Community!Next]_(Community!vars) PROVE AllInv'
    OBVIOUS
  <2>1. Fine' /\ ProjectLeaves'
    BY KeepsFine, KeepsProjectLeaves
  <2>2. ~ \E w \in Workers : Community!LeaveEvent(w)
    BY DEF ProjectLeaves, Community!LeaveEvent
  <2>3. Counted'
    BY <2>2, Counting DEF Fine
  <2>4. QED
    BY <2>1, <2>3
<1>3. AllInv => Community!MembersAreCounted
  BY DEF Counted
<1> HIDE DEF AllInv
<1>4. QED
  BY <1>1, <1>2, <1>3, PTL DEF Community!Spec

(* One request at a time, an event's member count is exact too, and the    *)
(* signal count of a project (events/actions.py:122-170,                   *)
(* projects/actions.py:893-935).                                           *)
THEOREM AllCounted ==
  ASSUME CommunityPeople, OneAtATime
  PROVE  Community!Spec => [](Community!MembersAreCounted /\ Community!SignalsAreCounted)
<1> DEFINE AllInv == Fine /\ Unborn /\ Reads /\ Counted /\ Community!SignalsAreCounted
<1>1. Community!Init => AllInv
  BY Begins
<1>2. AllInv /\ [Community!Next]_(Community!vars) => AllInv'
  BY KeepsFine, KeepsUnborn, KeepsReads, LeavingCounts, SignalsCounted
<1>3. AllInv => Community!MembersAreCounted /\ Community!SignalsAreCounted
  BY DEF Counted
<1> HIDE DEF AllInv
<1>4. QED
  BY <1>1, <1>2, <1>3, PTL DEF Community!Spec
=============================================================================
