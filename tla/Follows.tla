------------------------------ MODULE Follows ------------------------------
(***************************************************************************)
(* Who follows whom, who has to be asked first, and the notifications of   *)
(* it (app/services/users.py, notifications.py and                         *)
(* notification_preferences.py).                                           *)
(*                                                                         *)
(* A follow is read in one step, inserted in the next, and the person who  *)
(* is followed hears of it in a transaction of its own; every other        *)
(* request is one transaction.                                             *)
(***************************************************************************)
EXTENDS Naturals, Sequences

CONSTANTS Users, Followed, Workers, MaxNotes

VARIABLES follows,   \* the status of each follower's row
          approval,  \* who has to be asked
          wants,     \* who wants notifications about follows
          notes, job

vars == <<follows, approval, wants, notes, job>>

Pairs == {p \in Users \X Followed : p[1] # p[2]}
Kinds == {"follow-request", "new-follower", "follow-accepted"}
Idle  == [op |-> "idle"]
Stage == {"insert", "notify"}
NoteRow == [to : Users, from : Users, kind : Kinds, unread : BOOLEAN]

TypeOK ==
  /\ follows \in [Pairs -> {"none", "pending", "accepted"}]
  /\ approval \in [Followed -> BOOLEAN]
  /\ wants \in [Users -> BOOLEAN]
  /\ notes \in Seq(NoteRow) /\ Len(notes) <= MaxNotes
  /\ job \in [Workers -> {Idle} \cup [op : Stage, pair : Pairs, status : {"pending", "accepted"}]]

Init ==
  /\ follows = [p \in Pairs |-> "none"]
  /\ approval \in [Followed -> BOOLEAN] /\ wants = [u \in Users |-> TRUE]
  /\ notes = <<>> /\ job = [w \in Workers |-> Idle]

Free == \E w \in Workers : job[w] = Idle

(* A notification of a kind its recipient does not want is not stored.     *)
CreateNotification(list, to, from, kind) ==
  IF wants[to] THEN Append(list, [to |-> to, from |-> from, kind |-> kind, unread |-> TRUE])
  ELSE list

-----------------------------------------------------------------------------
FollowStatus(p) == IF approval[p[2]] THEN "pending" ELSE "accepted"

StartFollow(w, p) ==
  /\ job[w] = Idle /\ follows[p] = "none"
  /\ job' = [job EXCEPT ![w] = [op |-> "insert", pair |-> p, status |-> FollowStatus(p)]]
  /\ UNCHANGED <<follows, approval, wants, notes>>

(* The pair is the row's key: an insert that comes second changes nothing. *)
CommitFollow(w) ==
  /\ job[w].op = "insert"
  /\ follows[job[w].pair] = "none"
  /\ follows' = [follows EXCEPT ![job[w].pair] = job[w].status]
  /\ job' = [job EXCEPT ![w].op = "notify"]
  /\ UNCHANGED <<approval, wants, notes>>

AlreadyThere(w) ==
  /\ job[w].op = "insert" /\ follows[job[w].pair] # "none"
  /\ job' = [job EXCEPT ![w] = Idle]
  /\ UNCHANGED <<follows, approval, wants, notes>>

NotifyFollowed(w) ==
  /\ job[w].op = "notify" /\ Len(notes) < MaxNotes
  /\ LET from == job[w].pair[1]
         to   == job[w].pair[2]
     IN  notes' = CreateNotification(notes, to, from,
                    IF job[w].status = "pending" THEN "follow-request" ELSE "new-follower")
  /\ job' = [job EXCEPT ![w] = Idle]
  /\ UNCHANGED <<follows, approval, wants>>

(* A follow that fails, or its notification, which is not asked for again. *)
Rollback(w) ==
  /\ job[w] # Idle
  /\ job' = [job EXCEPT ![w] = Idle]
  /\ UNCHANGED <<follows, approval, wants, notes>>

(* The row goes, asked or accepted; what was notified of it stays.         *)
Unfollow(p) ==
  /\ Free
  /\ follows' = [follows EXCEPT ![p] = "none"]
  /\ UNCHANGED <<approval, wants, notes, job>>

-----------------------------------------------------------------------------
(* An answer is for the row that is pending when it is written: the second *)
(* of two finds none.  The request's notification is read by it.           *)
Pending(p) == follows[p] = "pending"

Resolved(p) ==
  [i \in DOMAIN notes |->
     IF notes[i].to = p[2] /\ notes[i].from = p[1] /\ notes[i].kind = "follow-request"
     THEN [notes[i] EXCEPT !.unread = FALSE] ELSE notes[i]]

AcceptFollowRequest(p) ==
  /\ Free /\ Pending(p) /\ Len(notes) < MaxNotes
  /\ follows' = [follows EXCEPT ![p] = "accepted"]
  /\ notes' = CreateNotification(Resolved(p), p[1], p[2], "follow-accepted")
  /\ UNCHANGED <<approval, wants, job>>

RejectFollowRequest(p) ==
  /\ Free /\ Pending(p)
  /\ follows' = [follows EXCEPT ![p] = "none"]
  /\ notes' = Resolved(p)
  /\ UNCHANGED <<approval, wants, job>>

(* What lists show: only the person themselves sees who is not accepted.   *)
Shown(p, viewer, owner) == follows[p] = "accepted" \/ (viewer = owner /\ Pending(p))
Followers(u, viewer) == {p[1] : p \in {q \in Pairs : q[2] = u /\ Shown(q, viewer, u)}}
Following(u, viewer) == {p[2] : p \in {q \in Pairs : q[1] = u /\ Shown(q, viewer, u)}}
FollowRequests(u) == {p[1] : p \in {q \in Pairs : q[2] = u /\ Pending(q)}}

-----------------------------------------------------------------------------
(* Settings change nothing that is there already: requests stay pending.   *)
UpdateOwnProfileSettings(u, asks, told) ==
  /\ Free
  /\ approval' = [x \in Followed |-> IF x = u THEN asks ELSE approval[x]]
  /\ wants' = [wants EXCEPT ![u] = told]
  /\ UNCHANGED <<follows, notes, job>>

(* A kind that is no longer wanted is not listed, but it is still unread.  *)
ListNotifications(u) == IF wants[u] THEN SelectSeq(notes, LAMBDA n : n.to = u) ELSE <<>>

MarkNotificationRead(u, i) ==
  /\ Free /\ notes[i].to = u
  /\ notes' = [notes EXCEPT ![i].unread = FALSE]
  /\ UNCHANGED <<follows, approval, wants, job>>

MarkAllNotificationsRead(u) ==
  /\ Free
  /\ notes' = [i \in DOMAIN notes |->
                 IF notes[i].to = u THEN [notes[i] EXCEPT !.unread = FALSE] ELSE notes[i]]
  /\ UNCHANGED <<follows, approval, wants, job>>

Next ==
  \/ \E w \in Workers :
       \/ \E p \in Pairs : StartFollow(w, p)
       \/ CommitFollow(w) \/ AlreadyThere(w) \/ NotifyFollowed(w) \/ Rollback(w)
  \/ \E p \in Pairs : Unfollow(p) \/ AcceptFollowRequest(p) \/ RejectFollowRequest(p)
  \/ \E u \in Users :
       \/ \E asks, told \in BOOLEAN : UpdateOwnProfileSettings(u, asks, told)
       \/ \E i \in DOMAIN notes : MarkNotificationRead(u, i)
       \/ MarkAllNotificationsRead(u)

Spec == Init /\ [][Next]_vars

-----------------------------------------------------------------------------
(* One request at a time, whoever has to be asked gets a follower that     *)
(* others see by accepting a request only, and once it is answered nothing *)
(* they are shown says that it waits (users.py:346, 612-680).              *)
Asks(p) == p[1] \in FollowRequests(p[2])
Seen(p) == p[1] \in Followers(p[2], "others")
AnsweredOnce ==
  \A p \in Pairs :
    (~ Seen(p) /\ Seen(p)') =>
      IF Asks(p)
      THEN \A i \in DOMAIN ListNotifications(p[2])' :
             LET n == ListNotifications(p[2])'[i]
             IN  ~ (n.unread /\ n.kind = "follow-request" /\ n.from = p[1])
      ELSE ~ approval[p[2]]
=============================================================================
