---------------------------- MODULE LinkedChats ----------------------------
(***************************************************************************)
(* The chat of a project, an event or a help request as it stands in each  *)
(* person's list of chats (app/services/messages/linked_chats.py): one row *)
(* per person says until when it was read and whether it is hidden, pinned *)
(* or muted.  The comments are those of Discussion, with their stamps.     *)
(*                                                                         *)
(* The row is looked for in one step and written in the next.              *)
(***************************************************************************)
EXTENDS Naturals, FiniteSets

CONSTANTS Users, Author,
          Kind,      \* "project", "event" or "help_request"
          Private,   \* whether the event is private
          Workers, LastTime

VARIABLES members,   \* members, or who holds a role of the help request
          comments,  \* [at, by]: when a comment was written, by whom
          row,       \* subject_chat_reads
          now,
          news,      \* ghost: <<user, comment>>, arrived since the user last read
          job

vars == <<members, comments, row, now, news, job>>

Times   == 0..LastTime
Never   == 0
NoRow   == [read |-> Never, marks |-> {"missing"}]
Marks   == {"hidden", "pinned", "muted"}
Comment == [at : Times, by : Users]
Idle    == [op |-> "idle"]
Jobs == {Idle}
        \cup [op : {"comment"}, comment : Comment]
        \cup [op : {"read"}, user : Users, found : BOOLEAN, at : Times]
        \cup [op : {"prefer"}, user : Users, found : BOOLEAN, at : Times, mark : Marks, on : BOOLEAN]

TypeOK ==
  /\ members \subseteq Users
  /\ comments \subseteq Comment
  /\ row \in [Users -> {NoRow} \cup [read : Times, marks : SUBSET Marks]]
  /\ now \in Times
  /\ news \subseteq Users \X comments
  /\ job \in [Workers -> Jobs]

Init ==
  /\ members = {Author} /\ comments = {} /\ row = [u \in Users |-> NoRow]
  /\ now = 0 /\ news = {} /\ job = [w \in Workers |-> Idle]

Begin(w, j) == job[w] = Idle /\ job' = [job EXCEPT ![w] = j]
EndJob(w)   == job' = [job EXCEPT ![w] = Idle]
Served      == \E w \in Workers : job[w] = Idle
Tick        == now < LastTime /\ now' = now + 1

(* Coming and going is modelled in Membership and HelpRequests.            *)
Join(u) ==
  /\ Served
  /\ members' = IF u \in members THEN members \ {u} ELSE members \cup {u}
  /\ UNCHANGED <<comments, row, now, news, job>>

ByOthers(u) == {c \in comments : c.by # u}

StartComment(w, u) ==
  /\ Tick
  /\ Begin(w, [op |-> "comment", comment |-> [at |-> now', by |-> u]])
  /\ UNCHANGED <<members, comments, row, news>>

CommitComment(w) ==
  /\ job[w].op = "comment"
  /\ comments' = comments \cup {job[w].comment}
  /\ news' = news \cup ((Users \ {job[w].comment.by}) \X {job[w].comment})
  /\ EndJob(w)
  /\ UNCHANGED <<members, row, now>>

(* A comment that nobody replied to goes.  One with replies stays where it *)
(* is, as a deleted message that still counts: nothing changes here, and   *)
(* any comment may be of either kind.                                      *)
DeleteComment(c) ==
  /\ Served
  /\ comments' = comments \ {c}
  /\ news' = news \ (Users \X {c})
  /\ UNCHANGED <<members, row, now, job>>

-----------------------------------------------------------------------------
(* Reading, and choosing what becomes of the chat in the list: a person    *)
(* without a row gets one, and with it the stamp of having read.           *)
StartMarkLinkedChatRead(w, u) ==
  /\ Tick
  /\ Begin(w, [op |-> "read", user |-> u, found |-> row[u] # NoRow, at |-> now'])
  /\ UNCHANGED <<members, comments, row, news>>

StartSetLinkedChatPreferences(w, u, mark, on) ==
  /\ Tick
  /\ Begin(w, [op |-> "prefer", user |-> u, found |-> row[u] # NoRow, at |-> now',
               mark |-> mark, on |-> on])
  /\ UNCHANGED <<members, comments, row, news>>

(* A second insert of one row fails.                                       *)
InsertRow(j, marks) ==
  /\ ~ j.found /\ row[j.user] = NoRow
  /\ row' = [row EXCEPT ![j.user] = [read |-> j.at, marks |-> marks]]
  /\ news' = news \ ({j.user} \X ByOthers(j.user))

CommitMarkLinkedChatRead(w) ==
  /\ job[w].op = "read"
  /\ LET j == job[w]
     IN  \/ InsertRow(j, {})
         \/ /\ j.found
            /\ row' = [row EXCEPT ![j.user].read = j.at]
            /\ news' = news \ ({j.user} \X ByOthers(j.user))
  /\ EndJob(w)
  /\ UNCHANGED <<members, comments, now>>

CommitSetLinkedChatPreferences(w) ==
  /\ job[w].op = "prefer"
  /\ LET j == job[w]
         Chosen(marks) == IF j.on THEN marks \cup {j.mark} ELSE marks \ {j.mark}
     IN  \/ InsertRow(j, Chosen({}))
         \/ /\ j.found
            /\ row' = [row EXCEPT ![j.user].marks = Chosen(@)]
            /\ UNCHANGED news
  /\ EndJob(w)
  /\ UNCHANGED <<members, comments, now>>

Rollback(w) ==
  /\ job[w] # Idle
  /\ EndJob(w)
  /\ UNCHANGED <<members, comments, row, now, news>>

-----------------------------------------------------------------------------
(* The list: the chats of what one belongs to or commented on, but for a   *)
(* private event that one left; a hidden chat stays hidden.                *)
Commented(u) == \E c \in comments : c.by = u
InChat(u) ==
  \/ u \in members
  \/ Kind = "help_request" /\ u = Author
  \/ Commented(u) /\ ~ (Kind = "event" /\ Private)
Listed(u) == InChat(u) /\ "hidden" \notin row[u].marks
LastReadAt(u) == row[u].read
Unread(u) == {c \in ByOthers(u) : c.at > LastReadAt(u)}

(* A chat is opened from the list, or from the page of what it is about.   *)
Next ==
  \/ \E u \in Users : Join(u)
  \/ \E c \in comments : DeleteComment(c)
  \/ \E w \in Workers :
       \/ \E u \in Users :
            \/ StartComment(w, u) \/ StartMarkLinkedChatRead(w, u)
            \/ /\ Listed(u) \/ "hidden" \in row[u].marks
               /\ \E mark \in Marks, on \in BOOLEAN : StartSetLinkedChatPreferences(w, u, mark, on)
       \/ CommitComment(w) \/ CommitMarkLinkedChatRead(w) \/ CommitSetLinkedChatPreferences(w)
       \/ Rollback(w)

Spec == Init /\ [][Next]_vars

-----------------------------------------------------------------------------
(* One request at a time, what a person has unread in the chat is what     *)
(* others wrote since the person last read or first arranged it            *)
(* (linked_chats.py:61-77, 400-417).                                       *)
UnreadIsWhatArrived == \A u \in Users : Unread(u) = {c \in ByOthers(u) : <<u, c>> \in news}
=============================================================================
