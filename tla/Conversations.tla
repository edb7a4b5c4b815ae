--------------------------- MODULE Conversations ---------------------------
(***************************************************************************)
(* Direct and group chats, their members and their messages                *)
(* (app/services/messages/conversations.py, messaging.py and the pins of   *)
(* attachments.py).  Texts, titles, files and the marks that only order or *)
(* mute a person's list of chats are left out.                             *)
(*                                                                         *)
(* Time is what the stamps compare: created_at of a message is when its    *)
(* transaction began, last_read_at when the reader said so.  A handler     *)
(* that reads before it writes is two steps, the rest are one.             *)
(***************************************************************************)
EXTENDS Naturals, FiniteSets, Sequences, TLC

CONSTANTS Users,
          Paused,     \* accounts a bot review paused
          Kinds,      \* kinds of chats made here, of {"direct", "group"}
          Calls,      \* ids of voice calls
          MaxPins,    \* 5 in the code
          Workers,    \* requests the API serves at the same time
          MaxChats, LastTime   \* bounds

VARIABLES chats, messages,
          pins,     \* pinned messages, by their stamps
          now,
          news,     \* ghost: <<user, message>>, arrived since the user last read
          job       \* what each worker is doing

vars == <<chats, messages, pins, now, news, job>>

Idle    == [op |-> "idle"]
Nobody  == "nobody"
NoCall  == "none"
Times   == 0..LastTime
Never   == 0
MemberRow == [joined : Times, read : Times, hidden : BOOLEAN]
Message == [at : Times, chat : 1..MaxChats, from : Users, call : Calls \cup {NoCall}]
Jobs == {Idle}
        \cup [op : {"direct"}, user : Users, other : Users]
        \cup [op : {"send", "log"}, message : Message]
        \cup [op : {"leave"}, user : Users, chat : 1..MaxChats, at : Times,
              successor : Users \cup {Nobody}]
        \cup [op : {"pin"}, message : Message]

TypeOK ==
  /\ Len(chats) <= MaxChats
  /\ \A c \in DOMAIN chats :
       /\ chats[c].kind \in Kinds /\ chats[c].by \in Users
       /\ DOMAIN chats[c].members \subseteq Users
       /\ \A u \in DOMAIN chats[c].members : chats[c].members[u] \in MemberRow
  /\ messages \subseteq Message
  /\ pins \subseteq messages
  /\ now \in Times
  /\ news \subseteq Users \X messages
  /\ job \in [Workers -> Jobs]

Init ==
  /\ chats = <<>> /\ messages = {} /\ pins = {} /\ now = 0 /\ news = {}
  /\ job = [w \in Workers |-> Idle]

Tick         == now < LastTime /\ now' = now + 1
EndJob(w)    == job' = [job EXCEPT ![w] = Idle]
Begin(w, j)  == job[w] = Idle /\ job' = [job EXCEPT ![w] = j]
Served       == \E w \in Workers : job[w] = Idle

Members(c)     == DOMAIN chats[c].members
IsMember(u, c) == u \in Members(c)
Manages(u, c)  == IsMember(u, c) /\ chats[c].kind = "group" /\ chats[c].by = u
CanPin(u, c)   == IsMember(u, c) /\ (chats[c].kind = "direct" \/ chats[c].by = u)

Joining(members, t) == [u \in members |-> [joined |-> t, read |-> Never, hidden |-> FALSE]]
Without(row, u)     == [v \in DOMAIN row \ {u} |-> row[v]]
Shown(row)          == [v \in DOMAIN row |-> [row[v] EXCEPT !.hidden = FALSE]]

-----------------------------------------------------------------------------
(* A direct chat of two is looked for, and made when there is none.        *)
Direct(u, v) == {c \in DOMAIN chats : chats[c].kind = "direct" /\ Members(c) = {u, v}}

StartDirectConversation(w, u, v) ==
  /\ u # v
  /\ Direct(u, v) = {}
  /\ Begin(w, [op |-> "direct", user |-> u, other |-> v])
  /\ UNCHANGED <<chats, messages, pins, now, news>>

NewChat(kind, u, members) ==
  /\ Len(chats) < MaxChats
  /\ chats' = Append(chats, [kind |-> kind, by |-> u, members |-> Joining(members, now')])
  /\ UNCHANGED <<messages, pins, news>>

CommitDirectConversation(w) ==
  /\ job[w].op = "direct"
  /\ Tick
  /\ NewChat("direct", job[w].user, {job[w].user, job[w].other})
  /\ EndJob(w)

CreateGroupConversation(u, others) ==
  /\ Served
  /\ others \ {u} # {}
  /\ Tick
  /\ NewChat("group", u, {u} \cup others)
  /\ UNCHANGED job

-----------------------------------------------------------------------------
(* Members of a group.  Whoever joins finds everything that others wrote   *)
(* unread.                                                                 *)
OthersIn(u, c)  == {m \in messages : m.chat = c /\ m.from # u}
ReadBy(u, c)    == news' = news \ ({u} \X OthersIn(u, c))

AddGroupMember(u, c, v) ==
  /\ Served
  /\ Manages(u, c)
  /\ ~ IsMember(v, c)
  /\ Tick
  /\ chats' = [chats EXCEPT ![c].members = Joining({v}, now') @@ @]
  /\ news' = news \cup ({v} \X OthersIn(v, c))
  /\ UNCHANGED <<messages, pins, job>>

Gone(u, c) ==
  /\ chats' = [chats EXCEPT ![c].members = Without(@, u)]
  /\ ReadBy(u, c)
  /\ UNCHANGED <<messages, pins, now, job>>

RemoveGroupMember(u, c, v) ==
  /\ Served
  /\ Manages(u, c)
  /\ u # v /\ IsMember(v, c)
  /\ Gone(v, c)

(* To hide a group is to leave it; a direct chat stays hidden until        *)
(* somebody writes.                                                        *)
SetConversationPreferences(u, c, hidden) ==
  /\ Served
  /\ IsMember(u, c)
  /\ IF chats[c].kind = "group"
     THEN hidden /\ Gone(u, c)
     ELSE /\ chats[c].members[u].hidden # hidden
          /\ chats' = [chats EXCEPT ![c].members[u].hidden = hidden]
          /\ UNCHANGED <<messages, pins, now, news, job>>

(* Who leaves a group leaves a line in it, and a creator who leaves hands  *)
(* it to the one who is in it longest: as far as the transaction sees.     *)
Longest(c, u) ==
  {v \in Members(c) \ {u} : \A x \in Members(c) \ {u} :
     chats[c].members[v].joined <= chats[c].members[x].joined}

StartLeaveGroup(w, u, c) ==
  /\ IsMember(u, c) /\ chats[c].kind = "group"
  /\ Tick
  /\ \E v \in IF chats[c].by = u /\ Longest(c, u) # {} THEN Longest(c, u) ELSE {Nobody} :
       Begin(w, [op |-> "leave", user |-> u, chat |-> c, at |-> now', successor |-> v])
  /\ UNCHANGED <<chats, messages, pins, news>>

-----------------------------------------------------------------------------
(* Messages.                                                               *)
Arrive(m, rows) ==
  /\ messages' = messages \cup {m}
  /\ news' = news \cup ((DOMAIN rows \ {m.from}) \X {m})

CommitLeaveGroup(w) ==
  /\ job[w].op = "leave"
  /\ LET j    == job[w]
         rows == Without(chats[j.chat].members, j.user)
         m    == [at |-> j.at, chat |-> j.chat, from |-> j.user, call |-> NoCall]
     IN  /\ chats' = [chats EXCEPT ![j.chat].members = rows,
                                   ![j.chat].by = IF j.successor = Nobody THEN @ ELSE j.successor]
         /\ messages' = messages \cup {m}
         /\ news' = (news \ ({j.user} \X OthersIn(j.user, j.chat))) \cup ((DOMAIN rows) \X {m})
  /\ EndJob(w)
  /\ UNCHANGED <<pins, now>>

StartSendMessage(w, u, c) ==
  /\ IsMember(u, c) /\ u \notin Paused
  /\ Tick
  /\ Begin(w, [op |-> "send",
               message |-> [at |-> now', chat |-> c, from |-> u, call |-> NoCall]])
  /\ UNCHANGED <<chats, messages, pins, news>>

(* A message brings the chat back to whoever hid it.                       *)
CommitSendMessage(w) ==
  /\ job[w].op = "send"
  /\ LET m == job[w].message
     IN  /\ Arrive(m, chats[m.chat].members)
         /\ chats' = [chats EXCEPT ![m.chat].members = Shown(@)]
  /\ EndJob(w)
  /\ UNCHANGED <<pins, now>>

(* Both phones report a call: the first line stays, and shows no chat that *)
(* is hidden.                                                              *)
Logged(call) == \E m \in messages : m.call = call

StartLogCall(w, u, c, call) ==
  /\ IsMember(u, c)
  /\ ~ Logged(call)
  /\ Tick
  /\ Begin(w, [op |-> "log", message |-> [at |-> now', chat |-> c, from |-> u, call |-> call]])
  /\ UNCHANGED <<chats, messages, pins, news>>

CommitLogCall(w) ==
  /\ job[w].op = "log"
  /\ LET m == job[w].message
     IN  IF Logged(m.call) THEN UNCHANGED <<messages, news>>
         ELSE Arrive(m, chats[m.chat].members)
  /\ EndJob(w)
  /\ UNCHANGED <<chats, pins, now>>

DeleteMessage(u, m) ==
  /\ Served
  /\ IsMember(u, m.chat) /\ m.from = u
  /\ messages' = messages \ {m}
  /\ pins' = pins \ {m}
  /\ news' = news \ (Users \X {m})
  /\ UNCHANGED <<chats, now, job>>

(* Mutant: somebody who comes to a chat again is taken to have read it.    *)
ReadUpTo(u, c) == chats[c].members[u].joined
LastReadAt(u, c) == chats[c].members[u].read
Unread(u, c) == {m \in OthersIn(u, c) : m.at > LastReadAt(u, c)}

MarkConversationAsRead(u, c) ==
  /\ Served
  /\ IsMember(u, c)
  /\ Tick
  /\ chats' = [chats EXCEPT ![c].members[u].read = now']
  /\ ReadBy(u, c)
  /\ UNCHANGED <<messages, pins, job>>

-----------------------------------------------------------------------------
(* Pins: counted before the insert.                                        *)
PinsOf(c) == {m \in pins : m.chat = c}

StartPinMessage(w, u, m) ==
  /\ CanPin(u, m.chat)
  /\ m \notin pins /\ Cardinality(PinsOf(m.chat)) < MaxPins
  /\ Begin(w, [op |-> "pin", message |-> m])
  /\ UNCHANGED <<chats, messages, pins, now, news>>

CommitPinMessage(w) ==
  /\ job[w].op = "pin"
  /\ job[w].message \in messages \ pins
  /\ pins' = pins \cup {job[w].message}
  /\ EndJob(w)
  /\ UNCHANGED <<chats, messages, now, news>>

UnpinMessage(u, m) ==
  /\ Served
  /\ CanPin(u, m.chat)
  /\ pins' = pins \ {m}
  /\ UNCHANGED <<chats, messages, now, news, job>>

Rollback(w) ==
  /\ job[w] # Idle
  /\ EndJob(w)
  /\ UNCHANGED <<chats, messages, pins, now, news>>

Next ==
  \/ \E u \in Users, c \in DOMAIN chats :
       \/ \E v \in Users : AddGroupMember(u, c, v) \/ RemoveGroupMember(u, c, v)
       \/ \E hidden \in BOOLEAN : SetConversationPreferences(u, c, hidden)
       \/ MarkConversationAsRead(u, c)
  \/ \E u \in Users, m \in messages : DeleteMessage(u, m)
  \/ \E u \in Users, m \in pins : UnpinMessage(u, m)
  \/ "group" \in Kinds /\ \E u \in Users : \E others \in SUBSET Users : CreateGroupConversation(u, others)
  \/ \E w \in Workers :
       \/ "direct" \in Kinds /\ \E u, v \in Users : StartDirectConversation(w, u, v)
       \/ \E u \in Users, c \in DOMAIN chats :
            \/ StartLeaveGroup(w, u, c)
            \/ StartSendMessage(w, u, c)
            \/ \E call \in Calls : StartLogCall(w, u, c, call)
       \/ \E u \in Users, m \in messages : StartPinMessage(w, u, m)
       \/ CommitDirectConversation(w) \/ CommitLeaveGroup(w) \/ CommitSendMessage(w)
       \/ CommitLogCall(w) \/ CommitPinMessage(w) \/ Rollback(w)

Spec == Init /\ [][Next]_vars

-----------------------------------------------------------------------------
(* One request at a time, what a member has unread is what arrived since   *)
(* the member last read, after any comings, goings and deletions           *)
(* (messaging.py:516-534, conversations.py:132-150).                       *)
UnreadIsWhatArrived ==
  \A u \in Users, c \in DOMAIN chats :
    IsMember(u, c) => Unread(u, c) = {m \in OthersIn(u, c) : <<u, m>> \in news}
=============================================================================
