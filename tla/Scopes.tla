------------------------------- MODULE Scopes -------------------------------
(***************************************************************************)
(* Channels and communities, who is in them, links that let people in, and *)
(* invitations that wait for an answer, to a private community or to a     *)
(* private event (app/services/scopes.py, invites.py).  What governance    *)
(* changes of a scope is in ScopeGovernance.                               *)
(*                                                                         *)
(* A handler reads in one step and commits in the next; handlers that      *)
(* write one row whatever they read are one step.                          *)
(***************************************************************************)
EXTENDS Naturals, Sequences, FiniteSets

CONSTANTS Users, Organizer, Handles, Workers,
          Kinds,       \* what is created: of {"channel", "open", "closed"}
          MaxScopes, MaxLinks, MaxInvites,
          MaxUses      \* a bound of the model: a link has no limit of uses

VARIABLES scopes,      \* in the order of their creation
          members,     \* of each: [user -> "none", "member" or "manager"]
          guests,      \* members of the event
          guestCount,  \* events.member_count
          links, joined,  \* joined: who came in by each link, in order
          invites, told,  \* told: numbers of invitations notified
          job

vars == <<scopes, members, guests, guestCount, links, joined, invites, told, job>>

Event      == 0      \* an invitation's scope when it is to the private event
ScopeIds   == 1..MaxScopes
Policies   == {"open", "closed"}
ScopeRow   == [kind : {"channel", "community"}, handle : Handles, policy : Policies,
               governance : {"collaborative", "organizer"}]
LinkRow    == [scope : ScopeIds, expired : BOOLEAN, uses : 0..MaxUses]
InviteRow  == [scope : {Event} \cup ScopeIds, user : Users,
               status : {"pending", "accepted", "declined"}]
Idle       == [op |-> "idle"]
Jobs == {Idle}
        \cup [op : {"create"}, user : Users, row : ScopeRow]
        \cup [op : {"join"}, user : Users, scope : ScopeIds]
        \cup [op : {"redeem"}, user : Users, link : 1..MaxLinks, uses : 0..MaxUses]
        \cup [op : {"invite"}, user : Users, scope : {Event} \cup ScopeIds]
        \cup [op : {"tell"}, invite : 1..MaxInvites]
        \cup [op : {"accept", "decline"}, invite : 1..MaxInvites, inside : BOOLEAN]

TypeOK ==
  /\ scopes \in Seq(ScopeRow) /\ Len(scopes) <= MaxScopes
  /\ members \in [ScopeIds -> [Users -> {"none", "member", "manager"}]]
  /\ guests \subseteq Users /\ guestCount \in Nat
  /\ links \in Seq(LinkRow) /\ joined \in [DOMAIN links -> Seq(Users)]
  /\ invites \in Seq(InviteRow) /\ told \subseteq DOMAIN invites
  /\ job \in [Workers -> Jobs]

Init ==
  /\ scopes = <<>> /\ members = [s \in ScopeIds |-> [u \in Users |-> "none"]]
  /\ guests = {Organizer} /\ guestCount = 1
  /\ links = <<>> /\ joined = <<>> /\ invites = <<>> /\ told = {}
  /\ job = [w \in Workers |-> Idle]

Free == \E w \in Workers : job[w] = Idle
Begin(w, j) ==
  /\ job[w] = Idle /\ job' = [job EXCEPT ![w] = j]
  /\ UNCHANGED <<scopes, members, guests, guestCount, links, joined, invites, told>>
Done(w) == job' = [job EXCEPT ![w] = Idle]

-----------------------------------------------------------------------------
(* A handle is looked for among channels and communities, and is unique in *)
(* each of the two tables.                                                 *)
Table(kind) == {s \in DOMAIN scopes : scopes[s].kind = kind}

(* Mutant: a handle is looked for in the table of its kind.                *)
InUseOfKind(row) == \E s \in Table(row.kind) : scopes[s].handle = row.handle
InUse(row) == \E s \in DOMAIN scopes : scopes[s].handle = row.handle

ChannelRow(handle) ==
  [kind |-> "channel", handle |-> handle, policy |-> "open", governance |-> "collaborative"]
(* Only a private community may be run by an organizer.                    *)
CommunityRow(handle, policy, governance) ==
  [kind |-> "community", handle |-> handle, policy |-> policy,
   governance |-> IF policy = "closed" THEN governance ELSE "collaborative"]

CreateScope(w, u, row) ==
  ~ InUse(row) /\ Begin(w, [op |-> "create", user |-> u, row |-> row])

StartCreateChannel(w, u, handle) ==
  "channel" \in Kinds /\ CreateScope(w, u, ChannelRow(handle))

StartCreateCommunity(w, u, handle, policy, governance) ==
  policy \in Kinds /\ CreateScope(w, u, CommunityRow(handle, policy, governance))

CommitCreate(w) ==
  /\ job[w].op = "create" /\ Len(scopes) < MaxScopes
  /\ \A s \in Table(job[w].row.kind) : scopes[s].handle # job[w].row.handle
  /\ scopes' = Append(scopes, job[w].row)
  /\ members' = [members EXCEPT ![Len(scopes')][job[w].user] = "manager"]
  /\ Done(w)
  /\ UNCHANGED <<guests, guestCount, links, joined, invites, told>>

-----------------------------------------------------------------------------
IsScopeMember(s, u)  == members[s][u] # "none"
IsScopeManager(s, u) == members[s][u] = "manager"
Closed(s)            == scopes[s].policy = "closed"
Enter(s, u)          == members' = [members EXCEPT ![s][u] = "member"]

StartJoin(w, u, s) ==
  /\ ~ Closed(s) /\ ~ IsScopeMember(s, u)
  /\ Begin(w, [op |-> "join", user |-> u, scope |-> s])

CommitJoin(w) ==
  /\ job[w].op = "join" /\ ~ IsScopeMember(job[w].scope, job[w].user)
  /\ Enter(job[w].scope, job[w].user) /\ Done(w)
  /\ UNCHANGED <<scopes, guests, guestCount, links, joined, invites, told>>

Leave(u, s) ==
  /\ Free
  /\ members' = [members EXCEPT ![s][u] = "none"]
  /\ UNCHANGED <<scopes, guests, guestCount, links, joined, invites, told, job>>

(* What people find, and what is open to them.                             *)
Visible(s, u)  == ~ Closed(s) \/ IsScopeMember(s, u)
Discoverable(kind, u) == {s \in Table(kind) : Visible(s, u)}
Taggable(u) == Discoverable("channel", u) \cup Discoverable("community", u)

-----------------------------------------------------------------------------
(* Links.  They run out after thirty days; how often one was used is       *)
(* written from what was read.                                             *)
CanCreateScopeInvite(s, u) == IsScopeMember(s, u) /\ (Closed(s) \/ IsScopeManager(s, u))

CreateScopeInvite(u, s) ==
  /\ Free /\ CanCreateScopeInvite(s, u) /\ Len(links) < MaxLinks
  /\ links' = Append(links, [scope |-> s, expired |-> FALSE, uses |-> 0])
  /\ joined' = Append(joined, <<>>)
  /\ UNCHANGED <<scopes, members, guests, guestCount, invites, told, job>>

ThirtyDays(k) ==
  /\ links' = [links EXCEPT ![k].expired = TRUE]
  /\ UNCHANGED <<scopes, members, guests, guestCount, joined, invites, told, job>>

StartRedeem(w, u, k) ==
  /\ ~ links[k].expired /\ links[k].uses < MaxUses
  /\ ~ IsScopeMember(links[k].scope, u)
  /\ Begin(w, [op |-> "redeem", user |-> u, link |-> k, uses |-> links[k].uses])

UsesAfter(read) == read + 1

CommitRedeem(w) ==
  LET k == job[w].link
      s == links[k].scope
  IN  /\ job[w].op = "redeem" /\ ~ IsScopeMember(s, job[w].user)
      /\ Enter(s, job[w].user)
      /\ links' = [links EXCEPT ![k].uses = UsesAfter(job[w].uses)]
      /\ joined' = [joined EXCEPT ![k] = Append(@, job[w].user)]
      /\ Done(w)
      /\ UNCHANGED <<scopes, guests, guestCount, invites, told>>

-----------------------------------------------------------------------------
(* Invitations: to a private community by its members, to a private event  *)
(* by its organizer.  One that waits is looked for, no key forbids two.    *)
IsMember(s, u) == IF s = Event THEN u \in guests ELSE IsScopeMember(s, u)
Waiting(s, u)  == {i \in DOMAIN invites : invites[i] = [scope |-> s, user |-> u, status |-> "pending"]}

Invitable(s, u) == ~ IsMember(s, u) /\ Waiting(s, u) = {}

StartInviteToCommunity(w, by, u, s) ==
  /\ Closed(s) /\ IsScopeMember(s, by) /\ u # by
  /\ Invitable(s, u)
  /\ Begin(w, [op |-> "invite", user |-> u, scope |-> s])

StartInviteToEvent(w, by, u) ==
  /\ by = Organizer /\ u # by
  /\ Invitable(Event, u)
  /\ Begin(w, [op |-> "invite", user |-> u, scope |-> Event])

CommitInvite(w) ==
  /\ job[w].op = "invite" /\ Len(invites) < MaxInvites
  /\ invites' = Append(invites, [scope |-> job[w].scope, user |-> job[w].user, status |-> "pending"])
  /\ job' = [job EXCEPT ![w] = [op |-> "tell", invite |-> Len(invites')]]
  /\ UNCHANGED <<scopes, members, guests, guestCount, links, joined, told>>

NotifyInvited(w) ==
  /\ job[w].op = "tell"
  /\ told' = told \cup {job[w].invite} /\ Done(w)
  /\ UNCHANGED <<scopes, members, guests, guestCount, links, joined, invites>>

PendingInvites(u) == UNION {Waiting(s, u) : s \in {Event} \cup DOMAIN scopes}

(* An answer reads that the invitation waits and whether the person is in; *)
(* what it writes does not ask again.                                      *)
(* Mutant: an invitation is answered as often as one likes.                *)
AnyStatus(i) == TRUE
Unanswered(i) == invites[i].status = "pending"

StartRespond(w, i, answer) ==
  /\ Unanswered(i)
  /\ Begin(w, [op |-> answer, invite |-> i, inside |-> IsMember(invites[i].scope, invites[i].user)])

Answer(w, status) ==
  /\ invites' = [invites EXCEPT ![job[w].invite].status = status]
  /\ Done(w)
  /\ UNCHANGED <<scopes, links, joined, told>>

CommitDecline(w) ==
  /\ job[w].op = "decline" /\ Answer(w, "declined")
  /\ UNCHANGED <<members, guests, guestCount>>

CommitAccept(w) ==
  LET s == invites[job[w].invite].scope
      u == invites[job[w].invite].user
  IN  /\ job[w].op = "accept"
      /\ job[w].inside \/ ~ IsMember(s, u)
      /\ Answer(w, "accepted")
      /\ IF job[w].inside THEN UNCHANGED <<members, guests, guestCount>>
         ELSE IF s = Event
              THEN guests' = guests \cup {u} /\ guestCount' = guestCount + 1 /\ UNCHANGED members
              ELSE Enter(s, u) /\ UNCHANGED <<guests, guestCount>>

(* A row that is there already, or a failure.                              *)
Rollback(w) ==
  /\ job[w] # Idle /\ Done(w)
  /\ UNCHANGED <<scopes, members, guests, guestCount, links, joined, invites, told>>

Next ==
  \/ \E w \in Workers, u \in Users :
       \/ \E handle \in Handles :
            \/ StartCreateChannel(w, u, handle)
            \/ \E policy \in Policies, governance \in {"collaborative", "organizer"} :
                 StartCreateCommunity(w, u, handle, policy, governance)
       \/ \E s \in DOMAIN scopes :
            StartJoin(w, u, s) \/ \E by \in Users : StartInviteToCommunity(w, by, u, s)
       \/ \E by \in Users : StartInviteToEvent(w, by, u)
       \/ \E k \in DOMAIN links : StartRedeem(w, u, k)
  \/ \E w \in Workers :
       \/ \E i \in DOMAIN invites, answer \in {"accept", "decline"} : StartRespond(w, i, answer)
       \/ CommitCreate(w) \/ CommitJoin(w) \/ CommitRedeem(w) \/ CommitInvite(w)
       \/ NotifyInvited(w) \/ CommitDecline(w) \/ CommitAccept(w) \/ Rollback(w)
  \/ \E u \in Users, s \in DOMAIN scopes : Leave(u, s) \/ CreateScopeInvite(u, s)
  \/ \E k \in DOMAIN links : ThirtyDays(k)

Spec == Init /\ [][Next]_vars

-----------------------------------------------------------------------------
(* One request at a time: a handle leads to one channel or community       *)
(* (scopes.py:455-466), a link counts those it let in (scopes.py:845-850), *)
(* a person has one invitation to answer at most for each place            *)
(* (invites.py:64-73), and an event's count of members is that of its      *)
(* members (invites.py:224-233).                                           *)
HandlesAreUnique == \A s, t \in DOMAIN scopes : scopes[s].handle = scopes[t].handle => s = t
UsesAreCounted   == \A k \in DOMAIN links : links[k].uses = Len(joined[k])
OneInvitation    ==
  \A u \in Users : \A i, j \in PendingInvites(u) : invites[i].scope = invites[j].scope => i = j
GuestsAreCounted == guestCount = Cardinality(guests)

CountsAgree == HandlesAreUnique /\ UsesAreCounted /\ OneInvitation /\ GuestsAreCounted

(* "You've already answered this invite" (invites.py:211): an answer stays *)
(* as it was given, and nobody is in a private community or event without  *)
(* a link or an answer of their own, one request at a time.                *)
AnsweredOnce ==
  /\ \A i \in DOMAIN invites : invites[i].status # "pending" => invites'[i] = invites[i]
  /\ \A u \in Users : \A s \in {Event} \cup (DOMAIN scopes \ Taggable(u)) :
       (~ IsMember(s, u) /\ IsMember(s, u)') =>
         \/ \E i \in Waiting(s, u) : invites'[i].status = "accepted"
         \/ \E k \in DOMAIN links : links[k].scope = s /\ Len(joined'[k]) > Len(joined[k])
=============================================================================
