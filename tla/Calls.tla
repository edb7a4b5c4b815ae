------------------------------- MODULE Calls -------------------------------
(***************************************************************************)
(* Voice-call signaling in one direct chat (app/services/messages/calls.py *)
(* and the /calls/ws socket of app/routers/messages.py).  Every user has   *)
(* sockets; a socket handles one signal at a time beside its keepalive     *)
(* task, and every Redis command is an await, between which others go on.  *)
(***************************************************************************)
EXTENDS Integers, FiniteSets

CONSTANTS Users,        \* the two people of the chat
          Sockets,      \* their devices
          Owner,        \* whose device a socket is
          Calls,        \* call ids the clients may draw
          RingTTL,      \* RING_TTL_SECONDS, in ticks of the clock
          ActiveTTL,    \* ACTIVE_TTL_SECONDS, in ticks of the clock
          MaxPresence,  \* bound: what crashed sockets may pile up in a count
          Concurrency,  \* bound: handlers in progress at the same time
          Beating,      \* bound: the devices whose keepalive task is looked at
          Crashes,      \* whether a server process may die
          Stalls,       \* whether the clock may move while a handler runs
          Lapses        \* whether a stall may outlast a key that sockets still refresh

ASSUME PeopleAssumption == \E a, b \in Users : a # b /\ Users = {a, b}
ASSUME OwnerAssumption == Owner \in [Sockets -> Users] /\ IsFiniteSet(Sockets)
ASSUME TTLAssumption == RingTTL \in Nat /\ ActiveTTL \in Nat /\ 0 < RingTTL /\ RingTTL <= ActiveTTL

VARIABLES connected,  \* sockets with a live connection
          presence,   \* call:presence:<user>: if it is there, its count, if it has a TTL
          claim,      \* call:conv:<conversation>: the call that holds it
          session,    \* call:session:<call>
          fresh,      \* call ids no client has drawn yet
          hand,       \* the handler running for each socket
          beat        \* where the refresh_presence of each socket is

vars == <<connected, presence, claim, session, fresh, hand, beat>>
calls == <<claim, session, fresh>>

NoClaim == [ttl |-> 0]
NoCall  == [state |-> "none"]
NoKey   == [set |-> FALSE, count |-> 0, lasts |-> FALSE]
Idle    == [pc |-> "idle"]
Joining == [pc |-> "joining"]
Leaving == [pc |-> "leaving"]
Free    == claim = NoClaim
Live(c) == session[c] # NoCall

CallPcs == {"claiming", "checking", "saving", "accepting", "touching", "extending",
            "ending", "releasing", "deleting"}

TypeOK ==
  /\ connected \subseteq Sockets
  /\ presence \in [Users -> [set : BOOLEAN, count : Int, lasts : BOOLEAN]]
  /\ claim \in {NoClaim} \cup [call : Calls, ttl : 1..ActiveTTL]
  /\ session \in [Calls -> {NoCall} \cup
       [state : {"ringing", "active"}, caller : Users, ttl : 1..ActiveTTL]]
  /\ fresh \subseteq Calls
  /\ hand \in [Sockets -> {Idle, Joining, Leaving} \cup [pc : CallPcs, call : Calls]]
  /\ beat \in [Sockets -> {"resting", "rejoining", "expiring"}]

Init ==
  /\ connected = {}
  /\ presence = [u \in Users |-> NoKey]
  /\ claim = NoClaim
  /\ session = [c \in Calls |-> NoCall]
  /\ fresh = Calls
  /\ hand = [s \in Sockets |-> Idle]
  /\ beat = [s \in Sockets |-> "resting"]

-----------------------------------------------------------------------------
Peer(s)    == CHOOSE u \in Users : u # Owner[s]
Present(u) == presence[u].count > 0
Busy       == {s \in Sockets : hand[s] # Idle}
At(s, pc)  == hand[s].pc = pc

Do(s, pc, c)  == hand' = [hand EXCEPT ![s] = [pc |-> pc, call |-> c]]
Finish(s)     == hand' = [hand EXCEPT ![s] = Idle]
Goto(s, pc)   == hand' = [hand EXCEPT ![s].pc = pc]
MayStart(s)   == s \in connected /\ hand[s] = Idle /\ Cardinality(Busy) < Concurrency

-----------------------------------------------------------------------------
(* Presence: how many sockets a user has, in a key that times out.  INCR   *)
(* and DECR make a missing key, without a TTL, and keep the TTL of one that*)
(* is there; EXPIRE does nothing to a missing key.                         *)
Count(u, n) ==
  presence' = [presence EXCEPT ![u] = [set |-> TRUE, count |-> @.count + n, lasts |-> @.lasts]]
Expire(u) == presence' = [presence EXCEPT ![u] = [@ EXCEPT !.lasts = presence[u].set]]
Unattended(u) == \A s \in connected : Owner[s] # u

(* join_presence: INCR, then EXPIRE.                                       *)
Connect(s) ==
  /\ s \notin connected /\ hand[s] = Idle
  /\ presence[Owner[s]].count < MaxPresence
  /\ connected' = connected \cup {s}
  /\ Count(Owner[s], 1)
  /\ hand' = [hand EXCEPT ![s] = Joining]
  /\ UNCHANGED <<calls, beat>>

Joined(s) ==
  /\ At(s, "joining")
  /\ Expire(Owner[s])
  /\ Finish(s)
  /\ UNCHANGED <<connected, calls, beat>>

(* Mutant: a missing key stays missing.                                    *)
KeepaliveExpireOnly(s) ==
  /\ s \in Beating \cap connected /\ ~ At(s, "joining") /\ beat[s] = "resting"
  /\ beat' = [beat EXCEPT ![s] = "expiring"]
  /\ UNCHANGED <<connected, presence, calls, hand>>

(* refresh_presence, every ten seconds beside what the socket does, and    *)
(* with every ping: a key that EXISTS is only made to last, a missing one  *)
(* is joined again.                                                        *)
Keepalive(s) ==
  /\ s \in Beating \cap connected /\ ~ At(s, "joining") /\ beat[s] = "resting"
  /\ beat' = [beat EXCEPT ![s] = IF presence[Owner[s]].set THEN "expiring" ELSE "rejoining"]
  /\ UNCHANGED <<connected, presence, calls, hand>>

Rejoin(s) ==
  /\ beat[s] = "rejoining"
  /\ Count(Owner[s], 1)
  /\ beat' = [beat EXCEPT ![s] = "expiring"]
  /\ UNCHANGED <<connected, calls, hand>>

Refreshed(s) ==
  /\ beat[s] = "expiring"
  /\ Expire(Owner[s])
  /\ beat' = [beat EXCEPT ![s] = "resting"]
  /\ UNCHANGED <<connected, calls, hand>>

Beat(s) == Keepalive(s) \/ Rejoin(s) \/ Refreshed(s)

(* The keepalive task is cancelled wherever it is; then leave_presence:    *)
(* decrement, and delete a count that is used up.                          *)
Disconnect(s) ==
  /\ s \in connected /\ hand[s] = Idle
  /\ connected' = connected \ {s}
  /\ Count(Owner[s], -1)
  /\ beat' = [beat EXCEPT ![s] = "resting"]
  /\ hand' = [hand EXCEPT ![s] = IF presence[Owner[s]].count > 1 THEN Idle ELSE Leaving]
  /\ UNCHANGED calls

DeletePresence(s) ==
  /\ At(s, "leaving")
  /\ presence' = [presence EXCEPT ![Owner[s]] = NoKey]
  /\ Finish(s)
  /\ UNCHANGED <<connected, calls, beat>>

(* A key with a TTL times out once no socket refreshes it any more, or     *)
(* when the server stalls for longer than that.                            *)
PresenceExpires(u) ==
  /\ presence[u].lasts
  /\ Lapses \/ Unattended(u)
  /\ presence' = [presence EXCEPT ![u] = NoKey]
  /\ UNCHANGED <<connected, calls, hand, beat>>

-----------------------------------------------------------------------------
(* invite: the peer is present, the conversation is claimed (SET NX), the  *)
(* peer is still present, the session is saved.                            *)
Invite(s, c) ==
  /\ MayStart(s)
  /\ c \in fresh
  /\ fresh' = fresh \ {c}
  /\ IF Present(Peer(s)) THEN Do(s, "claiming", c) ELSE UNCHANGED hand
  /\ UNCHANGED <<connected, presence, claim, session, beat>>

Claimable == Free

Claim(s) ==
  /\ At(s, "claiming")
  /\ IF Claimable
     THEN /\ claim' = [call |-> hand[s].call, ttl |-> RingTTL]
          /\ Goto(s, "checking")
     ELSE /\ Finish(s)
          /\ UNCHANGED claim
  /\ UNCHANGED <<connected, presence, session, fresh, beat>>

CheckAgain(s) ==
  /\ At(s, "checking")
  /\ Goto(s, IF Present(Peer(s)) THEN "saving" ELSE "releasing")
  /\ UNCHANGED <<connected, presence, calls, beat>>

Ring(s) ==
  /\ At(s, "saving")
  /\ session' = [session EXCEPT ![hand[s].call] =
                   [state |-> "ringing", caller |-> Owner[s], ttl |-> RingTTL]]
  /\ Finish(s)
  /\ UNCHANGED <<connected, presence, claim, fresh, beat>>

-----------------------------------------------------------------------------
(* accept, reject and hangup begin by reading the session.                 *)
Answers(s, c) == session[c].state = "ringing" /\ session[c].caller # Owner[s]

Accept(s, c) ==
  /\ MayStart(s) /\ Answers(s, c)
  /\ Do(s, "accepting", c)
  /\ UNCHANGED <<connected, presence, calls, beat>>

Reject(s, c) ==
  /\ MayStart(s) /\ Answers(s, c)
  /\ Do(s, "ending", c)
  /\ UNCHANGED <<connected, presence, calls, beat>>

HangUp(s, c) ==
  /\ MayStart(s) /\ Live(c)
  /\ Do(s, "ending", c)
  /\ UNCHANGED <<connected, presence, calls, beat>>

(* An accepted call is saved over whatever has become of the session, and  *)
(* its claim, if it still has one, lives as long.                          *)
Activate(s) ==
  /\ At(s, "accepting")
  /\ session' = [session EXCEPT ![hand[s].call] =
                   [state |-> "active", caller |-> Peer(s), ttl |-> ActiveTTL]]
  /\ Goto(s, "touching")
  /\ UNCHANGED <<connected, presence, claim, fresh, beat>>

Holds(c) == ~ Free /\ claim.call = c

Touch(s) ==
  /\ At(s, "touching")
  /\ IF Holds(hand[s].call) THEN Goto(s, "extending") ELSE Finish(s)
  /\ UNCHANGED <<connected, presence, calls, beat>>


Extend(s) ==
  /\ At(s, "extending")
  /\ claim' = IF Free THEN claim ELSE [claim EXCEPT !.ttl = ActiveTTL]
  /\ Finish(s)
  /\ UNCHANGED <<connected, presence, session, fresh, beat>>

(* _end_call: delete the session, and release the claim if it is the       *)
(* call's (a GET and then a DEL).                                          *)
End(s) ==
  /\ At(s, "ending")
  /\ session' = [session EXCEPT ![hand[s].call] = NoCall]
  /\ Goto(s, "releasing")
  /\ UNCHANGED <<connected, presence, claim, fresh, beat>>

(* Mutant: only the session of an ended call is cleaned up.                *)
ReleaseForgotten(s) ==
  /\ At(s, "releasing")
  /\ Finish(s)
  /\ UNCHANGED <<connected, presence, calls, beat>>

Release(s) ==
  /\ At(s, "releasing")
  /\ IF Holds(hand[s].call) THEN Goto(s, "deleting") ELSE Finish(s)
  /\ UNCHANGED <<connected, presence, calls, beat>>

DeleteClaim(s) ==
  /\ At(s, "deleting")
  /\ claim' = NoClaim
  /\ Finish(s)
  /\ UNCHANGED <<connected, presence, session, fresh, beat>>

-----------------------------------------------------------------------------
(* Time, and the death of the process that holds a socket.                 *)
Aged(entry, none) == IF entry.ttl = 1 THEN none ELSE [entry EXCEPT !.ttl = @ - 1]

Tick ==
  /\ Stalls \/ Busy = {}
  /\ ~ Free \/ \E c \in Calls : Live(c)
  /\ claim' = IF Free THEN claim ELSE Aged(claim, NoClaim)
  /\ session' = [c \in Calls |-> IF Live(c) THEN Aged(session[c], NoCall) ELSE NoCall]
  /\ UNCHANGED <<connected, presence, fresh, hand, beat>>

Crash(s) ==
  /\ Crashes
  /\ s \in connected \/ hand[s] # Idle
  /\ connected' = connected \ {s}
  /\ Finish(s)
  /\ beat' = [beat EXCEPT ![s] = "resting"]
  /\ UNCHANGED <<presence, calls>>

Continue(s) ==
  \/ Claim(s) \/ CheckAgain(s) \/ Ring(s)
  \/ Activate(s) \/ Touch(s) \/ Extend(s)
  \/ End(s) \/ Release(s) \/ DeleteClaim(s) \/ Joined(s) \/ DeletePresence(s)

Next ==
  \/ \E s \in Sockets : Connect(s) \/ Beat(s) \/ Disconnect(s) \/ Continue(s) \/ Crash(s)
  \/ \E u \in Users : PresenceExpires(u)
  \/ \E s \in Sockets, c \in Calls : Invite(s, c) \/ Accept(s, c) \/ Reject(s, c) \/ HangUp(s, c)
  \/ Tick

Spec == Init /\ [][Next]_vars

(* Time passes, a handler that started runs on (Redis answers), and the    *)
(* keepalive task of a connected socket runs; a TTL nobody renews is up.   *)
Fairness ==
  /\ WF_vars(Tick)
  /\ \A s \in Sockets : WF_vars(Continue(s)) /\ WF_vars(Beat(s))
  /\ \A u \in Users : WF_vars(Unattended(u) /\ PresenceExpires(u))
FairSpec == Spec /\ Fairness

-----------------------------------------------------------------------------
(* One signal at a time, a conversation holds at most one call, ringing or *)
(* active; between two signals it is claimed exactly for its call, and the *)
(* two run out together, so an unanswered call never frees the line and    *)
(* still rings (messages/calls.py, claim_conversation to delete_session).  *)
OneCall == \A c, d \in Calls : Live(c) /\ Live(d) => c = d
ClaimedByItsCall ==
  Busy = {} => \A c \in Calls : Live(c) <=> Holds(c)
RunOutTogether ==
  Busy = {} /\ ~ Free => session[claim.call].ttl = claim.ttl
ClaimsMatchCalls == OneCall /\ ClaimedByItsCall /\ RunOutTogether

(* Whatever races or crashes, a conversation does not stay busy without a  *)
(* call to hang up: the claim runs out (claim_conversation's ex=ttl).      *)
BusyWithoutCall == ~ Free /\ ~ Live(claim.call)
EventuallyFreed == BusyWithoutCall ~> ~ BusyWithoutCall

(* Someone with an open socket is reachable, or is again after a keepalive *)
(* once their devices stop coming and going, whatever departures and       *)
(* stalls did to the counter: only a departure whose process died before   *)
(* its DEL stands in the way: the used-up count it leaves is there, and is *)
(* only made to last (leave_presence, refresh_presence).                   *)
Moving(u) == \E s \in Sockets : Owner[s] = u /\ (At(s, "joining") \/ At(s, "leaving"))
UsedUp(u) ==
  /\ presence[u].set /\ ~ Present(u)
  /\ \A s \in Sockets : At(s, "leaving") => Owner[s] # u
EventuallyReachable ==
  \A u \in Users :
    ~ Unattended(u) ~> (Present(u) \/ UsedUp(u) \/ Moving(u) \/ Unattended(u))

(* Nobody stays reachable without a socket: a count a crash left behind    *)
(* runs out (PRESENCE_TTL_SECONDS).  Only a process that died between the  *)
(* INCR that made the key and its EXPIRE leaves a count nothing takes back *)
(* (join_presence).                                                        *)
Undying(u) ==
  /\ presence[u].set /\ ~ presence[u].lasts
  /\ Unattended(u) /\ \A s \in Sockets : At(s, "leaving") => Owner[s] # u
EventuallyUnreachable ==
  \A u \in Users : (Present(u) /\ Unattended(u)) ~> (~ Present(u) \/ ~ Unattended(u) \/ Undying(u))

(* Unless a process dies, neither kind of count is ever left behind,       *)
(* however the devices of a user come, refresh and go at the same time     *)
(* (join_presence, refresh_presence, leave_presence).                      *)
NoCountLeftBehind == ~ Crashes => \A u \in Users : ~ UsedUp(u) /\ ~ Undying(u)
=============================================================================
