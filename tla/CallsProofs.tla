---------------------------- MODULE CallsProofs ----------------------------
(***************************************************************************)
(* Proofs about Calls.                                                     *)
(*                                                                         *)
(* Between the commands of one signal the claim and the session of a chat  *)
(* are out of step on purpose: Stage says by how much, for each point a    *)
(* handler can have reached.  Presence has no part in it, nor has a socket *)
(* that comes or leaves.                                                   *)
(***************************************************************************)
EXTENDS Calls, FiniteSetTheorems, TLAPS

(* Every signal is handled before the next and before the clock moves.     *)
OneSignalAtATime == Concurrency = 1 /\ ~ Crashes /\ ~ Stalls

ClaimRow   == [call : Calls, ttl : 1..ActiveTTL]
SessionRow == [state : {"ringing", "active"}, caller : Users, ttl : 1..ActiveTTL]
CallHand   == [pc : CallPcs, call : Calls]
Aloof      == {Idle, Joining, Leaving}
InCall(s)  == hand[s].pc \in CallPcs
PresenceRow == [set : BOOLEAN, count : Int, lasts : BOOLEAN]
Beats       == {"resting", "rejoining", "expiring"}

(* What moves presence, and neither starts nor continues a signal.         *)
ComeAndGo(s) == Connect(s) \/ Joined(s) \/ Beat(s) \/ Disconnect(s) \/ DeletePresence(s)

InStep ==
  /\ \A c \in Calls : Live(c) <=> Holds(c)
  /\ ~ Free => session[claim.call].ttl = claim.ttl
Silent == \A c \in Calls : ~ Live(c)

Stage(pc, c) ==
  /\ c \notin fresh
  /\ pc = "claiming" => InStep /\ ~ Live(c)
  /\ pc \in {"checking", "saving"} => Silent /\ Holds(c) /\ claim.ttl = RingTTL
  /\ pc \in {"accepting", "ending"} => InStep /\ Live(c)
  /\ pc \in {"touching", "extending"} =>
       /\ Live(c) /\ session[c].ttl = ActiveTTL /\ Holds(c)
       /\ \A d \in Calls : Live(d) => d = c
  /\ pc \in {"releasing", "deleting"} => Silent /\ Holds(c)

Signals ==
  /\ \A c \in fresh : ~ Live(c)
  /\ \A s, t \in Sockets : InCall(s) /\ InCall(t) => s = t
  /\ (\A s \in Sockets : ~ InCall(s)) => InStep
  /\ \A s \in Sockets : InCall(s) => Stage(hand[s].pc, hand[s].call)

-----------------------------------------------------------------------------
LEMMA AloofIsNoCall == \A h \in Aloof : h.pc \notin CallPcs
<1>1. Idle.pc \notin CallPcs /\ Joining.pc \notin CallPcs /\ Leaving.pc \notin CallPcs
  BY DEF Idle, Joining, Leaving, CallPcs
<1>2. QED
  BY <1>1 DEF Aloof

LEMMA HandShapes ==
  ASSUME TypeOK, NEW s \in Sockets
  PROVE  /\ InCall(s) => hand[s] \in CallHand /\ hand[s].call \in Calls
         /\ ~ InCall(s) => hand[s] \in Aloof
<1>1. hand[s] \in CallHand \/ hand[s] \in Aloof
  BY DEF TypeOK, CallHand, Aloof
<1>2. hand[s] \in CallHand => hand[s].pc \in CallPcs /\ hand[s].call \in Calls
  BY DEF CallHand
<1>3. QED
  BY <1>1, <1>2, AloofIsNoCall DEF InCall

LEMMA SessionShapes ==
  ASSUME NEW r \in SessionRow
  PROVE  /\ r # NoCall /\ r.ttl \in 1..ActiveTTL
         /\ r = [state |-> r.state, caller |-> r.caller, ttl |-> r.ttl]
         /\ r.state \in {"ringing", "active"} /\ r.caller \in Users
<1>1. r.state # NoCall.state
  BY DEF SessionRow, NoCall
<1>2. QED
  BY <1>1 DEF SessionRow

LEMMA ClaimShapes ==
  ASSUME NEW r \in ClaimRow
  PROVE  /\ r # NoClaim /\ r.ttl \in 1..ActiveTTL /\ r.call \in Calls
         /\ r = [call |-> r.call, ttl |-> r.ttl]
<1>1. r.ttl # NoClaim.ttl
  BY DEF ClaimRow, NoClaim
<1>2. QED
  BY <1>1 DEF ClaimRow

LEMMA Held ==
  ASSUME TypeOK
  PROVE  /\ ~ Free => claim \in ClaimRow
         /\ \A c \in Calls : Live(c) => session[c] \in SessionRow
  BY DEF TypeOK, Free, Live, ClaimRow, SessionRow

(* Time takes a tick from a session, or the session.                       *)
LEMMA AgedSession ==
  ASSUME NEW r \in SessionRow
  PROVE  /\ r.ttl = 1 => Aged(r, NoCall) = NoCall
         /\ r.ttl # 1 => Aged(r, NoCall) \in SessionRow /\ Aged(r, NoCall).ttl = r.ttl - 1
<1>1. CASE r.ttl = 1
  BY <1>1 DEF Aged
<1>2. CASE r.ttl # 1
  <2> DEFINE new == [state |-> r.state, caller |-> r.caller, ttl |-> r.ttl - 1]
  <2>1. Aged(r, NoCall) = new
    BY <1>2, SessionShapes DEF Aged
  <2>2. r.ttl - 1 \in 1..ActiveTTL
    BY <1>2, SessionShapes, TTLAssumption
  <2>3. new \in SessionRow /\ new.ttl = r.ttl - 1
    BY <2>2, SessionShapes DEF SessionRow
  <2>4. QED
    BY <1>2, <2>1, <2>3
<1>3. QED
  BY <1>1, <1>2

LEMMA AgedClaim ==
  ASSUME NEW r \in ClaimRow
  PROVE  /\ r.ttl = 1 => Aged(r, NoClaim) = NoClaim
         /\ r.ttl # 1 => /\ Aged(r, NoClaim) \in ClaimRow /\ Aged(r, NoClaim).ttl = r.ttl - 1
                         /\ Aged(r, NoClaim).call = r.call
<1>1. CASE r.ttl = 1
  BY <1>1 DEF Aged
<1>2. CASE r.ttl # 1
  <2> DEFINE new == [call |-> r.call, ttl |-> r.ttl - 1]
  <2>1. Aged(r, NoClaim) = new
    BY <1>2, ClaimShapes DEF Aged
  <2>2. r.ttl - 1 \in 1..ActiveTTL
    BY <1>2, ClaimShapes, TTLAssumption
  <2>3. new \in ClaimRow /\ new.ttl = r.ttl - 1 /\ new.call = r.call
    BY <2>2, ClaimShapes DEF ClaimRow
  <2>4. QED
    BY <1>2, <2>1, <2>3
<1>3. QED
  BY <1>1, <1>2

LEMMA PeerIsAUser ==
  ASSUME NEW s \in Sockets
  PROVE  Owner[s] \in Users /\ Peer(s) \in Users
<1>1. \E u \in Users : u # Owner[s]
  BY PeopleAssumption
<1>2. QED
  BY <1>1, OwnerAssumption DEF Peer

(* The handler of a socket goes on to its next command.                    *)
LEMMA Stepping ==
  ASSUME TypeOK, NEW s \in Sockets, InCall(s), NEW pc \in CallPcs, Goto(s, pc)
  PROVE  /\ hand' \in [Sockets -> Aloof \cup CallHand]
         /\ hand'[s].pc = pc /\ hand'[s].call = hand[s].call
         /\ \A t \in Sockets : t # s => hand'[t] = hand[t]
<1> DEFINE r == hand[s]
           new == [pc |-> pc, call |-> r.call]
<1>1. r \in CallHand
  BY HandShapes
<1>2. r = [pc |-> r.pc, call |-> r.call] /\ r.call \in Calls
  BY <1>1 DEF CallHand
<1>3. [r EXCEPT !.pc = pc] = new
  BY <1>2
<1>4. new \in CallHand /\ new.pc = pc /\ new.call = r.call
  BY <1>2 DEF CallHand
<1> HIDE DEF new
<1>5. hand' = [hand EXCEPT ![s] = new]
  BY <1>3 DEF Goto, TypeOK
<1>6. QED
  BY <1>4, <1>5 DEF TypeOK, CallHand, Aloof

LEMMA Finishing ==
  ASSUME TypeOK, NEW s \in Sockets, Finish(s)
  PROVE  /\ hand' \in [Sockets -> Aloof \cup CallHand]
         /\ hand'[s] = Idle
         /\ \A t \in Sockets : t # s => hand'[t] = hand[t]
  BY DEF Finish, TypeOK, CallHand, Aloof

LEMMA Starting ==
  ASSUME TypeOK, NEW s \in Sockets, NEW pc \in CallPcs, NEW c \in Calls, Do(s, pc, c)
  PROVE  /\ hand' \in [Sockets -> Aloof \cup CallHand]
         /\ hand'[s].pc = pc /\ hand'[s].call = c
         /\ \A t \in Sockets : t # s => hand'[t] = hand[t]
<1> DEFINE new == [pc |-> pc, call |-> c]
<1>1. new \in CallHand /\ new.pc = pc /\ new.call = c
  BY DEF CallHand
<1>2. hand' = [hand EXCEPT ![s] = new]
  BY DEF Do
<1> HIDE DEF new
<1>3. QED
  BY <1>1, <1>2 DEF TypeOK, CallHand, Aloof

-----------------------------------------------------------------------------
(* Presence counts whatever it counts.                                     *)
LEMMA Counting ==
  ASSUME TypeOK, NEW u \in Users, NEW n \in Int, Count(u, n)
  PROVE  presence' \in [Users -> PresenceRow]
<1> DEFINE r == presence[u]
           new == [set |-> TRUE, count |-> r.count + n, lasts |-> r.lasts]
<1>1. r \in PresenceRow
  BY DEF TypeOK, PresenceRow
<1>2. new \in PresenceRow
  BY <1>1 DEF PresenceRow
<1>3. presence' = [presence EXCEPT ![u] = new]
  BY DEF Count
<1> HIDE DEF new
<1>4. QED
  BY <1>2, <1>3 DEF TypeOK, PresenceRow

LEMMA Expiring ==
  ASSUME TypeOK, NEW u \in Users, Expire(u)
  PROVE  presence' \in [Users -> PresenceRow]
<1> DEFINE r == presence[u]
           new == [set |-> r.set, count |-> r.count, lasts |-> r.set]
<1>1. r \in PresenceRow
  BY DEF TypeOK, PresenceRow
<1>2. [r EXCEPT !.lasts = r.set] = new /\ new \in PresenceRow
  BY <1>1 DEF PresenceRow
<1> HIDE DEF new
<1>3. presence' = [presence EXCEPT ![u] = new]
  BY <1>2 DEF Expire
<1>4. QED
  BY <1>2, <1>3 DEF TypeOK, PresenceRow

LEMMA Vanishing ==
  ASSUME TypeOK, NEW u \in Users, presence' = [presence EXCEPT ![u] = NoKey]
  PROVE  presence' \in [Users -> PresenceRow]
<1>1. NoKey \in PresenceRow
  BY DEF NoKey, PresenceRow
<1>2. QED
  BY <1>1 DEF TypeOK, PresenceRow

LEMMA InitType == Init => TypeOK
<1> SUFFICES ASSUME Init PROVE TypeOK
  OBVIOUS
<1>1. connected \subseteq Sockets /\ fresh \subseteq Calls
  BY DEF Init
<1>2. presence \in [Users -> [set : BOOLEAN, count : Int, lasts : BOOLEAN]]
  BY DEF Init, NoKey
<1>3. claim \in {NoClaim} \cup [call : Calls, ttl : 1..ActiveTTL]
  BY DEF Init
<1>4. session \in [Calls -> {NoCall} \cup
                     [state : {"ringing", "active"}, caller : Users, ttl : 1..ActiveTTL]]
  BY DEF Init
<1>5. hand \in [Sockets -> {Idle, Joining, Leaving} \cup [pc : CallPcs, call : Calls]]
  BY DEF Init
<1>6. beat \in [Sockets -> {"resting", "rejoining", "expiring"}]
  BY DEF Init
<1>7. QED
  BY <1>1, <1>2, <1>3, <1>4, <1>5, <1>6 DEF TypeOK

LEMMA TypeStep == TypeOK /\ [Next]_vars => TypeOK'
<1> SUFFICES ASSUME TypeOK, [Next]_vars PROVE TypeOK'
  OBVIOUS
<1> DEFINE HandType == hand' \in [Sockets -> Aloof \cup CallHand]
           SessionType == session' \in [Calls -> {NoCall} \cup SessionRow]
           ClaimType == claim' \in {NoClaim} \cup ClaimRow
           PresenceType == presence' \in [Users -> PresenceRow]
           BeatType == beat' \in [Sockets -> Beats]
<1>1. ASSUME connected' \subseteq Sockets, fresh' \subseteq Calls, HandType, SessionType, ClaimType, PresenceType, BeatType
      PROVE  TypeOK'
  BY <1>1 DEF TypeOK, CallHand, SessionRow, ClaimRow, PresenceRow, Aloof, Beats
<1>2. /\ hand' = hand => HandType
      /\ session' = session => SessionType
      /\ claim' = claim => ClaimType
      /\ presence' = presence => PresenceType
      /\ beat' = beat => BeatType
      /\ connected' = connected => connected' \subseteq Sockets
      /\ fresh' = fresh => fresh' \subseteq Calls
  BY DEF TypeOK, CallHand, SessionRow, ClaimRow, PresenceRow, Aloof, Beats
<1> HIDE DEF HandType, SessionType, ClaimType, PresenceType, BeatType
<1>3. \A u \in Users : /\ \A n \in Int : Count(u, n) => PresenceType
                       /\ Expire(u) => PresenceType
                       /\ presence' = [presence EXCEPT ![u] = NoKey] => PresenceType
  BY Counting, Expiring, Vanishing DEF PresenceType
<1>4. \A s \in Sockets : Finish(s) => HandType
  BY Finishing DEF HandType
<1>5. \A s \in Sockets, pc \in CallPcs : InCall(s) /\ Goto(s, pc) => HandType
  BY Stepping DEF HandType
<1>6. \A s \in Sockets, pc \in CallPcs, c \in Calls : Do(s, pc, c) => HandType
  BY Starting DEF HandType
<1>7. \A c \in Calls, r \in SessionRow \cup {NoCall} : session' = [session EXCEPT ![c] = r] => SessionType
  BY DEF SessionType, TypeOK, SessionRow
<1>8. \A s \in Sockets : Owner[s] \in Users /\ Peer(s) \in Users
  BY PeerIsAUser
<1>9. RingTTL \in 1..ActiveTTL /\ ActiveTTL \in 1..ActiveTTL
  BY TTLAssumption
<1>10. \A s \in Sockets : InCall(s) => hand[s].call \in Calls
  BY HandShapes
<1>11. ASSUME NEW s \in Sockets, ComeAndGo(s) PROVE TypeOK'
  <2> USE DEF Beat
  <2>1. connected' \subseteq Sockets /\ UNCHANGED calls
    BY <1>2, <1>11 DEF ComeAndGo, Connect, Joined, Keepalive, Rejoin, Refreshed, Disconnect, DeletePresence, TypeOK, calls
  <2>2. PresenceType
    <3> DEFINE u == Owner[s]
    <3>1. \/ presence' = presence \/ Count(u, 1) \/ Count(u, -1) \/ Expire(u)
          \/ presence' = [presence EXCEPT ![u] = NoKey]
      BY <1>11 DEF ComeAndGo, Connect, Joined, Keepalive, Rejoin, Refreshed, Disconnect, DeletePresence
    <3>2. u \in Users /\ 1 \in Int /\ -1 \in Int
      BY <1>8
    <3>3. QED
      BY <1>2, <1>3, <3>1, <3>2
  <2>3. HandType
    <3>1. hand' = hand \/ \E h \in Aloof : hand' = [hand EXCEPT ![s] = h]
      BY <1>11 DEF ComeAndGo, Connect, Joined, Keepalive, Rejoin, Refreshed, Disconnect, DeletePresence, Finish, Aloof
    <3>2. QED
      BY <1>2, <3>1 DEF TypeOK, HandType, CallHand, Aloof
  <2>4. BeatType
    <3>1. beat' = beat \/ \E b \in Beats : beat' = [beat EXCEPT ![s] = b]
      BY <1>11 DEF ComeAndGo, Connect, Joined, Keepalive, Rejoin, Refreshed, Disconnect, DeletePresence, Beats
    <3>2. QED
      BY <1>2, <3>1 DEF TypeOK, BeatType, Beats
  <2>5. QED
    BY <1>1, <1>2, <2>1, <2>2, <2>3, <2>4 DEF calls
<1>12. ASSUME NEW u \in Users, PresenceExpires(u) PROVE TypeOK'
  <2>1. PresenceType
    BY <1>3, <1>12 DEF PresenceExpires
  <2>2. QED
    BY <1>1, <1>2, <1>12, <2>1 DEF PresenceExpires, calls
<1>13. ASSUME NEW s \in Sockets, NEW c \in Calls, Invite(s, c) PROVE TypeOK'
  <2>1. fresh' \subseteq Calls /\ (hand' = hand \/ Do(s, "claiming", c))
    BY <1>13 DEF Invite, TypeOK
  <2>2. HandType
    BY <1>2, <1>6, <2>1 DEF CallPcs
  <2>3. QED
    BY <1>1, <1>2, <1>13, <2>1, <2>2 DEF Invite
<1>14. ASSUME NEW s \in Sockets, NEW c \in Calls, Accept(s, c) \/ Reject(s, c) \/ HangUp(s, c) PROVE TypeOK'
  <2>1. Do(s, "accepting", c) \/ Do(s, "ending", c)
    BY <1>14 DEF Accept, Reject, HangUp
  <2>2. HandType
    BY <1>6, <2>1 DEF CallPcs
  <2>3. QED
    BY <1>1, <1>2, <1>14, <2>2 DEF Accept, Reject, HangUp, calls
<1>15. ASSUME NEW s \in Sockets, CheckAgain(s) \/ Touch(s) \/ Release(s) PROVE TypeOK'
  <2>1. InCall(s)
    BY <1>15 DEF CheckAgain, Touch, Release, At, InCall, CallPcs
  <2>2. Finish(s) \/ \E pc \in CallPcs : Goto(s, pc)
    <3>1. CASE CheckAgain(s)
      <4>1. Goto(s, "saving") \/ Goto(s, "releasing")
        BY <3>1 DEF CheckAgain
      <4>2. QED
        BY <4>1 DEF CallPcs
    <3>2. CASE Touch(s)
      BY <3>2 DEF Touch, CallPcs
    <3>3. CASE Release(s)
      BY <3>3 DEF Release, CallPcs
    <3>4. QED
      BY <1>15, <3>1, <3>2, <3>3
  <2>3. HandType
    BY <1>4, <1>5, <2>1, <2>2
  <2>4. QED
    BY <1>1, <1>2, <1>15, <2>3 DEF CheckAgain, Touch, Release, calls
<1>16. ASSUME NEW s \in Sockets, Claim(s) \/ Extend(s) \/ DeleteClaim(s) PROVE TypeOK'
  <2>1. InCall(s)
    BY <1>16 DEF Claim, Extend, DeleteClaim, At, InCall, CallPcs
  <2>2. HandType
    BY <1>4, <1>5, <1>16, <2>1 DEF Claim, Extend, DeleteClaim, CallPcs
  <2>3. ClaimType
    <3>1. CASE Claim(s)
      <4>1. claim' = claim \/ claim' = [call |-> hand[s].call, ttl |-> RingTTL]
        BY <3>1 DEF Claim
      <4>2. QED
        BY <1>2, <1>9, <1>10, <2>1, <4>1 DEF ClaimType, ClaimRow
    <3>2. CASE Extend(s)
      <4>1. CASE Free
        BY <1>2, <3>2, <4>1 DEF Extend
      <4>2. CASE ~ Free
        <5>1. claim \in ClaimRow /\ claim' = [claim EXCEPT !.ttl = ActiveTTL]
          BY <3>2, <4>2, Held DEF Extend
        <5>2. claim' \in ClaimRow
          BY <1>9, <5>1 DEF ClaimRow
        <5>3. QED
          BY <5>2 DEF ClaimType
      <4>3. QED
        BY <4>1, <4>2
    <3>3. CASE DeleteClaim(s)
      BY <3>3 DEF DeleteClaim, ClaimType
    <3>4. QED
      BY <1>16, <3>1, <3>2, <3>3
  <2>4. QED
    BY <1>1, <1>2, <1>16, <2>2, <2>3 DEF Claim, Extend, DeleteClaim
<1>17. ASSUME NEW s \in Sockets, Ring(s) \/ Activate(s) \/ End(s) PROVE TypeOK'
  <2>1. InCall(s)
    BY <1>17 DEF Ring, Activate, End, At, InCall, CallPcs
  <2>2. HandType
    BY <1>4, <1>5, <1>17, <2>1 DEF Ring, Activate, End, CallPcs
  <2>3. \E r \in SessionRow \cup {NoCall} : session' = [session EXCEPT ![hand[s].call] = r]
    <3>1. CASE Ring(s)
      <4>1. [state |-> "ringing", caller |-> Owner[s], ttl |-> RingTTL] \in SessionRow
        BY <1>8, <1>9 DEF SessionRow
      <4>2. QED
        BY <3>1, <4>1 DEF Ring
    <3>2. CASE Activate(s)
      <4>1. [state |-> "active", caller |-> Peer(s), ttl |-> ActiveTTL] \in SessionRow
        BY <1>8, <1>9 DEF SessionRow
      <4>2. QED
        BY <3>2, <4>1 DEF Activate
    <3>3. CASE End(s)
      BY <3>3 DEF End
    <3>4. QED
      BY <1>17, <3>1, <3>2, <3>3
  <2>4. SessionType
    BY <1>7, <1>10, <2>1, <2>3
  <2>5. QED
    BY <1>1, <1>2, <1>17, <2>2, <2>4 DEF Ring, Activate, End
<1>18. CASE Tick
  <2>1. ClaimType
    <3>1. CASE Free
      BY <1>2, <1>18, <3>1 DEF Tick
    <3>2. CASE ~ Free
      <4>1. claim \in ClaimRow /\ claim' = Aged(claim, NoClaim)
        BY <1>18, <3>2, Held DEF Tick
      <4>2. QED
        BY <4>1, AgedClaim DEF ClaimType
    <3>3. QED
      BY <3>1, <3>2
  <2>2. SessionType
    <3>1. \A c \in Calls : (IF Live(c) THEN Aged(session[c], NoCall) ELSE NoCall) \in {NoCall} \cup SessionRow
      BY Held, AgedSession
    <3>2. session' = [c \in Calls |-> IF Live(c) THEN Aged(session[c], NoCall) ELSE NoCall]
      BY <1>18 DEF Tick
    <3>3. QED
      BY <3>1, <3>2 DEF SessionType
  <2>3. QED
    BY <1>1, <1>2, <1>18, <2>1, <2>2 DEF Tick
<1>19. ASSUME NEW s \in Sockets, Crash(s) PROVE TypeOK'
  <2>1. connected' \subseteq Sockets /\ HandType /\ BeatType
    BY <1>4, <1>19 DEF Crash, TypeOK, BeatType, Beats
  <2>2. QED
    BY <1>1, <1>2, <1>19, <2>1 DEF Crash, calls
<1>20. CASE UNCHANGED vars
  BY <1>1, <1>2, <1>20 DEF vars
<1>21. QED
  BY <1>11, <1>12, <1>13, <1>14, <1>15, <1>16, <1>17, <1>18, <1>19, <1>20 DEF Next, Continue, ComeAndGo

(* The type invariant, however signals overlap and whatever crashes.       *)
THEOREM TypeCorrect == Spec => []TypeOK
  BY InitType, TypeStep, PTL DEF Spec

-----------------------------------------------------------------------------
LEMMA InitSignals == Init => Signals
<1> SUFFICES ASSUME Init PROVE Signals
  OBVIOUS
<1>1. (\A c \in Calls : ~ Live(c)) /\ Free /\ \A s \in Sockets : ~ InCall(s)
  BY DEF Init, Live, Free, InCall, Idle, CallPcs
<1>2. fresh = Calls
  BY DEF Init
<1>3. InStep
  BY <1>1 DEF InStep, Holds
<1>4. QED
  BY <1>1, <1>2, <1>3 DEF Signals

(* A step that neither starts nor continues a signal.                      *)
LEMMA Aside ==
  ASSUME Signals, UNCHANGED <<claim, session, fresh>>,
         \A s \in Sockets : hand'[s] = hand[s] \/ (~ InCall(s) /\ ~ InCall(s)')
  PROVE  Signals'
<1>1. \A s \in Sockets : InCall(s)' <=> InCall(s)
  BY DEF InCall
<1>2. InStep' = InStep /\ \A pc, c : Stage(pc, c)' = Stage(pc, c)
  BY DEF InStep, Stage, Live, Holds, Free, Silent
<1>3. \A s \in Sockets : InCall(s) => hand'[s] = hand[s]
  OBVIOUS
<1>4. \A c \in fresh' : ~ Live(c)'
  BY DEF Signals, Live
<1>5. \A s, t \in Sockets : InCall(s)' /\ InCall(t)' => s = t
  BY <1>1 DEF Signals
<1>6. (\A s \in Sockets : ~ InCall(s)') => InStep'
  BY <1>1, <1>2 DEF Signals
<1>7. \A s \in Sockets : InCall(s)' => Stage(hand[s].pc, hand[s].call)'
  <2> SUFFICES ASSUME NEW s \in Sockets, InCall(s)' PROVE Stage(hand[s].pc, hand[s].call)'
    OBVIOUS
  <2>1. Stage(hand[s].pc, hand[s].call) /\ hand'[s] = hand[s]
    BY <1>1, <1>3 DEF Signals
  <2>2. QED
    BY <2>1 DEF InStep, Stage, Live, Holds, Free, Silent
<1>8. QED
  BY <1>4, <1>5, <1>6, <1>7 DEF Signals

(* A signal that starts finds the chat in step.                            *)
LEMMA Quiet ==
  ASSUME OneSignalAtATime, Signals, NEW s \in Sockets, MayStart(s)
  PROVE  InStep /\ \A t \in Sockets : hand[t] = Idle /\ ~ InCall(t)
<1>1. IsFiniteSet(Busy) /\ Cardinality(Busy) < 1
  BY OwnerAssumption, FS_Subset DEF OneSignalAtATime, MayStart, Busy
<1>2. Busy = {}
  BY <1>1, FS_EmptySet, FS_CardinalityType
<1>3. \A t \in Sockets : hand[t] = Idle /\ ~ InCall(t)
  BY <1>2 DEF Busy, InCall, Idle, CallPcs
<1>4. QED
  BY <1>3 DEF Signals

(* The one signal under way starts, reaches its next stage, or ends.       *)
LEMMA Reached ==
  ASSUME NEW s \in Sockets, NEW pc \in CallPcs, NEW c \in Calls,
         \A t \in Sockets : t # s => ~ InCall(t) /\ hand'[t] = hand[t],
         hand'[s].pc = pc, hand'[s].call = c, Stage(pc, c)',
         \A d \in fresh' : ~ Live(d)'
  PROVE  Signals'
<1>1. \A t \in Sockets : InCall(t)' <=> t = s
  BY DEF InCall
<1>2. \A t \in Sockets : InCall(t)' => Stage(hand[t].pc, hand[t].call)'
  BY <1>1 DEF Stage, InStep, Silent, Live, Holds, Free
<1>3. QED
  BY <1>1, <1>2 DEF Signals

LEMMA Ended ==
  ASSUME NEW s \in Sockets, \A t \in Sockets : t # s => ~ InCall(t) /\ hand'[t] = hand[t],
         hand'[s] = Idle, InStep', \A d \in fresh' : ~ Live(d)'
  PROVE  Signals'
<1>1. \A t \in Sockets : ~ InCall(t)'
  BY DEF InCall, Idle, CallPcs
<1>2. QED
  BY <1>1 DEF Signals

(* What is known of the signal that takes a step.                          *)
LEMMA Underway ==
  ASSUME TypeOK, Signals, NEW s \in Sockets, NEW pc \in CallPcs, At(s, pc)
  PROVE  /\ InCall(s) /\ hand[s].call \in Calls
         /\ Stage(pc, hand[s].call)
         /\ \A t \in Sockets : t # s => ~ InCall(t)
         /\ \A d \in fresh : ~ Live(d)
  BY HandShapes DEF At, InCall, Signals

LEMMA SignalStarts ==
  ASSUME OneSignalAtATime, TypeOK, Signals, NEW s \in Sockets, NEW c \in Calls,
         Invite(s, c) \/ Accept(s, c) \/ Reject(s, c) \/ HangUp(s, c)
  PROVE  Signals'
<1>1. InStep /\ (\A t \in Sockets : ~ InCall(t)) /\ UNCHANGED <<claim, session>> /\ \A d \in fresh : ~ Live(d)
  BY Quiet DEF Invite, Accept, Reject, HangUp, Signals, calls
<1>2. InStep' /\ \A d : Live(d)' = Live(d)
  BY <1>1 DEF InStep, Live, Holds, Free
<1>3. CASE Invite(s, c)
  <2>1. ~ Live(c) /\ fresh' = fresh \ {c} /\ \A d \in fresh' : ~ Live(d)'
    BY <1>1, <1>2, <1>3 DEF Invite
  <2>2. CASE hand' = hand
    <3>1. \A t \in Sockets : ~ InCall(t)'
      BY <1>1, <2>2 DEF InCall
    <3>2. QED
      BY <1>2, <2>1, <3>1 DEF Signals
  <2>3. CASE Do(s, "claiming", c)
    <3>1. Stage("claiming", c)'
      BY <1>2, <2>1 DEF Stage
    <3>2. "claiming" \in CallPcs
      BY DEF CallPcs
    <3>3. QED
      BY <1>1, <2>1, <2>3, <3>1, <3>2, Starting, Reached
  <2>4. QED
    BY <1>3, <2>2, <2>3 DEF Invite
<1>4. CASE Accept(s, c) \/ Reject(s, c) \/ HangUp(s, c)
  <2>1. Live(c) /\ fresh' = fresh /\ (Do(s, "accepting", c) \/ Do(s, "ending", c))
    BY <1>4 DEF Accept, Reject, HangUp, Answers, Live, NoCall, calls
  <2>2. Stage("accepting", c)' /\ Stage("ending", c)'
    BY <1>1, <1>2, <2>1 DEF Stage
  <2>3. "accepting" \in CallPcs /\ "ending" \in CallPcs
    BY DEF CallPcs
  <2>4. \A d \in fresh' : ~ Live(d)'
    BY <1>1, <1>2, <2>1
  <2>5. CASE Do(s, "accepting", c)
    BY <1>1, <2>2, <2>3, <2>4, <2>5, Starting, Reached
  <2>6. CASE Do(s, "ending", c)
    BY <1>1, <2>2, <2>3, <2>4, <2>6, Starting, Reached
  <2>7. QED
    BY <2>1, <2>5, <2>6
<1>5. QED
  BY <1>3, <1>4

(* The commands of an invitation.                                          *)
LEMMA Inviting ==
  ASSUME TypeOK, Signals, NEW s \in Sockets, Claim(s) \/ CheckAgain(s) \/ Ring(s)
  PROVE  Signals'
<1>0. PICK c \in Calls : c = hand[s].call
  <2>1. InCall(s)
    BY DEF Claim, CheckAgain, Ring, At, InCall, CallPcs
  <2>2. QED
    BY <2>1, HandShapes
<1>1. CASE Claim(s)
  <2>1. At(s, "claiming") /\ "claiming" \in CallPcs /\ "checking" \in CallPcs /\ UNCHANGED <<session, fresh>>
    BY <1>0, <1>1 DEF Claim, CallPcs
  <2>2. /\ InCall(s) /\ c \in Calls /\ Stage("claiming", c)
        /\ \A t \in Sockets : t # s => ~ InCall(t)
        /\ \A d \in fresh : ~ Live(d)
    BY <1>0, <2>1, Underway
  <2>3. InStep /\ ~ Live(c) /\ c \notin fresh
    BY <2>2 DEF Stage
  <2>4. (\A d : Live(d)' = Live(d)) /\ \A d \in fresh' : ~ Live(d)'
    BY <2>1, <2>2 DEF Live
  <2>5. CASE Free
    <3>1. claim' = [call |-> c, ttl |-> RingTTL] /\ Goto(s, "checking")
      BY <1>0, <1>1, <2>5 DEF Claim, Claimable
    <3>2. Silent'
      BY <2>3, <2>4, <2>5 DEF InStep, Silent, Holds
    <3>3. Holds(c)' /\ claim'.ttl = RingTTL
      <4>1. claim'.ttl # NoClaim.ttl
        BY <3>1, TTLAssumption DEF NoClaim
      <4>2. claim' # NoClaim
        BY <4>1
      <4>3. QED
        BY <3>1, <4>2 DEF Holds, Free
    <3>4. hand'[s].pc = "checking" /\ hand'[s].call = c /\ \A t \in Sockets : t # s => hand'[t] = hand[t]
      BY <2>1, <2>2, <3>1, Stepping, <1>0
    <3>5. Stage("checking", c)'
      BY <2>1, <2>3, <3>2, <3>3 DEF Stage
    <3>6. QED
      BY <2>1, <2>2, <2>4, <3>4, <3>5, Reached
  <2>6. CASE ~ Free
    <3>1. Finish(s) /\ claim' = claim
      BY <1>1, <2>6 DEF Claim, Claimable
    <3>2. InStep'
      BY <2>1, <2>3, <3>1 DEF InStep, Live, Holds, Free
    <3>3. QED
      BY <2>2, <2>4, <3>1, <3>2, Finishing, Ended
  <2>7. QED
    BY <2>5, <2>6
<1>2. CASE CheckAgain(s)
  <2>1. /\ At(s, "checking") /\ UNCHANGED <<session, claim, fresh>>
        /\ {"checking", "saving", "releasing"} \subseteq CallPcs
        /\ Goto(s, "saving") \/ Goto(s, "releasing")
    BY <1>2 DEF CheckAgain, CallPcs, calls
  <2>2. /\ InCall(s) /\ c \in Calls /\ Stage("checking", c)
        /\ \A t \in Sockets : t # s => ~ InCall(t)
        /\ \A d \in fresh' : ~ Live(d)'
    BY <1>0, <2>1, Underway DEF Live
  <2>3. Stage("saving", c)' /\ Stage("releasing", c)'
    BY <2>1, <2>2 DEF Stage, Silent, Holds, Free, Live
  <2>4. CASE Goto(s, "saving")
    <3>1. hand'[s].pc = "saving" /\ hand'[s].call = c /\ \A t \in Sockets : t # s => hand'[t] = hand[t]
      BY <2>1, <2>2, <2>4, Stepping, <1>0
    <3>2. QED
      BY <2>1, <2>2, <2>3, <3>1, Reached
  <2>5. CASE Goto(s, "releasing")
    <3>1. hand'[s].pc = "releasing" /\ hand'[s].call = c /\ \A t \in Sockets : t # s => hand'[t] = hand[t]
      BY <2>1, <2>2, <2>5, Stepping, <1>0
    <3>2. QED
      BY <2>1, <2>2, <2>3, <3>1, Reached
  <2>6. QED
    BY <2>1, <2>4, <2>5
<1>3. CASE Ring(s)
  <2> DEFINE r == [state |-> "ringing", caller |-> Owner[s], ttl |-> RingTTL]
  <2>1. /\ At(s, "saving") /\ "saving" \in CallPcs /\ UNCHANGED <<claim, fresh>>
        /\ session' = [session EXCEPT ![c] = r] /\ Finish(s)
    BY <1>0, <1>3 DEF Ring, CallPcs
  <2>2. /\ InCall(s) /\ c \in Calls /\ Stage("saving", c)
        /\ \A t \in Sockets : t # s => ~ InCall(t)
        /\ \A d \in fresh : ~ Live(d)
    BY <1>0, <2>1, Underway
  <2>3. r.state # NoCall.state /\ r.ttl = RingTTL
    BY DEF NoCall
  <2>4. r # NoCall
    BY <2>3
  <2> HIDE DEF r
  <2>5. Silent /\ Holds(c) /\ claim.ttl = RingTTL /\ c \notin fresh
    BY <2>2 DEF Stage
  <2>6. session'[c] = r /\ \A d \in Calls : d # c => session'[d] = session[d]
    BY <2>1, <2>2 DEF TypeOK
  <2>7. \A d \in Calls : Live(d)' <=> d = c
    BY <2>4, <2>5, <2>6 DEF Silent, Live
  <2>8. \A d \in Calls : Holds(d)' <=> d = c
    BY <2>1, <2>5 DEF Holds, Free
  <2>9. InStep'
    BY <2>1, <2>3, <2>5, <2>6, <2>7, <2>8 DEF InStep, Holds, Free
  <2>10. \A d \in fresh' : ~ Live(d)'
    BY <2>1, <2>5, <2>7 DEF TypeOK
  <2>11. QED
    BY <2>1, <2>2, <2>9, <2>10, Finishing, Ended
<1>4. QED
  BY <1>1, <1>2, <1>3

(* The commands of an answer.                                              *)
LEMMA Accepting ==
  ASSUME TypeOK, Signals, NEW s \in Sockets, Activate(s) \/ Touch(s) \/ Extend(s)
  PROVE  Signals'
<1>0. PICK c \in Calls : c = hand[s].call
  <2>1. InCall(s)
    BY DEF Activate, Touch, Extend, At, InCall, CallPcs
  <2>2. QED
    BY <2>1, HandShapes
<1>1. CASE Activate(s)
  <2> DEFINE r == [state |-> "active", caller |-> Peer(s), ttl |-> ActiveTTL]
  <2>1. /\ At(s, "accepting") /\ "accepting" \in CallPcs /\ "touching" \in CallPcs /\ UNCHANGED <<claim, fresh>>
        /\ session' = [session EXCEPT ![c] = r] /\ Goto(s, "touching")
    BY <1>0, <1>1 DEF Activate, CallPcs
  <2>2. /\ InCall(s) /\ c \in Calls /\ Stage("accepting", c)
        /\ \A t \in Sockets : t # s => ~ InCall(t)
        /\ \A d \in fresh : ~ Live(d)
    BY <1>0, <2>1, Underway
  <2>3. r.state # NoCall.state /\ r.ttl = ActiveTTL
    BY DEF NoCall
  <2>4. r # NoCall
    BY <2>3
  <2>5. hand'[s].pc = "touching" /\ hand'[s].call = c /\ \A t \in Sockets : t # s => hand'[t] = hand[t]
    BY <2>1, <2>2, Stepping, <1>0
  <2> HIDE DEF r
  <2>6. InStep /\ Live(c) /\ c \notin fresh
    BY <2>2 DEF Stage
  <2>7. session'[c] = r /\ \A d \in Calls : d # c => session'[d] = session[d]
    BY <2>1, <2>2 DEF TypeOK
  <2>8. \A d \in Calls : Live(d)' <=> d = c
    BY <2>2, <2>4, <2>6, <2>7 DEF InStep, Holds, Live
  <2>9. Holds(c)'
    BY <2>1, <2>2, <2>6 DEF InStep, Holds, Free
  <2>10. Stage("touching", c)'
    BY <2>1, <2>2, <2>3, <2>6, <2>7, <2>8, <2>9 DEF Stage
  <2>11. \A d \in fresh' : ~ Live(d)'
    BY <2>1, <2>6, <2>8 DEF TypeOK
  <2>12. QED
    BY <2>1, <2>2, <2>5, <2>10, <2>11, Reached
<1>2. CASE Touch(s)
  <2>1. /\ At(s, "touching") /\ UNCHANGED <<session, claim, fresh>>
        /\ "touching" \in CallPcs /\ "extending" \in CallPcs
    BY <1>2 DEF Touch, CallPcs, calls
  <2>2. /\ InCall(s) /\ c \in Calls /\ Stage("touching", c)
        /\ \A t \in Sockets : t # s => ~ InCall(t)
        /\ \A d \in fresh' : ~ Live(d)'
    BY <1>0, <2>1, Underway DEF Live
  <2>3. Goto(s, "extending")
    BY <1>0, <1>2, <2>2 DEF Touch, Stage
  <2>4. hand'[s].pc = "extending" /\ hand'[s].call = c /\ \A t \in Sockets : t # s => hand'[t] = hand[t]
    BY <2>1, <2>2, <2>3, Stepping, <1>0
  <2>5. Stage("extending", c)'
    BY <2>1, <2>2 DEF Stage, Holds, Free, Live
  <2>6. QED
    BY <2>1, <2>2, <2>4, <2>5, Reached
<1>3. CASE Extend(s)
  <2>1. /\ At(s, "extending") /\ UNCHANGED <<session, fresh>> /\ Finish(s)
        /\ "extending" \in CallPcs
    BY <1>3 DEF Extend, CallPcs
  <2>2. /\ InCall(s) /\ c \in Calls /\ Stage("extending", c)
        /\ \A t \in Sockets : t # s => ~ InCall(t)
        /\ \A d \in fresh' : ~ Live(d)'
    BY <1>0, <2>1, Underway DEF Live
  <2>3. /\ Live(c) /\ session[c].ttl = ActiveTTL /\ ~ Free /\ claim.call = c
        /\ \A d \in Calls : Live(d) => d = c
    BY <2>2 DEF Stage, Holds
  <2>4. claim' = [claim EXCEPT !.ttl = ActiveTTL] /\ claim \in ClaimRow
    BY <1>0, <1>3, <2>3, Held DEF Extend
  <2>5. claim' \in ClaimRow /\ claim'.ttl = ActiveTTL /\ claim'.call = c
    BY <2>3, <2>4, TTLAssumption DEF ClaimRow
  <2>6. ~ Free'
    BY <2>5, ClaimShapes DEF Free
  <2>7. \A d \in Calls : Live(d)' = Live(d)
    BY <2>1 DEF Live
  <2>8. \A d \in Calls : Holds(d)' <=> d = c
    BY <2>5, <2>6 DEF Holds
  <2>9. InStep'
    BY <2>1, <2>2, <2>3, <2>5, <2>7, <2>8 DEF InStep
  <2>10. QED
    BY <2>1, <2>2, <2>9, Finishing, Ended
<1>4. QED
  BY <1>1, <1>2, <1>3

(* The commands that end a call, or an invitation nobody is there for.     *)
LEMMA Ending ==
  ASSUME TypeOK, Signals, NEW s \in Sockets, End(s) \/ Release(s) \/ DeleteClaim(s)
  PROVE  Signals'
<1>0. PICK c \in Calls : c = hand[s].call
  <2>1. InCall(s)
    BY DEF End, Release, DeleteClaim, At, InCall, CallPcs
  <2>2. QED
    BY <2>1, HandShapes
<1>1. CASE End(s)
  <2>1. /\ At(s, "ending") /\ "ending" \in CallPcs /\ "releasing" \in CallPcs /\ UNCHANGED <<claim, fresh>>
        /\ session' = [session EXCEPT ![c] = NoCall] /\ Goto(s, "releasing")
    BY <1>0, <1>1 DEF End, CallPcs
  <2>2. /\ InCall(s) /\ c \in Calls /\ Stage("ending", c)
        /\ \A t \in Sockets : t # s => ~ InCall(t)
        /\ \A d \in fresh : ~ Live(d)
    BY <1>0, <2>1, Underway
  <2>3. hand'[s].pc = "releasing" /\ hand'[s].call = c /\ \A t \in Sockets : t # s => hand'[t] = hand[t]
    BY <2>1, <2>2, Stepping, <1>0
  <2>4. InStep /\ Live(c) /\ c \notin fresh
    BY <2>2 DEF Stage
  <2>5. session'[c] = NoCall /\ \A d \in Calls : d # c => session'[d] = session[d]
    BY <2>1, <2>2 DEF TypeOK
  <2>6. Silent'
    BY <2>2, <2>4, <2>5 DEF Silent, InStep, Holds, Live
  <2>7. Holds(c)'
    BY <2>1, <2>2, <2>4 DEF InStep, Holds, Free
  <2>8. Stage("releasing", c)'
    BY <2>1, <2>4, <2>6, <2>7 DEF Stage
  <2>9. \A d \in fresh' : ~ Live(d)'
    BY <2>1, <2>6 DEF TypeOK, Silent
  <2>10. QED
    BY <2>1, <2>2, <2>3, <2>8, <2>9, Reached
<1>2. CASE Release(s)
  <2>1. /\ At(s, "releasing") /\ UNCHANGED <<session, claim, fresh>>
        /\ "releasing" \in CallPcs /\ "deleting" \in CallPcs
    BY <1>2 DEF Release, CallPcs, calls
  <2>2. /\ InCall(s) /\ c \in Calls /\ Stage("releasing", c)
        /\ \A t \in Sockets : t # s => ~ InCall(t)
        /\ \A d \in fresh' : ~ Live(d)'
    BY <1>0, <2>1, Underway DEF Live
  <2>3. Goto(s, "deleting")
    BY <1>0, <1>2, <2>2 DEF Release, Stage
  <2>4. hand'[s].pc = "deleting" /\ hand'[s].call = c /\ \A t \in Sockets : t # s => hand'[t] = hand[t]
    BY <2>1, <2>2, <2>3, Stepping, <1>0
  <2>5. Stage("deleting", c)'
    BY <2>1, <2>2 DEF Stage, Silent, Holds, Free, Live
  <2>6. QED
    BY <2>1, <2>2, <2>4, <2>5, Reached
<1>3. CASE DeleteClaim(s)
  <2>1. /\ At(s, "deleting") /\ UNCHANGED <<session, fresh>> /\ Finish(s) /\ claim' = NoClaim
        /\ "deleting" \in CallPcs
    BY <1>3 DEF DeleteClaim, CallPcs
  <2>2. /\ InCall(s) /\ c \in Calls /\ Stage("deleting", c)
        /\ \A t \in Sockets : t # s => ~ InCall(t)
        /\ \A d \in fresh' : ~ Live(d)'
    BY <1>0, <2>1, Underway DEF Live
  <2>3. Silent
    BY <2>2 DEF Stage
  <2>4. InStep'
    BY <2>1, <2>3 DEF InStep, Silent, Live, Holds, Free
  <2>5. QED
    BY <2>1, <2>2, <2>4, Finishing, Ended
<1>4. QED
  BY <1>1, <1>2, <1>3

(* Between signals claim and session lose their ticks together.            *)
LEMMA Ticking ==
  ASSUME OneSignalAtATime, TypeOK, Signals, Tick
  PROVE  Signals'
<1>1. /\ \A s \in Sockets : ~ InCall(s)
      /\ UNCHANGED <<fresh, hand>>
      /\ claim' = IF Free THEN claim ELSE Aged(claim, NoClaim)
      /\ \A c \in Calls : session'[c] = IF Live(c) THEN Aged(session[c], NoCall) ELSE NoCall
  BY DEF OneSignalAtATime, Tick, Busy, InCall, Idle, CallPcs
<1>2. InStep /\ \A c \in fresh : ~ Live(c)
  BY <1>1 DEF Signals
<1>3. \A c \in fresh' : ~ Live(c)'
  BY <1>1, <1>2 DEF TypeOK, Live
<1>4. InStep'
  <2>1. CASE Free
    <3>1. Free' /\ \A c \in Calls : ~ Live(c)
      BY <1>1, <1>2, <2>1 DEF InStep, Holds, Free
    <3>2. \A c \in Calls : ~ Live(c)'
      BY <1>1, <3>1 DEF Live
    <3>3. QED
      BY <3>1, <3>2 DEF InStep, Holds
  <2>2. CASE ~ Free
    <3>1. PICK c \in Calls : claim \in ClaimRow /\ claim' = Aged(claim, NoClaim) /\ c = claim.call
      BY <1>1, <2>2, Held, ClaimShapes
    <3>2. Live(c) /\ session[c].ttl = claim.ttl /\ \A d \in Calls : d # c => ~ Live(d)
      BY <1>2, <2>2, <3>1 DEF InStep, Holds
    <3>3. session[c] \in SessionRow /\ session'[c] = Aged(session[c], NoCall)
      BY <1>1, <3>1, <3>2, Held
    <3>4. \A d \in Calls : d # c => ~ Live(d)'
      BY <1>1, <3>2 DEF Live
    <3>5. CASE claim.ttl = 1
      <4>1. claim' = NoClaim /\ session'[c] = NoCall
        BY <3>1, <3>2, <3>3, <3>5, AgedClaim, AgedSession
      <4>2. QED
        BY <3>4, <4>1 DEF InStep, Holds, Free, Live
    <3>6. CASE claim.ttl # 1
      <4>1. claim' \in ClaimRow /\ claim'.ttl = claim.ttl - 1 /\ claim'.call = c
        BY <3>1, <3>6, AgedClaim
      <4>2. session'[c] \in SessionRow /\ session'[c].ttl = claim.ttl - 1
        BY <3>2, <3>3, <3>6, AgedSession
      <4>3. ~ Free' /\ Live(c)'
        BY <4>1, <4>2, ClaimShapes, SessionShapes DEF Free, Live
      <4>4. QED
        BY <3>4, <4>1, <4>2, <4>3 DEF InStep, Holds
    <3>7. QED
      BY <3>5, <3>6
  <2>3. QED
    BY <2>1, <2>2
<1>5. \A s \in Sockets : ~ InCall(s)'
  BY <1>1 DEF InCall
<1>6. QED
  BY <1>3, <1>4, <1>5 DEF Signals

LEMMA SignalStep ==
  ASSUME OneSignalAtATime, TypeOK, Signals, [Next]_vars
  PROVE  Signals'
<1>1. ASSUME NEW s \in Sockets, ComeAndGo(s) PROVE Signals'
  <2>1. UNCHANGED calls
    BY <1>1 DEF ComeAndGo, Connect, Joined, Beat, Keepalive, Rejoin, Refreshed, Disconnect, DeletePresence
  <2>2. hand' = hand \/ (~ InCall(s) /\ \E h \in Aloof : hand' = [hand EXCEPT ![s] = h])
    <3>1. CASE Beat(s)
      BY <3>1 DEF Beat, Keepalive, Rejoin, Refreshed
    <3>2. CASE Connect(s) \/ Disconnect(s)
      BY <3>2 DEF Connect, Disconnect, Aloof, InCall, Idle, CallPcs
    <3>3. CASE Joined(s) \/ DeletePresence(s)
      BY <3>3 DEF Joined, DeletePresence, At, Finish, Aloof, InCall, CallPcs
    <3>4. QED
      BY <1>1, <3>1, <3>2, <3>3 DEF ComeAndGo
  <2>3. \A t \in Sockets : hand'[t] = hand[t] \/ (~ InCall(t) /\ ~ InCall(t)')
    BY <2>2, AloofIsNoCall DEF TypeOK, InCall
  <2>4. QED
    BY <2>1, <2>3, Aside DEF calls
<1>2. ASSUME NEW u \in Users, PresenceExpires(u) PROVE Signals'
  BY <1>2, Aside DEF PresenceExpires, calls
<1>3. ASSUME NEW s \in Sockets, Crash(s) PROVE Signals'
  BY <1>3 DEF Crash, OneSignalAtATime
<1>4. CASE UNCHANGED vars
  BY <1>4, Aside DEF vars
<1>5. QED
  BY <1>1, <1>2, <1>3, <1>4, SignalStarts, Inviting, Accepting, Ending, Ticking DEF Next, Continue, ComeAndGo

(* One signal at a time, the chat holds one call at most; between signals  *)
(* it is claimed exactly for that call, and the claim and the session run  *)
(* out together - for every pair of lifetimes, however many devices come   *)
(* and go and whatever presence counts (messages/calls.py).                *)
THEOREM ClaimsAgree ==
  ASSUME OneSignalAtATime
  PROVE  Spec => []ClaimsMatchCalls
<1>1. Init => Signals
  BY InitSignals
<1>2. TypeOK /\ Signals /\ [Next]_vars => Signals'
  BY SignalStep
<1>3. TypeOK /\ Signals => ClaimsMatchCalls
  <2> SUFFICES ASSUME TypeOK, Signals PROVE ClaimsMatchCalls
    OBVIOUS
  <2>1. OneCall
    <3>1. InStep => OneCall
      BY DEF InStep, OneCall, Holds
    <3>2. Silent => OneCall
      BY DEF Silent, OneCall
    <3>3. ASSUME NEW s \in Sockets, InCall(s) PROVE OneCall
      <4>1. Stage(hand[s].pc, hand[s].call) /\ hand[s].call \in Calls
        BY <3>3, HandShapes DEF Signals
      <4>2. CASE hand[s].pc \in {"touching", "extending"}
        BY <4>1, <4>2 DEF Stage, OneCall
      <4>3. CASE hand[s].pc \notin {"touching", "extending"}
        BY <3>1, <3>2, <3>3, <4>1, <4>3 DEF Stage, InCall, CallPcs
      <4>4. QED
        BY <4>2, <4>3
    <3>4. QED
      BY <3>1, <3>3 DEF Signals
  <2>2. Busy = {} => InStep
    BY DEF Busy, Signals, InCall, Idle, CallPcs
  <2>3. QED
    BY <2>1, <2>2 DEF ClaimsMatchCalls, ClaimedByItsCall, RunOutTogether, InStep
<1>4. QED
  BY <1>1, <1>2, <1>3, TypeCorrect, PTL DEF Spec
=============================================================================
