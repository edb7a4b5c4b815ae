--------------------------- MODULE AccountsProofs ---------------------------
(***************************************************************************)
(* An account in its browser, and what keeps accounts and content in       *)
(* order.                                                                  *)
(*                                                                         *)
(* First Sessions, for any number of tabs, tokens and faults of            *)
(* Redis, whichever requests die and whichever responses are lost, late or *)
(* crossed.                                                                *)
(*                                                                         *)
(* A token comes to be used only by becoming the browser's cookie, and     *)
(* every response carries one that never was: so what replaced the         *)
(* browser's present token was never used, and the token is good for       *)
(* another refresh.                                                        *)
(*                                                                         *)
(* Then the three parts of Moderation, for any content, people and days:   *)
(* with one request at a time, what a request has found is still so when   *)
(* it writes.                                                              *)
(***************************************************************************)
EXTENDS Sessions, Moderation, Sequences, FiniteSetTheorems, WellFoundedInduction, TLAPS

InUse(b) == tab[b].op \in {"asked", "valid", "allowed"}

(* A token the browser has not had yet.                                    *)
Unseen(t) ==
  /\ rotated[t] = "no" /\ successor[t] = 0 /\ t # cookie
  /\ \A b \in Tabs : InUse(b) => tab[b].token # t

NotIssuedYet == \A t \in Tokens : t > issued => Unseen(t) /\ \A b \in Tabs : tab[b].token # t
OnTheirWay ==
  /\ \A b \in Tabs : tab[b].op = "answered" => Unseen(tab[b].token)
  /\ \A b, d \in Tabs : b # d /\ tab[b].op = "answered" /\ tab[d].op = "answered"
       => tab[b].token # tab[d].token
Replaced == cookie # 0 /\ successor[cookie] # 0 => Unseen(successor[cookie])

(* As long as Redis answers, what was used has a replacement on record, or *)
(* a request is about to put it there, unless all that were have died or   *)
(* outlast the grace window.                                               *)
Recorded ==
  faults = 0 => \A t \in Tokens \ cut :
    /\ rotated[t] = "recent" /\ successor[t] = 0 =>
         \E b \in Tabs : tab[b].op = "allowed" /\ tab[b].token = t
    /\ rotated[t] = "old" => successor[t] # 0

IInv == TypeOK /\ NotIssuedYet /\ OnTheirWay /\ Replaced /\ Recorded /\ StaysSignedIn

-----------------------------------------------------------------------------
TabRow == [op : {"asked", "valid", "allowed", "answered"}, token : Tokens]

LEMMA TabShapes ==
  ASSUME TypeOK, NEW b \in Tabs
  PROVE  /\ tab[b] \in {Idle} \cup TabRow
         /\ tab[b].op \in {"idle", "asked", "valid", "allowed", "answered"}
         /\ tab[b].op = "idle" <=> tab[b] = Idle
         /\ tab[b] # Idle => tab[b].token \in Tokens
         /\ tab[b] = Idle => tab[b].token = 0 /\ tab[b].op = "idle"
         /\ Idle.op = "idle" /\ Idle.token = 0
  BY DEF TypeOK, Idle, TabRow

(* The request of a tab goes on.                                           *)
LEMMA Moving ==
  ASSUME TypeOK, NEW b \in Tabs, NEW from, from \in {"asked", "valid", "allowed", "answered"},
         NEW to, to \in {"asked", "valid", "allowed", "answered"}, Move(b, from, to)
  PROVE  /\ tab[b].op = from /\ tab[b].token \in Tokens
         /\ tab' \in [Tabs -> {Idle} \cup TabRow]
         /\ tab'[b].op = to /\ tab'[b].token = tab[b].token
         /\ \A d \in Tabs : d # b => tab'[d] = tab[d]
<1>1. tab[b].op = from /\ tab[b].token \in Tokens
  BY TabShapes DEF Move
<1> DEFINE new == [op |-> to, token |-> tab[b].token]
<1>2. new \in TabRow /\ new.op = to /\ new.token = tab[b].token
  BY <1>1 DEF TabRow
<1>3. tab' = [tab EXCEPT ![b] = new]
  BY DEF Move
<1> HIDE DEF new
<1>4. QED
  BY <1>1, <1>2, <1>3 DEF TypeOK, TabRow

LEMMA Quitting ==
  ASSUME TypeOK, NEW b \in Tabs, Quit(b)
  PROVE  /\ tab' \in [Tabs -> {Idle} \cup TabRow]
         /\ tab'[b] = Idle
         /\ \A d \in Tabs : d # b => tab'[d] = tab[d]
  BY DEF Quit, TypeOK, TabRow

LEMMA Issuing ==
  ASSUME TypeOK, NEW b \in Tabs, Issue(b)
  PROVE  /\ issued < MaxTokens /\ issued' = issued + 1 /\ issued' \in Tokens
         /\ tab' \in [Tabs -> {Idle} \cup TabRow]
         /\ tab'[b].op = "answered" /\ tab'[b].token = issued + 1
         /\ \A d \in Tabs : d # b => tab'[d] = tab[d]
<1>1. issued < MaxTokens /\ issued' = issued + 1 /\ issued' \in Tokens
  BY BoundsAssumption DEF Issue, TypeOK, Tokens
<1> DEFINE new == [op |-> "answered", token |-> issued']
<1>2. new \in TabRow /\ new.op = "answered" /\ new.token = issued + 1
  BY <1>1 DEF TabRow
<1>3. tab' = [tab EXCEPT ![b] = new]
  BY DEF Issue
<1> HIDE DEF new
<1>4. QED
  BY <1>1, <1>2, <1>3 DEF TypeOK, TabRow

LEMMA InitIInv == Init => IInv
<1> SUFFICES ASSUME Init PROVE IInv
  OBVIOUS
<1>1. \A b \in Tabs : tab[b] = Idle /\ tab[b].op = "idle" /\ tab[b].token = 0
  BY DEF Init, Idle
<1>2. \A t \in Tokens : rotated[t] = "no" /\ successor[t] = 0 /\ t # 0
  BY DEF Init, Tokens
<1>3. issued = 0 /\ cookie = 0 /\ faults = 0 /\ cut = {} /\ ~ refused
  BY DEF Init
<1>4. TypeOK
  <2>1. tab \in [Tabs -> {Idle} \cup TabRow]
    BY DEF Init, Idle
  <2>2. rotated \in [Tokens -> {"no", "recent", "old"}] /\ successor \in [Tokens -> 0..MaxTokens]
    BY BoundsAssumption DEF Init
  <2>3. issued \in 0..MaxTokens /\ cookie \in 0..issued /\ faults \in 0..MaxFaults
    BY <1>3, BoundsAssumption
  <2>4. account \in {"none", "active", "inactive"} /\ refused = FALSE /\ revoked = {} /\ barred = {} /\ cut = {}
    BY DEF Init
  <2>5. QED
    BY <2>1, <2>2, <2>3, <2>4 DEF TypeOK, TabRow
<1>5. NotIssuedYet /\ OnTheirWay /\ Replaced /\ Recorded /\ StaysSignedIn
  BY <1>1, <1>2, <1>3 DEF NotIssuedYet, OnTheirWay, Replaced, Recorded, StaysSignedIn, Unseen, InUse
<1>6. QED
  BY <1>4, <1>5 DEF IInv

-----------------------------------------------------------------------------
(* A response with a fresh token, for an account or for an old token.      *)
LEMMA IssueStep ==
  ASSUME IInv, NEW b \in Tabs, Issue(b), UNCHANGED <<rotated, cookie>>,
         account' \in {"none", "active", "inactive"}, faults' \in faults..MaxFaults,
         UNCHANGED <<revoked, barred, refused>>,
         \/ successor' = successor /\ cut' = cut /\ (tab[b].op # "allowed" \/ faults' > 0)
         \/ /\ tab[b].op = "allowed"
            /\ successor' = [successor EXCEPT ![tab[b].token] = issued']
            /\ cut' = cut \ {tab[b].token}
  PROVE  IInv'
<1>1. /\ issued < MaxTokens /\ issued' = issued + 1 /\ issued' \in Tokens
      /\ tab' \in [Tabs -> {Idle} \cup TabRow]
      /\ tab'[b].op = "answered" /\ tab'[b].token = issued + 1
      /\ \A d \in Tabs : d # b => tab'[d] = tab[d]
  BY Issuing DEF IInv
<1>2. issued \in Nat /\ faults \in Nat
  BY DEF IInv, TypeOK
<1>3. TypeOK'
  <2>1. cookie' \in 0..issued'
    BY <1>1, <1>2 DEF IInv, TypeOK
  <2>2. successor' \in [Tokens -> 0..MaxTokens]
    BY <1>1 DEF IInv, TypeOK, Tokens
  <2>3. faults' \in 0..MaxFaults /\ issued' \in 0..MaxTokens
    BY <1>1, <1>2 DEF Tokens
  <2>4. cut' \subseteq Tokens
    BY DEF IInv, TypeOK
  <2>5. QED
    BY <1>1, <2>1, <2>2, <2>3, <2>4 DEF IInv, TypeOK, TabRow
<1>4. \A t \in Tokens : successor'[t] = successor[t] \/ (t = tab[b].token /\ tab[b].op = "allowed" /\ successor'[t] = issued')
  BY DEF IInv, TypeOK
<1>5. ASSUME NEW t \in Tokens, Unseen(t) PROVE Unseen(t)'
  <2>1. successor'[t] = successor[t]
    BY <1>4, <1>5 DEF Unseen, InUse
  <2>2. QED
    BY <1>1, <1>5, <2>1 DEF Unseen, InUse
<1>6. NotIssuedYet'
  <2> SUFFICES ASSUME NEW t \in Tokens, t > issued' PROVE Unseen(t)' /\ \A d \in Tabs : tab'[d].token # t
    BY DEF NotIssuedYet
  <2>1. t > issued /\ t # issued + 1
    BY <1>1, <1>2 DEF Tokens
  <2>2. Unseen(t) /\ \A d \in Tabs : tab[d].token # t
    BY <2>1 DEF IInv, NotIssuedYet
  <2>3. QED
    BY <1>1, <1>5, <2>1, <2>2
<1>7. PICK n \in Tokens : n = issued'
  BY <1>1
<1>8. Unseen(n)' /\ n # 0 /\ \A d \in Tabs : tab[d].token # n
  <2>1. n > issued /\ n # 0
    BY <1>1, <1>2, <1>7
  <2>2. Unseen(n) /\ \A d \in Tabs : tab[d].token # n
    BY <2>1 DEF IInv, NotIssuedYet
  <2>3. QED
    BY <1>5, <2>1, <2>2
<1>9. OnTheirWay'
  <2>1. ASSUME NEW d \in Tabs, tab'[d].op = "answered" PROVE Unseen(tab[d].token)'
    <3>1. CASE d = b
      BY <1>1, <1>7, <1>8, <3>1 DEF Unseen, InUse
    <3>2. CASE d # b
      <4>1. tab'[d] = tab[d] /\ tab[d].op = "answered"
        BY <1>1, <2>1, <3>2
      <4>2. PICK t \in Tokens : t = tab[d].token
        BY <4>1, TabShapes DEF IInv
      <4>3. Unseen(t)
        BY <4>1, <4>2 DEF IInv, OnTheirWay
      <4>4. Unseen(t)'
        BY <1>5, <4>3
      <4>5. QED
        BY <4>1, <4>2, <4>4 DEF Unseen, InUse
    <3>3. QED
      BY <3>1, <3>2
  <2>2. \A c, d \in Tabs : c # d /\ tab'[c].op = "answered" /\ tab'[d].op = "answered"
          => tab'[c].token # tab'[d].token
    BY <1>1, <1>7, <1>8 DEF IInv, OnTheirWay
  <2>3. QED
    BY <2>1, <2>2 DEF OnTheirWay
<1>10. Replaced'
  <2> SUFFICES ASSUME cookie # 0, successor'[cookie] # 0 PROVE Unseen(successor[cookie])'
    BY DEF Replaced
  <2>1. cookie \in Tokens
    BY <1>2, BoundsAssumption DEF IInv, TypeOK, Tokens
  <2>2. PICK s : s = successor'[cookie] /\ s \in Tokens
    BY <1>3, <2>1 DEF TypeOK, Tokens
  <2>3. Unseen(s)'
    <3>1. CASE successor'[cookie] = successor[cookie]
      <4>1. Unseen(s)
        BY <2>2, <3>1 DEF IInv, Replaced
      <4>2. QED
        BY <1>5, <2>2, <4>1
    <3>2. CASE successor'[cookie] # successor[cookie]
      BY <1>4, <1>7, <1>8, <2>1, <2>2, <3>2
    <3>3. QED
      BY <3>1, <3>2
  <2>4. QED
    BY <2>2, <2>3 DEF Unseen, InUse
<1>11. Recorded'
  <2> SUFFICES ASSUME faults' = 0, NEW t \in Tokens \ cut'
               PROVE  /\ rotated[t] = "recent" /\ successor'[t] = 0 =>
                           \E d \in Tabs : tab'[d].op = "allowed" /\ tab'[d].token = t
                      /\ rotated[t] = "old" => successor'[t] # 0
    BY DEF Recorded
  <2>1. faults = 0
    BY <1>2
  <2>2. successor'[t] = 0 => successor[t] = 0
    BY <1>4, <1>7, <1>8
  <2>3. tab[b].op = "allowed" => successor'[tab[b].token] # 0
    BY <1>7, <1>8, TabShapes DEF IInv, TypeOK
  <2>4. CASE t \in cut
    BY <2>3, <2>4
  <2>5. CASE t \notin cut
    BY <1>1, <2>1, <2>2, <2>3, <2>5 DEF IInv, Recorded
  <2>6. QED
    BY <2>4, <2>5
<1>12. QED
  BY <1>3, <1>6, <1>9, <1>10, <1>11 DEF IInv, StaysSignedIn

(* Requests that go on with their tokens, or are over; the browser keeps   *)
(* its cookie or loses it.                                                 *)
LEMMA GoingOn ==
  ASSUME IInv, UNCHANGED <<rotated, successor, issued>>, cookie' \in {0, cookie},
         faults' \in faults..MaxFaults, cut \subseteq cut',
         \A d \in Tabs :
           \/ tab'[d] = tab[d]
           \/ tab'[d] = Idle /\ (tab[d].op = "allowed" =>
                                   tab[d].token \in cut' \/ successor[tab[d].token] # 0)
           \/ InUse(d) /\ InUse(d)' /\ tab'[d].token = tab[d].token /\ tab[d].op # "allowed"
  PROVE  NotIssuedYet' /\ OnTheirWay' /\ Replaced' /\ Recorded'
<1>1. \A t \in Tokens : t # 0
  BY DEF Tokens
<1>2. Idle.token = 0 /\ Idle.op = "idle" /\ faults \in Nat
  BY DEF Idle, IInv, TypeOK
<1>3. \A d \in Tabs : tab'[d].op = "answered" => tab'[d] = tab[d]
  BY <1>2 DEF InUse
<1>4. \A d \in Tabs : InUse(d)' => InUse(d) /\ tab'[d].token = tab[d].token
  BY <1>2 DEF InUse
<1>5. ASSUME NEW t \in Tokens, Unseen(t) PROVE Unseen(t)'
  BY <1>1, <1>4, <1>5 DEF Unseen
<1>6. NotIssuedYet'
  <2>1. \A t \in Tokens, d \in Tabs : tab[d].token # t => tab'[d].token # t
    BY <1>1, <1>2
  <2>2. QED
    BY <1>5, <2>1 DEF NotIssuedYet, IInv
<1>7. OnTheirWay'
  <2>1. ASSUME NEW d \in Tabs, tab'[d].op = "answered" PROVE Unseen(tab[d].token)'
    <3>1. tab'[d] = tab[d] /\ tab[d].op = "answered"
      BY <1>3, <2>1
    <3>2. PICK t \in Tokens : t = tab[d].token
      BY <3>1, TabShapes DEF IInv
    <3>3. Unseen(t)
      BY <3>1, <3>2 DEF IInv, OnTheirWay
    <3>4. Unseen(t)'
      BY <1>5, <3>3
    <3>5. QED
      BY <3>1, <3>2, <3>4 DEF Unseen, InUse
  <2>2. QED
    BY <1>3, <2>1 DEF IInv, OnTheirWay
<1>8. Replaced'
  <2> SUFFICES ASSUME cookie' # 0, successor'[cookie'] # 0 PROVE Unseen(successor[cookie])'
    BY DEF Replaced
  <2>1. cookie \in Tokens /\ cookie' = cookie
    BY BoundsAssumption DEF IInv, TypeOK, Tokens
  <2>2. PICK s : s = successor[cookie] /\ s \in Tokens
    BY <2>1 DEF IInv, TypeOK, Tokens
  <2>3. Unseen(s)
    BY <2>1, <2>2 DEF IInv, Replaced
  <2>4. Unseen(s)'
    BY <1>5, <2>2, <2>3
  <2>5. QED
    BY <2>1, <2>2, <2>4 DEF Unseen, InUse
<1>9. Recorded'
  <2>1. \A d \in Tabs : tab[d].op = "allowed" =>
          tab'[d] = tab[d] \/ tab[d].token \in cut' \/ successor[tab[d].token] # 0
    BY <1>2
  <2>2. faults' = 0 => faults = 0
    BY <1>2
  <2>3. QED
    BY <2>1, <2>2 DEF Recorded, IInv
<1>10. QED
  BY <1>6, <1>7, <1>8, <1>9

LEMMA Faulting ==
  ASSUME TypeOK
  PROVE  /\ RedisFails => faults' \in faults..MaxFaults /\ faults' \in 0..MaxFaults /\ faults' # 0
         /\ RedisWorks => faults' \in faults..MaxFaults
         /\ faults' = faults => faults' \in faults..MaxFaults
  BY BoundsAssumption DEF TypeOK, RedisFails, RedisWorks

(* The browser has one token, its replacement was not used: whoever is     *)
(* turned down had another, or was signed out.                             *)
LEMMA NotRefused ==
  ASSUME IInv, NEW b \in Tabs, tab[b].op = "valid", RedisWorks, Refuse(b),
         rotated[tab[b].token] = "old", ~ SuccessorUnused(tab[b].token)
  PROVE  refused' = refused
<1> SUFFICES ASSUME tab[b].token = cookie, faults = 0, cookie \notin cut PROVE FALSE
  BY DEF Refuse, RedisWorks, IInv, TypeOK
<1>1. cookie \in Tokens /\ cookie # 0
  BY TabShapes DEF IInv, Tokens
<1>2. successor[cookie] # 0
  BY <1>1 DEF IInv, Recorded
<1>3. Unseen(successor[cookie])
  BY <1>1, <1>2 DEF IInv, Replaced
<1>4. QED
  BY <1>2, <1>3 DEF Unseen, SuccessorUnused

LEMMA InvStep == IInv /\ [Next]_vars => IInv'
<1> SUFFICES ASSUME IInv, [Next]_vars PROVE IInv'
  OBVIOUS
<1>1. TypeOK /\ ~ refused
  BY DEF IInv, StaysSignedIn
<1>2. ASSUME NEW b \in Tabs, RegisterUser(b) \/ AuthenticateUser(b) PROVE IInv'
  <2>1. /\ tab[b].op # "allowed" /\ Issue(b) /\ account' \in {"none", "active", "inactive"}
        /\ UNCHANGED <<rotated, successor, revoked, barred, cookie, faults, cut, refused>>
    BY <1>1, <1>2, TabShapes DEF RegisterUser, AuthenticateUser, TypeOK
  <2>2. QED
    BY <1>1, <2>1, Faulting, IssueStep
<1>3. ASSUME NEW b \in Tabs, RecordSuccessor(b) PROVE IInv'
  <2>1. /\ tab[b].op = "allowed" /\ Issue(b)
        /\ UNCHANGED <<account, rotated, revoked, barred, cookie, refused>>
    BY <1>3 DEF RecordSuccessor
  <2>2. account' \in {"none", "active", "inactive"}
    BY <1>1, <2>1 DEF TypeOK
  <2>3. CASE RedisWorks /\ successor' = [successor EXCEPT ![tab[b].token] = issued'] /\ cut' = cut \ {tab[b].token}
    BY <1>1, <2>1, <2>2, <2>3, Faulting, IssueStep
  <2>4. CASE RedisFails /\ UNCHANGED <<successor, cut>>
    <3>1. faults' > 0 /\ faults' \in faults..MaxFaults
      BY <1>1, <2>4, Faulting
    <3>2. QED
      BY <2>1, <2>2, <2>4, <3>1, IssueStep
  <2>5. QED
    BY <1>3, <2>3, <2>4 DEF RecordSuccessor
<1>4. ASSUME NEW b \in Tabs, LeavePage(b) PROVE IInv'
  <2>1. /\ tab[b].op = "answered" /\ Quit(b)
        /\ UNCHANGED <<account, issued, rotated, successor, revoked, barred, cookie, faults, cut, refused>>
    BY <1>4 DEF LeavePage
  <2>2. /\ tab' \in [Tabs -> {Idle} \cup TabRow] /\ tab'[b] = Idle
        /\ \A d \in Tabs : d # b => tab'[d] = tab[d]
    BY <1>1, <2>1, Quitting
  <2>3. NotIssuedYet' /\ OnTheirWay' /\ Replaced' /\ Recorded'
    BY <1>1, <2>1, <2>2, Faulting, GoingOn
  <2>4. QED
    BY <1>1, <2>1, <2>2, <2>3 DEF IInv, TypeOK, TabRow, StaysSignedIn
<1>5. ASSUME DeactivateAccount PROVE IInv'
  <2>1. /\ account' = "inactive"
        /\ UNCHANGED <<issued, rotated, successor, revoked, barred, cookie, tab, faults, cut, refused>>
    BY <1>5 DEF DeactivateAccount
  <2>2. NotIssuedYet' /\ OnTheirWay' /\ Replaced' /\ Recorded'
    BY <1>1, <2>1, Faulting, GoingOn
  <2>3. QED
    BY <1>1, <2>1, <2>2 DEF IInv, TypeOK, StaysSignedIn
<1>6. ASSUME NEW b \in Tabs, Logout(b) PROVE IInv'
  <2>1. /\ cookie' \in {0, cookie} /\ faults' \in faults..MaxFaults
        /\ UNCHANGED <<account, issued, rotated, successor, tab, cut, refused>>
    BY <1>1, <1>6, Faulting DEF Logout
  <2>2. revoked' \subseteq Tokens /\ barred' \subseteq Tokens
    <3>1. cookie \in Tokens
      BY <1>1, <1>6, BoundsAssumption DEF Logout, TypeOK, Tokens
    <3>2. QED
      BY <1>1, <1>6, <3>1 DEF Logout, TypeOK
  <2>3. NotIssuedYet' /\ OnTheirWay' /\ Replaced' /\ Recorded'
    BY <2>1, GoingOn
  <2>4. TypeOK'
    BY <1>1, <2>1, <2>2, BoundsAssumption DEF TypeOK
  <2>5. QED
    BY <1>1, <2>1, <2>3, <2>4 DEF IInv, StaysSignedIn
<1>7. ASSUME NEW b \in Tabs, IsTokenBlacklisted(b) PROVE IInv'
  <2>1. /\ tab[b].op = "asked" /\ faults' \in faults..MaxFaults
        /\ UNCHANGED <<account, issued, rotated, successor, revoked, barred, cookie, cut>>
        /\ Quit(b) \/ Move(b, "asked", "valid")
        /\ refused' = refused
    <3>1. Refuse(b) /\ (tab[b].token \in revoked \/ account # "active") => Quit(b) /\ refused' = refused
      BY <1>1 DEF Refuse, TypeOK
    <3>2. QED
      BY <1>1, <1>7, <3>1, Faulting DEF IsTokenBlacklisted
  <2>2. /\ tab' \in [Tabs -> {Idle} \cup TabRow]
        /\ tab'[b] = Idle \/ (tab'[b].op = "valid" /\ tab'[b].token = tab[b].token)
        /\ \A d \in Tabs : d # b => tab'[d] = tab[d]
    BY <1>1, <2>1, Quitting, Moving
  <2>3. NotIssuedYet' /\ OnTheirWay' /\ Replaced' /\ Recorded'
    <3>1. \A d \in Tabs :
            \/ tab'[d] = tab[d]
            \/ tab'[d] = Idle /\ tab[d].op # "allowed"
            \/ InUse(d) /\ InUse(d)' /\ tab'[d].token = tab[d].token /\ tab[d].op # "allowed"
      BY <2>1, <2>2 DEF InUse
    <3>2. QED
      BY <2>1, <3>1, GoingOn
  <2>4. TypeOK'
    BY <1>1, <2>1, <2>2, BoundsAssumption DEF TypeOK, TabRow
  <2>5. QED
    BY <1>1, <2>1, <2>3, <2>4 DEF IInv, StaysSignedIn
<1>8. ASSUME NEW b \in Tabs, Ask(b) PROVE IInv'
  <2> DEFINE new == [op |-> "asked", token |-> cookie]
  <2>1. /\ tab[b] = Idle /\ cookie # 0 /\ tab' = [tab EXCEPT ![b] = new]
        /\ UNCHANGED <<account, issued, rotated, successor, revoked, barred, cookie, faults, cut, refused>>
    BY <1>8 DEF Ask
  <2>2. cookie \in Tokens /\ cookie <= issued
    BY <1>1, <2>1, BoundsAssumption DEF TypeOK, Tokens
  <2>3. new \in TabRow /\ new.op = "asked" /\ new.token = cookie
    BY <2>2 DEF TabRow
  <2> HIDE DEF new
  <2>4. /\ tab' \in [Tabs -> {Idle} \cup TabRow] /\ tab'[b].op = "asked" /\ tab'[b].token = cookie
        /\ \A d \in Tabs : d # b => tab'[d] = tab[d]
    BY <1>1, <2>1, <2>3 DEF TypeOK, TabRow
  <2>5. \A t \in Tokens : Unseen(t) => Unseen(t)'
    BY <2>1, <2>4 DEF Unseen, InUse
  <2>6. NotIssuedYet'
    <3>1. \A t \in Tokens : t > issued => t # cookie
      BY <1>1, <2>2 DEF TypeOK, Tokens
    <3>2. QED
      BY <2>1, <2>4, <2>5, <3>1 DEF NotIssuedYet, IInv
  <2>7. OnTheirWay'
    <3>1. ASSUME NEW d \in Tabs, tab'[d].op = "answered" PROVE Unseen(tab[d].token)'
      <4>1. d # b /\ tab'[d] = tab[d] /\ tab[d].op = "answered"
        BY <2>4, <3>1
      <4>2. PICK t \in Tokens : t = tab[d].token
        BY <1>1, <4>1, TabShapes
      <4>3. Unseen(t)
        BY <4>1, <4>2 DEF IInv, OnTheirWay
      <4>4. Unseen(t)'
        BY <2>5, <4>3
      <4>5. QED
        BY <4>1, <4>2, <4>4 DEF Unseen, InUse
    <3>2. QED
      BY <2>4, <3>1 DEF IInv, OnTheirWay
  <2>8. Replaced'
    <3> SUFFICES ASSUME cookie # 0, successor[cookie] # 0 PROVE Unseen(successor[cookie])'
      BY <2>1 DEF Replaced
    <3>1. PICK s : s = successor[cookie] /\ s \in Tokens
      BY <1>1, <2>2 DEF TypeOK, Tokens
    <3>2. Unseen(s)
      BY <3>1 DEF IInv, Replaced
    <3>3. Unseen(s)'
      BY <2>5, <3>1, <3>2
    <3>4. QED
      BY <2>1, <3>1, <3>3 DEF Unseen, InUse
  <2>9. Recorded'
    <3>1. \A d \in Tabs : tab[d].op = "allowed" => d # b
      BY <2>1, TabShapes DEF Idle
    <3>2. QED
      BY <2>1, <2>4, <3>1 DEF Recorded, IInv
  <2>10. TypeOK'
    BY <1>1, <2>1, <2>4 DEF TypeOK, TabRow
  <2>11. QED
    BY <1>1, <2>1, <2>6, <2>7, <2>8, <2>9, <2>10 DEF IInv, StaysSignedIn
<1>9. ASSUME NEW b \in Tabs, ApplyAuthCookies(b) PROVE IInv'
  <2>1. /\ tab[b].op = "answered" /\ cookie' = tab[b].token /\ Quit(b)
        /\ UNCHANGED <<account, issued, rotated, successor, revoked, barred, faults, cut, refused>>
    BY <1>9 DEF ApplyAuthCookies
  <2>2. PICK n \in Tokens : n = tab[b].token
    BY <1>1, <2>1, TabShapes
  <2>3. /\ tab' \in [Tabs -> {Idle} \cup TabRow] /\ tab'[b] = Idle
        /\ \A d \in Tabs : d # b => tab'[d] = tab[d]
        /\ Idle.op = "idle" /\ Idle.token = 0
    BY <1>1, <2>1, Quitting, TabShapes
  <2>4. Unseen(n) /\ n <= issued
    BY <1>1, <2>1, <2>2 DEF IInv, OnTheirWay, NotIssuedYet, TypeOK, Tokens
  <2>5. \A t \in Tokens : Unseen(t) /\ t # n => Unseen(t)'
    BY <2>1, <2>2, <2>3 DEF Unseen, InUse
  <2>6. NotIssuedYet'
    <3>1. \A t \in Tokens : t > issued => t # n /\ t # 0
      BY <1>1, <2>4 DEF TypeOK, Tokens
    <3>2. QED
      BY <2>1, <2>3, <2>5, <3>1 DEF NotIssuedYet, IInv
  <2>7. OnTheirWay'
    <3>1. ASSUME NEW d \in Tabs, tab'[d].op = "answered" PROVE Unseen(tab[d].token)'
      <4>1. d # b /\ tab'[d] = tab[d] /\ tab[d].op = "answered"
        BY <2>3, <3>1
      <4>2. PICK t \in Tokens : t = tab[d].token
        BY <1>1, <4>1, TabShapes
      <4>3. Unseen(t) /\ t # n
        BY <2>1, <2>2, <4>1, <4>2 DEF IInv, OnTheirWay
      <4>4. Unseen(t)'
        BY <2>5, <4>3
      <4>5. QED
        BY <4>1, <4>2, <4>4 DEF Unseen, InUse
    <3>2. QED
      BY <2>3, <3>1 DEF IInv, OnTheirWay
  <2>8. Replaced'
    BY <2>1, <2>2, <2>4 DEF Replaced, Unseen
  <2>9. Recorded'
    <3>1. \A d \in Tabs : tab[d].op = "allowed" => d # b
      BY <2>1
    <3>2. QED
      BY <2>1, <2>3, <3>1 DEF Recorded, IInv
  <2>10. TypeOK'
    <3>1. cookie' \in 0..issued'
      BY <1>1, <2>1, <2>2, <2>4 DEF TypeOK, Tokens
    <3>2. QED
      BY <1>1, <2>1, <2>3, <3>1 DEF TypeOK, TabRow
  <2>11. QED
    BY <1>1, <2>1, <2>6, <2>7, <2>8, <2>9, <2>10 DEF IInv, StaysSignedIn
<1>10. ASSUME NEW t \in Tokens, rotated[t] # "no" \/ (\E b \in Tabs : InUse(b) /\ tab[b].token = t),
              NEW r \in {"recent", "old"}, rotated' = [rotated EXCEPT ![t] = r],
              UNCHANGED <<successor, issued, cookie>>,
              \A d \in Tabs :
                \/ tab'[d] = tab[d]
                \/ tab'[d] = Idle /\ InUse(d)
                \/ InUse(d) /\ InUse(d)' /\ tab'[d].token = tab[d].token
       PROVE  NotIssuedYet' /\ OnTheirWay' /\ Replaced'
  <2>1. Idle.token = 0 /\ Idle.op = "idle" /\ \A s \in Tokens : s # 0
    BY DEF Idle, Tokens
  <2>2. ~ Unseen(t) /\ \A s \in Tokens : s # t => rotated'[s] = rotated[s]
    BY <1>1, <1>10 DEF Unseen, TypeOK
  <2>3. \A s \in Tokens : Unseen(s) => Unseen(s)'
    BY <1>10, <2>1, <2>2 DEF Unseen, InUse
  <2>4. NotIssuedYet'
    <3>1. \A s \in Tokens, d \in Tabs : tab[d].token # s => tab'[d].token # s
      BY <1>10, <2>1
    <3>2. QED
      BY <1>10, <2>3, <3>1 DEF NotIssuedYet, IInv
  <2>5. \A d \in Tabs : tab'[d].op = "answered" => tab'[d] = tab[d]
    BY <1>10, <2>1 DEF InUse
  <2>6. OnTheirWay'
    <3>1. ASSUME NEW d \in Tabs, tab'[d].op = "answered" PROVE Unseen(tab[d].token)'
      <4>1. tab'[d] = tab[d] /\ tab[d].op = "answered"
        BY <2>5, <3>1
      <4>2. PICK s \in Tokens : s = tab[d].token
        BY <1>1, <4>1, TabShapes
      <4>3. Unseen(s)
        BY <4>1, <4>2 DEF IInv, OnTheirWay
      <4>4. Unseen(s)'
        BY <2>3, <4>3
      <4>5. QED
        BY <4>1, <4>2, <4>4 DEF Unseen, InUse
    <3>2. QED
      BY <2>5, <3>1 DEF IInv, OnTheirWay
  <2>7. Replaced'
    <3> SUFFICES ASSUME cookie # 0, successor[cookie] # 0 PROVE Unseen(successor[cookie])'
      BY <1>10 DEF Replaced
    <3>1. cookie \in Tokens
      BY <1>1, BoundsAssumption DEF TypeOK, Tokens
    <3>2. PICK s : s = successor[cookie] /\ s \in Tokens
      BY <1>1, <3>1 DEF TypeOK, Tokens
    <3>3. Unseen(s)
      BY <3>2 DEF IInv, Replaced
    <3>4. Unseen(s)'
      BY <2>3, <3>2, <3>3
    <3>5. QED
      BY <1>10, <3>2, <3>4 DEF Unseen, InUse
  <2>8. QED
    BY <2>4, <2>6, <2>7
<1>11. ASSUME NEW t \in Tokens, GraceEnds(t) PROVE IInv'
  <2>1. /\ rotated[t] = "recent" /\ rotated' = [rotated EXCEPT ![t] = "old"]
        /\ cut' = cut \cup Unrecorded(t)
        /\ UNCHANGED <<account, issued, successor, revoked, barred, cookie, tab, faults, refused>>
    BY <1>11 DEF GraceEnds
  <2>2. NotIssuedYet' /\ OnTheirWay' /\ Replaced'
    BY <1>10, <2>1
  <2>3. (\E b \in Tabs : tab[b].op = "allowed" /\ tab[b].token = t) /\ successor[t] = 0 => t \in cut'
    BY <2>1 DEF Unrecorded
  <2>4. Recorded'
    <3> SUFFICES ASSUME faults = 0, NEW s \in Tokens, s \notin cut'
                 PROVE  /\ rotated'[s] = "recent" /\ successor[s] = 0 =>
                             \E d \in Tabs : tab[d].op = "allowed" /\ tab[d].token = s
                        /\ rotated'[s] = "old" => successor[s] # 0
      BY <2>1 DEF Recorded
    <3>0. s \notin cut
      BY <2>1
    <3>1. CASE s = t
      BY <1>1, <2>1, <2>3, <3>0, <3>1 DEF IInv, Recorded, TypeOK
    <3>2. CASE s # t
      BY <1>1, <2>1, <3>0, <3>2 DEF IInv, Recorded, TypeOK
    <3>3. QED
      BY <3>1, <3>2
  <2>5. TypeOK'
    <3>1. cut' \subseteq Tokens
      BY <1>1, <2>1 DEF Unrecorded, TypeOK
    <3>2. QED
      BY <1>1, <2>1, <3>1 DEF TypeOK
  <2>6. QED
    BY <1>1, <2>1, <2>2, <2>4, <2>5 DEF IInv, StaysSignedIn
<1>14. ASSUME NEW b \in Tabs, Die(b) PROVE IInv'
  <2>1. /\ tab[b].op \in {"asked", "valid", "allowed"} /\ Quit(b)
        /\ cut' = IF tab[b].op = "allowed" THEN cut \cup Unrecorded(tab[b].token) ELSE cut
        /\ UNCHANGED <<account, issued, rotated, successor, revoked, barred, cookie, faults, refused>>
    BY <1>14 DEF Die
  <2>2. /\ tab' \in [Tabs -> {Idle} \cup TabRow] /\ tab'[b] = Idle
        /\ \A d \in Tabs : d # b => tab'[d] = tab[d]
    BY <1>1, <2>1, Quitting
  <2>3. cut \subseteq cut' /\ cut' \subseteq Tokens
    <3>1. tab[b].token \in Tokens
      BY <1>1, <2>1, TabShapes
    <3>2. QED
      BY <1>1, <2>1, <3>1 DEF Unrecorded, TypeOK
  <2>4. tab[b].op = "allowed" => tab[b].token \in cut' \/ successor[tab[b].token] # 0
    BY <2>1 DEF Unrecorded
  <2>5. NotIssuedYet' /\ OnTheirWay' /\ Replaced' /\ Recorded'
    BY <1>1, <2>1, <2>2, <2>3, <2>4, Faulting, GoingOn
  <2>6. QED
    BY <1>1, <2>1, <2>2, <2>3, <2>5 DEF IInv, TypeOK, TabRow, StaysSignedIn
<1>12. ASSUME NEW b \in Tabs, RotationAllowsReuse(b) PROVE IInv'
  <2>1. /\ tab[b].op = "valid" /\ InUse(b)
        /\ UNCHANGED <<account, issued, successor, revoked, barred, cookie, cut>>
    BY <1>12 DEF RotationAllowsReuse, InUse
  <2>2. PICK t \in Tokens : t = tab[b].token
    BY <1>1, <2>1, TabShapes
  <2>3. CASE RedisFails /\ UNCHANGED <<rotated, refused>> /\ (Quit(b) \/ Move(b, "valid", "allowed"))
    <3>1. /\ tab' \in [Tabs -> {Idle} \cup TabRow]
          /\ tab'[b] = Idle \/ (tab'[b].op = "allowed" /\ tab'[b].token = tab[b].token)
          /\ \A d \in Tabs : d # b => tab'[d] = tab[d]
      BY <1>1, <2>3, Quitting, Moving
    <3>2. faults' \in faults..MaxFaults /\ faults' \in 0..MaxFaults
      BY <1>1, <2>3, Faulting
    <3>3. NotIssuedYet' /\ OnTheirWay' /\ Replaced' /\ Recorded'
      <4>1. \A d \in Tabs :
              \/ tab'[d] = tab[d]
              \/ tab'[d] = Idle /\ tab[d].op # "allowed"
              \/ InUse(d) /\ InUse(d)' /\ tab'[d].token = tab[d].token /\ tab[d].op # "allowed"
        BY <2>1, <3>1 DEF InUse
      <4>2. QED
        BY <2>1, <2>3, <3>2, <4>1, GoingOn
    <3>4. TypeOK'
      BY <1>1, <2>1, <2>3, <3>1, <3>2 DEF TypeOK, TabRow
    <3>5. QED
      BY <1>1, <2>3, <3>3, <3>4 DEF IInv, StaysSignedIn
  <2>4. CASE /\ RedisWorks
             /\ rotated' = [rotated EXCEPT ![t] = IF @ = "no" THEN "recent" ELSE @]
             /\ IF rotated[t] # "old" \/ SuccessorUnused(t)
                THEN Move(b, "valid", "allowed") /\ UNCHANGED refused
                ELSE Refuse(b)
    <3>1. refused' = refused /\ faults' = faults
      BY <2>1, <2>2, <2>4, NotRefused DEF RedisWorks
    <3>2. /\ tab' \in [Tabs -> {Idle} \cup TabRow]
          /\ \/ tab'[b] = Idle /\ rotated[t] = "old"
             \/ tab'[b].op = "allowed" /\ tab'[b].token = t
          /\ \A d \in Tabs : d # b => tab'[d] = tab[d]
      BY <1>1, <2>2, <2>4, Quitting, Moving DEF Refuse
    <3> DEFINE r == IF rotated[t] = "no" THEN "recent" ELSE rotated[t]
    <3>3. r \in {"recent", "old"} /\ rotated' = [rotated EXCEPT ![t] = r] /\ (r = "old" <=> rotated[t] = "old")
      BY <1>1, <2>4 DEF TypeOK
    <3>4. PICK q \in {"recent", "old"} : q = r
      BY <3>3
    <3>5. rotated' = [rotated EXCEPT ![t] = q] /\ (q = "old" <=> rotated[t] = "old")
      BY <3>3, <3>4
    <3> HIDE DEF r
    <3>6. NotIssuedYet' /\ OnTheirWay' /\ Replaced'
      <4>1. \A d \in Tabs :
              \/ tab'[d] = tab[d]
              \/ tab'[d] = Idle /\ InUse(d)
              \/ InUse(d) /\ InUse(d)' /\ tab'[d].token = tab[d].token
        BY <2>1, <2>2, <3>2 DEF InUse
      <4>2. QED
        BY <1>10, <2>1, <2>2, <3>5, <4>1
    <3>7. Recorded'
      <4> SUFFICES ASSUME faults = 0, NEW s \in Tokens \ cut
                   PROVE  /\ rotated'[s] = "recent" /\ successor[s] = 0 =>
                               \E d \in Tabs : tab'[d].op = "allowed" /\ tab'[d].token = s
                          /\ rotated'[s] = "old" => successor[s] # 0
        BY <2>1, <3>1 DEF Recorded
      <4>1. CASE s = t
        BY <1>1, <3>2, <3>5, <4>1 DEF IInv, Recorded, TypeOK
      <4>2. CASE s # t
        <5>1. \A d \in Tabs : tab[d].op = "allowed" => d # b
          BY <2>1
        <5>2. QED
          BY <1>1, <3>2, <3>5, <4>2, <5>1 DEF IInv, Recorded, TypeOK
      <4>3. QED
        BY <4>1, <4>2
    <3>8. TypeOK'
      BY <1>1, <2>1, <3>1, <3>2, <3>5 DEF TypeOK, TabRow
    <3>9. QED
      BY <1>1, <3>1, <3>6, <3>7, <3>8 DEF IInv, StaysSignedIn
  <2>5. QED
    BY <1>12, <2>2, <2>3, <2>4 DEF RotationAllowsReuse
<1>13. CASE UNCHANGED vars
  <2>1. NotIssuedYet' /\ OnTheirWay' /\ Replaced' /\ Recorded'
    BY <1>1, <1>13, Faulting, GoingOn DEF vars
  <2>2. QED
    BY <1>1, <1>13, <2>1 DEF vars, IInv, TypeOK, StaysSignedIn
<1>15. QED
  BY <1>2, <1>3, <1>4, <1>5, <1>6, <1>7, <1>8, <1>9, <1>11, <1>12, <1>13, <1>14 DEF Next

THEOREM Invariant == Spec => []IInv
  BY InitIInv, InvStep, PTL DEF Spec

(* The type invariant, for any tabs, tokens and faults.                    *)
THEOREM TypeCorrect == Spec => []TypeOK
<1>1. IInv => TypeOK
  BY DEF IInv
<1>2. QED
  BY <1>1, Invariant, PTL

(* As long as Redis answers, a browser whose account is active and that    *)
(* did not sign out is never refused with the cookie it has, however many  *)
(* tabs refresh at the same time, whichever requests die and whichever     *)
(* responses are lost, late or crossed - unless a refresh with that cookie *)
(* died, or outlasted the grace window, after the SET of its use and       *)
(* before the SET of its replacement (auth.py:40-42, 275, 293-303, 322).   *)
THEOREM SignedIn == Spec => []StaysSignedIn
<1>1. IInv => StaysSignedIn
  BY DEF IInv
<1>2. QED
  BY <1>1, Invariant, PTL

-----------------------------------------------------------------------------
(* The API serves one request at a time.                                   *)
OneAtATime == \A v, w \in Workers : v = w

(* The greatest and the least of some numbers.                            *)
Biggest(S) == CHOOSE x \in S : \A y \in S : x >= y
Smallest(S) == CHOOSE x \in S : \A y \in S : x <= y

LEMMA Greatest ==
  ASSUME NEW n \in Nat, NEW S, S # {}, \A x \in S : x \in Nat /\ x <= n
  PROVE  Biggest(S) \in S /\ \A x \in S : Biggest(S) >= x
<1> DEFINE R == OpToRel(<, Nat)
           T == {n - x : x \in S}
<1>1. IsWellFoundedOn(R, Nat)
  BY NatLessThanWellFounded
<1>2. T \subseteq Nat /\ T # {}
  OBVIOUS
<1>3. PICK m \in T : \A y \in T : ~ (<<y, m>> \in R)
  <2> HIDE DEF R, T
  <2>1. QED
    BY <1>1, <1>2, WFMin
<1>4. PICK z \in S : m = n - z
  OBVIOUS
<1>5. \A x \in S : z >= x
  <2> TAKE x \in S
  <2>1. n - x \in T /\ n - x \in Nat /\ m \in Nat
    BY <1>2
  <2>2. ~ (n - x < m)
    BY <2>1, <1>3 DEF OpToRel
  <2>3. QED
    BY <2>1, <2>2, <1>4
<1>6. QED
  BY <1>5 DEF Biggest

LEMMA Least ==
  ASSUME NEW S \in SUBSET Nat, S # {}
  PROVE  Smallest(S) \in S /\ \A x \in S : Smallest(S) <= x
<1> DEFINE R == OpToRel(<, Nat)
<1>1. IsWellFoundedOn(R, Nat)
  BY NatLessThanWellFounded
<1>2. PICK m \in S : \A y \in S : ~ (<<y, m>> \in R)
  <2> HIDE DEF R
  <2>1. QED
    BY <1>1, WFMin
<1>3. \A y \in S : m <= y
  <2> TAKE y \in S
  <2>1. m \in Nat /\ y \in Nat
    OBVIOUS
  <2>2. ~ (y < m)
    BY <2>1, <1>2 DEF OpToRel
  <2>3. QED
    BY <2>1, <2>2
<1>4. QED
  BY <1>3 DEF Smallest

LEMMA SameOperators ==
  /\ \A S : Judged!Cardinality(S) = Cardinality(S) /\ Judged!Max(S) = Biggest(S)
  /\ \A S : Reviewed!Cardinality(S) = Cardinality(S)
  /\ \A S : Reviewed!Max(S) = Biggest(S) /\ Reviewed!Min(S) = Smallest(S)
  BY DEF Judged!Cardinality, Judged!Max, Reviewed!Cardinality, Reviewed!Max, Reviewed!Min, Biggest, Smallest,
         Cardinality

-----------------------------------------------------------------------------
(* Reports: only the last one is active, so the content shows what the     *)
(* last one that was answered says; and content only ages.                 *)

(* Content is shown to finitely many, and it ages in five bands at most.   *)
ContentKnown ==
  \A t \in Contents : /\ IsFiniteSet(t.voters) /\ t.audience \in Nat /\ t.popularity \in Nat
                     /\ t.oldest \in 1..5

Fits == target \in Contents /\ age \in Judged!Ages /\ reports \in Seq(Judged!ReportRow)

(* Older content takes a larger share to delete.                           *)
LEMMA Shares ==
  ASSUME ContentKnown, Fits, age' \in {age, age + 1}, age' \in Judged!Ages, UNCHANGED target,
         NEW reason
  PROVE  /\ Judged!DeleteYesShare(reason) \in Nat /\ Judged!DeleteYesShare(reason)' \in Nat
         /\ Judged!DeleteYesShare(reason) <= Judged!DeleteYesShare(reason)'
<1> DEFINE pop == Judged!PopularityBoost
<1>1. pop \in Nat /\ pop' = pop
  BY DEF Judged!PopularityBoost, Judged!Popularity
<1>2. age \in 1..5 /\ age' \in 1..5
  BY DEF Fits, Judged!Ages, ContentKnown
<1>3. Judged!AgeBoosts[age] \in Nat /\ Judged!AgeBoosts[age'] \in Nat /\ Judged!AgeBoosts[age] <= Judged!AgeBoosts[age']
  BY <1>2 DEF Judged!AgeBoosts
<1>4. Judged!Boost \in Nat /\ Judged!Boost' \in Nat /\ Judged!Boost <= Judged!Boost'
  <2> HIDE DEF pop
  <2>1. Judged!Boost = Judged!AgeBoosts[age] + pop /\ Judged!Boost' = Judged!AgeBoosts[age'] + pop'
    BY DEF Judged!Boost, pop, Judged!AgeBoosts
  <2>2. QED
    BY <2>1, <1>1, <1>3
<1>5. \A a, b \in Nat : a <= b => /\ a \div 2 \in Nat /\ b \div 2 \in Nat /\ a \div 2 <= b \div 2
  OBVIOUS
<1>6. Judged!Boost \div 2 \in Nat /\ Judged!Boost' \div 2 \in Nat /\ Judged!Boost \div 2 <= Judged!Boost' \div 2
  BY <1>4, <1>5
<1> DEFINE Share(b) == IF reason = "serious-harm" THEN Judged!AtMost(85, 66 + b \div 2) ELSE Judged!AtMost(90, 66 + b)
<1>7. \A a, b \in Nat : a <= b /\ a \div 2 \in Nat /\ b \div 2 \in Nat /\ a \div 2 <= b \div 2 =>
        Share(a) \in Nat /\ Share(b) \in Nat /\ Share(a) <= Share(b)
  BY DEF Judged!AtMost
<1>8. Judged!DeleteYesShare(reason) = Share(Judged!Boost) /\ Judged!DeleteYesShare(reason)' = Share(Judged!Boost')
  BY DEF Judged!DeleteYesShare, Judged!AtMost
<1> HIDE DEF Share
<1>9. QED
  BY <1>4, <1>6, <1>7, <1>8

(* A larger share of the same votes is more.                               *)
LEMMA Product ==
  \A a, b, t \in Nat : a <= b => a * t \in Nat /\ b * t \in Nat /\ a * t <= b * t
<1> SUFFICES ASSUME NEW a \in Nat, NEW b \in Nat, NEW t \in Nat, a <= b
             PROVE  a * t \in Nat /\ b * t \in Nat /\ a * t <= b * t
  OBVIOUS
<1>1. PICK d \in Nat : b = a + d
  <2>1. b - a \in Nat /\ b = a + (b - a)
    OBVIOUS
  <2>2. QED
    BY <2>1
<1>2. b * t = a * t + d * t /\ d * t \in Nat /\ a * t \in Nat
  BY <1>1
<1>3. QED
  BY <1>2

(* What cannot delete any more cannot when the content is older.           *)
LEMMA Hopeless ==
  ASSUME ContentKnown, Fits, age' \in {age, age + 1}, age' \in Judged!Ages, UNCHANGED target,
         NEW reason, NEW ballots, ~ Judged!CanStillReachDeletion(reason, ballots)
  PROVE  ~ Judged!CanStillReachDeletion(reason, ballots)'
<1> DEFINE total == Judged!MaxTotal(ballots)
           yes == total - Judged!Count("no", ballots)
           share == Judged!DeleteYesShare(reason)
           quorum == Judged!DeleteQuorum(reason)
<1>1. Judged!Count("no", ballots) \in Nat /\ Judged!Cast(ballots) \in Nat
  <2>1. IsFiniteSet(Judged!Voters)
    BY DEF Fits, ContentKnown, Judged!Voters
  <2>2. \A side : Judged!Count(side, ballots) \in Nat
    BY <2>1, FS_Subset, FS_CardinalityType, SameOperators DEF Judged!Count
  <2>3. QED
    BY <2>2 DEF Judged!Cast
<1>2. total \in Nat
  <2>1. Judged!Audience \in Nat
    BY DEF Fits, ContentKnown, Judged!Audience
  <2>2. total \in {Judged!Audience, Judged!Cast(ballots)}
    <3>1. \E x \in {Judged!Audience, Judged!Cast(ballots)} : \A y \in {Judged!Audience, Judged!Cast(ballots)} : x >= y
      BY <2>1, <1>1
    <3>2. QED
      BY <3>1 DEF Judged!MaxTotal, Judged!Max
  <2>3. QED
    BY <2>1, <2>2, <1>1
<1>3. total' = total /\ yes' = yes /\ quorum' = quorum
  BY DEF Judged!MaxTotal, Judged!Cast, Judged!Count, Judged!Voters, Judged!Audience, Judged!DeleteQuorum, Judged!TinyPrivateDm, Judged!BaseQuorum, Judged!Kind
<1>4. share \in Nat /\ share' \in Nat /\ share <= share'
  BY Shares
<1>5. ~ Judged!Reaches(yes, total, quorum, share)
  BY DEF Judged!CanStillReachDeletion
<1> HIDE DEF total, yes, share, quorum
<1>6. share * total <= share' * total /\ share * total \in Nat /\ share' * total \in Nat
  BY <1>2, <1>4, Product
<1>7. yes \in Int
  BY <1>1, <1>2 DEF yes
<1>8. ~ Judged!Reaches(yes, total, quorum, share')
  BY <1>5, <1>6, <1>7 DEF Judged!Reaches
<1>9. Judged!CanStillReachDeletion(reason, ballots)' = Judged!Reaches(yes', total', quorum', share')
  BY DEF Judged!CanStillReachDeletion, total, yes, share, quorum, Judged!Reaches
<1>10. QED
  BY <1>3, <1>8, <1>9

(* What a resolution may become: nothing goes back to open, only serious   *)
(* harm hides, and what is dismissed cannot delete any more.               *)
MayBecome(was, reason, ballots, now) ==
  /\ now \in Judged!Resolutions
  /\ now = "open" => was = "open"
  /\ now = "hidden" => reason = "serious-harm"
  /\ now = "dismissed" => ~ Judged!CanStillReachDeletion(reason, ballots)

LEMMA Advances ==
  ASSUME NEW was \in Judged!Active, NEW reason, NEW ballots, was = "hidden" => reason = "serious-harm"
  PROVE  MayBecome(was, reason, ballots, Judged!AdvanceResolution(was, reason, ballots))
<1> DEFINE next == Judged!NextResolution(was, reason, ballots)
           further == Judged!NextResolution(next, reason, ballots)
<1>1. MayBecome(was, reason, ballots, next)
  BY DEF Judged!NextResolution, MayBecome, Judged!Active, Judged!Resolutions, Judged!HideReady
<1>2. next = "under_review" /\ further = "hidden" => reason = "serious-harm"
  <2> HIDE DEF next
  <2>1. QED
    BY DEF Judged!NextResolution, Judged!HideReady
<1>3. Judged!AdvanceResolution(was, reason, ballots) =
        IF was = "open" /\ next = "under_review" /\ further = "hidden" THEN "hidden" ELSE next
  BY DEF Judged!AdvanceResolution
<1> HIDE DEF next, further
<1>4. QED
  BY <1>1, <1>2, <1>3 DEF MayBecome, Judged!Resolutions, Judged!Active

(* Only the last report is active, and the content shows what the last one *)
(* that is not open says.                                                  *)
Fair(row) ==
  /\ row.resolution = "hidden" => row.reason = "serious-harm"
  /\ row.resolution = "dismissed" => ~ Judged!CanStillReachDeletion(row.reason, row.votes)
IsOpen(i) == reports[i].resolution = "open"
Shown(resolution) == IF resolution = "dismissed" THEN "visible" ELSE resolution
OnlyLastIsActive == \A i \in DOMAIN reports : reports[i].resolution \in Judged!Active => i = Len(reports)
Shows ==
  /\ \A i \in DOMAIN reports :
       ~ IsOpen(i) /\ (\A k \in DOMAIN reports : k > i => IsOpen(k)) =>
         content = Shown(reports[i].resolution)
  /\ (\A i \in DOMAIN reports : IsOpen(i)) => content = "visible"
AllFair == \A i \in DOMAIN reports : \A row : row = reports[i] => Fair(row)
ReportRows == Fits /\ OnlyLastIsActive /\ Shows /\ AllFair

(* One request at a time, a vote finds at its commit what it has read.     *)
Voting(j) ==
  /\ j.op \in {"read", "tallied"}
  /\ j.id \in DOMAIN reports /\ j.was = reports[j.id].resolution /\ j.was \in Judged!Active
  /\ j.user \in Judged!Voters /\ j.vote \in {"yes", "no"} /\ j.found \in Judged!Ballots
  /\ j.op = "tallied" => \A reason, ballots : reason = reports[j.id].reason /\ ballots = Judged!Voted(j) =>
                           MayBecome(j.was, reason, ballots, j.now)
Holds(j) == j = Judged!Idle \/ Voting(j)
ReportInv == ReportRows /\ DOMAIN reportJob = Workers /\ \A w \in Workers : \A j : j = reportJob[w] => Holds(j)

LEMMA VotedType ==
  ASSUME ReportRows, NEW j, Voting(j)
  PROVE  Judged!Voted(j) \in [Judged!Voters -> Judged!Ballots]
<1>1. reports[j.id] \in Judged!ReportRow
  BY DEF ReportRows, Fits, Voting
<1>2. reports[j.id].votes \in [Judged!Voters -> Judged!Ballots]
  BY <1>1 DEF Judged!ReportRow
<1>3. QED
  BY <1>2 DEF Judged!Voted, Voting, Judged!Recorded, Judged!Ballots

LEMMA Filed ==
  ASSUME ContentKnown, ReportInv, NEW u \in Reporters, NEW reason \in Reasons, Judged!SubmitReport(u, reason), UNCHANGED target
  PROVE  ReportInv'
<1> DEFINE ballots == [v \in Judged!Voters |-> IF v = u THEN "yes" ELSE "none"]
           after == Judged!AdvanceResolution("open", reason, ballots)
<1>1. PICK cast, now, n : cast = ballots /\ now = after /\ n = Len(reports)
  OBVIOUS
<1>2. PICK row : row = [reason |-> reason, resolution |-> now, votes |-> cast]
  OBVIOUS
<1>3. /\ Judged!ActiveReports(reports) = {} /\ reports' = Append(reports, row) /\ content' = Judged!Effect(now)
      /\ UNCHANGED <<target, age, reportJob>>
  BY <1>1, <1>2 DEF Judged!SubmitReport, Judged!ApplyResolution
<1>4. MayBecome("open", reason, cast, now)
  BY <1>1, Advances DEF Judged!Active
<1>5. row \in Judged!ReportRow /\ reports \in Seq(Judged!ReportRow) /\ n \in Nat /\ DOMAIN reports = 1..n
  BY <1>1, <1>2, <1>4 DEF Judged!ReportRow, MayBecome, ReportInv, ReportRows, Fits, Judged!Ballots
<1> HIDE DEF ballots, after
<1>6. /\ reports' \in Seq(Judged!ReportRow) /\ Len(reports') = n + 1 /\ DOMAIN reports' = 1..(n + 1)
      /\ reports'[n + 1] = row /\ \A i \in 1..n : reports'[i] = reports[i]
  BY <1>1, <1>3, <1>5
<1>7. row.resolution = now /\ row.reason = reason /\ row.votes = cast
  BY <1>2
<1>8. Fits'
  BY <1>3, <1>6 DEF ReportInv, ReportRows, Fits, Judged!Ages, Judged!ReportRow, Judged!Voters
<1>9. \A i \in 1..n : reports[i].resolution \notin Judged!Active
  BY <1>3, <1>5 DEF Judged!ActiveReports
<1>10. OnlyLastIsActive'
  BY <1>5, <1>6, <1>9 DEF OnlyLastIsActive
<1>11. Shows'
  <2>1. CASE now = "open"
    <3>1. content' = content
      BY <2>1, <1>3 DEF Judged!Effect
    <3>2. \A i \in 1..(n + 1) : IsOpen(i)' <=> (i = n + 1 \/ IsOpen(i))
      BY <2>1, <1>5, <1>6, <1>7 DEF IsOpen
    <3>3. (\A i \in 1..(n + 1) : IsOpen(i)') => content = "visible"
      BY <3>2, <1>5 DEF ReportInv, ReportRows, Shows
    <3>4. ASSUME NEW i \in 1..(n + 1), ~ IsOpen(i)', \A k \in 1..(n + 1) : k > i => IsOpen(k)'
          PROVE  content = Shown(reports'[i].resolution)
      <4>1. i \in 1..n /\ ~ IsOpen(i) /\ reports'[i] = reports[i]
        BY <3>4, <3>2, <1>6, <1>5
      <4>2. \A k \in 1..n : k > i => IsOpen(k)
        BY <3>4, <3>2, <1>5
      <4>3. QED
        BY <4>1, <4>2, <1>5 DEF ReportInv, ReportRows, Shows
    <3>5. QED
      BY <3>1, <3>3, <3>4, <1>6 DEF Shows
  <2>2. CASE now # "open"
    <3>1. content' = Shown(now)
      BY <2>2, <1>3 DEF Judged!Effect, Shown
    <3>2. ~ IsOpen(n + 1)'
      BY <2>2, <1>6, <1>7 DEF IsOpen
    <3>3. ASSUME NEW i \in 1..(n + 1), \A k \in 1..(n + 1) : k > i => IsOpen(k)'
          PROVE  content' = Shown(reports'[i].resolution)
      <4>1. i = n + 1
        BY <3>3, <3>2, <1>5
      <4>2. QED
        BY <4>1, <3>1, <1>6, <1>7
    <3>4. QED
      BY <3>2, <3>3, <1>6, <1>5 DEF Shows
  <2>3. QED
    BY <2>1, <2>2
<1>12. AllFair'
  <2>1. Fits /\ age' \in Judged!Ages
    BY <1>3 DEF ReportInv, ReportRows, Fits
  <2>2. ASSUME NEW old, Fair(old)
        PROVE  Fair(old)'
    BY <1>3, <2>1, <2>2, Hopeless DEF Fair
  <2>3. \A i \in 1..n : \A old : old = reports'[i] => Fair(old)'
    BY <2>2, <1>5, <1>6 DEF ReportInv, ReportRows, AllFair
  <2>4. Fair(row)'
    BY <2>2, <1>4, <1>7 DEF Fair, MayBecome
  <2>5. QED
    BY <2>3, <2>4, <1>5, <1>6 DEF AllFair
<1>13. \A w \in Workers : reportJob[w] = Judged!Idle
  BY <1>5, <1>9 DEF ReportInv, Holds, Voting
<1>14. QED
  BY <1>3, <1>8, <1>10, <1>11, <1>12, <1>13 DEF ReportInv, ReportRows, Holds

LEMMA CommittedVote ==
  ASSUME ContentKnown, OneAtATime, ReportInv, NEW w \in Workers, Judged!CommitReportVote(w), UNCHANGED target
  PROVE  ReportInv'
<1>1. PICK j : j = reportJob[w]
  OBVIOUS
<1>2. Voting(j) /\ j.op = "tallied"
  BY <1>1 DEF ReportInv, Holds, Judged!Idle, Judged!CommitReportVote
<1>3. PICK n, ballots, reason : n = Len(reports) /\ ballots = Judged!Voted(j) /\ reason = reports[j.id].reason
  OBVIOUS
<1>4. j.id = n /\ n \in Nat /\ DOMAIN reports = 1..n /\ reports \in Seq(Judged!ReportRow) /\ n \in 1..n
  BY <1>2, <1>3 DEF Voting, ReportInv, ReportRows, OnlyLastIsActive, Fits
<1>5. /\ reports' = [reports EXCEPT ![n].votes = ballots, ![n].resolution = j.now]
      /\ content' = Judged!Effect(j.now) /\ UNCHANGED <<target, age>>
      /\ reportJob' = [reportJob EXCEPT ![w] = Judged!Idle]
  BY <1>1, <1>3, <1>4 DEF Judged!CommitReportVote, Judged!ApplyResolution, Judged!EndJob
<1>6. MayBecome(j.was, reason, ballots, j.now)
  BY <1>2, <1>3 DEF Voting
<1>7. ballots \in [Judged!Voters -> Judged!Ballots]
  BY <1>2, <1>3, VotedType DEF ReportInv
<1>8. PICK row : row = [reports[n] EXCEPT !.votes = ballots, !.resolution = j.now]
  OBVIOUS
<1>9. reports[n] \in Judged!ReportRow
  BY <1>4
<1>10. row \in Judged!ReportRow /\ row.resolution = j.now /\ row.reason = reason /\ row.votes = ballots
  BY <1>3, <1>4, <1>6, <1>7, <1>8, <1>9 DEF Judged!ReportRow, MayBecome
<1>11. /\ reports' \in Seq(Judged!ReportRow) /\ Len(reports') = n /\ DOMAIN reports' = 1..n
       /\ reports'[n] = row /\ \A i \in 1..n : i # n => reports'[i] = reports[i]
  <2>1. reports' = [reports EXCEPT ![n] = row]
    BY <1>4, <1>5, <1>8
  <2>2. QED
    BY <2>1, <1>3, <1>4, <1>10
<1>12. Fits'
  BY <1>5, <1>11 DEF ReportInv, ReportRows, Fits, Judged!Ages, Judged!ReportRow, Judged!Voters
<1>13. OnlyLastIsActive'
  BY <1>3, <1>4, <1>11 DEF ReportInv, ReportRows, OnlyLastIsActive
<1>14. Shows'
  <2>1. CASE j.now = "open"
    <3>1. j.was = "open" /\ IsOpen(n) /\ IsOpen(n)' /\ content' = content
      BY <2>1, <1>2, <1>4, <1>5, <1>6, <1>10, <1>11 DEF MayBecome, Voting, IsOpen, Judged!Effect
    <3>2. \A i \in 1..n : (IsOpen(i)' <=> IsOpen(i)) /\ (~ IsOpen(i) => reports'[i] = reports[i])
      BY <3>1, <1>11 DEF IsOpen
    <3>3. QED
      BY <3>1, <3>2, <1>4, <1>11 DEF ReportInv, ReportRows, Shows
  <2>2. CASE j.now # "open"
    <3>1. content' = Shown(j.now)
      BY <2>2, <1>5 DEF Judged!Effect, Shown
    <3>2. ~ IsOpen(n)'
      BY <2>2, <1>10, <1>11 DEF IsOpen
    <3>3. ASSUME NEW i \in 1..n, \A k \in 1..n : k > i => IsOpen(k)'
          PROVE  content' = Shown(reports'[i].resolution)
      <4>1. i = n
        BY <3>3, <3>2, <1>4
      <4>2. QED
        BY <4>1, <3>1, <1>10, <1>11
    <3>4. QED
      BY <3>2, <3>3, <1>4, <1>11 DEF Shows
  <2>3. QED
    BY <2>1, <2>2
<1>15. AllFair'
  <2>1. Fits /\ age' \in Judged!Ages
    BY <1>5 DEF ReportInv, ReportRows, Fits
  <2>2. ASSUME NEW old, Fair(old)
        PROVE  Fair(old)'
    BY <1>5, <2>1, <2>2, Hopeless DEF Fair
  <2>3. \A i \in 1..n : i # n => \A old : old = reports'[i] => Fair(old)'
    BY <2>2, <1>4, <1>11 DEF ReportInv, ReportRows, AllFair
  <2>4. Fair(row)'
    BY <2>2, <1>6, <1>10 DEF Fair, MayBecome
  <2>5. QED
    BY <2>3, <2>4, <1>4, <1>11 DEF AllFair
<1>16. DOMAIN reportJob' = Workers /\ \A v \in Workers : reportJob'[v] = Judged!Idle
  BY <1>5 DEF ReportInv, OneAtATime
<1>17. QED
  BY <1>12, <1>13, <1>14, <1>15, <1>16 DEF ReportInv, ReportRows, Holds

(* A step that writes no report keeps them, and what a vote has read.      *)
LEMMA Waits ==
  ASSUME ContentKnown, ReportInv, UNCHANGED <<target, content, reports>>,
         age' \in {age, age + 1}, age' \in Judged!Ages
  PROVE  ReportRows' /\ \A j : Holds(j) => Holds(j)'
<1>1. Fits /\ Fits'
  BY DEF ReportInv, ReportRows, Fits, Judged!Ages, Judged!ReportRow, Judged!Voters
<1>2. ASSUME NEW reason, NEW ballots, ~ Judged!CanStillReachDeletion(reason, ballots)
      PROVE  ~ Judged!CanStillReachDeletion(reason, ballots)'
  BY <1>1, <1>2, Hopeless
<1>3. AllFair'
  BY <1>2 DEF ReportInv, ReportRows, AllFair, Fair
<1>4. OnlyLastIsActive' /\ Shows'
  BY DEF ReportInv, ReportRows, OnlyLastIsActive, Shows, IsOpen
<1>5. ASSUME NEW j, Voting(j)
      PROVE  Voting(j)'
  <2>1. \A reason, ballots : MayBecome(j.was, reason, ballots, j.now) => MayBecome(j.was, reason, ballots, j.now)'
    BY <1>2 DEF MayBecome
  <2>2. Judged!Voted(j)' = Judged!Voted(j) /\ Judged!Voters' = Judged!Voters
    BY DEF Judged!Voted, Judged!Voters
  <2>3. QED
    BY <1>5, <2>1, <2>2 DEF Voting
<1>6. QED
  BY <1>1, <1>3, <1>4, <1>5 DEF ReportRows, Holds

LEMMA ReportsBegin == ContentKnown /\ Judged!Init => ReportInv
<1> SUFFICES ASSUME ContentKnown, Judged!Init PROVE ReportInv
  OBVIOUS
<1>1. reports \in Seq(Judged!ReportRow) /\ DOMAIN reports = {}
  BY DEF Judged!Init
<1>2. Fits
  BY <1>1 DEF Judged!Init, Fits, Judged!Ages, ContentKnown
<1>3. QED
  BY <1>1, <1>2 DEF Judged!Init, ReportInv, ReportRows, OnlyLastIsActive, Shows, AllFair, Holds

LEMMA ReportStep ==
  ASSUME ContentKnown, OneAtATime, ReportInv, [Judged!Next]_(Judged!vars)
  PROVE  ReportInv'
<1>1. CASE UNCHANGED Judged!vars
  <2>1. UNCHANGED <<target, content, reports, age, reportJob>> /\ age' \in Judged!Ages
    BY <1>1 DEF Judged!vars, ReportInv, ReportRows, Fits
  <2>2. QED
    BY <2>1, Waits DEF ReportInv
<1>2. ASSUME NEW u \in Reporters, NEW reason \in Reasons, UNCHANGED target, Judged!SubmitReport(u, reason)
      PROVE  ReportInv'
  BY <1>2, Filed
<1>3. ASSUME NEW w \in Workers, UNCHANGED target, Judged!CommitReportVote(w)
      PROVE  ReportInv'
  BY <1>3, CommittedVote
<1>4. ASSUME NEW w \in Workers, NEW k, Holds(k), reportJob' = [reportJob EXCEPT ![w] = k],
             UNCHANGED <<target, content, reports, age>>
      PROVE  ReportInv'
  <2>1. age' \in Judged!Ages
    BY <1>4 DEF ReportInv, ReportRows, Fits
  <2>2. DOMAIN reportJob' = Workers /\ \A v \in Workers : reportJob'[v] = k
    BY <1>4 DEF ReportInv, OneAtATime
  <2>3. ReportRows' /\ Holds(k)'
    BY <1>4, <2>1, Waits
  <2>4. QED
    BY <2>2, <2>3 DEF ReportInv
<1>5. ASSUME NEW w \in Workers, UNCHANGED target, NEW u \in Judged!Voters, NEW id \in DOMAIN reports,
             NEW vote \in {"yes", "no"}, Judged!StartReportVote(w, u, id, vote)
      PROVE  ReportInv'
  <2>1. PICK k : k = [op |-> "read", user |-> u, id |-> id, vote |-> vote,
                      found |-> reports[id].votes[u], was |-> reports[id].resolution]
    OBVIOUS
  <2>2. reports[id] \in Judged!ReportRow
    BY DEF ReportInv, ReportRows, Fits
  <2>3. reports[id].votes[u] \in Judged!Ballots /\ reports[id].resolution \in Judged!Active
    BY <2>2, <1>5 DEF Judged!ReportRow, Judged!StartReportVote
  <2>4. Holds(k)
    BY <2>1, <2>3 DEF Holds, Voting
  <2>5. QED
    BY <2>1, <2>4, <1>4, <1>5 DEF Judged!StartReportVote
<1>6. ASSUME NEW w \in Workers, UNCHANGED target, Judged!TallyReportVote(w)
      PROVE  ReportInv'
  <2>1. PICK j : j = reportJob[w]
    OBVIOUS
  <2>2. Voting(j)
    BY <2>1, <1>6 DEF ReportInv, Holds, Judged!Idle, Judged!TallyReportVote
  <2>3. PICK reason, ballots : reason = reports[j.id].reason /\ ballots = Judged!Voted(j)
    OBVIOUS
  <2>4. PICK k : k = [op |-> "tallied", user |-> j.user, id |-> j.id, vote |-> j.vote, found |-> j.found,
                      was |-> j.was, now |-> Judged!AdvanceResolution(j.was, reason, ballots)]
    OBVIOUS
  <2>5. /\ k.op = "tallied" /\ k.user = j.user /\ k.id = j.id /\ k.vote = j.vote /\ k.found = j.found
        /\ k.was = j.was /\ k.now = Judged!AdvanceResolution(j.was, reason, ballots)
    BY <2>4
  <2>6. Judged!Voted(k) = ballots
    BY <2>3, <2>5 DEF Judged!Voted
  <2>7. j.was = "hidden" => reason = "serious-harm"
    BY <2>2, <2>3 DEF Voting, ReportInv, ReportRows, AllFair, Fair
  <2>8. MayBecome(j.was, reason, ballots, k.now)
    BY <2>2, <2>5, <2>7, Advances DEF Voting
  <2>9. Holds(k)
    BY <2>2, <2>3, <2>5, <2>6, <2>8 DEF Holds, Voting
  <2>10. QED
    BY <2>1, <2>3, <2>4, <2>9, <1>4, <1>6 DEF Judged!TallyReportVote
<1>7. ASSUME NEW w \in Workers, UNCHANGED target, Judged!Rollback(w)
      PROVE  ReportInv'
  BY <1>4, <1>7 DEF Judged!Rollback, Judged!EndJob, Holds
<1>8. ASSUME UNCHANGED target, Judged!Grow
      PROVE  ReportInv'
  <2>1. UNCHANGED <<target, content, reports, reportJob>> /\ age' = age + 1 /\ age' \in Judged!Ages
    BY <1>8 DEF Judged!Grow
  <2>2. QED
    BY <2>1, Waits DEF ReportInv
<1>9. QED
  BY <1>1, <1>2, <1>3, <1>5, <1>6, <1>7, <1>8 DEF Judged!Next

(* One vote at a time, the content is in the state that the last report    *)
(* that was answered asks for; only reports of serious harm hide it, and a *)
(* report that was dismissed can never delete it, however it ages          *)
(* (moderation/serialize.py:294-421).                                      *)
THEOREM ReportsFollowed ==
  ASSUME ContentKnown, OneAtATime
  PROVE  Judged!Spec => []StateFollowsReports
<1>1. ReportInv => StateFollowsReports
  <2> SUFFICES ASSUME ReportInv PROVE StateFollowsReports
    OBVIOUS
  <2>1. Len(reports) \in Nat /\ DOMAIN reports = 1..Len(reports)
    BY DEF ReportInv, ReportRows, Fits
  <2>2. content = IF Judged!Asked = "dismissed" THEN "visible" ELSE Judged!Asked
    <3>1. CASE Judged!Answered = {}
      BY <3>1 DEF Judged!Answered, Judged!Asked, ReportInv, ReportRows, Shows, IsOpen
    <3>2. CASE Judged!Answered # {}
      <4>1. /\ Judged!Max(Judged!Answered) \in Judged!Answered
            /\ \A i \in Judged!Answered : Judged!Max(Judged!Answered) >= i
        BY <2>1, <3>2, Greatest, SameOperators DEF Judged!Answered
      <4>2. PICK m : m = Judged!Max(Judged!Answered)
        OBVIOUS
      <4>3. ASSUME NEW k \in DOMAIN reports, k > m
            PROVE  IsOpen(k)
        <5>1. k \in Judged!Answered => m >= k
          BY <4>1, <4>2
        <5>2. k \in Nat /\ m \in Nat
          BY <2>1, <4>1, <4>2 DEF Judged!Answered
        <5>3. QED
          BY <4>3, <5>1, <5>2 DEF Judged!Answered, IsOpen
      <4>4. content = Shown(reports[m].resolution)
        BY <4>1, <4>2, <4>3 DEF Judged!Answered, IsOpen, ReportInv, ReportRows, Shows
      <4>5. QED
        BY <3>2, <4>2, <4>4 DEF Judged!Asked, Shown
    <3>3. QED
      BY <3>1, <3>2
  <2>3. QED
    BY <2>2 DEF StateFollowsReports, Judged!StateFollowsReports, ReportInv, ReportRows, AllFair, Fair
<1>2. QED
  BY <1>1, ReportsBegin, ReportStep, PTL DEF Judged!Spec

-----------------------------------------------------------------------------
(* Reviews: a marker is never on a cooldown, and an account has one open   *)
(* review at most.  What a mark has found in the standings is so when it   *)
(* is made, and a review that is opened pauses nobody.                     *)

DaysKnown == Days \subseteq Nat /\ \E last \in Days : \A d \in Days : d <= last

Stances == [Accounts -> [Suspects -> {"none", "vouch", "bot"}]]
OpenReview(i) == i \in DOMAIN reviews /\ reviews[i].status = "open"

ReviewTypes ==
  /\ stance \in Stances
  /\ reviews \in Seq(Reviewed!ReviewRow)
  /\ cooling \in [Accounts -> [Suspects -> Int]]
  /\ reviewDay \in Days /\ DOMAIN reviewJob = Workers
ReviewHistory ==
  /\ \E n \in Nat : \A i \in DOMAIN reviews : reviews[i].closing <= n
  /\ \A t \in Suspects : Reviewed!ClosedOf(t) # {} =>
       \E i \in Reviewed!ClosedOf(t) : \A k \in Reviewed!ClosedOf(t) : reviews[k].closing <= reviews[i].closing
OneOpenReview ==
  \A i, k \in DOMAIN reviews :
    OpenReview(i) /\ OpenReview(k) /\ reviews[i].target = reviews[k].target => i = k
Rested == \A t \in Suspects : \A u \in Reviewed!Markers(t) : cooling[u][t] <= reviewDay

(* What a mark changes, whose marks count with it, and whether it opens a  *)
(* review.                                                                 *)
Marked(u, t) == [stance EXCEPT ![u][t] = "bot"]
Behind(u, t) ==
  {v \in Accounts : /\ Marked(u, t)[v][t] = "bot"
                    /\ v \in Reviewed!FullAmong(warm, Reviewed!Paused, Marked(u, t))}
Warrants(u, t) ==
  /\ Reviewed!OpenOf(t) = {} /\ t \notin Reviewed!Paused
  /\ Cardinality(Behind(u, t)) >= Reviewed!MarksToOpen
StillSo(j) ==
  /\ j.op = "mark" =>
       /\ j.user \in Accounts /\ j.target \in Suspects
       /\ cooling[j.user][j.target] <= reviewDay
       /\ j.opens <=> Warrants(j.user, j.target)
  /\ j.op \in {"vote", "voted"} => j.user \in Accounts /\ j.vote \in Reviewed!Sides
  /\ j.op \in {"vote", "voted", "settle"} => OpenReview(j.id)
  /\ j.op = "voted" => j.outcome \in Reviewed!Closed \cup {"open"}
  /\ j.op = "settle" => j.outcome \in Reviewed!Closed
  /\ j.op = "appeal" => j.user \in Suspects /\ Reviewed!OpenOf(j.user) = {}
RevInv ==
  /\ ReviewTypes /\ ReviewHistory /\ OneOpenReview /\ Rested
  /\ \A w \in Workers : StillSo(reviewJob[w])

LEMMA RowsTyped ==
  ASSUME ReviewTypes
  PROVE  /\ Len(reviews) \in Nat /\ DOMAIN reviews = 1..Len(reviews)
         /\ \A i \in DOMAIN reviews : reviews[i] \in Reviewed!ReviewRow
         /\ \A i \in DOMAIN reviews : /\ reviews[i].closing \in Nat /\ reviews[i].target \in Suspects
                                      /\ reviews[i].votes \in [Accounts -> Reviewed!Sides \cup {"none"}]
<1> HIDE DEF Reviewed!ReviewRow
<1>1. /\ Len(reviews) \in Nat /\ DOMAIN reviews = 1..Len(reviews)
      /\ \A i \in DOMAIN reviews : reviews[i] \in Reviewed!ReviewRow
  BY DEF ReviewTypes
<1>2. \A row \in Reviewed!ReviewRow :
        row.closing \in Nat /\ row.target \in Suspects /\ row.votes \in [Accounts -> Reviewed!Sides \cup {"none"}]
  BY DEF Reviewed!ReviewRow
<1>3. QED
  BY <1>1, <1>2

(* Whoever is not on a cooldown now will not come to be by waiting.        *)
LEMMA NoneCooling ==
  ASSUME DaysKnown, ReviewTypes, NEW u \in Accounts, NEW t \in Suspects
  PROVE  ~ Reviewed!OnCooldown(u, t) <=> cooling[u][t] <= reviewDay
<1>1. reviewDay \in Int /\ cooling[u][t] \in Int
  BY DEF ReviewTypes, DaysKnown
<1>2. QED
  BY <1>1 DEF Reviewed!OnCooldown

(* Reviews that are the same, or that one more has joined, pause the same  *)
(* accounts.                                                               *)
LEMMA PausedStays ==
  ASSUME reviews' = reviews
  PROVE  Reviewed!Paused' = Reviewed!Paused
  BY DEF Reviewed!Paused, Reviewed!LatestClosed, Reviewed!ClosedOf, Reviewed!Of

LEMMA PausedBesides ==
  ASSUME ReviewHistory, DOMAIN reviews \subseteq DOMAIN reviews',
         \A i \in DOMAIN reviews : reviews'[i] = reviews[i],
         \A i \in DOMAIN reviews' \ DOMAIN reviews : reviews'[i].status = "open"
  PROVE  /\ Reviewed!Paused' = Reviewed!Paused
         /\ \A t \in Suspects : Reviewed!ClosedOf(t)' = Reviewed!ClosedOf(t)
<1>1. \A t \in Suspects : Reviewed!ClosedOf(t)' = Reviewed!ClosedOf(t) /\ \A i \in Reviewed!ClosedOf(t) : reviews'[i] = reviews[i]
  BY DEF Reviewed!ClosedOf, Reviewed!Of, Reviewed!Closed
<1>2. ASSUME NEW t \in Suspects
      PROVE  /\ Reviewed!LatestClosed(t)' = Reviewed!LatestClosed(t)
             /\ Reviewed!ClosedOf(t) # {} => Reviewed!LatestClosed(t) \in Reviewed!ClosedOf(t)
  <2>1. \A i \in Reviewed!ClosedOf(t) :
          (\A k \in Reviewed!ClosedOf(t) : reviews'[k].closing <= reviews'[i].closing)
            <=> (\A k \in Reviewed!ClosedOf(t) : reviews[k].closing <= reviews[i].closing)
    BY <1>1
  <2>2. Reviewed!LatestClosed(t)' = Reviewed!LatestClosed(t)
    BY <1>1, <2>1 DEF Reviewed!LatestClosed
  <2>3. Reviewed!ClosedOf(t) # {} => Reviewed!LatestClosed(t) \in Reviewed!ClosedOf(t)
    BY DEF Reviewed!LatestClosed, ReviewHistory
  <2>4. QED
    BY <2>2, <2>3
<1>3. ASSUME NEW t \in Suspects
      PROVE  (t \in Reviewed!Paused)' <=> t \in Reviewed!Paused
  BY <1>1, <1>2 DEF Reviewed!Paused
<1>4. QED
  BY <1>1, <1>3 DEF Reviewed!Paused

(* What a mark finds is what there is once it is made.                     *)
LEMMA MarksCount ==
  ASSUME DaysKnown, ReviewTypes', Rested', NEW u \in Accounts, NEW t \in Suspects,
         stance' = Marked(u, t), UNCHANGED warm, Reviewed!Paused' = Reviewed!Paused
  PROVE  Reviewed!CountingMarkers(t)' = Behind(u, t)
<1>1. Reviewed!Full' = Reviewed!FullAmong(warm, Reviewed!Paused, Marked(u, t))
  BY DEF Reviewed!Full
<1>2. \A v \in Accounts : stance'[v][t] = "bot" => ~ Reviewed!OnCooldown(v, t)'
  <2>1. reviewDay' \in Int /\ \A v \in Accounts : cooling'[v][t] \in Int
    BY DEF ReviewTypes, DaysKnown
  <2>2. QED
    BY <2>1 DEF Rested, Reviewed!Markers, Reviewed!OnCooldown
<1>3. \A v \in Accounts : v \in Reviewed!CountingMarkers(t)' <=> v \in Behind(u, t)
  BY <1>1, <1>2 DEF Reviewed!CountingMarkers, Reviewed!Markers, Behind
<1>4. Reviewed!CountingMarkers(t)' \subseteq Accounts /\ Behind(u, t) \subseteq Accounts
  BY DEF Reviewed!CountingMarkers, Reviewed!Markers, Behind
<1>5. QED
  BY <1>3, <1>4

LEMMA ReviewsBegin ==
  ASSUME DaysKnown, Reviewed!Init
  PROVE  RevInv
<1>1. Reviewed!Min(Days) \in Days
  BY Least, SameOperators DEF DaysKnown
<1>2. reviews = <<>> /\ DOMAIN reviews = {}
  BY DEF Reviewed!Init
<1>3. ReviewTypes
  BY <1>1 DEF Reviewed!Init, ReviewTypes, Stances, Reviewed!Never
<1>4. \A t \in Suspects : Reviewed!Markers(t) = {}
  BY DEF Reviewed!Init, Reviewed!Markers
<1>5. ReviewHistory /\ OneOpenReview
  BY <1>2 DEF ReviewHistory, OneOpenReview, Reviewed!ClosedOf, Reviewed!Of
<1>6. \A w \in Workers : StillSo(reviewJob[w])
  BY DEF Reviewed!Init, Reviewed!Idle, StillSo
<1>7. QED
  BY <1>3, <1>4, <1>5, <1>6 DEF RevInv, Rested

-----------------------------------------------------------------------------
(* A step that leaves stances, reviews and standings alone keeps what a    *)
(* request has found, and time brings no cooldown back.                    *)
LEMMA StillFound ==
  ASSUME DaysKnown, ReviewTypes, reviewDay' \in Days, reviewDay <= reviewDay', NEW j, StillSo(j),
         UNCHANGED <<stance, reviews, cooling, warm>>
  PROVE  StillSo(j)'
<1>1. Reviewed!Paused' = Reviewed!Paused
  BY PausedStays
<1>2. \A u, t : Warrants(u, t)' <=> Warrants(u, t)
  BY <1>1 DEF Warrants, Behind, Marked, Reviewed!OpenOf, Reviewed!Of
<1>3. \A u \in Accounts, t \in Suspects : cooling[u][t] <= reviewDay => cooling'[u][t] <= reviewDay'
  <2>1. reviewDay \in Int /\ reviewDay' \in Int /\ \A u \in Accounts, t \in Suspects : cooling[u][t] \in Int
    BY DEF ReviewTypes, DaysKnown
  <2>2. QED
    BY <2>1
<1>4. \A i : OpenReview(i)' <=> OpenReview(i)
  BY DEF OpenReview
<1>5. \A t : Reviewed!OpenOf(t)' = Reviewed!OpenOf(t)
  BY DEF Reviewed!OpenOf, Reviewed!Of
<1>6. QED
  BY <1>2, <1>3, <1>4, <1>5 DEF StillSo

LEMMA RestKeeps ==
  ASSUME DaysKnown, RevInv, reviewDay' \in Days, reviewDay <= reviewDay', UNCHANGED <<stance, reviews, cooling>>,
         DOMAIN reviewJob' = Workers
  PROVE  (ReviewTypes /\ ReviewHistory /\ OneOpenReview /\ Rested)'
<1>1. ReviewTypes'
  BY DEF RevInv, ReviewTypes
<1>2. (ReviewHistory /\ OneOpenReview)'
  BY DEF RevInv, ReviewHistory, OneOpenReview, OpenReview, Reviewed!ClosedOf, Reviewed!Of
<1>3. Rested'
  <2>1. ReviewTypes /\ Rested
    BY DEF RevInv
  <2>2. reviewDay \in Int /\ reviewDay' \in Int /\ \A u \in Accounts, t \in Suspects : cooling[u][t] \in Int
    BY <2>1 DEF ReviewTypes, DaysKnown
  <2>3. QED
    BY <2>1, <2>2 DEF Rested, Reviewed!Markers
<1>4. QED
  BY <1>1, <1>2, <1>3

LEMMA JobKeeps ==
  ASSUME DaysKnown, RevInv, OneAtATime, NEW w \in Workers, NEW j,
         reviewJob' = [reviewJob EXCEPT ![w] = j], StillSo(j),
         UNCHANGED <<stance, reviews, cooling, warm, reviewDay>>
  PROVE  RevInv'
<1>1. ReviewTypes /\ reviewDay' \in Days /\ reviewDay <= reviewDay'
  <2>1. ReviewTypes
    BY DEF RevInv
  <2>2. reviewDay \in Days /\ reviewDay \in Int
    BY <2>1 DEF ReviewTypes, DaysKnown
  <2>3. QED
    BY <2>1, <2>2
<1>2. DOMAIN reviewJob' = Workers /\ reviewJob'[w] = j
  BY DEF RevInv, ReviewTypes
<1>3. StillSo(j)'
  BY <1>1, StillFound
<1>4. \A v \in Workers : StillSo(reviewJob[v])'
  BY <1>2, <1>3 DEF OneAtATime
<1>5. QED
  BY <1>1, <1>2, <1>4, RestKeeps DEF RevInv

LEMMA TomorrowKeeps ==
  ASSUME DaysKnown, RevInv, Reviewed!Tomorrow
  PROVE  RevInv'
<1>1. reviewDay' \in Days /\ reviewDay <= reviewDay'
  <2>1. PICK last \in Days : \A d \in Days : d <= last
    BY DEF DaysKnown
  <2>2. Reviewed!Max(Days) \in Days
    <3>1. Days # {} /\ last \in Nat /\ \A d \in Days : d \in Nat /\ d <= last
      BY <2>1 DEF DaysKnown
    <3>2. QED
      BY <3>1, Greatest, SameOperators
  <2> DEFINE S == {d \in Days : d > reviewDay}
  <2>3. S \subseteq Nat /\ S # {}
    BY <2>2 DEF DaysKnown, Reviewed!Tomorrow
  <2>4. Reviewed!Min(S) \in S
    BY <2>3, Least, SameOperators
  <2>5. reviewDay \in Days /\ reviewDay' \in Days /\ reviewDay' > reviewDay
    BY <2>4 DEF Reviewed!Tomorrow, RevInv, ReviewTypes
  <2>6. reviewDay \in Int /\ reviewDay' \in Int
    BY <2>5 DEF DaysKnown
  <2>7. QED
    BY <2>5, <2>6
<1>2. UNCHANGED <<stance, reviews, cooling, warm, reviewJob>> /\ DOMAIN reviewJob' = Workers /\ ReviewTypes
  BY DEF Reviewed!Tomorrow, RevInv, ReviewTypes
<1>3. ASSUME NEW w \in Workers PROVE StillSo(reviewJob[w])'
  <2>1. PICK j : j = reviewJob[w]
    OBVIOUS
  <2>2. StillSo(j)'
    BY <1>1, <1>2, <2>1, StillFound DEF RevInv
  <2>3. reviewJob'[w] = j
    BY <1>2, <2>1
  <2>4. QED
    BY <2>2, <2>3
<1>4. QED
  BY <1>1, <1>2, <1>3, RestKeeps DEF RevInv

-----------------------------------------------------------------------------
(* Opening and closing reviews.                                            *)
LEMMA Opening ==
  ASSUME RevInv, NEW t \in Suspects, NEW appeal \in BOOLEAN, Reviewed!OpenOf(t) = {},
         reviews' = Append(reviews, Reviewed!NewReview(t, appeal))
  PROVE  /\ reviews' \in Seq(Reviewed!ReviewRow) /\ ReviewHistory' /\ OneOpenReview'
         /\ Reviewed!Paused' = Reviewed!Paused
         /\ Len(reviews) + 1 \in Reviewed!OpenOf(t)'
         /\ \A x \in Suspects : \A i \in Reviewed!OpenOf(x)' \ Reviewed!OpenOf(x) :
              x = t /\ reviews'[i].appeal = appeal
<1> DEFINE n == Len(reviews) + 1
           row == Reviewed!NewReview(t, appeal)
<1>1. row \in Reviewed!ReviewRow /\ row.status = "open" /\ row.closing = 0 /\ row.target = t /\ row.appeal = appeal
  BY DEF RevInv, ReviewTypes, Reviewed!ReviewRow, Reviewed!NewReview, Reviewed!Closed
<1> HIDE DEF row
<1>2. reviews \in Seq(Reviewed!ReviewRow) /\ ReviewTypes /\ ReviewHistory /\ OneOpenReview
  BY DEF RevInv, ReviewTypes
<1> HIDE DEF Reviewed!ReviewRow
<1>3. /\ DOMAIN reviews' = 1..n /\ DOMAIN reviews = 1..Len(reviews) /\ Len(reviews) \in Nat
      /\ reviews'[n] = row /\ \A i \in DOMAIN reviews : reviews'[i] = reviews[i]
      /\ reviews' \in Seq(Reviewed!ReviewRow)
  BY <1>1, <1>2 DEF row
<1>4. n \in DOMAIN reviews' /\ n \notin DOMAIN reviews /\ \A i \in DOMAIN reviews' : i = n \/ i \in DOMAIN reviews
  BY <1>3
<1>5. DOMAIN reviews \subseteq DOMAIN reviews'
  BY <1>3
<1> HIDE DEF n
<1>6. Reviewed!Paused' = Reviewed!Paused /\ \A x \in Suspects : Reviewed!ClosedOf(x)' = Reviewed!ClosedOf(x)
  BY <1>1, <1>2, <1>3, <1>4, <1>5, PausedBesides
<1>7. \E b \in Nat : \A i \in DOMAIN reviews' : reviews'[i].closing <= b
  <2>1. PICK b \in Nat : \A i \in DOMAIN reviews : reviews[i].closing <= b
    BY <1>2 DEF ReviewHistory
  <2>2. \A i \in DOMAIN reviews' : reviews'[i].closing <= b
    <3> TAKE i \in DOMAIN reviews'
    <3>1. CASE i = n
      BY <3>1, <1>1, <1>3
    <3>2. CASE i \in DOMAIN reviews
      BY <3>2, <2>1, <1>3
    <3>3. QED
      BY <3>1, <3>2, <1>4
  <2>3. QED
    BY <2>2
<1>8. \A x \in Suspects : \A i \in Reviewed!ClosedOf(x) : reviews'[i] = reviews[i]
  BY <1>3 DEF Reviewed!ClosedOf, Reviewed!Of
<1>9. ReviewHistory'
  <2>1. ASSUME NEW x \in Suspects, Reviewed!ClosedOf(x)' # {}
        PROVE  \E i \in Reviewed!ClosedOf(x)' : \A k \in Reviewed!ClosedOf(x)' : reviews'[k].closing <= reviews'[i].closing
    <3>1. PICK i \in Reviewed!ClosedOf(x) : \A k \in Reviewed!ClosedOf(x) : reviews[k].closing <= reviews[i].closing
      BY <1>2, <1>6, <2>1 DEF ReviewHistory
    <3>2. QED
      BY <1>6, <1>8, <3>1
  <2>2. QED
    BY <1>7, <2>1 DEF ReviewHistory
<1>10. \A i \in DOMAIN reviews : ~ (OpenReview(i) /\ reviews[i].target = t)
  BY DEF OpenReview, Reviewed!OpenOf, Reviewed!Of
<1>11. OneOpenReview'
  BY <1>1, <1>2, <1>3, <1>4, <1>10 DEF OneOpenReview, OpenReview
<1>12. n \in Reviewed!OpenOf(t)'
  BY <1>1, <1>3, <1>4 DEF Reviewed!OpenOf, Reviewed!Of
<1>13. ASSUME NEW x \in Suspects, NEW i \in Reviewed!OpenOf(x)' \ Reviewed!OpenOf(x)
       PROVE  x = t /\ reviews'[i].appeal = appeal
  BY <1>1, <1>3, <1>4, <1>13 DEF Reviewed!OpenOf, Reviewed!Of
<1>14. QED
  BY <1>3, <1>6, <1>9, <1>11, <1>12, <1>13 DEF n

LEMMA NextIsLatest ==
  ASSUME RevInv
  PROVE  Reviewed!NextClosing \in Nat /\ \A i \in DOMAIN reviews : reviews[i].closing < Reviewed!NextClosing
<1> DEFINE S == {reviews[i].closing : i \in DOMAIN reviews} \cup {0}
<1>1. PICK n \in Nat : \A i \in DOMAIN reviews : reviews[i].closing <= n
  BY DEF RevInv, ReviewHistory
<1>2. \A i \in DOMAIN reviews : reviews[i].closing \in Nat
  BY RowsTyped DEF RevInv
<1>3. S # {} /\ \A x \in S : x \in Nat /\ x <= n
  BY <1>1, <1>2
<1>4. \A i \in DOMAIN reviews : reviews[i].closing \in S
  OBVIOUS
<1> HIDE DEF S
<1>5. Reviewed!Max(S) \in S /\ \A x \in S : Reviewed!Max(S) >= x
  BY <1>3, Greatest, SameOperators
<1>6. Reviewed!Max(S) \in Nat
  BY <1>3, <1>5
<1>7. Reviewed!NextClosing = Reviewed!Max(S) + 1
  BY DEF Reviewed!NextClosing, S
<1>8. QED
  BY <1>2, <1>4, <1>5, <1>6, <1>7

(* A review that gets a vote, or is closed with a number above all others. *)
LEMMA RowMoves ==
  ASSUME RevInv, NEW id, OpenReview(id), NEW new \in Reviewed!ReviewRow, new.target = reviews[id].target,
         \/ new.status = "open" /\ new.closing = reviews[id].closing
         \/ new.status \in Reviewed!Closed /\ new.closing = Reviewed!NextClosing,
         reviews' = [reviews EXCEPT ![id] = new]
  PROVE  /\ reviews' \in Seq(Reviewed!ReviewRow) /\ ReviewHistory' /\ OneOpenReview'
         /\ \A x \in Suspects : Reviewed!OpenOf(x)' \subseteq Reviewed!OpenOf(x)
<1>1. reviews \in Seq(Reviewed!ReviewRow) /\ ReviewTypes /\ ReviewHistory /\ OneOpenReview
      /\ id \in DOMAIN reviews /\ reviews[id].status = "open"
  BY DEF RevInv, ReviewTypes, OpenReview
<1>2. Len(reviews) \in Nat /\ DOMAIN reviews = 1..Len(reviews) /\ \A i \in DOMAIN reviews : reviews[i].closing \in Nat
  BY <1>1, RowsTyped
<1>3. Reviewed!NextClosing \in Nat /\ \A i \in DOMAIN reviews : reviews[i].closing < Reviewed!NextClosing
  BY NextIsLatest
<1> HIDE DEF Reviewed!ReviewRow
<1>4. /\ reviews' \in Seq(Reviewed!ReviewRow) /\ DOMAIN reviews' = DOMAIN reviews /\ reviews'[id] = new
      /\ \A i \in DOMAIN reviews : i # id => reviews'[i] = reviews[i]
  BY <1>1, <1>2
<1>5. \A i \in DOMAIN reviews : reviews'[i].target = reviews[i].target /\ (OpenReview(i)' => OpenReview(i))
  BY <1>1, <1>4 DEF OpenReview, Reviewed!Closed
<1>6. OneOpenReview'
  BY <1>1, <1>4, <1>5 DEF OneOpenReview
<1>7. \A x \in Suspects : Reviewed!OpenOf(x)' \subseteq Reviewed!OpenOf(x)
  BY <1>4, <1>5 DEF Reviewed!OpenOf, Reviewed!Of, OpenReview
<1>8. \A i \in DOMAIN reviews : reviews'[i].closing <= Reviewed!NextClosing
  <2> TAKE i \in DOMAIN reviews
  <2>1. CASE i = id
    BY <2>1, <1>1, <1>2, <1>3, <1>4
  <2>2. CASE i # id
    BY <2>2, <1>2, <1>3, <1>4
  <2>3. QED
    BY <2>1, <2>2
<1>9. ASSUME NEW x \in Suspects, Reviewed!ClosedOf(x)' # {}
      PROVE  \E i \in Reviewed!ClosedOf(x)' : \A k \in Reviewed!ClosedOf(x)' : reviews'[k].closing <= reviews'[i].closing
  <2>1. id \notin Reviewed!ClosedOf(x)
    BY <1>1 DEF Reviewed!ClosedOf, Reviewed!Of, Reviewed!Closed
  <2>2. CASE id \in Reviewed!ClosedOf(x)'
    <3>1. new.closing = Reviewed!NextClosing
      BY <2>2, <1>4 DEF Reviewed!ClosedOf, Reviewed!Closed
    <3>2. \A k \in Reviewed!ClosedOf(x)' : k \in DOMAIN reviews
      BY <1>4 DEF Reviewed!ClosedOf, Reviewed!Of
    <3>3. QED
      BY <2>2, <3>1, <3>2, <1>4, <1>8
  <2>3. CASE id \notin Reviewed!ClosedOf(x)'
    <3>1. Reviewed!ClosedOf(x)' = Reviewed!ClosedOf(x) /\ \A k \in Reviewed!ClosedOf(x) : reviews'[k] = reviews[k]
      BY <2>1, <2>3, <1>4 DEF Reviewed!ClosedOf, Reviewed!Of
    <3>2. QED
      BY <3>1, <1>1, <1>9 DEF ReviewHistory
  <2>4. QED
    BY <2>2, <2>3
<1>10. ReviewHistory'
  BY <1>3, <1>4, <1>8, <1>9 DEF ReviewHistory
<1>11. QED
  BY <1>4, <1>6, <1>7, <1>10

(* Closing a review leaves the marks, or takes them away.                  *)
LEMMA Closing ==
  ASSUME DaysKnown, RevInv, NEW id, OpenReview(id), NEW ballots \in [Accounts -> Reviewed!Sides \cup {"none"}],
         NEW outcome \in Reviewed!Closed, Reviewed!Close(id, ballots, outcome), UNCHANGED <<warm, reviewDay>>,
         DOMAIN reviewJob' = Workers, \A w \in Workers : reviewJob'[w] = Reviewed!Idle
  PROVE  RevInv' /\ \A t \in Suspects : ~ Reviewed!NewMark(t) /\ Reviewed!OpenOf(t)' \subseteq Reviewed!OpenOf(t)
<1>1. PICK new : new = [reviews[id] EXCEPT !.votes = ballots, !.status = outcome, !.closed = reviewDay,
                                        !.closing = Reviewed!NextClosing]
  OBVIOUS
<1>2. ReviewTypes /\ id \in DOMAIN reviews /\ reviews[id] \in Reviewed!ReviewRow /\ Reviewed!NextClosing \in Nat
  BY RowsTyped, NextIsLatest DEF RevInv, OpenReview
<1>3. /\ new \in Reviewed!ReviewRow /\ new.status = outcome /\ new.closing = Reviewed!NextClosing
      /\ new.target = reviews[id].target
  BY <1>1, <1>2 DEF Reviewed!ReviewRow, ReviewTypes
<1>4. reviews' = [reviews EXCEPT ![id] = new]
  BY <1>1, <1>2 DEF Reviewed!Close
<1> HIDE DEF Reviewed!ReviewRow
<1>5. /\ reviews' \in Seq(Reviewed!ReviewRow) /\ ReviewHistory' /\ OneOpenReview'
      /\ \A x \in Suspects : Reviewed!OpenOf(x)' \subseteq Reviewed!OpenOf(x)
  BY <1>3, <1>4, RowMoves
<1>6. \A w \in Workers : StillSo(reviewJob[w])'
  BY DEF StillSo, Reviewed!Idle
<1>7. stance \in Stances /\ cooling \in [Accounts -> [Suspects -> Int]]
  BY <1>2 DEF ReviewTypes
<1>8. PICK t \in Suspects : t = reviews[id].target
  BY <1>2, RowsTyped
<1>9. CASE outcome = "upheld"
  <2>1. UNCHANGED <<stance, cooling>>
    BY <1>9 DEF Reviewed!Close
  <2>2. ReviewTypes' /\ Rested'
    BY <1>2, <1>5, <2>1 DEF ReviewTypes, Rested, Reviewed!Markers, RevInv
  <2>3. QED
    BY <1>5, <1>6, <2>1, <2>2 DEF RevInv, Reviewed!NewMark
<1>10. CASE outcome # "upheld"
  <2>1. /\ stance' = [u \in Accounts |-> [stance[u] EXCEPT ![t] = IF @ = "bot" THEN "none" ELSE @]]
        /\ cooling' = [u \in Accounts |->
                   [cooling[u] EXCEPT ![t] = IF u \in Reviewed!Markers(t) THEN reviewDay + Reviewed!CooldownDays ELSE @]]
    BY <1>8, <1>10 DEF Reviewed!Close
  <2>2. reviewDay + Reviewed!CooldownDays \in Int
    <3>1. reviewDay \in Nat
      BY <1>2 DEF ReviewTypes, DaysKnown
    <3>2. QED
      BY <3>1 DEF Reviewed!CooldownDays
  <2>3. \A u \in Accounts : /\ stance'[u] \in [Suspects -> {"none", "vouch", "bot"}]
                            /\ stance'[u][t] # "bot"
                            /\ \A x \in Suspects : x # t => stance'[u][x] = stance[u][x]
    BY <1>7, <2>1 DEF Stances
  <2>4. \A u \in Accounts : /\ cooling'[u] \in [Suspects -> Int]
                            /\ \A x \in Suspects : x # t => cooling'[u][x] = cooling[u][x]
    BY <1>7, <2>1, <2>2
  <2>5. ReviewTypes'
    BY <1>2, <1>5, <2>1, <2>3, <2>4 DEF ReviewTypes, Stances
  <2>6. \A x \in Suspects, u \in Accounts :
          stance'[u][x] = "bot" => x # t /\ stance[u][x] = "bot" /\ cooling'[u][x] = cooling[u][x]
    BY <2>3, <2>4
  <2>7. Rested'
    BY <2>6 DEF RevInv, Rested, Reviewed!Markers
  <2>8. \A x \in Suspects : ~ Reviewed!NewMark(x)
    BY <2>6 DEF Reviewed!NewMark
  <2>9. QED
    BY <1>5, <1>6, <2>5, <2>7, <2>8 DEF RevInv
<1>11. QED
  BY <1>9, <1>10

-----------------------------------------------------------------------------
(* The requests.                                                           *)
Calm == \A t \in Suspects : ~ Reviewed!NewMark(t) /\ ~ Reviewed!Opened(t)
Heard ==
  \A t \in Suspects :
    /\ Reviewed!NewMark(t) /\ Reviewed!EnoughMarks(t)' => t \in Reviewed!Paused' \/ Reviewed!OpenOf(t)' # {}
    /\ Reviewed!Opened(t) => Reviewed!EnoughMarks(t)'

LEMMA NothingWritten ==
  ASSUME UNCHANGED <<stance, reviews>>
  PROVE  Calm
  BY DEF Calm, Reviewed!NewMark, Reviewed!Opened, Reviewed!OpenOf, Reviewed!Of

LEMMA OneReviewJob ==
  ASSUME OneAtATime, RevInv, NEW w \in Workers, NEW j, reviewJob' = [reviewJob EXCEPT ![w] = j]
  PROVE  DOMAIN reviewJob' = Workers /\ reviewJob'[w] = j /\ \A v \in Workers : reviewJob'[v] = j
  BY DEF OneAtATime, RevInv, ReviewTypes

LEMMA MarkStarts ==
  ASSUME DaysKnown, RevInv, OneAtATime, NEW w \in Workers, NEW u \in Accounts, NEW t \in Suspects,
         Reviewed!StartMark(w, u, t)
  PROVE  RevInv' /\ Calm
<1> DEFINE j == [op |-> "mark", user |-> u, target |-> t, opens |-> Reviewed!MayOpenReview(u, t)]
<1>1. /\ ~ Reviewed!OnCooldown(u, t) /\ reviewJob' = [reviewJob EXCEPT ![w] = j]
      /\ UNCHANGED <<stance, reviews, cooling, warm, reviewDay>>
  BY DEF Reviewed!StartMark, Reviewed!StartJob
<1>2. j.op = "mark" /\ j.user = u /\ j.target = t /\ j.opens = Reviewed!MayOpenReview(u, t)
  OBVIOUS
<1> HIDE DEF j
<1>3. ReviewTypes /\ Rested /\ stance \in Stances
  BY DEF RevInv, ReviewTypes
<1>4. cooling[u][t] <= reviewDay
  BY <1>1, <1>3, NoneCooling
<1>5. \A v \in Accounts : Marked(u, t)[v][t] = "bot" => ~ Reviewed!OnCooldown(v, t)
  <2> SUFFICES ASSUME NEW v \in Accounts, Marked(u, t)[v][t] = "bot" PROVE cooling[v][t] <= reviewDay
    BY <1>3, NoneCooling
  <2>1. v = u \/ v \in Reviewed!Markers(t)
    BY <1>3 DEF Marked, Stances, Reviewed!Markers
  <2>2. QED
    BY <1>3, <1>4, <2>1 DEF Rested
<1>6. Reviewed!MayOpenReview(u, t) <=> Warrants(u, t)
  <2> DEFINE counting == {v \in Accounts : /\ Marked(u, t)[v][t] = "bot"
                                          /\ v \in Reviewed!FullAmong(warm, Reviewed!Paused, Marked(u, t))
                                          /\ ~ Reviewed!OnCooldown(v, t)}
  <2>1. counting = Behind(u, t)
    BY <1>5 DEF Behind
  <2> HIDE DEF counting
  <2>2. Reviewed!MayOpenReview(u, t) <=>
          /\ Reviewed!OpenOf(t) = {} /\ t \notin Reviewed!Paused
          /\ Cardinality(counting) >= Reviewed!MarksToOpen
    BY SameOperators DEF Reviewed!MayOpenReview, Marked, counting
  <2>3. QED
    BY <2>1, <2>2 DEF Warrants
<1>7. StillSo(j)
  BY <1>2, <1>4, <1>6 DEF StillSo
<1>8. QED
  BY <1>1, <1>7, JobKeeps, NothingWritten

LEMMA MarkCommits ==
  ASSUME DaysKnown, RevInv, OneAtATime, NEW w \in Workers, Reviewed!CommitMark(w)
  PROVE  RevInv' /\ Heard
<1>1. PICK j : j = reviewJob[w]
  OBVIOUS
<1>2. /\ j.op = "mark" /\ stance' = Marked(j.user, j.target)
      /\ IF j.opens THEN reviews' = Append(reviews, Reviewed!NewReview(j.target, FALSE)) ELSE reviews' = reviews
      /\ reviewJob' = [reviewJob EXCEPT ![w] = Reviewed!Idle] /\ UNCHANGED <<cooling, warm, reviewDay>>
  BY <1>1 DEF Reviewed!CommitMark, Reviewed!EndJob, Marked
<1>3. PICK u \in Accounts, t \in Suspects : u = j.user /\ t = j.target
  BY <1>1, <1>2 DEF RevInv, StillSo
<1>4. cooling[u][t] <= reviewDay /\ (j.opens <=> Warrants(u, t)) /\ stance \in Stances
  BY <1>1, <1>2, <1>3 DEF RevInv, StillSo, ReviewTypes
<1>5. /\ stance' \in Stances
      /\ \A v \in Accounts, x \in Suspects : stance'[v][x] = IF v = u /\ x = t THEN "bot" ELSE stance[v][x]
  BY <1>2, <1>3, <1>4 DEF Marked, Stances
<1>6. Rested'
  BY <1>2, <1>4, <1>5 DEF RevInv, Rested, Reviewed!Markers
<1>7. DOMAIN reviewJob' = Workers /\ \A v \in Workers : reviewJob'[v] = Reviewed!Idle
  BY <1>2, OneReviewJob
<1>8. \A v \in Workers : StillSo(reviewJob[v])'
  BY <1>7 DEF StillSo, Reviewed!Idle
<1>9. \A x \in Suspects : Reviewed!NewMark(x) => x = t
  BY <1>5 DEF Reviewed!NewMark
<1>10. CASE j.opens
  <2>1. reviews' = Append(reviews, Reviewed!NewReview(t, FALSE)) /\ Reviewed!OpenOf(t) = {}
    BY <1>2, <1>3, <1>4, <1>10 DEF Warrants
  <2>2. /\ reviews' \in Seq(Reviewed!ReviewRow) /\ ReviewHistory' /\ OneOpenReview'
        /\ Reviewed!Paused' = Reviewed!Paused /\ Reviewed!OpenOf(t)' # {}
        /\ \A x \in Suspects : \A i \in Reviewed!OpenOf(x)' \ Reviewed!OpenOf(x) : x = t
    BY <2>1, Opening
  <2>3. ReviewTypes'
    BY <1>2, <1>5, <1>7, <2>2 DEF RevInv, ReviewTypes
  <2>4. Reviewed!CountingMarkers(t)' = Behind(u, t)
    BY <1>2, <1>3, <1>6, <2>2, <2>3, MarksCount
  <2>5. Reviewed!EnoughMarks(t)'
    BY <1>4, <1>10, <2>4, SameOperators DEF Warrants, Reviewed!EnoughMarks
  <2>6. Heard
    BY <1>9, <2>2, <2>5 DEF Heard, Reviewed!Opened
  <2>7. QED
    BY <1>6, <1>8, <2>2, <2>3, <2>6 DEF RevInv
<1>11. CASE ~ j.opens
  <2>1. reviews' = reviews /\ Reviewed!Paused' = Reviewed!Paused
    BY <1>2, <1>11, PausedStays
  <2>2. ReviewTypes'
    BY <1>2, <1>5, <1>7, <2>1 DEF RevInv, ReviewTypes
  <2>3. (ReviewHistory /\ OneOpenReview)'
    BY <2>1 DEF RevInv, ReviewHistory, OneOpenReview, OpenReview, Reviewed!ClosedOf, Reviewed!Of
  <2>4. Reviewed!CountingMarkers(t)' = Behind(u, t)
    BY <1>2, <1>3, <1>6, <2>1, <2>2, MarksCount
  <2>5. \A x \in Suspects : Reviewed!OpenOf(x)' = Reviewed!OpenOf(x)
    BY <2>1 DEF Reviewed!OpenOf, Reviewed!Of
  <2>6. Reviewed!EnoughMarks(t)' => t \in Reviewed!Paused' \/ Reviewed!OpenOf(t)' # {}
    BY <1>4, <1>11, <2>1, <2>4, <2>5, SameOperators DEF Warrants, Reviewed!EnoughMarks
  <2>7. Heard
    BY <1>9, <2>5, <2>6 DEF Heard, Reviewed!Opened
  <2>8. QED
    BY <1>6, <1>8, <2>2, <2>3, <2>7 DEF RevInv
<1>12. QED
  BY <1>10, <1>11

LEMMA VoteStarts ==
  ASSUME DaysKnown, RevInv, OneAtATime, NEW w \in Workers, NEW u \in Accounts, NEW t \in Suspects,
         NEW vote \in Reviewed!Sides, Reviewed!StartReviewVote(w, u, t, vote)
  PROVE  RevInv' /\ Calm
<1>1. PICK id \in Reviewed!OpenOf(t) : reviewJob' = [reviewJob EXCEPT ![w] = [op |-> "vote", user |-> u, id |-> id, vote |-> vote]]
  BY DEF Reviewed!StartReviewVote, Reviewed!StartJob
<1>2. OpenReview(id)
  BY <1>1 DEF OpenReview, Reviewed!OpenOf, Reviewed!Of
<1>3. StillSo([op |-> "vote", user |-> u, id |-> id, vote |-> vote])
  BY <1>2 DEF StillSo
<1>4. QED
  BY <1>1, <1>3, JobKeeps, NothingWritten DEF Reviewed!StartReviewVote

LEMMA SettledIs ==
  ASSUME NEW id, NEW ballots
  PROVE  Reviewed!Settled(id, ballots) \in Reviewed!Closed \cup {"open"}
  BY DEF Reviewed!Settled, Reviewed!Closed

LEMMA VoteTallies ==
  ASSUME DaysKnown, RevInv, OneAtATime, NEW w \in Workers, Reviewed!TallyReviewVote(w)
  PROVE  RevInv' /\ Calm
<1>1. PICK j : j = reviewJob[w]
  OBVIOUS
<1>2. PICK o : o = Reviewed!Settled(j.id, Reviewed!Voted(j))
  OBVIOUS
<1> DEFINE new == [op |-> "voted", user |-> j.user, id |-> j.id, vote |-> j.vote, outcome |-> o]
<1>3. j.op = "vote" /\ reviewJob' = [reviewJob EXCEPT ![w] = new] /\ UNCHANGED <<stance, reviews, cooling, warm, reviewDay>>
  BY <1>1, <1>2 DEF Reviewed!TallyReviewVote
<1>4. o \in Reviewed!Closed \cup {"open"}
  BY <1>2, SettledIs
<1>5. j.user \in Accounts /\ j.vote \in Reviewed!Sides /\ OpenReview(j.id)
  BY <1>1, <1>3 DEF RevInv, StillSo
<1>6. StillSo(new)
  BY <1>4, <1>5 DEF StillSo
<1> HIDE DEF new
<1>7. QED
  BY <1>3, <1>6, JobKeeps, NothingWritten

LEMMA VoteCommits ==
  ASSUME DaysKnown, RevInv, OneAtATime, NEW w \in Workers, Reviewed!CommitReviewVote(w)
  PROVE  RevInv' /\ Calm
<1>1. PICK j : j = reviewJob[w]
  OBVIOUS
<1>2. PICK ballots : ballots = Reviewed!Voted(j)
  OBVIOUS
<1>3. /\ j.op = "voted" /\ reviewJob' = [reviewJob EXCEPT ![w] = Reviewed!Idle] /\ UNCHANGED <<warm, reviewDay>>
      /\ IF j.outcome = "open"
         THEN reviews' = [reviews EXCEPT ![j.id].votes = ballots] /\ UNCHANGED <<stance, cooling, answers>>
         ELSE Reviewed!Close(j.id, ballots, j.outcome)
  BY <1>1, <1>2 DEF Reviewed!CommitReviewVote, Reviewed!EndJob
<1>4. /\ j.user \in Accounts /\ j.vote \in Reviewed!Sides /\ OpenReview(j.id)
      /\ j.outcome \in Reviewed!Closed \cup {"open"} /\ ReviewTypes
  BY <1>1, <1>3 DEF RevInv, StillSo
<1>5. ballots \in [Accounts -> Reviewed!Sides \cup {"none"}]
  <2>1. reviews[j.id].votes \in [Accounts -> Reviewed!Sides \cup {"none"}]
    BY <1>4, RowsTyped DEF OpenReview
  <2>2. QED
    BY <1>2, <1>4, <2>1 DEF Reviewed!Voted
<1>6. DOMAIN reviewJob' = Workers /\ \A v \in Workers : reviewJob'[v] = Reviewed!Idle
  BY <1>3, OneReviewJob
<1>7. CASE j.outcome # "open"
  BY <1>3, <1>4, <1>5, <1>6, <1>7, Closing DEF Calm, Reviewed!Opened
<1>8. CASE j.outcome = "open"
  <2>1. PICK id : id = j.id
    OBVIOUS
  <2>2. PICK new : new = [reviews[id] EXCEPT !.votes = ballots]
    OBVIOUS
  <2>3. id \in DOMAIN reviews /\ OpenReview(id) /\ reviews[id] \in Reviewed!ReviewRow
    BY <1>4, <2>1, RowsTyped DEF OpenReview
  <2>4. /\ new \in Reviewed!ReviewRow /\ new.status = "open" /\ new.closing = reviews[id].closing
        /\ new.target = reviews[id].target
    BY <1>5, <2>2, <2>3 DEF Reviewed!ReviewRow, OpenReview
  <2>5. reviews' = [reviews EXCEPT ![id] = new] /\ UNCHANGED <<stance, cooling, warm, reviewDay>>
    BY <1>3, <1>8, <2>1, <2>2
  <2>6. /\ reviews' \in Seq(Reviewed!ReviewRow) /\ ReviewHistory' /\ OneOpenReview'
        /\ \A x \in Suspects : Reviewed!OpenOf(x)' \subseteq Reviewed!OpenOf(x)
    BY <2>3, <2>4, <2>5, RowMoves
  <2>7. ReviewTypes' /\ Rested'
    BY <1>6, <2>5, <2>6 DEF RevInv, ReviewTypes, Rested, Reviewed!Markers
  <2>8. \A v \in Workers : StillSo(reviewJob[v])'
    BY <1>6 DEF StillSo, Reviewed!Idle
  <2>9. Calm
    BY <2>5, <2>6 DEF Calm, Reviewed!NewMark, Reviewed!Opened
  <2>10. QED
    BY <2>6, <2>7, <2>8, <2>9 DEF RevInv
<1>9. QED
  BY <1>7, <1>8

LEMMA LookStarts ==
  ASSUME DaysKnown, RevInv, OneAtATime, NEW w \in Workers, NEW t \in Suspects, Reviewed!LookAtProfile(w, t)
  PROVE  RevInv' /\ Calm
<1>1. PICK id \in Reviewed!OpenOf(t) :
        /\ Reviewed!Settled(id, reviews[id].votes) # "open"
        /\ Reviewed!StartJob(w, [op |-> "settle", id |-> id, outcome |-> Reviewed!Settled(id, reviews[id].votes)])
  BY DEF Reviewed!LookAtProfile
<1>2. PICK o : o = Reviewed!Settled(id, reviews[id].votes)
  OBVIOUS
<1>3. o \in Reviewed!Closed /\ OpenReview(id)
  BY <1>1, <1>2, SettledIs DEF OpenReview, Reviewed!OpenOf, Reviewed!Of
<1>4. StillSo([op |-> "settle", id |-> id, outcome |-> o])
  BY <1>3 DEF StillSo
<1>5. reviewJob' = [reviewJob EXCEPT ![w] = [op |-> "settle", id |-> id, outcome |-> o]]
  BY <1>1, <1>2 DEF Reviewed!StartJob
<1>6. QED
  BY <1>4, <1>5, JobKeeps, NothingWritten DEF Reviewed!LookAtProfile

LEMMA LookCommits ==
  ASSUME DaysKnown, RevInv, OneAtATime, NEW w \in Workers, Reviewed!CommitSettle(w)
  PROVE  RevInv' /\ Calm
<1>1. PICK j : j = reviewJob[w]
  OBVIOUS
<1>2. PICK ballots : ballots = reviews[j.id].votes
  OBVIOUS
<1>3. /\ j.op = "settle" /\ reviewJob' = [reviewJob EXCEPT ![w] = Reviewed!Idle] /\ UNCHANGED <<warm, reviewDay>>
      /\ Reviewed!Close(j.id, ballots, j.outcome)
  BY <1>1, <1>2 DEF Reviewed!CommitSettle, Reviewed!EndJob
<1>4. OpenReview(j.id) /\ j.outcome \in Reviewed!Closed
  BY <1>1, <1>3 DEF RevInv, StillSo
<1>5. ballots \in [Accounts -> Reviewed!Sides \cup {"none"}]
  BY <1>2, <1>4, RowsTyped DEF RevInv, OpenReview
<1>6. DOMAIN reviewJob' = Workers /\ \A v \in Workers : reviewJob'[v] = Reviewed!Idle
  BY <1>3, OneReviewJob
<1>7. QED
  BY <1>3, <1>4, <1>5, <1>6, Closing DEF Calm, Reviewed!Opened

LEMMA ReReviewStarts ==
  ASSUME DaysKnown, RevInv, OneAtATime, NEW w \in Workers, NEW t \in Suspects, Reviewed!StartReReview(w, t)
  PROVE  RevInv' /\ Calm
<1>1. Reviewed!OpenOf(t) = {} /\ reviewJob' = [reviewJob EXCEPT ![w] = [op |-> "appeal", user |-> t]]
  BY DEF Reviewed!StartReReview, Reviewed!StartJob
<1>2. StillSo([op |-> "appeal", user |-> t])
  BY <1>1 DEF StillSo
<1>3. QED
  BY <1>1, <1>2, JobKeeps, NothingWritten DEF Reviewed!StartReReview

LEMMA ReReviewCommits ==
  ASSUME DaysKnown, RevInv, OneAtATime, NEW w \in Workers, Reviewed!CommitReReview(w)
  PROVE  RevInv' /\ Calm
<1>1. /\ reviewJob[w].op = "appeal" /\ reviewJob' = [reviewJob EXCEPT ![w] = Reviewed!Idle]
      /\ UNCHANGED <<stance, cooling, warm, reviewDay>>
      /\ reviews' = Append(reviews, Reviewed!NewReview(reviewJob[w].user, TRUE))
  BY DEF Reviewed!CommitReReview, Reviewed!EndJob
<1>2. PICK t \in Suspects : t = reviewJob[w].user /\ Reviewed!OpenOf(t) = {}
  BY <1>1 DEF RevInv, StillSo
<1>3. /\ reviews' \in Seq(Reviewed!ReviewRow) /\ ReviewHistory' /\ OneOpenReview'
      /\ \A x \in Suspects : \A i \in Reviewed!OpenOf(x)' \ Reviewed!OpenOf(x) : reviews'[i].appeal = TRUE
  BY <1>1, <1>2, Opening
<1>4. DOMAIN reviewJob' = Workers /\ \A v \in Workers : reviewJob'[v] = Reviewed!Idle
  BY <1>1, OneReviewJob
<1>5. ReviewTypes' /\ Rested'
  BY <1>1, <1>3, <1>4 DEF RevInv, ReviewTypes, Rested, Reviewed!Markers
<1>6. \A v \in Workers : StillSo(reviewJob[v])'
  BY <1>4 DEF StillSo, Reviewed!Idle
<1>7. Calm
  BY <1>1, <1>3 DEF Calm, Reviewed!NewMark, Reviewed!Opened
<1>8. QED
  BY <1>3, <1>5, <1>6, <1>7 DEF RevInv

(* A stance that is taken or taken back is no mark, and a warm-up that     *)
(* begins or ends touches no review; no request is being answered then.    *)
LEMMA BetweenRequests ==
  ASSUME DaysKnown, RevInv, OneAtATime, Reviewed!Free,
         \/ \E u \in Accounts, t \in Suspects : Reviewed!ClearStance(u, t) \/ Reviewed!Vouch(u, t)
         \/ \E u \in Accounts : Reviewed!WarmUp(u)
  PROVE  RevInv' /\ Calm
<1>1. UNCHANGED <<reviews, cooling, reviewDay, reviewJob>>
  BY DEF Reviewed!ClearStance, Reviewed!Vouch, Reviewed!WarmUp
<1>2. stance \in Stances
  BY DEF RevInv, ReviewTypes
<1>3. /\ stance' \in Stances
      /\ \A u \in Accounts, t \in Suspects : stance'[u][t] = "bot" => stance[u][t] = "bot"
  <2>1. CASE \E u \in Accounts : Reviewed!WarmUp(u)
    BY <1>2, <2>1 DEF Reviewed!WarmUp
  <2>2. CASE \E u \in Accounts, t \in Suspects : Reviewed!ClearStance(u, t) \/ Reviewed!Vouch(u, t)
    <3>1. PICK u \in Accounts, t \in Suspects, s \in {"none", "vouch"} : stance' = [stance EXCEPT ![u][t] = s]
      BY <2>2 DEF Reviewed!ClearStance, Reviewed!Vouch
    <3>2. QED
      BY <1>2, <3>1 DEF Stances
  <2>3. QED
    BY <2>1, <2>2
<1>4. ReviewTypes'
  BY <1>1, <1>3 DEF RevInv, ReviewTypes
<1>5. (ReviewHistory /\ OneOpenReview)'
  BY <1>1 DEF RevInv, ReviewHistory, OneOpenReview, OpenReview, Reviewed!ClosedOf, Reviewed!Of
<1>6. Rested'
  BY <1>1, <1>3 DEF RevInv, Rested, Reviewed!Markers
<1>7. \A w \in Workers : reviewJob'[w] = Reviewed!Idle
  BY <1>1 DEF Reviewed!Free, OneAtATime
<1>8. \A w \in Workers : StillSo(reviewJob[w])'
  BY <1>7 DEF StillSo, Reviewed!Idle
<1>9. Calm
  BY <1>1, <1>3 DEF Calm, Reviewed!NewMark, Reviewed!Opened, Reviewed!OpenOf, Reviewed!Of
<1>10. QED
  BY <1>4, <1>5, <1>6, <1>8, <1>9 DEF RevInv

LEMMA ReviewStep ==
  ASSUME DaysKnown, RevInv, OneAtATime, Reviewed!Next
  PROVE  RevInv' /\ Heard
<1>1. Calm => Heard
  BY DEF Calm, Heard
<1>2. CASE \/ \E u \in Accounts, t \in Suspects : Reviewed!Free /\ (Reviewed!ClearStance(u, t) \/ Reviewed!Vouch(u, t))
           \/ \E u \in Accounts : Reviewed!WarmUp(u)
  BY <1>1, <1>2, BetweenRequests DEF Reviewed!WarmUp
<1>3. ASSUME NEW w \in Workers, NEW u \in Accounts, NEW t \in Suspects, Reviewed!StartMark(w, u, t)
      PROVE RevInv' /\ Heard
  BY <1>1, <1>3, MarkStarts
<1>4. ASSUME NEW w \in Workers, NEW u \in Accounts, NEW t \in Suspects, NEW vote \in Reviewed!Sides,
             Reviewed!StartReviewVote(w, u, t, vote)
      PROVE RevInv' /\ Heard
  BY <1>1, <1>4, VoteStarts
<1>5. ASSUME NEW w \in Workers, NEW t \in Suspects, Reviewed!LookAtProfile(w, t) \/ Reviewed!StartReReview(w, t)
      PROVE RevInv' /\ Heard
  BY <1>1, <1>5, LookStarts, ReReviewStarts
<1>6. ASSUME NEW w \in Workers, Reviewed!TallyReviewVote(w) \/ Reviewed!CommitReviewVote(w)
                                \/ Reviewed!CommitSettle(w) \/ Reviewed!CommitReReview(w)
      PROVE RevInv' /\ Heard
  BY <1>1, <1>6, VoteTallies, VoteCommits, LookCommits, ReReviewCommits
<1>7. ASSUME NEW w \in Workers, Reviewed!Rollback(w) PROVE RevInv' /\ Heard
  <2>1. StillSo(Reviewed!Idle)
    BY DEF StillSo, Reviewed!Idle
  <2>2. QED
    BY <1>1, <1>7, <2>1, JobKeeps, NothingWritten DEF Reviewed!Rollback, Reviewed!EndJob
<1>8. CASE Reviewed!Tomorrow
  <2>1. UNCHANGED <<stance, reviews>>
    BY <1>8 DEF Reviewed!Tomorrow
  <2>2. QED
    BY <1>1, <1>8, <2>1, TomorrowKeeps, NothingWritten
<1>9. ASSUME NEW w \in Workers, Reviewed!CommitMark(w) PROVE RevInv' /\ Heard
  BY <1>9, MarkCommits
<1>10. QED
  BY <1>2, <1>3, <1>4, <1>5, <1>6, <1>7, <1>8, <1>9 DEF Reviewed!Next

(* Jobs, reviews and marks that stay as they are.                          *)
LEMMA ReviewsStay ==
  ASSUME DaysKnown, RevInv, UNCHANGED Reviewed!vars
  PROVE  RevInv'
<1>1. UNCHANGED <<stance, reviews, cooling, warm, reviewDay, reviewJob>>
  BY DEF Reviewed!vars
<1>2. ReviewTypes /\ DOMAIN reviewJob' = Workers /\ reviewDay' \in Days /\ reviewDay <= reviewDay'
  <2>1. reviewDay \in Int
    BY DEF RevInv, ReviewTypes, DaysKnown
  <2>2. QED
    BY <1>1, <2>1 DEF RevInv, ReviewTypes
<1>3. ASSUME NEW w \in Workers PROVE StillSo(reviewJob[w])'
  <2>1. PICK j : j = reviewJob[w]
    OBVIOUS
  <2>2. StillSo(j)'
    BY <1>1, <1>2, <2>1, StillFound DEF RevInv
  <2>3. reviewJob'[w] = j
    BY <1>1, <2>1
  <2>4. QED
    BY <2>2, <2>3
<1>4. QED
  BY <1>1, <1>2, <1>3, RestKeeps DEF RevInv

LEMMA HeardIsAnswered ==
  ASSUME DaysKnown, RevInv', Heard
  PROVE  Reviewed!MarksAreAnswered
<1>1. \A t \in Suspects : \A i, k \in Reviewed!OpenOf(t)' : i = k
  BY DEF RevInv, OneOpenReview, OpenReview, Reviewed!OpenOf, Reviewed!Of
<1>2. \A t \in Suspects : \A u \in Reviewed!Markers(t)' : ~ Reviewed!OnCooldown(u, t)'
  <2>1. reviewDay' \in Int /\ \A u \in Accounts, t \in Suspects : cooling'[u][t] \in Int
    BY DEF RevInv, ReviewTypes, DaysKnown
  <2>2. QED
    BY <2>1 DEF RevInv, Rested, Reviewed!Markers, Reviewed!OnCooldown
<1>3. QED
  BY <1>1, <1>2 DEF Heard, Reviewed!MarksAreAnswered

(* One request at a time, for any accounts, founders, suspects and warm-   *)
(* ups that come and go: the mark that makes three count leaves the        *)
(* account paused or with an open review, and no review is opened unless   *)
(* by three marks that count or as a re-review; an account has one open    *)
(* review at most, and who marked it before it was cleared does not mark   *)
(* it again while the cooldown lasts (bot_reviews.py:3-7, 129-169).        *)
THEOREM MarksKept ==
  ASSUME DaysKnown, OneAtATime
  PROVE  Reviewed!Spec => MarksAreAnswered
<1>1. Reviewed!Init => RevInv
  BY ReviewsBegin
<1>2. RevInv /\ [Reviewed!Next]_(Reviewed!vars) => RevInv'
  BY ReviewStep, ReviewsStay
<1>3. RevInv /\ [Reviewed!Next]_(Reviewed!vars) => [Reviewed!MarksAreAnswered]_(Reviewed!vars)
  BY ReviewStep, HeardIsAnswered
<1>4. QED
  BY <1>1, <1>2, <1>3, PTL DEF Reviewed!Spec, MarksAreAnswered

-----------------------------------------------------------------------------
(* The board: what a request has found in the votes and in the seats holds *)
(* when it writes.                                                         *)

(* What a request about the board has found: a member it keeps has the     *)
(* votes, with its own, and one it removes has not, or had its grace.      *)
Finding(j) ==
  LET c == Seated!Cast(j.ballots)
  IN  /\ \A u \in j.placed : u \notin Persons \/ seat[u] # "member"
      /\ \A u \in Persons :
           /\ u \in j.promoted => Seated!Approved(c[u]) /\ seat[u] # "member"
           /\ seat[u] = "member" =>
                \/ u \notin j.removed /\ Seated!Approved(c[u])
                \/ u \in j.removed /\ (~ Seated!Approved(c[u]) \/ (grace[u] # Seated!None /\ grace[u] < boardDay))
Findings == \A w \in Workers : boardJob[w].op = "write" => Finding(boardJob[w])
Supported == \A u \in Persons : seat[u] = "member" => Seated!Approved(votes[u])
BoardInv ==
  /\ seat \in [Persons -> Seated!Seats] /\ DOMAIN boardJob = Workers
  /\ Findings /\ Supported

LEMMA BoardBegins == Seated!Init => BoardInv
  BY DEF Seated!Init, BoardInv, Findings, Supported, Seated!Seats, Seated!Idle

LEMMA ReconcileFinds ==
  ASSUME BoardInv, NEW w \in Workers, NEW ballots, NEW placed,
         \A u \in placed : u \notin Persons \/ seat[u] # "member",
         Seated!StartReconcile(w, ballots, placed), OneAtATime
  PROVE  BoardInv'
<1> DEFINE s == [u \in Persons |-> IF u \in placed THEN "candidate" ELSE seat[u]]
           c == Seated!Cast(ballots)
           j == Seated!Reconcile(ballots, placed)
<1>1. boardJob' = [boardJob EXCEPT ![w] = j] /\ UNCHANGED <<seat, grace, votes, population, mergers, boardDay>>
  BY DEF Seated!StartReconcile
<1>2. /\ j.ballots = ballots /\ j.placed = placed
      /\ j.promoted = Seated!Promoted(s, c) /\ j.removed = Seated!Removed(s, c)
  BY DEF Seated!Reconcile
<1>3. ASSUME NEW u \in Persons, u \in Seated!Promoted(s, c)
      PROVE  Seated!Approved(c[u]) /\ seat[u] # "member"
  <2>1. s[u] = "candidate" /\ Seated!Approved(c[u])
    BY <1>3 DEF Seated!Promoted, Seated!MeetsStandingThreshold
  <2>2. QED
    BY <2>1
<1>4. ASSUME NEW u \in Persons, seat[u] = "member"
      PROVE  \/ u \notin Seated!Removed(s, c) /\ Seated!Approved(c[u])
             \/ u \in Seated!Removed(s, c) /\ (~ Seated!Approved(c[u]) \/ (grace[u] # Seated!None /\ grace[u] < boardDay))
  <2>1. s[u] = "member"
    BY <1>4
  <2> HIDE DEF s, c
  <2>2. u \in Seated!SeatedAfter(s, c) /\ u \notin Seated!Promoted(s, c)
    BY <2>1 DEF Seated!SeatedAfter, Seated!Promoted
  <2>3. QED
    BY <2>2 DEF Seated!Removed, Seated!GraceAfter
<1> HIDE DEF s, c, j
<1>5. Finding(j)
  BY <1>2, <1>3, <1>4 DEF Finding, c
<1>6. boardJob'[w] = j /\ DOMAIN boardJob' = Workers
  BY <1>1 DEF BoardInv
<1>7. Finding(boardJob[w])'
  BY <1>1, <1>5, <1>6 DEF Finding, Seated!Cast
<1>8. Findings'
  BY <1>7 DEF Findings, OneAtATime
<1>9. QED
  BY <1>1, <1>6, <1>8 DEF BoardInv, Supported

(* What a commit does to the seats.                                        *)
LEMMA CommitSeats ==
  ASSUME BoardInv, NEW w \in Workers, Seated!CommitReconcile(w), OneAtATime, NEW u \in Persons
  PROVE  /\ seat'[u] \in Seated!Seats
         /\ seat'[u] = "member" => Seated!Approved(votes'[u])
         /\ seat[u] = "member" /\ seat'[u] = "none" =>
              ~ Seated!Approved(votes'[u]) \/ (grace[u] # Seated!None /\ grace[u] < boardDay)
<1> DEFINE j == boardJob[w]
           c == Seated!Cast(j.ballots)
<1>1. /\ j.op = "write" /\ seat'[u] = Seated!Written(j, u) /\ votes' = c
  BY DEF Seated!CommitReconcile
<1>2. Finding(j) /\ seat[u] \in Seated!Seats /\ Supported
  BY <1>1 DEF BoardInv, Findings
<1> HIDE DEF j
<1>3. /\ u \in j.placed => seat[u] # "member"
      /\ u \in j.promoted => Seated!Approved(c[u]) /\ seat[u] # "member"
      /\ seat[u] = "member" =>
           \/ u \notin j.removed /\ Seated!Approved(c[u])
           \/ u \in j.removed /\ (~ Seated!Approved(c[u]) \/ (grace[u] # Seated!None /\ grace[u] < boardDay))
  BY <1>2 DEF Finding
<1> HIDE DEF c
<1>4. QED
  BY <1>1, <1>2, <1>3 DEF Seated!Written, Seated!Seats

LEMMA CommitKeeps ==
  ASSUME BoardInv, NEW w \in Workers, Seated!CommitReconcile(w), OneAtATime
  PROVE  BoardInv'
<1>1. seat' = [u \in Persons |-> Seated!Written(boardJob[w], u)]
  BY DEF Seated!CommitReconcile
<1>2. /\ \A u \in Persons : seat'[u] \in Seated!Seats
      /\ \A u \in Persons : seat'[u] = "member" => Seated!Approved(votes'[u])
  BY CommitSeats
<1>3. seat' \in [Persons -> Seated!Seats] /\ Supported'
  BY <1>1, <1>2 DEF Supported, Seated!Approved, Seated!VoteCount, Seated!Count
<1>4. DOMAIN boardJob' = Workers /\ boardJob'[w].op # "write"
  BY DEF Seated!CommitReconcile, BoardInv, Seated!Idle
<1>5. Findings'
  BY <1>4 DEF Findings, OneAtATime
<1>6. QED
  BY <1>3, <1>4, <1>5 DEF BoardInv

(* Nothing else seats anybody, and only resigning gives up a seat.         *)
Resigns(u) == \E w \in Workers : Seated!RemoveVolunteer(w, u)
LEMMA NothingElseSeats ==
  ASSUME BoardInv, OneAtATime, [Seated!Next]_(Seated!vars), ~ \E w \in Workers : Seated!CommitReconcile(w)
  PROVE  /\ BoardInv'
         /\ UNCHANGED votes
         /\ \A u \in Persons : seat'[u] # seat[u] => seat'[u] # "member" /\ (seat[u] = "member" /\ seat'[u] = "none" => Resigns(u))
<1> DEFINE Goal == /\ BoardInv'
         /\ UNCHANGED votes
         /\ \A u \in Persons : seat'[u] # seat[u] => seat'[u] # "member" /\ (seat[u] = "member" /\ seat'[u] = "none" => Resigns(u))
<1> SUFFICES Goal
  OBVIOUS
<1>1. ASSUME NEW w \in Workers, NEW ballots, NEW placed, \A u \in placed : u \notin Persons \/ seat[u] # "member", Seated!StartReconcile(w, ballots, placed)
      PROVE  Goal
  BY <1>1, ReconcileFinds DEF Seated!StartReconcile
<1>2. ASSUME NEW w \in Workers, NEW u \in Persons, Seated!VolunteerAsCandidate(w, u)
      PROVE  Goal
  <2>1. Seated!StartReconcile(w, {}, IF seat[u] = "member" THEN {} ELSE {u})
    BY <1>2 DEF Seated!VolunteerAsCandidate
  <2>2. \A x \in IF seat[u] = "member" THEN {} ELSE {u} : x \notin Persons \/ seat[x] # "member"
    OBVIOUS
  <2> HIDE DEF Goal
  <2>3. QED
    BY <2>1, <2>2, <1>1
<1>3. ASSUME NEW w \in Workers, NEW u \in Persons, NEW v \in Electors, NEW vote, Seated!CastStandingVote(w, v, u, vote)
      PROVE  Goal
  <2> HIDE DEF Goal
  <2>1. QED
    BY <1>3, <1>1 DEF Seated!CastStandingVote
<1>4. ASSUME NEW w \in Workers, NEW u \in Persons, NEW v \in Electors, Seated!TakeBackVote(w, v, u)
      PROVE  Goal
  <2> HIDE DEF Goal
  <2>1. QED
    BY <1>4, <1>1 DEF Seated!TakeBackVote
<1>5. ASSUME NEW w \in Workers, Seated!ListBoardStanding(w)
      PROVE  Goal
  <2> HIDE DEF Goal
  <2>1. QED
    BY <1>5, <1>1 DEF Seated!ListBoardStanding
<1>6. ASSUME NEW w \in Workers, NEW u \in Persons, Seated!RemoveVolunteer(w, u)
      PROVE  Goal
  <2>1. seat' \in [Persons -> Seated!Seats] /\ DOMAIN boardJob' = Workers /\ boardJob'[w].op # "write"
    BY <1>6 DEF Seated!RemoveVolunteer, BoardInv, Seated!Seats, Seated!Idle
  <2>2. Findings'
    BY <2>1 DEF Findings, OneAtATime
  <2>3. \A x \in Persons : seat'[x] # seat[x] => x = u /\ seat'[x] = "none"
    BY <1>6 DEF Seated!RemoveVolunteer, BoardInv
  <2>4. Supported' /\ UNCHANGED votes
    BY <1>6, <2>3 DEF Seated!RemoveVolunteer, BoardInv, Supported
  <2>5. BoardInv'
    BY <2>1, <2>2, <2>4 DEF BoardInv
  <2>6. QED
    BY <1>6, <2>3, <2>4, <2>5 DEF Resigns
<1>7. ASSUME NEW w \in Workers, Seated!SyncPlatformMergeCapability(w) \/ Seated!Rollback(w)
      PROVE  Goal
  <2>1. UNCHANGED <<seat, votes>> /\ DOMAIN boardJob' = Workers /\ boardJob'[w].op # "write"
    BY <1>7 DEF Seated!SyncPlatformMergeCapability, Seated!Rollback, Seated!EndJob, BoardInv, Seated!Idle
  <2>2. Findings'
    BY <2>1 DEF Findings, OneAtATime
  <2>3. QED
    BY <2>1, <2>2 DEF BoardInv, Supported
<1>8. CASE Seated!ChangePopulation \/ UNCHANGED Seated!vars
  BY <1>8 DEF Seated!ChangePopulation, Seated!vars, BoardInv, Findings, Finding, Supported, Seated!Cast
<1>9. CASE Seated!Tomorrow
  <2>1. UNCHANGED <<seat, votes, boardJob>> /\ \A w \in Workers : boardJob'[w].op # "write"
    BY <1>9 DEF Seated!Tomorrow, Seated!Idle
  <2>2. QED
    BY <2>1 DEF BoardInv, Findings, Supported
<1> HIDE DEF Goal
<1>10. ASSUME NEW w \in Workers, NEW u \in Persons,
              \/ Seated!VolunteerAsCandidate(w, u)
              \/ Seated!RemoveVolunteer(w, u)
              \/ \E v \in Electors :
                   \/ \E vote \in {"yes", "no"} : Seated!CastStandingVote(w, v, u, vote)
                   \/ Seated!TakeBackVote(w, v, u)
       PROVE  Goal
  BY <1>2, <1>3, <1>4, <1>6, <1>10
<1>11. QED
  BY <1>5, <1>7, <1>8, <1>9, <1>10 DEF Seated!Next

(* One request at a time, whoever has a seat has two thirds of the votes   *)
(* after every request, and a member who does not resign loses it only for *)
(* losing them or after the grace period on record (board.py:126-236).     *)
THEOREM SeatsDecided ==
  ASSUME OneAtATime
  PROVE  Seated!Spec => SeatsFollowVotes
<1>1. BoardInv /\ [Seated!Next]_(Seated!vars) => BoardInv'
  BY CommitKeeps, NothingElseSeats
<1>2. BoardInv /\ [Seated!Next]_(Seated!vars) => [Seated!SeatsFollowVotes]_(Seated!vars)
  <2> SUFFICES ASSUME BoardInv, [Seated!Next]_(Seated!vars) PROVE Seated!SeatsFollowVotes
    OBVIOUS
  <2>1. CASE \E w \in Workers : Seated!CommitReconcile(w)
    BY <2>1, CommitSeats DEF Seated!SeatsFollowVotes
  <2>2. CASE ~ \E w \in Workers : Seated!CommitReconcile(w)
    <3>1. BoardInv'
      BY <2>2, NothingElseSeats
    <3>2. \A u \in Persons : seat'[u] = "member" => Seated!Approved(votes'[u])
      BY <3>1 DEF BoardInv, Supported, Seated!Approved, Seated!VoteCount, Seated!Count
    <3>3. QED
      BY <2>2, <3>2, NothingElseSeats DEF Seated!SeatsFollowVotes, Resigns
  <2>3. QED
    BY <2>1, <2>2
<1>3. QED
  BY BoardBegins, <1>1, <1>2, PTL DEF Seated!Spec, SeatsFollowVotes
=============================================================================
