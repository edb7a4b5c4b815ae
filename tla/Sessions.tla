------------------------------ MODULE Sessions ------------------------------
(***************************************************************************)
(* One account and one browser with several tabs (app/services/auth.py,    *)
(* app/auth): signing up and in, refreshing with the refresh cookie, and   *)
(* signing out.  A bundle of tokens is a number; the passwords that open   *)
(* and change an account, and the expiry of tokens, are left out.          *)
(*                                                                         *)
(* What is known of a refresh token is in Redis: whether it was rotated,   *)
(* what replaced it and whether it was revoked.  The tabs send the cookie  *)
(* the browser has, their responses come in any order or not at all, and a *)
(* request may die with its process between any two commands.              *)
(***************************************************************************)
EXTENDS Naturals, FiniteSets

CONSTANTS Tabs,
          FailClosed,          \* rate_limit_fail_closed of the settings
          MaxTokens, MaxFaults \* bounds

ASSUME BoundsAssumption == FailClosed \in BOOLEAN /\ MaxTokens \in Nat /\ MaxFaults \in Nat

VARIABLES account,    \* "none", "active" or "inactive"
          issued,     \* bundles issued so far
          rotated,    \* token-rotated: "no", "recent" (in the grace window) or "old"
          successor,  \* token-successor, 0 when there is none
          revoked,    \* token-blacklist of refresh tokens
          barred,     \* token-blacklist of access tokens
          cookie,     \* the bundle the browser has, 0 when it has none
          tab,        \* what becomes of the request of each tab
          faults,     \* calls to Redis that failed
          cut,        \* ghost: tokens on record as used whose refresh then died, or
                      \* outlasted the grace window, with no replacement on record
          refused     \* ghost: the browser's own live token was turned down

vars == <<account, issued, rotated, successor, revoked, barred, cookie, tab, faults, cut,
          refused>>

Tokens == 1..MaxTokens
Idle   == [op |-> "idle", token |-> 0]

TypeOK ==
  /\ account \in {"none", "active", "inactive"}
  /\ issued \in 0..MaxTokens
  /\ rotated \in [Tokens -> {"no", "recent", "old"}]
  /\ successor \in [Tokens -> 0..MaxTokens]
  /\ revoked \subseteq Tokens /\ barred \subseteq Tokens
  /\ cookie \in 0..issued
  /\ tab \in [Tabs -> {Idle} \cup [op : {"asked", "valid", "allowed", "answered"}, token : Tokens]]
  /\ faults \in 0..MaxFaults
  /\ cut \subseteq Tokens
  /\ refused \in BOOLEAN

Init ==
  /\ account = "none" /\ issued = 0
  /\ rotated = [t \in Tokens |-> "no"] /\ successor = [t \in Tokens |-> 0]
  /\ revoked = {} /\ barred = {} /\ cookie = 0
  /\ tab = [b \in Tabs |-> Idle] /\ faults = 0 /\ cut = {} /\ refused = FALSE

Move(b, from, to) ==
  /\ tab[b].op = from
  /\ tab' = [tab EXCEPT ![b] = [op |-> to, token |-> @.token]]
Quit(b) == tab' = [tab EXCEPT ![b] = Idle]

(* A fresh bundle on its way to the tab.                                   *)
Issue(b) ==
  /\ issued < MaxTokens
  /\ issued' = issued + 1
  /\ tab' = [tab EXCEPT ![b] = [op |-> "answered", token |-> issued']]

RedisFails == faults < MaxFaults /\ faults' = faults + 1
RedisWorks == UNCHANGED faults

Refuse(b) ==
  /\ Quit(b)
  /\ refused' = (refused \/ (tab[b].token = cookie /\ account = "active"
                             /\ cookie \notin revoked \cup cut /\ faults' = 0))

-----------------------------------------------------------------------------
RegisterUser(b) ==
  /\ tab[b] = Idle /\ account = "none"
  /\ account' = "active"
  /\ Issue(b)
  /\ UNCHANGED <<rotated, successor, revoked, barred, cookie, faults, cut, refused>>

AuthenticateUser(b) ==
  /\ tab[b] = Idle /\ account = "active"
  /\ Issue(b)
  /\ UNCHANGED <<account, rotated, successor, revoked, barred, cookie, faults, cut, refused>>

(* A token of its own is enough to deactivate an account; what was issued  *)
(* for it is not revoked.                                                  *)
GetCurrentUser == cookie # 0 /\ cookie \notin barred

DeactivateAccount ==
  /\ GetCurrentUser /\ account = "active"
  /\ account' = "inactive"
  /\ UNCHANGED <<issued, rotated, successor, revoked, barred, cookie, tab, faults, cut, refused>>

-----------------------------------------------------------------------------
(* Refresh: the token must not be revoked and its owner active; then its   *)
(* first use is on record, and another is allowed for a moment, or as long *)
(* as what replaced it was never used; then its replacement is on record.  *)
Ask(b) ==
  /\ tab[b] = Idle /\ cookie # 0
  /\ tab' = [tab EXCEPT ![b] = [op |-> "asked", token |-> cookie]]
  /\ UNCHANGED <<account, issued, rotated, successor, revoked, barred, cookie, faults, cut, refused>>

IsTokenBlacklisted(b) ==
  /\ tab[b].op = "asked"
  /\ \/ /\ RedisWorks
        /\ IF tab[b].token \in revoked \/ account # "active"
           THEN Refuse(b)
           ELSE Move(b, "asked", "valid") /\ UNCHANGED refused
     \/ /\ RedisFails
        /\ IF FailClosed \/ account # "active" THEN Quit(b) ELSE Move(b, "asked", "valid")
        /\ UNCHANGED refused
  /\ UNCHANGED <<account, issued, rotated, successor, revoked, barred, cookie, cut>>

(* Mutant: a token that was used is good for the grace window only.        *)
UsedOnce(t) == FALSE
SuccessorUnused(t) == successor[t] # 0 /\ rotated[successor[t]] = "no"

RotationAllowsReuse(b) ==
  /\ tab[b].op = "valid"
  /\ LET t == tab[b].token
     IN  \/ /\ RedisWorks
            /\ rotated' = [rotated EXCEPT ![t] = IF @ = "no" THEN "recent" ELSE @]
            /\ IF rotated[t] # "old" \/ SuccessorUnused(t)
               THEN Move(b, "valid", "allowed") /\ UNCHANGED refused
               ELSE Refuse(b)
         \/ /\ RedisFails
            /\ \/ (FailClosed \/ rotated[t] = "old") /\ Quit(b)
               \/ ~ FailClosed /\ Move(b, "valid", "allowed")
            /\ UNCHANGED <<rotated, refused>>
  /\ UNCHANGED <<account, issued, successor, revoked, barred, cookie, cut>>

RecordSuccessor(b) ==
  /\ tab[b].op = "allowed"
  /\ Issue(b)
  /\ \/ /\ RedisWorks
        /\ successor' = [successor EXCEPT ![tab[b].token] = issued']
        /\ cut' = cut \ {tab[b].token}
     \/ RedisFails /\ UNCHANGED <<successor, cut>>
  /\ UNCHANGED <<account, rotated, revoked, barred, cookie, refused>>

(* The grace window ends whatever a handler is doing.                      *)
Unrecorded(t) ==
  IF successor[t] = 0 /\ \E b \in Tabs : tab[b].op = "allowed" /\ tab[b].token = t THEN {t} ELSE {}

GraceEnds(t) ==
  /\ rotated[t] = "recent"
  /\ rotated' = [rotated EXCEPT ![t] = "old"]
  /\ cut' = cut \cup Unrecorded(t)
  /\ UNCHANGED <<account, issued, successor, revoked, barred, cookie, tab, faults, refused>>

(* The process dies, or the page is left before the handler is done: what  *)
(* it has written stays.                                                   *)
Die(b) ==
  /\ tab[b].op \in {"asked", "valid", "allowed"}
  /\ Quit(b)
  /\ cut' = IF tab[b].op = "allowed" THEN cut \cup Unrecorded(tab[b].token) ELSE cut
  /\ UNCHANGED <<account, issued, rotated, successor, revoked, barred, cookie, faults, refused>>

(* The response sets the cookies, unless the page is gone.                 *)
ApplyAuthCookies(b) ==
  /\ tab[b].op = "answered"
  /\ cookie' = tab[b].token
  /\ Quit(b)
  /\ UNCHANGED <<account, issued, rotated, successor, revoked, barred, faults, cut, refused>>

LeavePage(b) ==
  /\ tab[b].op = "answered"
  /\ Quit(b)
  /\ UNCHANGED <<account, issued, rotated, successor, revoked, barred, cookie, faults, cut, refused>>

(* Signing out revokes the two tokens that were sent, or what of it Redis  *)
(* does, and says so in any case.                                          *)
Logout(b) ==
  /\ tab[b] = Idle /\ cookie # 0
  /\ \/ RedisWorks /\ barred' = barred \cup {cookie} /\ revoked' = revoked \cup {cookie}
     \/ RedisFails /\ barred' = barred \cup {cookie} /\ UNCHANGED revoked
     \/ RedisFails /\ UNCHANGED <<barred, revoked>>
  /\ cookie' \in {0, cookie}
  /\ UNCHANGED <<account, issued, rotated, successor, tab, cut, refused>>

Next ==
  \/ \E b \in Tabs :
       \/ RegisterUser(b) \/ AuthenticateUser(b) \/ Logout(b)
       \/ Ask(b) \/ IsTokenBlacklisted(b) \/ RotationAllowsReuse(b) \/ RecordSuccessor(b)
       \/ Die(b) \/ ApplyAuthCookies(b) \/ LeavePage(b)
  \/ DeactivateAccount
  \/ \E t \in Tokens : GraceEnds(t)

Spec == Init /\ [][Next]_vars

-----------------------------------------------------------------------------
(* As long as Redis answers, a browser whose account is active and that    *)
(* did not sign out is never refused with the cookie it has, whichever     *)
(* requests died, whichever responses were lost, late or crossed in two    *)
(* tabs (auth.py:40-42, 293-303) - unless a refresh with that cookie died, *)
(* or outlasted the grace window, between the two commands that record its *)
(* use and its replacement (auth.py:322 and 275): that leaves nothing to   *)
(* tell a lost response from a stolen token.                               *)
StaysSignedIn == ~ refused
=============================================================================
