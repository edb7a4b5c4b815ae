------------------------------ MODULE CallsMC ------------------------------
(***************************************************************************)
(* Instances of Calls and ScopeGovernance for TLC, the first for what must *)
(* eventually happen: a chat whose signals come one at a time, one whose   *)
(* server processes die with two handlers under way, the presence of one   *)
(* person's devices with and without such deaths, and a community that     *)
(* votes on one proposal.  In a scenario one of them moves, the others     *)
(* stay as they begin, where nothing is due.                               *)
(***************************************************************************)
EXTENDS Calls, TLC

CONSTANTS ana, ben, phone, laptop, tablet, w1, c1

VARIABLES scenario,
          otherConnected, otherPresence, otherClaim, otherSession, otherFresh, otherHand, otherBeat,
          community, proposals, votes, expired, job

Devices == (phone :> ana) @@ (tablet :> ana) @@ (laptop :> ben)

Crashed == INSTANCE Calls WITH
  RingTTL <- 1, ActiveTTL <- 2, Calls <- {c1}, MaxPresence <- 2, Concurrency <- 2,
  Beating <- {}, Crashes <- TRUE, Stalls <- TRUE, Lapses <- FALSE,
  connected <- otherConnected, presence <- otherPresence, claim <- otherClaim,
  session <- otherSession, fresh <- otherFresh, hand <- otherHand, beat <- otherBeat

Hers == [s \in Sockets |-> ana]

Counted(deaths) == INSTANCE Calls WITH
  Owner <- Hers, Calls <- {c1}, MaxPresence <- 2, Concurrency <- 0,
  Beating <- Sockets, Crashes <- deaths, Stalls <- TRUE, Lapses <- TRUE,
  connected <- otherConnected, presence <- otherPresence, claim <- otherClaim,
  session <- otherSession, fresh <- otherFresh, hand <- otherHand, beat <- otherBeat

Community == INSTANCE ScopeGovernance WITH
  Users <- {ana, ben}, Founder <- ana, Private <- TRUE, Established <- {},
  Names <- {"old"}, Workers <- {w1}, MaxProposals <- 1

otherVars     == <<otherConnected, otherPresence, otherClaim, otherSession, otherFresh, otherHand,
                   otherBeat>>
communityVars == <<community, proposals, votes, expired, job>>
allVars       == <<scenario, vars, otherVars, communityVars>>

MCInit ==
  /\ scenario \in {"alone", "crashes", "devices", "dying", "community"}
  /\ Init /\ Crashed!Init /\ Community!Init
  /\ scenario # "community" => community.mode = "collaborative"

MCNext ==
  /\ UNCHANGED scenario
  /\ \/ scenario = "alone" /\ Next /\ UNCHANGED <<otherVars, communityVars>>
     \/ scenario = "crashes" /\ Crashed!Next /\ UNCHANGED <<vars, communityVars>>
     \/ scenario = "devices" /\ Counted(FALSE)!Next /\ UNCHANGED <<vars, communityVars>>
     \/ scenario = "dying" /\ Counted(TRUE)!Next /\ UNCHANGED <<vars, communityVars>>
     \/ scenario = "community" /\ Community!Next /\ UNCHANGED <<vars, otherVars>>

(* What a scenario leaves alone owes nothing: somebody can always open the *)
(* settings of the community, the rest has nothing enabled there, and only *)
(* the chat with the crashes leaves the keepalive tasks out.               *)
MCFairness ==
  /\ scenario = "community" => Community!Fairness
  /\ Crashed!Fairness
  /\ \A s \in Sockets : WF_otherVars(scenario # "crashes" /\ Counted(FALSE)!Beat(s))

MCSpec == MCInit /\ [][MCNext]_allVars /\ MCFairness

-----------------------------------------------------------------------------
(* Whatever races or crashes, a chat without a call is free again, whoever *)
(* has an open socket can be called again, and whoever has none cannot,    *)
(* but for a process that dies inside leave_presence or join_presence;     *)
(* unless one does, they leave no count behind that is used up or never    *)
(* runs out, however the devices of one person interleave                  *)
(* (messages/calls.py's TTLs, refresh_presence).                           *)
LinesRecover ==
  /\ Crashed!EventuallyFreed
  /\ scenario = "dying" =>
       Counted(TRUE)!EventuallyReachable /\ Counted(TRUE)!EventuallyUnreachable
  /\ scenario = "devices" => []Counted(FALSE)!NoCountLeftBehind

(* A proposal is settled within a week and the next look at the settings   *)
(* (scope_governance.py:297 and 595).                                      *)
ProposalsSettle == Community!EventuallySettled
=============================================================================
