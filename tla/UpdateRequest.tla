--------------------------- MODULE UpdateRequest ---------------------------
(***************************************************************************)
(* One community update request of a project, from posting to publication  *)
(* (app/services/projects/phases/update_requests.py).  A vote is one HTTP  *)
(* request and one READ COMMITTED transaction without locks: it reads the  *)
(* request row, adds its own ballot, tallies that ballot with the committed*)
(* ones, and commits the ballot together with the decision.  Several are   *)
(* in flight at once, one per worker.                                      *)
(***************************************************************************)
EXTENDS Votes, Naturals

CONSTANTS Users,        \* the project's members
          Level,        \* the standing of each member
          Workers,      \* requests the API serves at the same time
          Populations   \* what the weekly-active count may read, cached or not

ASSUME LevelAssumption == Level \in [Users -> Levels]
ASSUME WorkersAssumption == IsFiniteSet(Workers)
ASSUME PopulationsAssumption == Populations \subseteq Nat

VARIABLES status,     \* status of the row; "absent" before it is posted
          votes,      \* committed project_update_request_votes, by voter
          updates,    \* project_updates rows published for the request
          request     \* what each worker is doing

vars == <<status, votes, updates, request>>

Idle     == [pc |-> "idle"]
Weight   == [u \in Users |-> WeightOf(Level[u])]
Closed   == {"approved", "rejected"}

At(w, pc) == request[w].pc = pc

VoteJob  == [pc : {"proposer", "read"}, user : Users, ballot : {"yes", "no"}]
TallyJob == [pc : {"tallied"}, user : Users, ballot : {"yes", "no"},
             insert : BOOLEAN, outcome : {"open"} \cup Closed]

TypeOK ==
  /\ status \in {"absent", "open"} \cup Closed
  /\ votes \in [Users -> Ballots]
  /\ updates \in Nat
  /\ request \in [Workers -> {Idle} \cup VoteJob \cup TallyJob]

-----------------------------------------------------------------------------
Init ==
  /\ status = "absent"
  /\ votes = [u \in Users |-> "none"]
  /\ updates = 0
  /\ request = [w \in Workers |-> Idle]

(* Posting.  Alone, or with nobody active, the poster's yes is recorded    *)
(* and the update is published at once; otherwise the handler goes on to   *)
(* cast the proposer's yes as a vote of its own.                           *)
Create(w, u) ==
  /\ At(w, "idle")
  /\ status = "absent"
  /\ \E n \in Populations :
       IF n <= 1
       THEN /\ status' = "approved"
            /\ votes' = [votes EXCEPT ![u] = "yes"]
            /\ updates' = updates + 1
            /\ UNCHANGED request
       ELSE /\ status' = "open"
            /\ request' = [request EXCEPT ![w] =
                             [pc |-> "proposer", user |-> u, ballot |-> "yes"]]
            /\ UNCHANGED <<votes, updates>>

(* Mutant: the "already closed" check is missing.                          *)
AdmitsClosed(u) == CanVote(Level[u]) /\ status # "absent"

(* The vote handler reads the row; a member without voting standing and a  *)
(* request that is not open are refused.                                   *)
Admits(u) == CanVote(Level[u]) /\ status = "open"

ReadRequest(w, u, ballot) ==
  /\ At(w, "idle")
  /\ Admits(u)
  /\ request' = [request EXCEPT ![w] = [pc |-> "read", user |-> u, ballot |-> ballot]]
  /\ UNCHANGED <<status, votes, updates>>

(* cast_proposer_yes swallows the refusal.                                 *)
ProposerVote(w) ==
  /\ At(w, "proposer")
  /\ request' = [request EXCEPT ![w] =
       IF Admits(request[w].user) THEN [@ EXCEPT !.pc = "read"] ELSE Idle]
  /\ UNCHANGED <<status, votes, updates>>

(* The tally sees the committed ballots and the worker's own.              *)
(* Mutant: the ballot is not flushed before the tally.                     *)
TalliedOld(r, n) == Decide(votes, Weight, n)
Tallied(r, n) == Decide([votes EXCEPT ![r.user] = r.ballot], Weight, n)

Tally(w) ==
  /\ At(w, "read")
  /\ LET r == request[w]
     IN  \E n \in Populations :
           request' = [request EXCEPT ![w] =
             [pc |-> "tallied", user |-> r.user, ballot |-> r.ballot,
              insert |-> votes[r.user] = "none", outcome |-> Tallied(r, n)]]
  /\ UNCHANGED <<status, votes, updates>>

(* Mutant: a rejection publishes as well.                                  *)
PublishesDecision(outcome) == outcome # "open"
Publishes(outcome) == outcome = "approved"

(* The commit.  A first ballot is an INSERT: if the same member's other    *)
(* request inserted one meanwhile, the primary key rolls this one back.    *)
Commit(w) ==
  /\ At(w, "tallied")
  /\ ~ (request[w].insert /\ votes[request[w].user] # "none")
  /\ votes' = [votes EXCEPT ![request[w].user] = request[w].ballot]
  /\ status' = IF request[w].outcome = "open" THEN status ELSE request[w].outcome
  /\ updates' = IF Publishes(request[w].outcome) THEN updates + 1 ELSE updates
  /\ request' = [request EXCEPT ![w] = Idle]

(* A rollback: the duplicate ballot above, a lost connection, a restart.   *)
Rollback(w) ==
  /\ request[w].pc \in {"read", "tallied"}
  /\ request' = [request EXCEPT ![w] = Idle]
  /\ UNCHANGED <<status, votes, updates>>

Step(w) ==
  \/ ProposerVote(w)
  \/ Tally(w)
  \/ Commit(w)
  \/ Rollback(w)

Next ==
  \E w \in Workers :
    \/ \E u \in Users : Create(w, u)
    \/ \E u \in Users, ballot \in {"yes", "no"} : ReadRequest(w, u, ballot)
    \/ Step(w)

Spec == Init /\ [][Next]_vars

-----------------------------------------------------------------------------
(* The workers whose transaction may still decide the request.             *)
InFlight == {w \in Workers : request[w].pc \in {"proposer", "read", "tallied"}}

(* Only votes that had read the row while it was open can disturb a        *)
(* decision: no later one is admitted (the "already closed" check of line  *)
(* 153), the request is never open again, and once the stragglers are done *)
(* nothing changes it.                                                     *)
SettledIsFinal ==
  [][(status \in Closed) =>
       /\ status' \in Closed
       /\ InFlight' \subseteq InFlight
       /\ InFlight = {} => UNCHANGED <<status, votes, updates>>]_vars

(* However the commits interleave, the update is published at most once    *)
(* per worker: the executions the stale status check lets through (lines   *)
(* 153 and 196-211) are bounded by the votes that were in flight.          *)
PublicationsBounded ==
  updates + (IF status \in Closed THEN Cardinality(InFlight) ELSE 0)
    <= Cardinality(Workers)

(* One vote at a time, a request is a Decision: published exactly when it  *)
(* is approved, once, and final (lines 153, 196-217).                      *)
Promise == INSTANCE Decision WITH effects <- updates
IsADecision == Promise!Spec

(* The members a rejection may still wait for: those who count for the     *)
(* quorum and have not voted.                                              *)
Outstanding == {u \in Users : CountsForQuorum(Level[u]) /\ votes[u] = "none"}
Completions ==
  {[u \in Users |-> IF u \in Outstanding THEN c[u] ELSE votes[u]] :
     c \in [Outstanding -> Ballots]}
CountedMembers == Cardinality({u \in Users : CountsForQuorum(Level[u])})

(* A request is rejected only when no way the members still to vote could  *)
(* vote would have passed it (compute_vote_summary's can_still_pass).      *)
RejectionIsFair ==
  status = "rejected" =>
    \A c \in Completions : ~ IsPassing(c, Weight, CountedMembers)

(* No decision is lost: between requests, an open request is one whose     *)
(* ballots neither carry it nor rule it out, so nobody has to vote again   *)
(* for it to be decided (lines 192-217).                                   *)
NoLostDecision ==
  status = "open" /\ InFlight = {} /\ Populations = {CountedMembers} =>
    Decide(votes, Weight, CountedMembers) = "open"
=============================================================================
