------------------------------- MODULE Board -------------------------------
(***************************************************************************)
(* The moderators' board (app/services/board.py): candidates, members, the *)
(* standing votes on them and the grace period of a member whom too few    *)
(* people vote on; and who may merge the platform's software, which is the *)
(* board (sync_platform_software_merge_capability).                        *)
(*                                                                         *)
(* Every vote, volunteer and look at the board reconciles it: the ballots  *)
(* and the seats are read, then what follows is written.  The right to     *)
(* merge is brought up to date in a transaction of its own.                *)
(***************************************************************************)
EXTENDS Votes

CONSTANTS Users,
          Voters,       \* who passed the warm-up
          Volunteers,   \* those of them who stand for the board
          Populations,  \* how many people were active in the week
          Workers,      \* requests the API serves at the same time
          LastDay       \* bound

VARIABLES seat,        \* platform_board_memberships: standing_state
          grace,       \* grace_ends_at
          votes,       \* board_standing_votes of a voter on a target
          population,
          mergers,     \* members of the merge capability of the platform's software
          day,
          job          \* what each worker is doing

vars == <<seat, grace, votes, population, mergers, day, job>>

Idle      == [op |-> "idle"]
None      == -1
GraceDays == 7
Seats     == {"none", "candidate", "member"}
Ballot    == [target : Users, voter : Voters, found : Ballots, vote : {"yes", "no", "neutral"}]
Jobs ==
  {Idle}
  \cup [op : {"write"}, ballots : SUBSET Ballot, placed : SUBSET Users,
        promoted : SUBSET Users, removed : SUBSET Users, begun : SUBSET Users,
        ended : SUBSET Users]
  \cup [op : {"sync"}]

TypeOK ==
  /\ seat \in [Users -> Seats]
  /\ grace \in [Users -> {None} \cup 0..(LastDay + GraceDays)]
  /\ votes \in [Users -> [Voters -> Ballots]]
  /\ population \in Populations
  /\ mergers \subseteq Users
  /\ day \in 0..LastDay
  /\ job \in [Workers -> Jobs]

Init ==
  /\ seat = [u \in Users |-> "none"]
  /\ grace = [u \in Users |-> None]
  /\ votes = [u \in Users |-> [v \in Voters |-> "none"]]
  /\ population \in Populations
  /\ mergers = {}
  /\ day = 0
  /\ job = [w \in Workers |-> Idle]

EndJob(w) == job' = [job EXCEPT ![w] = Idle]

-----------------------------------------------------------------------------
(* The votes on a person.  Each counts for one.                            *)
Count(cast, side) == Cardinality({v \in Voters : cast[v] = side})
VoteCount(cast)   == Count(cast, "yes") + Count(cast, "no")
Approved(cast)    == 100 * Count(cast, "yes") >= 66 * VoteCount(cast)
Quorum            == RequiredVotes(population)

(* With nobody active the quorum is zero, and nobody's vote is enough.     *)
MeetsStandingThreshold(cast) == VoteCount(cast) >= Quorum /\ Approved(cast)

(* What a look at the board finds: candidates to promote, then members to  *)
(* remove, members whose grace begins or is over because enough people     *)
(* voted on them.                                                          *)
Promoted(s, c) == {u \in Users : s[u] = "candidate" /\ MeetsStandingThreshold(c[u])}
SeatedAfter(s, c) == {u \in Users : s[u] = "member"} \cup Promoted(s, c)
GraceAfter(s, c, u) == IF u \in Promoted(s, c) THEN None ELSE grace[u]
Short(s, c) ==
  {u \in SeatedAfter(s, c) : Approved(c[u]) /\ VoteCount(c[u]) < Quorum}
Begun(s, c) == {u \in Short(s, c) : GraceAfter(s, c, u) = None}
(* Mutant: grace is not waited for.                                        *)
RemovedAtOnce(s, c) ==
  {u \in SeatedAfter(s, c) : ~ Approved(c[u])} \cup {u \in Short(s, c) : GraceAfter(s, c, u) # None}
Removed(s, c) ==
  {u \in SeatedAfter(s, c) : ~ Approved(c[u])}
  \cup {u \in Short(s, c) : GraceAfter(s, c, u) # None /\ GraceAfter(s, c, u) < day}
Ended(s, c) == {u \in SeatedAfter(s, c) : Approved(c[u]) /\ VoteCount(c[u]) >= Quorum}

(* The votes with the ballots of a request: none or one.                   *)
Cast(ballots) ==
  [u \in Users |-> [v \in Voters |->
     IF \E b \in ballots : b.target = u /\ b.voter = v
     THEN LET b == CHOOSE b \in ballots : TRUE IN Recorded(b.found, votes[u][v], b.vote)
     ELSE votes[u][v]]]

(* Reconcile the board as the request finds it, with its own ballots and   *)
(* the candidate it places.                                                *)
Reconcile(ballots, placed) ==
  LET s == [u \in Users |-> IF u \in placed THEN "candidate" ELSE seat[u]]
      c == Cast(ballots)
  IN  [op |-> "write", ballots |-> ballots, placed |-> placed, promoted |-> Promoted(s, c),
       removed |-> Removed(s, c), begun |-> Begun(s, c), ended |-> Ended(s, c)]

StartReconcile(w, ballots, placed) ==
  /\ job[w] = Idle
  /\ job' = [job EXCEPT ![w] = Reconcile(ballots, placed)]
  /\ UNCHANGED <<seat, grace, votes, population, mergers, day>>

VolunteerAsCandidate(w, u) ==
  /\ u \in Voters \cap Volunteers
  /\ StartReconcile(w, {}, IF seat[u] = "member" THEN {} ELSE {u})

BallotOf(v, u, vote) == [target |-> u, voter |-> v, found |-> votes[u][v], vote |-> vote]

CastStandingVote(w, v, u, vote) ==
  /\ seat[u] # "none"
  /\ StartReconcile(w, {BallotOf(v, u, vote)}, {})

(* A vote is taken back whether or not its target is on the board.         *)
TakeBackVote(w, v, u) ==
  /\ votes[u][v] # "none"
  /\ StartReconcile(w, {BallotOf(v, u, "neutral")}, {})

(* A look at the board keeps what it found only if it moves a seat.        *)
ListBoardStanding(w) ==
  /\ Promoted(seat, votes) \cup Removed(seat, votes) # {}
  /\ StartReconcile(w, {}, {})

(* Rows are written by their user: a seat that was given up meanwhile      *)
(* stays given up.                                                         *)
Written(j, u) ==
  IF u \in j.placed THEN (IF u \in j.promoted THEN "member" ELSE "candidate")
  ELSE IF seat[u] = "none" THEN "none"
  ELSE IF u \in j.removed /\ (seat[u] = "member" \/ u \in j.promoted) THEN "none"
  ELSE IF u \in j.promoted THEN "member" ELSE seat[u]

CommitReconcile(w) ==
  /\ job[w].op = "write"
  /\ LET j    == job[w]
         kept == {u \in Users : Written(j, u) # "none"}
     IN  /\ \A b \in j.ballots : ~ Duplicate(b.found, votes[b.target][b.voter], b.vote)
         /\ seat' = [u \in Users |-> Written(j, u)]
         /\ grace' = [u \in Users |->
              IF u \notin kept \/ u \in j.placed \cup j.promoted \cup j.ended THEN None
              ELSE IF u \in j.begun THEN day + GraceDays ELSE grace[u]]
         /\ votes' = Cast(j.ballots)
         /\ job' = [job EXCEPT ![w] =
              IF j.promoted \cup j.removed # {} THEN [op |-> "sync"] ELSE Idle]
  /\ UNCHANGED <<population, mergers, day>>

RemoveVolunteer(w, u) ==
  /\ job[w] = Idle
  /\ seat[u] # "none"
  /\ seat' = [seat EXCEPT ![u] = "none"]
  /\ grace' = [grace EXCEPT ![u] = None]
  /\ job' = [job EXCEPT ![w] = IF seat[u] = "member" THEN [op |-> "sync"] ELSE Idle]
  /\ UNCHANGED <<votes, population, mergers, day>>

SyncPlatformMergeCapability(w) ==
  /\ job[w].op = "sync"
  /\ mergers' = {u \in Users : seat[u] = "member"}
  /\ EndJob(w)
  /\ UNCHANGED <<seat, grace, votes, population, day>>

(* A request fails, or the second transaction does: that is swallowed.     *)
Rollback(w) == job[w] # Idle /\ EndJob(w)
               /\ UNCHANGED <<seat, grace, votes, population, mergers, day>>

-----------------------------------------------------------------------------
ChangePopulation ==
  /\ population' \in Populations \ {population}
  /\ UNCHANGED <<seat, grace, votes, mergers, day, job>>

(* No request lasts overnight.                                             *)
Tomorrow ==
  /\ day < LastDay
  /\ \A w \in Workers : job[w] = Idle
  /\ day' = LastDay
  /\ UNCHANGED <<seat, grace, votes, population, mergers, job>>

Next ==
  \/ \E w \in Workers :
       \/ \E u \in Users :
            \/ VolunteerAsCandidate(w, u)
            \/ RemoveVolunteer(w, u)
            \/ \E v \in Voters :
                 \/ \E vote \in {"yes", "no"} : CastStandingVote(w, v, u, vote)
                 \/ TakeBackVote(w, v, u)
       \/ ListBoardStanding(w)
       \/ CommitReconcile(w)
       \/ SyncPlatformMergeCapability(w)
       \/ Rollback(w)
  \/ ChangePopulation
  \/ Tomorrow

Spec == Init /\ [][Next]_vars

-----------------------------------------------------------------------------
(* One request at a time, a member with votes has two thirds of them after *)
(* every request, and a member who does not resign goes only for losing    *)
(* them or after a grace period that began on record.                      *)
SeatsFollowVotes ==
  \A u \in Users :
    /\ seat'[u] = "member" => Approved(votes'[u])
    /\ seat[u] = "member" /\ seat'[u] = "none" =>
         \/ \E w \in Workers : RemoveVolunteer(w, u)
         \/ ~ Approved(votes'[u])
         \/ grace[u] # None /\ grace[u] < day
=============================================================================
