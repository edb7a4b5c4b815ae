------------------------ MODULE UpdateRequestProofs ------------------------
(***************************************************************************)
(* The vote arithmetic, the life of an update request, an event, and the   *)
(* links between two records, for any number of members.                   *)
(*                                                                         *)
(* PublicationsBounded counts, once the request is closed, the handlers    *)
(* that may still publish; before that nothing is published (Unpublished), *)
(* and the worker that closes the request leaves the handlers in flight.   *)
(* One vote at a time, an outcome worked out from the ballots is still     *)
(* theirs when it is committed (Verdicts), so that the request implements  *)
(* Decision and the status is what the ballots say.                        *)
(*                                                                         *)
(* One request at a time, what is open for a vote in an event is about     *)
(* what the event says now (Current and Apart), so that what passes is     *)
(* what its voters were shown.                                             *)
(*                                                                         *)
(* One request at a time, the links in the table are one for each creation *)
(* that was approved and active unless a severing was (Follow), because a  *)
(* vote in flight is on a request still in the table (Found).              *)
(***************************************************************************)
EXTENDS Approvals, Sequences, FiniteSetTheorems, TLAPS

-----------------------------------------------------------------------------
(* The vote arithmetic that every component shares (Votes), for every      *)
(* population and every weight.                                            *)

(* Rounding up by a positive divisor yields an integer.                    *)
LEMMA CeilDivInt ==
  ASSUME NEW a \in Int, NEW b \in Int, b > 0
  PROVE  CeilDiv(a, b) \in Int
  BY SMT DEF CeilDiv

LEMMA CeilThreeQuarters ==
  ASSUME NEW n \in Nat, n >= 1
  PROVE  /\ CeilDiv(3 * n, 4) \in Nat
         /\ CeilDiv(3 * n, 4) <= n
  BY SMT DEF CeilDiv

(* The sample size is an integer: its divisor is positive.                 *)
LEMMA SampleOfInt ==
  ASSUME NEW n \in Nat, n >= 1, NEW base \in Nat, base >= 1, NEW span \in Nat
  PROVE  SampleOf(n, base, span) \in Int
<1>1. (span - n) * (span - n) >= 0
  BY SMT
<1>2. (n - 1) * (span - n) * (span - n) >= 0
  BY <1>1, SMT
<1>3. base + (n - 1) * (span - n) * (span - n) > 0
  BY <1>2, SMT
<1>4. base * n \in Int /\ base + (n - 1) * (span - n) * (span - n) \in Int
  BY SMT
<1>5. QED
  BY <1>3, <1>4, CeilDivInt DEF SampleOf

LEMMA CochranSampleInt ==
  ASSUME NEW n \in Nat, n >= 1
  PROVE  CochranSample(n) \in Int
<1>1. SampleOf(n, 10458756, 331) \in Int /\ SampleOf(n, 384160000, 1500) \in Int
  BY SampleOfInt, SMT
<1>2. (CHOOSE k \in 1..n : TRUE) \in Int
  <2>1. 1 \in 1..n
    OBVIOUS
  <2>2. (CHOOSE k \in 1..n : TRUE) \in 1..n
    BY <2>1
  <2>3. QED
    BY <2>2
<1>3. QED
  BY <1>1, <1>2, SMT DEF CochranSample

(***************************************************************************)
(* required_votes never asks for more votes than the population has people *)
(* (app/utils/votes.py), so a request the whole population is for passes.  *)
(***************************************************************************)
LEMMA RequiredVotesBound ==
  ASSUME NEW n \in Nat
  PROVE  /\ RequiredVotes(n) \in Int
         /\ RequiredVotes(n) <= n
<1>1. CASE n = 0
  BY <1>1, SMT DEF RequiredVotes
<1>2. CASE n >= 1
  <2>1. CeilDiv(3 * n, 4) \in Int /\ CeilDiv(3 * n, 4) <= n
    BY <1>2, CeilThreeQuarters
  <2>2. CochranSample(n) \in Int
    BY <1>2, CochranSampleInt
  <2>3. RequiredVotes(n) = AtMost(CeilDiv(3 * n, 4), CochranSample(n))
    BY <1>2, SMT DEF RequiredVotes
  <2>4. QED
    BY <2>1, <2>2, <2>3 DEF AtMost
<1>3. QED
  BY <1>1, <1>2

THEOREM UnanimousPopulationPasses ==
  ASSUME NEW n \in Nat, n >= 1
  PROVE  Passing(2 * n, 0, n)
  BY RequiredVotesBound, SMT DEF Passing, MeetsQuorum, MeetsApproval

(***************************************************************************)
(* Rejecting early is sound: when a tally rejects a request, no way of     *)
(* casting the weight the population has left (dy more for, dn more        *)
(* against) would have passed it (compute_vote_summary's can_still_pass).  *)
(***************************************************************************)
THEOREM RejectionIsSound ==
  ASSUME NEW n \in Nat, NEW yes \in Nat, NEW no \in Nat,
         NEW dy \in Nat, NEW dn \in Nat,
         dy + dn <= RemainingWeight(yes, no, n),
         Outcome(yes, no, n) = "rejected"
  PROVE  ~ Passing(yes + dy, no + dn, n)
<1> DEFINE req == RequiredVotes(n)
           rem == RemainingWeight(yes, no, n)
<1>1. req \in Int
  BY RequiredVotesBound
<1>2. rem \in Nat
  BY DEF RemainingWeight, AtLeastZero
<1>3. ~ Passing(yes, no, n) /\ ~ Passing(yes + rem, no, n)
  BY DEF Outcome, CanStillPass
<1>4. SUFFICES ASSUME Passing(yes + dy, no + dn, n)
               PROVE  Passing(yes + rem, no, n)
  BY <1>3
<1>5. dy + dn <= rem
  OBVIOUS
<1>6. MeetsQuorum(yes + rem, no, n)
  BY <1>1, <1>2, <1>4, <1>5 DEF Passing, MeetsQuorum
<1>7. MeetsApproval(yes + rem, no)
  BY <1>2, <1>4, <1>5 DEF Passing, MeetsApproval
<1>8. QED
  BY <1>6, <1>7 DEF Passing

-----------------------------------------------------------------------------
(* Any number of votes in flight.                                          *)

Unpublished == status \notin Closed => updates = 0
IInv == TypeOK /\ Unpublished /\ PublicationsBounded

-----------------------------------------------------------------------------
LEMMA DecideType ==
  ASSUME NEW v, NEW wt, NEW n
  PROVE  Decide(v, wt, n) \in {"open"} \cup Closed
  BY DEF Decide, Outcome, Closed

(* The handlers in flight are workers, so there are finitely many.         *)
LEMMA InFlightFinite ==
  /\ IsFiniteSet(InFlight)
  /\ Cardinality(InFlight) \in Nat
  /\ Cardinality(Workers) \in Nat
  /\ Cardinality(InFlight) <= Cardinality(Workers)
<1>1. InFlight \subseteq Workers
  BY DEF InFlight
<1>2. QED
  BY <1>1, WorkersAssumption, FS_Subset, FS_CardinalityType

(* A worker that is not in flight leaves room for one.                     *)
LEMMA IdleLeavesRoom ==
  ASSUME NEW w \in Workers, w \notin InFlight
  PROVE  Cardinality(InFlight) + 1 <= Cardinality(Workers)
<1>1. InFlight \cup {w} \subseteq Workers
  BY DEF InFlight
<1>2. Cardinality(InFlight \cup {w}) = Cardinality(InFlight) + 1
  BY InFlightFinite, FS_AddElement
<1>3. QED
  BY <1>1, <1>2, WorkersAssumption, FS_Subset

(* A worker that finishes takes itself off the handlers in flight.         *)
LEMMA FinishingLeaves ==
  ASSUME TypeOK, NEW w \in InFlight, request' = [request EXCEPT ![w] = Idle]
  PROVE  Cardinality(InFlight') = Cardinality(InFlight) - 1
<1>1. InFlight' = InFlight \ {w}
  BY DEF InFlight, Idle, TypeOK
<1>2. QED
  BY <1>1, InFlightFinite, FS_RemoveElement

LEMMA InitIInv == Init => IInv
<1> SUFFICES ASSUME Init PROVE IInv
  OBVIOUS
<1> USE DEF Init
<1>1. TypeOK
  BY DEF TypeOK, Ballots, Idle
<1>2. status \notin Closed
  BY DEF Closed
<1>3. PublicationsBounded
  BY <1>2, InFlightFinite DEF PublicationsBounded
<1>4. QED
  BY <1>1, <1>3 DEF IInv, Unpublished

-----------------------------------------------------------------------------
LEMMA JobShapes ==
  ASSUME NEW j \in {Idle} \cup VoteJob \cup TallyJob
  PROVE  /\ j.pc \in {"proposer", "read"} => j \in VoteJob
         /\ j.pc = "tallied" => j \in TallyJob
         /\ j.pc = "idle" => j = Idle
  BY DEF Idle, VoteJob, TallyJob

LEMMA TypeStep == TypeOK /\ [Next]_vars => TypeOK'
<1> SUFFICES ASSUME TypeOK, [Next]_vars PROVE TypeOK'
  OBVIOUS
<1> USE DEF TypeOK
<1>1. ASSUME NEW w \in Workers, NEW u \in Users, Create(w, u)
      PROVE  TypeOK'
  <2>1. [pc |-> "proposer", user |-> u, ballot |-> "yes"] \in VoteJob
    BY DEF VoteJob
  <2>2. request' \in [Workers -> {Idle} \cup VoteJob \cup TallyJob]
    BY <1>1, <2>1 DEF Create
  <2>3. votes' \in [Users -> Ballots] /\ status' \in {"absent", "open"} \cup Closed
        /\ updates' \in Nat
    BY <1>1 DEF Create, Ballots, Closed
  <2>4. QED
    BY <2>2, <2>3
<1>2. ASSUME NEW w \in Workers, NEW u \in Users, NEW b \in {"yes", "no"}, ReadRequest(w, u, b)
      PROVE  TypeOK'
  <2>1. [pc |-> "read", user |-> u, ballot |-> b] \in VoteJob
    BY DEF VoteJob
  <2>2. QED
    BY <1>2, <2>1 DEF ReadRequest
<1>3. ASSUME NEW w \in Workers, ProposerVote(w)
      PROVE  TypeOK'
  <2>1. request[w] \in VoteJob
    BY <1>3, JobShapes DEF ProposerVote, At
  <2>2. [request[w] EXCEPT !.pc = "read"] \in VoteJob
    BY <2>1 DEF VoteJob
  <2>3. QED
    BY <1>3, <2>2 DEF ProposerVote
<1>4. ASSUME NEW w \in Workers, Tally(w)
      PROVE  TypeOK'
  <2> DEFINE tallied(n) ==
        [pc |-> "tallied", user |-> request[w].user, ballot |-> request[w].ballot,
         insert |-> votes[request[w].user] = "none",
         outcome |-> Tallied(request[w], n)]
  <2>1. request[w] \in VoteJob
    BY <1>4, JobShapes DEF Tally, At
  <2>2. ASSUME NEW n PROVE tallied(n) \in TallyJob
    BY <2>1, DecideType DEF VoteJob, TallyJob, Tallied
  <2>3. PICK n \in Populations : request' = [request EXCEPT ![w] = tallied(n)]
    BY <1>4 DEF Tally
  <2>4. QED
    BY <1>4, <2>2, <2>3 DEF Tally
<1>5. ASSUME NEW w \in Workers, Commit(w)
      PROVE  TypeOK'
  <2>1. request[w] \in TallyJob
    BY <1>5, JobShapes DEF Commit, At
  <2>2. QED
    BY <1>5, <2>1 DEF Commit, Publishes, TallyJob, Ballots
<1>6. ASSUME NEW w \in Workers, Rollback(w)
      PROVE  TypeOK'
  BY <1>6 DEF Rollback
<1>7. CASE UNCHANGED vars
  BY <1>7 DEF vars
<1>8. QED
  BY <1>1, <1>2, <1>3, <1>4, <1>5, <1>6, <1>7 DEF Next, Step

-----------------------------------------------------------------------------
LEMMA BoundStep == IInv /\ [Next]_vars => Unpublished' /\ PublicationsBounded'
<1> SUFFICES ASSUME IInv, [Next]_vars PROVE Unpublished' /\ PublicationsBounded'
  OBVIOUS
<1> USE DEF IInv
<1>1. /\ Cardinality(InFlight) \in Nat /\ Cardinality(InFlight) <= Cardinality(Workers)
      /\ Cardinality(Workers) \in Nat
  BY InFlightFinite
<1>2. /\ Cardinality(InFlight') \in Nat /\ Cardinality(InFlight') <= Cardinality(Workers)
  <2>1. InFlight' \subseteq Workers
    BY DEF InFlight
  <2>2. QED
    BY <2>1, WorkersAssumption, FS_Subset, FS_CardinalityType
<1>3. updates \in Nat
  BY DEF TypeOK
<1>4. ASSUME NEW w \in Workers, NEW u \in Users, Create(w, u)
      PROVE  Unpublished' /\ PublicationsBounded'
  <2>1. updates = 0
    BY <1>4 DEF Create, Unpublished, Closed
  <2>2. w \notin InFlight
    BY <1>4 DEF Create, At, InFlight
  <2>3. CASE status' = "open" /\ UNCHANGED updates
    BY <2>1, <2>3, <1>1 DEF Unpublished, PublicationsBounded, Closed
  <2>4. CASE status' = "approved" /\ updates' = updates + 1 /\ UNCHANGED request
    <3>1. InFlight' = InFlight
      BY <2>4 DEF InFlight
    <3>2. Cardinality(InFlight) + 1 <= Cardinality(Workers)
      BY <2>2, IdleLeavesRoom
    <3>3. QED
      BY <2>1, <2>4, <3>1, <3>2, <1>1 DEF Unpublished, PublicationsBounded, Closed
  <2>5. QED
    BY <1>4, <2>3, <2>4 DEF Create
<1>5. ASSUME NEW w \in Workers, NEW u \in Users, NEW b \in {"yes", "no"}, ReadRequest(w, u, b)
      PROVE  Unpublished' /\ PublicationsBounded'
  BY <1>1, <1>5 DEF ReadRequest, Admits, Unpublished, PublicationsBounded, Closed
<1>6. ASSUME NEW w \in Workers, ProposerVote(w) \/ Tally(w) \/ Rollback(w)
      PROVE  Unpublished' /\ PublicationsBounded'
  <2>1. InFlight' \subseteq InFlight
    BY <1>6 DEF ProposerVote, Tally, Rollback, At, InFlight, TypeOK, Idle
  <2>2. Cardinality(InFlight') <= Cardinality(InFlight)
    BY <2>1, InFlightFinite, FS_Subset
  <2>3. UNCHANGED <<status, updates>>
    BY <1>6 DEF ProposerVote, Tally, Rollback
  <2>4. QED
    BY <1>1, <1>2, <1>3, <2>2, <2>3 DEF Unpublished, PublicationsBounded
<1>7. ASSUME NEW w \in Workers, Commit(w)
      PROVE  Unpublished' /\ PublicationsBounded'
  <2>1. w \in InFlight /\ request' = [request EXCEPT ![w] = Idle]
    BY <1>7 DEF Commit, At, InFlight
  <2>2. Cardinality(InFlight') = Cardinality(InFlight) - 1
    BY <2>1, FinishingLeaves
  <2>3. CASE request[w].outcome = "open"
    BY <1>1, <1>2, <1>3, <1>7, <2>2, <2>3 DEF Commit, Publishes, Unpublished,
       PublicationsBounded
  <2>4. CASE request[w].outcome # "open"
    <3>1. request[w].outcome \in Closed
      BY <1>7, <2>4, JobShapes DEF Commit, At, TypeOK, TallyJob
    <3>2. status' \in Closed /\ updates' <= updates + 1 /\ updates' \in Nat
      BY <1>3, <1>7, <2>4, <3>1 DEF Commit, Publishes
    <3>3. QED
      BY <1>1, <1>2, <1>3, <2>2, <3>2 DEF Unpublished, PublicationsBounded
  <2>5. QED
    BY <2>3, <2>4
<1>8. CASE UNCHANGED vars
  BY <1>8 DEF vars, Unpublished, PublicationsBounded, InFlight
<1>9. QED
  BY <1>4, <1>5, <1>6, <1>7, <1>8 DEF Next, Step

THEOREM Invariant == Spec => []IInv
<1>1. IInv /\ [Next]_vars => IInv'
  BY TypeStep, BoundStep DEF IInv
<1>2. QED
  BY <1>1, InitIInv, PTL DEF Spec

(* However many votes are in flight, an update is published at most once   *)
(* per worker (update_requests.py:153 and 196-211).                        *)
THEOREM PublicationBound == Spec => []PublicationsBounded
<1>1. IInv => PublicationsBounded
  BY DEF IInv
<1>2. QED
  BY <1>1, Invariant, PTL

(* The type invariant, for every instance.                                 *)
THEOREM TypeCorrect == Spec => []TypeOK
<1>1. IInv => TypeOK
  BY DEF IInv
<1>2. QED
  BY <1>1, Invariant, PTL

-----------------------------------------------------------------------------
(* A closed request with no vote in flight is never touched again: the     *)
(* status check of the vote handler (update_requests.py:153) is enough for *)
(* everyone who comes after the decision.                                  *)
THEOREM SettledFinal == Spec => SettledIsFinal
<1>1. [Next]_vars =>
        ((status \in Closed /\ InFlight = {}) => UNCHANGED <<status, votes, updates>>)
  <2> SUFFICES ASSUME [Next]_vars, status \in Closed, InFlight = {}
               PROVE  UNCHANGED <<status, votes, updates>>
    OBVIOUS
  <2>1. ASSUME NEW w \in Workers, Step(w)
        PROVE  FALSE
    BY <2>1 DEF Step, ProposerVote, Tally, Commit, Rollback, At, InFlight
  <2>2. ASSUME NEW w \in Workers, NEW u \in Users, Create(w, u)
        PROVE  FALSE
    BY <2>2 DEF Create, Closed
  <2>3. ASSUME NEW w \in Workers, NEW u \in Users, NEW b \in {"yes", "no"},
               ReadRequest(w, u, b)
        PROVE  FALSE
    BY <2>3 DEF ReadRequest, Admits, Closed
  <2>4. QED
    BY <2>1, <2>2, <2>3 DEF Next, vars
<1>2. TypeOK /\ [Next]_vars => (status \in Closed => status' \in Closed)
  <2> SUFFICES ASSUME TypeOK, [Next]_vars, status \in Closed
               PROVE  status' \in Closed
    OBVIOUS
  <2>1. ASSUME NEW w \in Workers, Commit(w)
        PROVE  status' \in Closed
    <3>1. request[w].outcome \in {"open"} \cup Closed
      BY <2>1, JobShapes DEF Commit, At, TypeOK, TallyJob
    <3>2. QED
      BY <2>1, <3>1 DEF Commit
  <2>2. QED
    BY <2>1 DEF Next, Step, Create, ReadRequest, Admits, ProposerVote, Tally, Rollback,
                vars, Closed
<1>3. TypeOK /\ [Next]_vars => (status \in Closed => InFlight' \subseteq InFlight)
  <2> SUFFICES ASSUME TypeOK, [Next]_vars, status \in Closed, NEW v \in InFlight'
               PROVE  v \in InFlight
    BY DEF InFlight
  <2>1. v \in Workers
    BY DEF InFlight
  <2>2. ASSUME NEW w \in Workers, Step(w)
        PROVE  v \in InFlight
    BY <2>1, <2>2 DEF Step, ProposerVote, Tally, Commit, Rollback, At, InFlight, Idle, TypeOK
  <2>3. QED
    BY <2>1, <2>2 DEF Next, Create, ReadRequest, Admits, InFlight, vars, Closed
<1>4. QED
  BY <1>1, <1>2, <1>3, TypeCorrect, PTL DEF Spec, SettledIsFinal

-----------------------------------------------------------------------------
(* One vote at a time.                                                     *)
OneAtATime == \A v, w \in Workers : v = w

(* The request is open while a vote is in flight, and nobody has voted     *)
(* before it is posted.                                                    *)
Pending == /\ InFlight # {} => status = "open"
           /\ status = "absent" => votes = [u \in Users |-> "none"]

(* What a vote is about to write is what its ballot leads to.              *)
Foreseen(w) ==
  request[w].pc = "tallied" =>
    \E n \in Populations :
      request[w].outcome = Decide([votes EXCEPT ![request[w].user] = request[w].ballot], Weight, n)
Verdicts ==
  /\ \A w \in Workers : Foreseen(w)
  /\ status \in {"open", "rejected"} =>
       \E n \in Populations : status = Decide(votes, Weight, n)
AloneInv == Pending /\ Verdicts

LEMMA InitAlone == Init => AloneInv
  BY DEF Init, AloneInv, Pending, Verdicts, Foreseen, InFlight, Idle

(* Nobody's vote leaves a request of two or more open.                     *)
LEMMA NoVotesOpen ==
  ASSUME NEW n \in Nat, n > 1
  PROVE  Decide([u \in Users |-> "none"], Weight, n) = "open"
<1> DEFINE v == [u \in Users |-> "none"]
<1>1. \A w : CastWith(w, "yes", v, Weight) = {} /\ CastWith(w, "no", v, Weight) = {}
  BY DEF CastWith
<1> HIDE DEF v
<1>2. YesWeight(v, Weight) = 0 /\ NoWeightCast(v, Weight) = 0
  BY <1>1, FS_EmptySet DEF YesWeight, NoWeightCast, WeightFor, FullWeight, WarmWeight
<1>3. ~ Passing(0, 0, n)
  BY DEF Passing, MeetsApproval
<1>4. RemainingWeight(0, 0, n) = 2 * n
  BY DEF RemainingWeight, AtLeastZero
<1>5. CanStillPass(0, 0, n)
  BY <1>3, <1>4, UnanimousPopulationPasses DEF CanStillPass
<1>6. Outcome(0, 0, n) = "open"
  BY <1>3, <1>5 DEF Outcome
<1>7. Decide(v, Weight, n) = "open"
  BY <1>2, <1>6 DEF Decide
<1>8. QED
  BY <1>7 DEF v

LEMMA Outcomes ==
  ASSUME TypeOK, OneAtATime, AloneInv, NEW w \in Workers, Commit(w)
  PROVE  /\ status = "open" /\ status' = request[w].outcome
         /\ InFlight' = {}
         /\ \E n \in Populations : status' = Decide(votes, Weight, n)'
         /\ status' \in {"open"} \cup Closed
<1>1. w \in InFlight /\ request[w] \in TallyJob
  BY JobShapes DEF Commit, At, InFlight, TypeOK
<1>2. status = "open" /\ status' = request[w].outcome
  BY <1>1 DEF Commit, AloneInv, Pending
<1>3. InFlight' = {}
  BY DEF Commit, OneAtATime, InFlight, Idle, TypeOK
<1>4. PICK n \in Populations :
        request[w].outcome = Decide([votes EXCEPT ![request[w].user] = request[w].ballot], Weight, n)
  BY DEF Commit, At, AloneInv, Verdicts, Foreseen
<1>5. status' = Decide(votes, Weight, n)'
  BY <1>2, <1>4 DEF Commit, Weight
<1>6. QED
  BY <1>1, <1>2, <1>3, <1>5 DEF TallyJob

LEMMA AloneStep ==
  ASSUME TypeOK, OneAtATime, AloneInv, [Next]_vars
  PROVE  AloneInv'
<1> USE DEF AloneInv
<1>1. ASSUME NEW w \in Workers, NEW u \in Users, Create(w, u)
      PROVE  AloneInv'
  <2>1. /\ status = "absent" /\ request[w] = Idle
        /\ votes = [x \in Users |-> "none"]
    BY <1>1, JobShapes DEF Create, At, Pending, TypeOK
  <2>2. PICK n \in Populations :
          \/ n <= 1 /\ status' = "approved" /\ UNCHANGED request
          \/ /\ ~ (n <= 1) /\ status' = "open" /\ UNCHANGED votes
             /\ request' = [request EXCEPT ![w] =
                             [pc |-> "proposer", user |-> u, ballot |-> "yes"]]
    BY <1>1 DEF Create
  <2>3. CASE status' = "approved" /\ UNCHANGED request
    <3>1. \A v \in Workers : request'[v].pc = "idle"
      BY <2>1, <2>3 DEF OneAtATime, Idle
    <3>2. QED
      BY <2>3, <3>1 DEF Pending, Verdicts, Foreseen, InFlight
  <2>4. CASE /\ ~ (n <= 1) /\ status' = "open" /\ UNCHANGED votes
             /\ request' = [request EXCEPT ![w] =
                             [pc |-> "proposer", user |-> u, ballot |-> "yes"]]
    <3>1. \A v \in Workers : request'[v].pc = "proposer"
      BY <2>4 DEF OneAtATime, TypeOK
    <3>2. Decide(votes, Weight, n)' = "open"
      <4>1. n \in Nat /\ n > 1
        BY <2>4, PopulationsAssumption
      <4>2. Decide(votes, Weight, n) = "open"
        BY <2>1, <4>1, NoVotesOpen
      <4>3. QED
        BY <2>4, <4>2 DEF Weight
    <3>3. Verdicts'
      BY <2>4, <3>1, <3>2 DEF Verdicts, Foreseen
    <3>4. Pending'
      BY <2>4 DEF Pending
    <3>5. QED
      BY <3>3, <3>4
  <2>5. QED
    BY <2>2, <2>3, <2>4
<1>2. ASSUME NEW w \in Workers, NEW u \in Users, NEW b \in {"yes", "no"}, ReadRequest(w, u, b)
      PROVE  AloneInv'
  <2>1. status = "open"
    BY <1>2 DEF ReadRequest, Admits
  <2>2. \A v \in Workers : request'[v].pc = "read"
    BY <1>2 DEF ReadRequest, OneAtATime, TypeOK
  <2>3. Verdicts'
    BY <1>2, <2>2 DEF ReadRequest, Verdicts, Foreseen, Weight
  <2>4. QED
    BY <1>2, <2>1, <2>3 DEF ReadRequest, Pending
<1>3. ASSUME NEW w \in Workers, ProposerVote(w) \/ Rollback(w)
      PROVE  AloneInv'
  <2>1. request'[w].pc \in {"idle", "read"} /\ w \in InFlight
    <3>1. CASE ProposerVote(w)
      <4>1. request[w] \in VoteJob
        BY <3>1, JobShapes DEF ProposerVote, At, TypeOK
      <4>2. QED
        BY <3>1, <4>1 DEF ProposerVote, VoteJob, Idle, At, InFlight, TypeOK
    <3>2. CASE Rollback(w)
      BY <3>2 DEF Rollback, Idle, InFlight, TypeOK
    <3>3. QED
      BY <1>3, <3>1, <3>2
  <2>2. \A v \in Workers : request'[v].pc # "tallied"
    BY <2>1 DEF OneAtATime
  <2>3. Verdicts'
    BY <1>3, <2>2 DEF ProposerVote, Rollback, Verdicts, Foreseen, Weight
  <2>4. status = "open"
    BY <2>1 DEF Pending
  <2>5. QED
    BY <1>3, <2>3, <2>4 DEF ProposerVote, Rollback, Pending
<1>4. ASSUME NEW w \in Workers, Tally(w)
      PROVE  AloneInv'
  <2>1. w \in InFlight
    BY <1>4 DEF Tally, At, InFlight
  <2>r. PICK r : r = request[w]
    OBVIOUS
  <2>2. PICK n \in Populations :
          /\ request' = [request EXCEPT ![w] =
               [pc |-> "tallied", user |-> r.user, ballot |-> r.ballot,
                insert |-> votes[r.user] = "none", outcome |-> Tallied(r, n)]]
    BY <1>4, <2>r DEF Tally
  <2>3. /\ request'[w].user = r.user /\ request'[w].ballot = r.ballot
        /\ request'[w].outcome = Decide([votes EXCEPT ![r.user] = r.ballot], Weight, n)
    BY <2>2 DEF TypeOK, Tallied
  <2>4. Foreseen(w)'
    BY <1>4, <2>3 DEF Tally, Foreseen, Weight
  <2>5. Verdicts'
    BY <1>4, <2>4 DEF Tally, Verdicts, OneAtATime, Weight
  <2>6. QED
    BY <1>4, <2>1, <2>5 DEF Tally, Pending
<1>5. ASSUME NEW w \in Workers, Commit(w)
      PROVE  AloneInv'
  <2>1. Pending'
    BY <1>5, Outcomes DEF Pending, Closed
  <2>2. \A v \in Workers : Foreseen(v)'
    BY <1>5, Outcomes DEF Foreseen, InFlight
  <2>3. QED
    BY <1>5, <2>1, <2>2, Outcomes DEF Verdicts
<1>6. CASE UNCHANGED vars
  BY <1>6 DEF vars, Pending, Verdicts, Foreseen, InFlight, Weight
<1>7. QED
  BY <1>1, <1>2, <1>3, <1>4, <1>5, <1>6 DEF Next, Step

THEOREM AloneInvariant ==
  ASSUME OneAtATime
  PROVE  Spec => []AloneInv
<1>1. TypeOK /\ AloneInv /\ [Next]_vars => AloneInv'
  BY AloneStep
<1>2. QED
  BY <1>1, InitAlone, TypeCorrect, PTL DEF Spec

-----------------------------------------------------------------------------
(* One vote at a time, a request implements Decision: it is decided once,  *)
(* and published once, in the commit that approves it                      *)
(* (update_requests.py:153 and 196-217).                                   *)
THEOREM Refinement ==
  ASSUME OneAtATime
  PROVE  Spec => IsADecision
<1>1. Init => Promise!Init
  BY DEF Init, Promise!Init
<1>2. TypeOK /\ AloneInv /\ [Next]_vars => [Promise!Next]_<<status, updates>>
  <2> SUFFICES ASSUME TypeOK, AloneInv, [Next]_vars
               PROVE  [Promise!Next]_<<status, updates>>
    OBVIOUS
  <2> USE DEF Promise!Next, Promise!Open, Promise!Approve, Promise!Reject
  <2>1. ASSUME NEW w \in Workers, NEW u \in Users, Create(w, u)
        PROVE  Promise!Next
    BY <2>1 DEF Create
  <2>2. ASSUME NEW w \in Workers, Commit(w)
        PROVE  [Promise!Next]_<<status, updates>>
    BY <2>2, Outcomes DEF Commit, Publishes, Closed
  <2>3. QED
    BY <2>1, <2>2 DEF Next, Step, ReadRequest, ProposerVote, Tally, Rollback, vars
<1>3. QED
  BY <1>1, <1>2, TypeCorrect, AloneInvariant, PTL DEF Spec, IsADecision, Promise!Spec

(* One vote at a time, an open request is one its ballots neither carry    *)
(* nor rule out (update_requests.py:192-217).                              *)
THEOREM NoneLost ==
  ASSUME OneAtATime
  PROVE  Spec => []NoLostDecision
<1>1. AloneInv => NoLostDecision
  BY DEF AloneInv, Verdicts, NoLostDecision
<1>2. QED
  BY <1>1, AloneInvariant, PTL

-----------------------------------------------------------------------------
(* A rejection that waits for nobody.  It is fair where a member who may   *)
(* vote counts for the quorum: a warm account's ballot is taken off the    *)
(* weight that is left without being part of it (governance_votes.py:56).  *)
NobodyWarm == \A u \in Users : Level[u] # "warm"

(* The members of a standing, by what they have voted.                     *)
LEMMA FullVotes ==
  ASSUME IsFiniteSet(Users), NobodyWarm, NEW v \in [Users -> Ballots], NEW side
  PROVE  /\ IsFiniteSet({u \in Users : CountsForQuorum(Level[u]) /\ v[u] = side})
         /\ WeightFor(side, v, Weight)
              = 2 * Cardinality({u \in Users : CountsForQuorum(Level[u]) /\ v[u] = side})
<1> DEFINE S == {u \in Users : CountsForQuorum(Level[u]) /\ v[u] = side}
<1>1. S \subseteq Users /\ IsFiniteSet(S)
  BY FS_Subset
<1>2. CastWith(2, side, v, Weight) = S
  BY LevelAssumption DEF CastWith, Weight, WeightOf, FullWeight, WarmWeight, NoWeight,
                         CountsForQuorum
<1>3. CastWith(1, side, v, Weight) = {}
  BY DEF CastWith, Weight, WeightOf, FullWeight, WarmWeight, NoWeight, NobodyWarm
<1>4. Cardinality(S) \in Nat /\ Cardinality({}) = 0
  BY <1>1, FS_CardinalityType, FS_EmptySet
<1> HIDE DEF S
<1>5. WeightFor(side, v, Weight) = 2 * Cardinality(S) + 1 * 0
  BY <1>2, <1>3, <1>4 DEF WeightFor, FullWeight, WarmWeight
<1>6. QED
  BY <1>1, <1>4, <1>5 DEF S

LEMMA DisjointSum ==
  ASSUME NEW S, NEW T, IsFiniteSet(S), IsFiniteSet(T), S \cap T = {}
  PROVE  /\ IsFiniteSet(S \cup T)
         /\ Cardinality(S \cup T) = Cardinality(S) + Cardinality(T)
<1>1. /\ IsFiniteSet(S \cup T)
      /\ Cardinality(S \cup T) = Cardinality(S) + Cardinality(T) - Cardinality(S \cap T)
  BY FS_Union
<1>2. Cardinality(S \cap T) = 0 /\ Cardinality(S) \in Nat /\ Cardinality(T) \in Nat
  BY FS_EmptySet, FS_CardinalityType
<1>3. QED
  BY <1>1, <1>2

(* What those who have not voted may add is at most the weight left.       *)
LEMMA CompletionWeight ==
  ASSUME TypeOK, IsFiniteSet(Users), NobodyWarm, NEW c \in Completions
  PROVE  \E yes, no, dy, dn \in Nat :
           /\ YesWeight(votes, Weight) = yes /\ NoWeightCast(votes, Weight) = no
           /\ YesWeight(c, Weight) = yes + dy /\ NoWeightCast(c, Weight) = no + dn
           /\ dy + dn <= RemainingWeight(yes, no, CountedMembers)
           /\ CountedMembers \in Nat
<1> DEFINE Of(side)  == {u \in Users : CountsForQuorum(Level[u]) /\ votes[u] = side}
           New(side) == {u \in Outstanding : c[u] = side}
           All(side) == {u \in Users : CountsForQuorum(Level[u]) /\ c[u] = side}
<1>1. PICK d \in [Outstanding -> Ballots] :
        c = [u \in Users |-> IF u \in Outstanding THEN d[u] ELSE votes[u]]
  BY DEF Completions
<1>2. votes \in [Users -> Ballots] /\ c \in [Users -> Ballots]
  BY <1>1 DEF TypeOK
<1>3. All("yes") = Of("yes") \cup New("yes") /\ All("no") = Of("no") \cup New("no")
  BY <1>1 DEF Outstanding
<1>4. /\ Of("yes") \cap New("yes") = {} /\ Of("no") \cap New("no") = {}
      /\ New("yes") \cap New("no") = {} /\ New("yes") \cup New("no") \subseteq Outstanding
      /\ Of("yes") \cap Of("no") = {}
      /\ (Of("yes") \cup Of("no")) \cap Outstanding = {}
      /\ {u \in Users : CountsForQuorum(Level[u])} = (Of("yes") \cup Of("no")) \cup Outstanding
  BY <1>2 DEF Outstanding, Ballots
<1>5. /\ IsFiniteSet(Of("yes")) /\ IsFiniteSet(Of("no"))
      /\ WeightFor("yes", votes, Weight) = 2 * Cardinality(Of("yes"))
      /\ WeightFor("no", votes, Weight) = 2 * Cardinality(Of("no"))
      /\ WeightFor("yes", c, Weight) = 2 * Cardinality(All("yes"))
      /\ WeightFor("no", c, Weight) = 2 * Cardinality(All("no"))
  BY <1>2, FullVotes
<1>6. /\ IsFiniteSet(Outstanding) /\ IsFiniteSet(New("yes")) /\ IsFiniteSet(New("no"))
  <2>1. Outstanding \subseteq Users /\ New("yes") \subseteq Users /\ New("no") \subseteq Users
    BY DEF Outstanding
  <2> HIDE DEF New
  <2>2. QED
    BY <2>1, FS_Subset
<1> HIDE DEF Of, New, All
<1>7. /\ Cardinality(All("yes")) = Cardinality(Of("yes")) + Cardinality(New("yes"))
      /\ Cardinality(All("no")) = Cardinality(Of("no")) + Cardinality(New("no"))
  BY <1>3, <1>4, <1>5, <1>6, DisjointSum
<1>8. Cardinality(New("yes")) + Cardinality(New("no")) <= Cardinality(Outstanding)
  <2>1. Cardinality(New("yes") \cup New("no")) = Cardinality(New("yes")) + Cardinality(New("no"))
    BY <1>4, <1>6, DisjointSum
  <2>2. QED
    BY <1>4, <1>6, <2>1, FS_Subset
<1>9. CountedMembers = Cardinality(Of("yes")) + Cardinality(Of("no")) + Cardinality(Outstanding)
  <2>1. /\ IsFiniteSet(Of("yes") \cup Of("no"))
        /\ Cardinality(Of("yes") \cup Of("no")) = Cardinality(Of("yes")) + Cardinality(Of("no"))
    BY <1>4, <1>5, DisjointSum
  <2>2. Cardinality((Of("yes") \cup Of("no")) \cup Outstanding)
          = Cardinality(Of("yes") \cup Of("no")) + Cardinality(Outstanding)
    BY <1>4, <1>6, <2>1, DisjointSum
  <2>3. QED
    BY <1>4, <2>1, <2>2 DEF CountedMembers
<1>10. /\ Cardinality(Of("yes")) \in Nat /\ Cardinality(Of("no")) \in Nat
       /\ Cardinality(New("yes")) \in Nat /\ Cardinality(New("no")) \in Nat
       /\ Cardinality(Outstanding) \in Nat
  BY <1>5, <1>6, FS_CardinalityType
<1> DEFINE yes == 2 * Cardinality(Of("yes"))
           no  == 2 * Cardinality(Of("no"))
           dy  == 2 * Cardinality(New("yes"))
           dn  == 2 * Cardinality(New("no"))
<1>11. /\ yes \in Nat /\ no \in Nat /\ dy \in Nat /\ dn \in Nat
       /\ YesWeight(c, Weight) = yes + dy /\ NoWeightCast(c, Weight) = no + dn
  BY <1>5, <1>7, <1>10 DEF YesWeight, NoWeightCast
<1>12. /\ dy + dn <= RemainingWeight(yes, no, CountedMembers)
       /\ CountedMembers \in Nat
  BY <1>8, <1>9, <1>10 DEF RemainingWeight, AtLeastZero
<1>13. YesWeight(votes, Weight) = yes /\ NoWeightCast(votes, Weight) = no
  BY <1>5 DEF YesWeight, NoWeightCast
<1> HIDE DEF yes, no, dy, dn
<1>14. QED
  BY <1>11, <1>12, <1>13

(* One vote at a time, where every voter counts for the quorum and the     *)
(* weekly count reads those who do, a request is rejected only when no way *)
(* the members still to vote could vote would have passed it               *)
(* (update_requests.py:192-217, compute_vote_summary's can_still_pass).    *)
THEOREM FairRejection ==
  ASSUME OneAtATime, IsFiniteSet(Users), NobodyWarm, Populations = {CountedMembers}
  PROVE  Spec => []RejectionIsFair
<1>1. TypeOK /\ AloneInv => RejectionIsFair
  <2> SUFFICES ASSUME TypeOK, AloneInv, status = "rejected", NEW c \in Completions
               PROVE  ~ IsPassing(c, Weight, CountedMembers)
    BY DEF RejectionIsFair
  <2>1. Decide(votes, Weight, CountedMembers) = "rejected"
    BY DEF AloneInv, Verdicts
  <2>2. PICK yes, no, dy, dn \in Nat :
           /\ YesWeight(votes, Weight) = yes /\ NoWeightCast(votes, Weight) = no
           /\ YesWeight(c, Weight) = yes + dy /\ NoWeightCast(c, Weight) = no + dn
           /\ dy + dn <= RemainingWeight(yes, no, CountedMembers)
           /\ CountedMembers \in Nat
    BY CompletionWeight
  <2>3. Outcome(yes, no, CountedMembers) = "rejected"
    BY <2>1, <2>2 DEF Decide
  <2>4. ~ Passing(yes + dy, no + dn, CountedMembers)
    BY <2>2, <2>3, RejectionIsSound
  <2>5. QED
    BY <2>2, <2>4 DEF IsPassing
<1>2. QED
  BY <1>1, TypeCorrect, AloneInvariant, PTL
-----------------------------------------------------------------------------
(* The event.  What a handler has read is still so when it writes (Reads), *)
(* every open vote is about the present phase and text (Current) and no    *)
(* two open edits change the same field (Apart): then what passes is what  *)
(* its voters were shown.  An approval keeps this because it closes the    *)
(* other phase votes and overlaps no other edit (Executed).                *)
EventAlone == \A v, w \in EventWorkers : v = w
EventPeople ==
  /\ IsFiniteSet(EventUsers) /\ Creator \in EventUsers /\ Promotable \subseteq EventUsers
  /\ MaxRequests \in Nat

LEMMA EventCount == \A S : Event!Cardinality(S) = Cardinality(S)
  BY DEF Event!Cardinality, Cardinality

(* The types, for any number of requests in flight: a vote names a request *)
(* that is there, since none is ever removed.                              *)
Named(j) == j.op \in {"proposer", "vote"} => j.id \in Event!Ids
NamesExist == \A w \in EventWorkers : Named(job[w])
Typed == Event!TypeOK /\ NamesExist

LEMMA Lengths ==
  ASSUME EventPeople, Event!TypeOK
  PROVE  Len(requests) \in Nat /\ Len(requests) <= MaxRequests /\ Event!Ids = DOMAIN requests
         /\ Event!Ids \subseteq 1..MaxRequests
  BY DEF Event!TypeOK, Event!Ids, EventPeople

LEMMA JobFields ==
  ASSUME Event!TypeOK, NEW w \in EventWorkers
  PROVE  /\ job[w] \in Event!Jobs
         /\ job[w].op = "idle" <=> job[w] = Event!Idle
         /\ job[w].op \in {"idle", "post", "proposer", "vote", "join", "leave", "grant", "appoint"}
         /\ job[w].op = "post" => job[w] \in Event!PostJob
         /\ job[w].op = "proposer" => job[w] \in Event!ProposerJob
         /\ job[w].op = "vote" => job[w] \in Event!VoteJob
         /\ job[w].op \in {"join", "leave", "grant", "appoint"} => job[w].user \in EventUsers
<1>1. job[w] \in Event!Jobs
  BY DEF Event!TypeOK
<1>2. QED
  BY <1>1 DEF Event!Jobs, Event!Idle, Event!PostJob, Event!ProposerJob, Event!VoteJob,
     Event!MemberJob, Event!GrantJob

LEMMA NewRowIsRow ==
  ASSUME Event!TypeOK, NEW about \in {"phase", "edit", "update"}, NEW u \in EventUsers,
         NEW direct \in BOOLEAN,
         NEW target \in Event!Phases, NEW change \in SUBSET Event!Fields
  PROVE  Event!NewRow(about, u, direct, target, change) \in Event!Row
<1>1. [f \in change |-> text[f]] \in UNION {[c -> 0..MaxRequests] : c \in SUBSET Event!Fields}
  <2>1. [f \in change |-> text[f]] \in [change -> 0..MaxRequests]
    BY DEF Event!TypeOK
  <2>2. QED
    BY <2>1
<1>2. Event!NoBallots \in [EventUsers -> Event!Ballots] /\ [Event!NoBallots EXCEPT ![u] = "yes"] \in [EventUsers -> Event!Ballots]
  BY DEF Event!NoBallots, Event!Ballots
<1>3. phase \in Event!Phases
  BY DEF Event!TypeOK
<1>4. QED
  BY <1>1, <1>2, <1>3 DEF Event!NewRow, Event!Row, Event!Statuses

LEMMA NewRowType ==
  ASSUME Event!TypeOK, NEW about \in {"phase", "edit", "update"}, NEW u \in EventUsers,
         NEW direct \in BOOLEAN,
         NEW target \in Event!Phases, NEW change \in SUBSET Event!Fields
  PROVE  LET row == Event!NewRow(about, u, direct, target, change)
         IN  /\ row \in Event!Row
             /\ row.about = about /\ row.author = u /\ row.from = phase /\ row.target = target
             /\ row.change = change /\ row.was = [f \in change |-> text[f]]
             /\ row.status = IF direct THEN "approved" ELSE "open"
<1>1. Event!NewRow(about, u, direct, target, change) \in Event!Row
  BY NewRowIsRow
<1>2. QED
  BY <1>1 DEF Event!NewRow

(* What the fields of a row are.                                           *)
LEMMA RowFields ==
  ASSUME NEW row \in Event!Row
  PROVE  /\ row.about \in {"phase", "edit", "update"} /\ row.author \in EventUsers /\ row.status \in Event!Statuses
         /\ row.votes \in [EventUsers -> Event!Ballots] /\ row.from \in Event!Phases /\ row.target \in Event!Phases
         /\ row.change \subseteq Event!Fields
  BY DEF Event!Row

LEMMA ClosedRow ==
  ASSUME NEW row \in Event!Row
  PROVE  LET new == [row EXCEPT !.status = "closed"]
         IN  /\ new \in Event!Row /\ new.votes = row.votes /\ new.status = "closed"
             /\ new.about = row.about /\ new.from = row.from /\ new.target = row.target
             /\ new.change = row.change /\ new.was = row.was
  BY DEF Event!Row, Event!Statuses

(* What an approval does: one row says so, and a phase change closes the   *)
(* open votes on others.                                                   *)
Kept(new, old) ==
  /\ new.about = old.about /\ new.from = old.from /\ new.change = old.change /\ new.was = old.was
  /\ \/ new.status = old.status
     \/ old.about = "phase" /\ old.status = "open" /\ new.status = "closed"
Executed(rows, i) ==
  /\ requests' \in Seq(Event!Row) /\ Len(requests') = Len(rows) /\ DOMAIN requests' = DOMAIN rows
  /\ requests'[i] = rows[i]
  /\ \A k \in DOMAIN rows : Kept(requests'[k], rows[k])
  /\ rows[i].about = "phase" =>
       /\ phase' = rows[i].target /\ text' = text
       /\ \A k \in DOMAIN rows : k # i /\ requests'[k].about = "phase" => requests'[k].status # "open"
  /\ rows[i].about = "edit" =>
       /\ phase' = phase
       /\ text' = [f \in Event!Fields |-> IF f \in rows[i].change THEN i ELSE text[f]]
  /\ rows[i].about = "update" => UNCHANGED <<phase, text>>
  /\ phase' \in Event!Phases /\ text' \in [Event!Fields -> 0..MaxRequests]
  /\ eventUpdates' \in [1..MaxRequests -> Nat]

LEMMA ExecuteDoes ==
  ASSUME Event!TypeOK, EventPeople, NEW rows \in Seq(Event!Row), NEW i \in DOMAIN rows,
         Len(rows) <= MaxRequests,
         Event!Execute(rows, i)
  PROVE  Executed(rows, i)
<1>1. rows[i] \in Event!Row /\ i \in 1..MaxRequests
  BY DEF EventPeople
<1>2. rows[i].about \in {"phase", "edit", "update"} /\ rows[i].target \in Event!Phases
  BY <1>1, RowFields
<1>3. CASE Event!ChangePhase(rows, i)
  <2>1. /\ rows[i].about = "phase" /\ phase' = rows[i].target
        /\ requests' = Event!CloseOtherVotes(rows, i) /\ UNCHANGED <<text, eventUpdates>>
    BY <1>3 DEF Event!ChangePhase
  <2>2. ASSUME NEW k \in DOMAIN rows
        PROVE  /\ requests'[k] \in Event!Row
               /\ Kept(requests'[k], rows[k])
               /\ k = i => requests'[k] = rows[k]
               /\ k # i /\ requests'[k].about = "phase" => requests'[k].status # "open"
    <3>1. requests'[k] = IF k # i /\ rows[k].about = "phase" /\ rows[k].status = "open"
                         THEN [rows[k] EXCEPT !.status = "closed"] ELSE rows[k]
      BY <2>1 DEF Event!CloseOtherVotes
    <3>2. rows[k] \in Event!Row
      OBVIOUS
    <3>3. QED
      BY <3>1, <3>2, ClosedRow DEF Kept
  <2>3. DOMAIN requests' = DOMAIN rows /\ requests' = [k \in DOMAIN rows |-> requests'[k]]
    BY <2>1 DEF Event!CloseOtherVotes
  <2>4. DOMAIN rows = 1..Len(rows) /\ Len(rows) \in Nat
    OBVIOUS
  <2>5. requests' \in [1..Len(rows) -> Event!Row]
    BY <2>2, <2>3, <2>4
  <2>6. requests' \in Seq(Event!Row) /\ Len(requests') = Len(rows)
    BY <2>4, <2>5
  <2>7. QED
    BY <1>2, <2>1, <2>2, <2>3, <2>6 DEF Executed, Event!TypeOK
<1>4. CASE Event!ApplyEdit(rows, i)
  <2>1. /\ rows[i].about = "edit" /\ requests' = rows /\ UNCHANGED <<phase, eventUpdates>>
        /\ text' = [f \in Event!Fields |-> IF f \in rows[i].change THEN i ELSE text[f]]
    BY <1>4 DEF Event!ApplyEdit
  <2>2. text' \in [Event!Fields -> 0..MaxRequests]
    BY <1>1, <2>1 DEF Event!TypeOK, EventPeople
  <2>3. QED
    BY <2>1, <2>2 DEF Executed, Kept, Event!TypeOK
<1>5. CASE Event!PublishUpdate(rows, i)
  BY <1>1, <1>5 DEF Event!PublishUpdate, Executed, Kept, Event!TypeOK
<1>6. QED
  BY <1>3, <1>4, <1>5 DEF Event!Execute

(* What a post writes.                                                     *)
LEMMA PostDoes ==
  ASSUME EventPeople, Typed, NEW w \in EventWorkers, Event!Post(w)
  PROVE  LET r == job[w].row
             rows == Append(requests, r)
             id == Len(requests) + 1
         IN  /\ job[w] \in Event!PostJob /\ r \in Event!Row /\ rows \in Seq(Event!Row) /\ id \in DOMAIN rows
             /\ Len(rows) = id /\ id <= MaxRequests /\ rows[id] = r
             /\ DOMAIN rows = DOMAIN requests \cup {id} /\ id \notin DOMAIN requests
             /\ \A k \in DOMAIN requests : rows[k] = requests[k]
             /\ UNCHANGED <<setting, Event!people, signals>>
             /\ \/ /\ job[w].direct
                   /\ Executed(rows, id)
                   /\ job' = [job EXCEPT ![w] = Event!Idle]
                \/ /\ ~ job[w].direct
                   /\ requests' = rows /\ UNCHANGED Event!content
                   /\ job' = [job EXCEPT ![w] = [op |-> "proposer", user |-> r.author, id |-> id,
                                                 ballot |-> "yes"]]
<1> DEFINE r == job[w].row
           rows == Append(requests, r)
           id == Len(requests) + 1
<1>1. job[w] \in Event!PostJob /\ Len(requests) < MaxRequests
  BY JobFields DEF Event!Post, Typed
<1>2. r \in Event!Row /\ job[w].direct \in BOOLEAN
  BY <1>1 DEF Event!PostJob
<1>3. requests \in Seq(Event!Row) /\ Len(requests) \in Nat
  BY DEF Typed, Event!TypeOK
<1>4. /\ rows \in Seq(Event!Row) /\ id \in DOMAIN rows /\ Len(rows) = id /\ rows[id] = r
      /\ DOMAIN rows = DOMAIN requests \cup {id} /\ id \notin DOMAIN requests
      /\ \A k \in DOMAIN requests : rows[k] = requests[k]
  BY <1>2, <1>3
<1>5. id <= MaxRequests
  BY <1>1, <1>3 DEF EventPeople
<1>6. /\ UNCHANGED <<setting, Event!people, signals>>
      /\ IF job[w].direct
         THEN Event!Execute(rows, Len(rows)) /\ job' = [job EXCEPT ![w] = Event!Idle]
         ELSE /\ requests' = rows
              /\ job' = [job EXCEPT ![w] = [op |-> "proposer", user |-> r.author, id |-> Len(rows),
                                            ballot |-> "yes"]]
              /\ UNCHANGED Event!content
  BY DEF Event!Post
<1>7. CASE job[w].direct
  <2>1. Event!Execute(rows, id) /\ job' = [job EXCEPT ![w] = Event!Idle]
    BY <1>4, <1>6, <1>7
  <2> HIDE DEF rows, id
  <2>2. Executed(rows, id)
    BY <1>4, <1>5, <2>1, ExecuteDoes DEF Typed
  <2>3. QED
    BY <1>1, <1>2, <1>4, <1>5, <1>6, <1>7, <2>1, <2>2 DEF rows, id
<1>8. CASE ~ job[w].direct
  BY <1>1, <1>2, <1>4, <1>5, <1>6, <1>8
<1>9. QED
  BY <1>7, <1>8

(* What a vote writes: its ballot, and the status the tally gives.         *)
Ballot(j) == [requests[j.id].votes EXCEPT ![j.user] = j.ballot]
Voted(j, s) ==
  [requests EXCEPT ![j.id] = [requests[j.id] EXCEPT !.votes = Ballot(j), !.status = s]]

LEMMA VotedRows ==
  ASSUME EventPeople, Typed, NEW j \in Event!VoteJob, j.id \in DOMAIN requests,
         NEW s \in Event!Statuses
  PROVE  LET rows == Voted(j, s)
             row  == requests[j.id]
         IN  /\ rows \in Seq(Event!Row) /\ DOMAIN rows = DOMAIN requests /\ Len(rows) = Len(requests)
             /\ \A k \in DOMAIN requests \ {j.id} : rows[k] = requests[k]
             /\ rows[j.id].votes = Ballot(j) /\ rows[j.id].status = s
             /\ rows[j.id].about = row.about /\ rows[j.id].from = row.from
             /\ rows[j.id].target = row.target /\ rows[j.id].change = row.change
             /\ rows[j.id].was = row.was
<1> DEFINE row == requests[j.id]
           new == [row EXCEPT !.votes = Ballot(j), !.status = s]
<1>1. row \in Event!Row /\ requests \in Seq(Event!Row)
  BY DEF Typed, Event!TypeOK
<1>2. Ballot(j) \in [EventUsers -> Event!Ballots]
  <2>1. j.ballot \in Event!Ballots
    BY DEF Event!VoteJob, Event!Ballots
  <2>2. row.votes \in [EventUsers -> Event!Ballots]
    BY <1>1, RowFields
  <2>3. QED
    BY <2>1, <2>2 DEF Ballot
<1>3. /\ new \in Event!Row /\ new.votes = Ballot(j) /\ new.status = s
      /\ new.about = row.about /\ new.from = row.from /\ new.target = row.target
      /\ new.change = row.change /\ new.was = row.was
  BY <1>1, <1>2 DEF Event!Row
<1>4. Voted(j, s) = [requests EXCEPT ![j.id] = new]
  BY DEF Voted
<1> HIDE DEF new
<1>5. /\ Voted(j, s) \in Seq(Event!Row) /\ DOMAIN Voted(j, s) = DOMAIN requests
      /\ Len(Voted(j, s)) = Len(requests)
      /\ \A k \in DOMAIN requests \ {j.id} : Voted(j, s)[k] = requests[k]
      /\ Voted(j, s)[j.id] = new
  BY <1>1, <1>3, <1>4
<1>6. QED
  BY <1>3, <1>5

LEMMA VoteDoes ==
  ASSUME EventPeople, Typed, NEW w \in EventWorkers, Event!CommitVote(w)
  PROVE  LET j == job[w]
         IN  /\ j \in Event!VoteJob /\ j.id \in DOMAIN requests
             /\ ~ (j.insert /\ requests[j.id].votes[j.user] # "none")
             /\ UNCHANGED <<setting, Event!people, signals>>
             /\ job' = [job EXCEPT ![w] = Event!Idle]
             /\ \/ /\ Executed(Voted(j, "approved"), j.id)
                   /\ \E n \in Event!WeeklyActive :
                        Event!Decide(Ballot(j), Event!Weight, n) = "approved" /\ Event!GateAtApproval(requests[j.id], n)
                \/ requests' = Voted(j, "rejected") /\ UNCHANGED Event!content
                \/ requests' = Voted(j, requests[j.id].status) /\ UNCHANGED Event!content
<1> DEFINE j == job[w]
           row == requests[j.id]
           cast == [requests EXCEPT ![j.id].votes[j.user] = j.ballot]
<1>1. j \in Event!VoteJob /\ j.id \in DOMAIN requests
  BY JobFields, Lengths DEF Event!CommitVote, Typed, NamesExist, Named
<1>2. row \in Event!Row /\ requests \in Seq(Event!Row)
  BY <1>1 DEF Typed, Event!TypeOK
<1>3. row.status \in Event!Statuses /\ "approved" \in Event!Statuses /\ "rejected" \in Event!Statuses
  BY <1>2, RowFields DEF Event!Statuses
<1>4. PICK n \in Event!WeeklyActive :
        \/ /\ Event!Tallied(row, j.user, j.ballot, n) = "approved"
           /\ Event!GateAtApproval(row, n)
           /\ Event!Execute([cast EXCEPT ![j.id].status = "approved"], j.id)
        \/ /\ Event!Tallied(row, j.user, j.ballot, n) = "rejected"
           /\ requests' = [cast EXCEPT ![j.id].status = "rejected"]
           /\ UNCHANGED Event!content
        \/ /\ Event!Tallied(row, j.user, j.ballot, n) = "open"
           /\ requests' = cast
           /\ UNCHANGED Event!content
  BY DEF Event!CommitVote
<1>5. /\ ~ (j.insert /\ row.votes[j.user] # "none")
      /\ UNCHANGED <<setting, Event!people, signals>>
      /\ job' = [job EXCEPT ![w] = Event!Idle]
  BY DEF Event!CommitVote
<1>6. \A s \in Event!Statuses : [cast EXCEPT ![j.id].status = s] = Voted(j, s)
  BY <1>1, <1>2 DEF Voted, Ballot, Event!Row
<1>7. cast = Voted(j, row.status)
  BY <1>1, <1>2 DEF Voted, Ballot, Event!Row
<1>8. Event!Tallied(row, j.user, j.ballot, n) = Event!Decide(Ballot(j), Event!Weight, n)
  BY DEF Event!Tallied, Ballot
<1>9. ASSUME Event!Execute(Voted(j, "approved"), j.id)
      PROVE  Executed(Voted(j, "approved"), j.id)
  <2>1. /\ Voted(j, "approved") \in Seq(Event!Row) /\ j.id \in DOMAIN Voted(j, "approved")
        /\ Len(Voted(j, "approved")) <= MaxRequests
    BY <1>1, <1>3, VotedRows, Lengths DEF Typed
  <2>2. QED
    BY <1>9, <2>1, ExecuteDoes DEF Typed
<1> HIDE DEF j, cast
<1>10. QED
  BY <1>1, <1>3, <1>4, <1>5, <1>6, <1>7, <1>8, <1>9 DEF j

-----------------------------------------------------------------------------
(* Every step is a post, a vote, or leaves the requests and what they      *)
(* change alone.                                                           *)
Calm == UNCHANGED <<setting, Event!content, requests>>

LEMMA StartJobs ==
  ASSUME EventPeople, Typed, NEW w \in EventWorkers, Event!Start(w)
  PROVE  /\ Calm /\ UNCHANGED <<Event!people, signals>>
         /\ \E j \in Event!Jobs : Named(j) /\ job' = [job EXCEPT ![w] = j]
<1>1. Calm /\ UNCHANGED <<Event!people, signals>>
  BY DEF Event!Start, Calm
<1>2. phase \in Event!Phases /\ {} \in SUBSET Event!Fields
  BY DEF Typed, Event!TypeOK
<1>3. ASSUME NEW j \in Event!Jobs, Named(j), Event!StartJob(w, j)
      PROVE  \E k \in Event!Jobs : Named(k) /\ job' = [job EXCEPT ![w] = k]
  BY <1>3 DEF Event!StartJob
<1> DEFINE P(row, direct) == [op |-> "post", direct |-> direct, row |-> row]
<1>4. ASSUME NEW about \in {"phase", "edit", "update"}, NEW u \in EventUsers,
             NEW direct \in BOOLEAN,
             NEW target \in Event!Phases, NEW change \in SUBSET Event!Fields
      PROVE  /\ P(Event!NewRow(about, u, direct, target, change), direct) \in Event!Jobs
             /\ Named(P(Event!NewRow(about, u, direct, target, change), direct))
  <2>1. Event!NewRow(about, u, direct, target, change) \in Event!Row
    <3>1. Event!TypeOK
      BY DEF Typed
    <3>2. QED
      BY <3>1, NewRowIsRow
  <2>2. QED
    BY <2>1 DEF Event!Jobs, Event!PostJob, Named
<1>5. Event!OrganizerControlled \in BOOLEAN
  BY DEF Event!OrganizerControlled
<1>6. ASSUME NEW u \in EventUsers, NEW target \in Event!Phases,
             Event!CheckPhaseChange(w, u, target)
      PROVE  \E j \in Event!Jobs : Named(j) /\ job' = [job EXCEPT ![w] = j]
  BY <1>2, <1>3, <1>4, <1>5, <1>6 DEF Event!CheckPhaseChange
<1>7. ASSUME NEW u \in EventUsers, NEW change \in SUBSET Event!Fields,
             Event!CheckEdit(w, u, change)
      PROVE  \E j \in Event!Jobs : Named(j) /\ job' = [job EXCEPT ![w] = j]
  BY <1>2, <1>3, <1>4, <1>5, <1>7 DEF Event!CheckEdit, Event!EditIsDirect
<1>8. ASSUME NEW u \in EventUsers, Event!CheckUpdate(w, u)
      PROVE  \E j \in Event!Jobs : Named(j) /\ job' = [job EXCEPT ![w] = j]
  <2>1. PICK direct \in BOOLEAN : Event!StartJob(w, P(Event!NewRow("update", u, direct, phase, {}), direct))
    BY <1>8 DEF Event!CheckUpdate
  <2>2. QED
    BY <1>2, <1>3, <1>4, <2>1
<1>9. ASSUME NEW u \in EventUsers, NEW i \in Event!Ids, NEW ballot \in {"yes", "no"},
             Event!StartVote(w, u, i, ballot)
      PROVE  \E j \in Event!Jobs : Named(j) /\ job' = [job EXCEPT ![w] = j]
  <2>1. Event!VoteOn(u, i, ballot) \in Event!Jobs /\ Named(Event!VoteOn(u, i, ballot))
    BY Lengths DEF Event!VoteOn, Event!Jobs, Event!VoteJob, Named, Typed
  <2>2. QED
    BY <1>3, <1>9, <2>1 DEF Event!StartVote
<1>10. ASSUME NEW u \in EventUsers, Event!StartJoin(w, u) \/ Event!StartLeave(w, u)
       PROVE  \E j \in Event!Jobs : Named(j) /\ job' = [job EXCEPT ![w] = j]
  <2>1. ASSUME NEW op \in {"join", "leave"}
        PROVE  [op |-> op, user |-> u] \in Event!Jobs /\ Named([op |-> op, user |-> u])
    BY DEF Event!Jobs, Event!MemberJob, Named
  <2>2. QED
    BY <1>3, <1>10, <2>1 DEF Event!StartJoin, Event!StartLeave
<1>11. ASSUME NEW u \in EventUsers, NEW other \in Promotable, Event!StartGrant(w, u, other)
       PROVE  \E j \in Event!Jobs : Named(j) /\ job' = [job EXCEPT ![w] = j]
  <2> DEFINE j == [op |-> IF other \in members THEN "appoint" ELSE "grant", user |-> other]
  <2>1. j \in Event!Jobs /\ Named(j)
    BY DEF Event!Jobs, Event!GrantJob, Named, EventPeople
  <2>2. Event!StartJob(w, j)
    BY <1>11 DEF Event!StartGrant
  <2> HIDE DEF j
  <2>3. QED
    BY <1>3, <2>1, <2>2
<1>12. QED
  BY <1>1, <1>6, <1>7, <1>8, <1>9, <1>10, <1>11 DEF Event!Start

LEMMA ContinueJobs ==
  ASSUME EventPeople, Typed, NEW w \in EventWorkers, Event!Continue(w)
  PROVE  /\ Calm /\ UNCHANGED <<Event!people, signals>>
         /\ \E j \in Event!Jobs : Named(j) /\ job' = [job EXCEPT ![w] = j]
<1>1. Calm /\ UNCHANGED <<Event!people, signals>>
  BY DEF Event!Continue, Calm
<1>2. Event!Idle \in Event!Jobs /\ Named(Event!Idle)
  BY DEF Event!Jobs, Event!Idle, Named
<1>3. ASSUME Event!ProposerVote(w), Event!Admits(job[w].user, job[w].id)
      PROVE  Event!VoteOn(job[w].user, job[w].id, "yes") \in Event!Jobs /\ Named(Event!VoteOn(job[w].user, job[w].id, "yes"))
  <2>1. job[w] \in Event!ProposerJob /\ job[w].id \in Event!Ids
    BY <1>3, JobFields DEF Event!ProposerVote, Typed, NamesExist, Named
  <2>2. QED
    BY <2>1, Lengths DEF Event!VoteOn, Event!Jobs, Event!VoteJob, Named, Event!ProposerJob,
       Typed
<1>4. QED
  BY <1>1, <1>2, <1>3 DEF Event!Continue, Event!ProposerVote, Event!Rollback

LEMMA PeopleJobs ==
  ASSUME EventPeople, Typed, NEW w \in EventWorkers, Event!ChangePeople(w)
  PROVE  /\ Calm /\ UNCHANGED signals
         /\ \E j \in Event!Jobs : /\ Named(j) /\ j.op \in {"idle", "appoint"}
                                 /\ job' = [job EXCEPT ![w] = j]
         /\ members' \subseteq EventUsers /\ count' \in Nat /\ editors' \subseteq EventUsers
<1>1. Calm /\ UNCHANGED signals
  BY DEF Event!ChangePeople, Calm
<1>2. members \subseteq EventUsers /\ count \in Nat /\ editors \subseteq EventUsers
  BY DEF Typed, Event!TypeOK
<1>3. Event!AdmitEditor(w) \/ Event!Join(w) \/ Event!Leave(w) \/ Event!Grant(w) => job[w].user \in EventUsers
  BY JobFields DEF Event!AdmitEditor, Event!Join, Event!Leave, Event!Grant, Typed
<1>4. members' \subseteq EventUsers /\ count' \in Nat /\ editors' \subseteq EventUsers
  BY <1>2, <1>3 DEF Event!ChangePeople, Event!AdmitEditor, Event!Join, Event!Leave, Event!Grant,
     Event!AtLeastZero
<1>5. ASSUME NEW j \in Event!Jobs, j.op \in {"idle", "appoint"}, job' = [job EXCEPT ![w] = j]
      PROVE  \E k \in Event!Jobs : /\ Named(k) /\ k.op \in {"idle", "appoint"}
                                  /\ job' = [job EXCEPT ![w] = k]
  BY <1>5 DEF Named
<1>6. Event!Idle \in Event!Jobs /\ Event!Idle.op = "idle"
  BY DEF Event!Jobs, Event!Idle
<1>7. Event!AdmitEditor(w) => [op |-> "appoint", user |-> job[w].user] \in Event!Jobs
  BY <1>3 DEF Event!Jobs, Event!GrantJob
<1>8. QED
  BY <1>1, <1>4, <1>5, <1>6, <1>7 DEF Event!ChangePeople, Event!AdmitEditor

LEMMA JobsTyped ==
  ASSUME Typed, NEW w \in EventWorkers, NEW j \in Event!Jobs, job' = [job EXCEPT ![w] = j],
         Len(requests') \in Nat, Len(requests) \in Nat, Len(requests) <= Len(requests'),
         j.op \in {"proposer", "vote"} => j.id \in 1..Len(requests')
  PROVE  job' \in [EventWorkers -> Event!Jobs] /\ NamesExist'
<1>1. job \in [EventWorkers -> Event!Jobs]
  BY DEF Typed, Event!TypeOK
<1>2. ASSUME NEW v \in EventWorkers PROVE Named(job[v])'
  <2>1. CASE v = w
    BY <1>1, <2>1 DEF Named, Event!Ids
  <2>2. CASE v # w
    <3>1. job'[v] = job[v] /\ Named(job[v])
      BY <1>1, <2>2 DEF Typed, NamesExist
    <3>2. QED
      BY <3>1 DEF Named, Event!Ids
  <2>3. QED
    BY <2>1, <2>2
<1>3. QED
  BY <1>1, <1>2 DEF NamesExist

LEMMA PostTyped ==
  ASSUME EventPeople, Typed, NEW w \in EventWorkers, Event!Post(w)
  PROVE  Typed'
<1> DEFINE r == job[w].row
           rows == Append(requests, r)
           id == Len(requests) + 1
           pj == [op |-> "proposer", user |-> r.author, id |-> id, ballot |-> "yes"]
<1>1. /\ r \in Event!Row /\ rows \in Seq(Event!Row) /\ Len(rows) = id /\ id <= MaxRequests
      /\ UNCHANGED <<setting, Event!people, signals>>
      /\ \/ /\ job[w].direct
            /\ Executed(rows, id)
            /\ job' = [job EXCEPT ![w] = Event!Idle]
         \/ /\ ~ job[w].direct
            /\ requests' = rows /\ UNCHANGED Event!content
            /\ job' = [job EXCEPT ![w] = pj]
  BY PostDoes
<1>2. Len(requests) \in Nat /\ MaxRequests \in Nat
  BY Lengths DEF Typed, EventPeople
<1>3. Event!Idle \in Event!Jobs /\ Event!Idle.op = "idle"
  BY DEF Event!Jobs, Event!Idle
<1>4. pj \in Event!Jobs /\ pj.op = "proposer" /\ pj.id = id
  BY <1>1, <1>2, RowFields DEF Event!Jobs, Event!ProposerJob
<1>5. id \in Nat /\ Len(requests) <= id /\ id \in 1..id
  BY <1>2
<1> HIDE DEF rows, r, id, pj
<1>6. /\ requests' \in Seq(Event!Row) /\ Len(requests') = id
      /\ phase' \in Event!Phases /\ text' \in [Event!Fields -> 0..MaxRequests] /\ eventUpdates' \in [1..MaxRequests -> Nat]
  BY <1>1 DEF Executed, Typed, Event!TypeOK, Event!content
<1>7. job' \in [EventWorkers -> Event!Jobs] /\ NamesExist'
  <2>1. CASE job' = [job EXCEPT ![w] = Event!Idle]
    BY <1>2, <1>3, <1>5, <1>6, <2>1, JobsTyped
  <2>2. CASE job' = [job EXCEPT ![w] = pj]
    BY <1>2, <1>4, <1>5, <1>6, <2>2, JobsTyped
  <2>3. QED
    BY <1>1, <2>1, <2>2
<1>8. QED
  BY <1>1, <1>6, <1>7 DEF Typed, Event!TypeOK, Event!people

LEMMA VoteTyped ==
  ASSUME EventPeople, Typed, NEW w \in EventWorkers, Event!CommitVote(w)
  PROVE  Typed'
<1> DEFINE j == job[w]
<1>1. /\ j \in Event!VoteJob /\ j.id \in DOMAIN requests
      /\ UNCHANGED <<setting, Event!people, signals>>
      /\ job' = [job EXCEPT ![w] = Event!Idle]
      /\ \/ Executed(Voted(j, "approved"), j.id)
         \/ requests' = Voted(j, "rejected") /\ UNCHANGED Event!content
         \/ requests' = Voted(j, requests[j.id].status) /\ UNCHANGED Event!content
  BY VoteDoes
<1>2. requests[j.id].status \in Event!Statuses /\ "approved" \in Event!Statuses /\ "rejected" \in Event!Statuses
  <2>1. requests[j.id] \in Event!Row
    BY <1>1 DEF Typed, Event!TypeOK
  <2>2. QED
    BY <2>1, RowFields DEF Event!Statuses
<1> HIDE DEF j
<1>3. \A s \in Event!Statuses : Voted(j, s) \in Seq(Event!Row) /\ Len(Voted(j, s)) = Len(requests)
  BY <1>1, VotedRows
<1>4. /\ requests' \in Seq(Event!Row) /\ Len(requests') = Len(requests)
      /\ phase' \in Event!Phases /\ text' \in [Event!Fields -> 0..MaxRequests] /\ eventUpdates' \in [1..MaxRequests -> Nat]
  BY <1>1, <1>2, <1>3 DEF Executed, Typed, Event!TypeOK, Event!content
<1>5. Event!Idle \in Event!Jobs /\ Event!Idle.op = "idle"
  BY DEF Event!Jobs, Event!Idle
<1>6. Len(requests) \in Nat
  BY Lengths DEF Typed
<1>7. job' \in [EventWorkers -> Event!Jobs] /\ NamesExist'
  <2>1. Len(requests') \in Nat /\ Len(requests) <= Len(requests') /\ job' = [job EXCEPT ![w] = Event!Idle]
    BY <1>1, <1>4, <1>6
  <2>2. QED
    BY <1>5, <1>6, <2>1, JobsTyped
<1>8. QED
  BY <1>1, <1>4, <1>7 DEF Typed, Event!TypeOK, Event!people

LEMMA KeepsTyped ==
  ASSUME EventPeople, Typed, [Event!Next]_(Event!vars)
  PROVE  Typed'
<1>1. ASSUME NEW w \in EventWorkers, NEW j \in Event!Jobs, Named(j),
             job' = [job EXCEPT ![w] = j], Calm
      PROVE  job' \in [EventWorkers -> Event!Jobs] /\ NamesExist'
  <2>1. Len(requests) \in Nat /\ requests' = requests
    BY <1>1, Lengths DEF Typed, Calm
  <2>2. Len(requests') \in Nat /\ Len(requests) <= Len(requests')
    BY <2>1
  <2>3. j.op \in {"proposer", "vote"} => j.id \in 1..Len(requests')
    BY <1>1, <2>1 DEF Named, Event!Ids
  <2>4. QED
    BY <1>1, <2>1, <2>2, <2>3, JobsTyped
<1>2. ASSUME NEW w \in EventWorkers, Event!Start(w) \/ Event!Continue(w) PROVE Typed'
  <2>1. /\ Calm /\ UNCHANGED <<Event!people, signals>>
        /\ \E j \in Event!Jobs : Named(j) /\ job' = [job EXCEPT ![w] = j]
    BY <1>2, StartJobs, ContinueJobs
  <2>2. QED
    BY <1>1, <2>1 DEF Typed, Event!TypeOK, Calm, Event!content, Event!people
<1>3. ASSUME NEW w \in EventWorkers, Event!ChangePeople(w) PROVE Typed'
  <2>1. /\ Calm /\ UNCHANGED signals
        /\ \E j \in Event!Jobs : Named(j) /\ job' = [job EXCEPT ![w] = j]
        /\ members' \subseteq EventUsers /\ count' \in Nat /\ editors' \subseteq EventUsers
    BY <1>3, PeopleJobs
  <2>2. QED
    BY <1>1, <2>1 DEF Typed, Event!TypeOK, Calm, Event!content
<1>4. ASSUME NEW u \in EventUsers, NEW other \in Promotable, Event!Revoke(u, other) PROVE Typed'
  BY <1>4 DEF Event!Revoke, Typed, Event!TypeOK, Event!content, NamesExist, Named, Event!Ids
<1>5. ASSUME NEW u \in Signalers, NEW signal \in {"demand", "opposition"},
             Event!ToggleSignal(u, signal)
      PROVE  Typed'
  BY <1>5 DEF Event!ToggleSignal, Typed, Event!TypeOK, Event!content, Event!people, NamesExist,
     Named, Event!Ids
<1>6. CASE UNCHANGED Event!vars
  BY <1>6 DEF Event!vars, Typed, Event!TypeOK, NamesExist, Named, Event!Ids
<1>7. QED
  BY <1>2, <1>3, <1>4, <1>5, <1>6, PostTyped, VoteTyped DEF Event!Next

-----------------------------------------------------------------------------
(* One request at a time: what a handler has read is still so when it      *)
(* writes.                                                                 *)
Posting(j) ==
  /\ j.row.from = phase
  /\ \A f \in j.row.change : j.row.was[f] = text[f]
  /\ j.row.status = IF j.direct THEN "approved" ELSE "open"
  /\ j.row.about # "update" => (j.direct <=> Event!OrganizerControlled)
  /\ j.row.about = "edit" /\ ~ j.direct => ~ Event!Overlaps(j.row.change)
Reads(j) ==
  /\ j.op = "post" => Posting(j)
  /\ j.op = "vote" => Event!Open(j.id)
  /\ j.op = "leave" => j.user \in members
ReadsHold == \A w \in EventWorkers : Reads(job[w])

(* What is open is voted on from the present phase and text, not under     *)
(* organizers, and no two open edits change the same field.                *)
CurrentIn(row, now, says, controlled) ==
  /\ row.about = "phase" => row.from = now
  /\ controlled => row.about = "update"
  /\ row.about = "edit" => \A f \in row.change : row.was[f] = says[f]
Current ==
  \A i \in Event!Ids : Event!Open(i) => CurrentIn(requests[i], phase, text, Event!OrganizerControlled)
Apart ==
  \A i, k \in Event!Ids :
    /\ i # k /\ Event!Open(i) /\ Event!Open(k)
    /\ requests[i].about = "edit" /\ requests[k].about = "edit"
    => requests[i].change \cap requests[k].change = {}
Held == Typed /\ ReadsHold /\ Current /\ Apart /\ Event!CountIsExact

LEMMA Alone ==
  ASSUME EventAlone, Event!TypeOK, NEW w \in EventWorkers, NEW j, job' = [job EXCEPT ![w] = j]
  PROVE  \A v \in EventWorkers : job'[v] = j
  BY DEF EventAlone, Event!TypeOK

LEMMA IdleReads ==
  ASSUME EventAlone, Event!TypeOK, NEW w \in EventWorkers, NEW j, job' = [job EXCEPT ![w] = j],
         j.op \in {"idle", "proposer", "appoint"}
  PROVE  ReadsHold'
  BY Alone DEF ReadsHold, Reads

LEMMA StartReads ==
  ASSUME EventAlone, EventPeople, Held, NEW w \in EventWorkers, Event!Start(w)
  PROVE  ReadsHold'
<1>1. Calm /\ UNCHANGED <<Event!people, signals>>
  BY StartJobs DEF Held
<1>2. ASSUME NEW j, Reads(j), Event!StartJob(w, j)
      PROVE  ReadsHold'
  <2>1. \A v \in EventWorkers : job'[v] = j
    BY <1>2, Alone DEF Event!StartJob, Held, Typed
  <2>2. Reads(j)'
    BY <1>1, <1>2 DEF Reads, Posting, Calm, Event!content, Event!people,
       Event!OrganizerControlled, Event!Overlaps, Event!Open, Event!Ids
  <2>3. QED
    BY <2>1, <2>2 DEF ReadsHold, Reads, Posting, Event!OrganizerControlled, Event!Overlaps,
       Event!Open, Event!Ids
<1> DEFINE P(row, direct) == [op |-> "post", direct |-> direct, row |-> row]
<1>3. ASSUME NEW about \in {"phase", "edit", "update"}, NEW u \in EventUsers,
             NEW direct \in BOOLEAN,
             NEW target \in Event!Phases, NEW change \in SUBSET Event!Fields,
             about # "update" => (direct <=> Event!OrganizerControlled),
             about = "edit" /\ ~ direct => ~ Event!Overlaps(change)
      PROVE  Reads(P(Event!NewRow(about, u, direct, target, change), direct))
  <2> DEFINE row == Event!NewRow(about, u, direct, target, change)
  <2>1. /\ row.about = about /\ row.from = phase /\ row.change = change
        /\ row.was = [f \in change |-> text[f]]
        /\ row.status = IF direct THEN "approved" ELSE "open"
    BY NewRowType DEF Held, Typed
  <2> HIDE DEF row
  <2>2. Posting(P(row, direct))
    BY <1>3, <2>1 DEF Posting
  <2>3. P(row, direct).op = "post"
    OBVIOUS
  <2>4. Reads(P(row, direct))
    BY <2>2, <2>3 DEF Reads
  <2>5. QED
    BY <2>4 DEF row
<1>4. phase \in Event!Phases /\ {} \in SUBSET Event!Fields /\ Event!OrganizerControlled \in BOOLEAN
  BY DEF Held, Typed, Event!TypeOK, Event!OrganizerControlled
<1> HIDE DEF P
<1>5. ASSUME NEW u \in EventUsers, NEW target \in Event!Phases,
             Event!CheckPhaseChange(w, u, target)
      PROVE  ReadsHold'
  <2>1. Event!StartJob(w, P(Event!NewRow("phase", u, Event!OrganizerControlled, target, {}), Event!OrganizerControlled))
    BY <1>5 DEF Event!CheckPhaseChange, P
  <2>2. Reads(P(Event!NewRow("phase", u, Event!OrganizerControlled, target, {}), Event!OrganizerControlled))
    BY <1>3, <1>4
  <2>3. QED
    BY <1>2, <2>1, <2>2
<1>6. ASSUME NEW u \in EventUsers, NEW change \in SUBSET Event!Fields,
             Event!CheckEdit(w, u, change)
      PROVE  ReadsHold'
  <2>1. /\ Event!StartJob(w, P(Event!NewRow("edit", u, Event!OrganizerControlled, phase, change), Event!OrganizerControlled))
        /\ Event!OrganizerControlled \/ ~ Event!Overlaps(change)
    BY <1>6 DEF Event!CheckEdit, Event!EditIsDirect, P
  <2>2. Reads(P(Event!NewRow("edit", u, Event!OrganizerControlled, phase, change), Event!OrganizerControlled))
    BY <1>3, <1>4, <2>1
  <2>3. QED
    BY <1>2, <2>1, <2>2
<1>7. ASSUME NEW u \in EventUsers, Event!CheckUpdate(w, u)
      PROVE  ReadsHold'
  <2>1. PICK direct \in BOOLEAN : Event!StartJob(w, P(Event!NewRow("update", u, direct, phase, {}), direct))
    BY <1>7 DEF Event!CheckUpdate, P
  <2>2. Reads(P(Event!NewRow("update", u, direct, phase, {}), direct))
    BY <1>3, <1>4
  <2>3. QED
    BY <1>2, <2>1, <2>2
<1>8. ASSUME NEW u \in EventUsers, NEW i \in Event!Ids, NEW ballot \in {"yes", "no"},
             Event!StartVote(w, u, i, ballot)
      PROVE  ReadsHold'
  <2>1. Reads(Event!VoteOn(u, i, ballot))
    BY <1>8 DEF Event!StartVote, Event!Admits, Event!VoteOn, Reads
  <2>2. QED
    BY <1>2, <1>8, <2>1 DEF Event!StartVote
<1>9. ASSUME NEW u \in EventUsers, Event!StartJoin(w, u)
      PROVE  ReadsHold'
  <2>1. Reads([op |-> "join", user |-> u])
    BY DEF Reads
  <2>2. QED
    BY <1>2, <1>9, <2>1 DEF Event!StartJoin
<1>10. ASSUME NEW u \in EventUsers, Event!StartLeave(w, u)
       PROVE  ReadsHold'
  <2>1. Reads([op |-> "leave", user |-> u])
    BY <1>10 DEF Reads, Event!StartLeave
  <2>2. QED
    BY <1>2, <1>10, <2>1 DEF Event!StartLeave
<1>11. ASSUME NEW u \in EventUsers, NEW other \in Promotable, Event!StartGrant(w, u, other)
       PROVE  ReadsHold'
  <2>1. Reads([op |-> IF other \in members THEN "appoint" ELSE "grant", user |-> other])
    BY DEF Reads
  <2>2. QED
    BY <1>2, <1>11, <2>1 DEF Event!StartGrant
<1>12. QED
  BY <1>5, <1>6, <1>7, <1>8, <1>9, <1>10, <1>11 DEF Event!Start

LEMMA ContinueReads ==
  ASSUME EventAlone, EventPeople, Held, NEW w \in EventWorkers, Event!Continue(w)
  PROVE  ReadsHold'
<1>1. CASE Event!Rollback(w)
  BY <1>1, IdleReads DEF Event!Rollback, Event!Idle, Held, Typed
<1>2. CASE Event!ProposerVote(w)
  <2>1. Calm
    BY ContinueJobs DEF Held
  <2>2. CASE Event!Admits(job[w].user, job[w].id)
    <3>1. PICK j : j = Event!VoteOn(job[w].user, job[w].id, "yes")
      OBVIOUS
    <3>2. job' = [job EXCEPT ![w] = j] /\ j.op = "vote" /\ Event!Open(j.id)
      BY <1>2, <2>2, <3>1 DEF Event!ProposerVote, Event!VoteOn, Event!Admits
    <3>3. \A v \in EventWorkers : job'[v] = j
      BY <3>2, Alone DEF Held, Typed
    <3>4. Event!Open(j.id)'
      BY <2>1, <3>2 DEF Event!Open, Calm
    <3>5. QED
      BY <3>2, <3>3, <3>4 DEF ReadsHold, Reads, Event!Open
  <2>3. CASE ~ Event!Admits(job[w].user, job[w].id)
    BY <1>2, <2>3, IdleReads DEF Event!ProposerVote, Event!Idle, Held, Typed
  <2>4. QED
    BY <2>2, <2>3
<1>3. QED
  BY <1>1, <1>2 DEF Event!Continue

-----------------------------------------------------------------------------
(* The members and their count.                                            *)
LEMMA PeopleCounted ==
  ASSUME EventAlone, EventPeople, Held, NEW w \in EventWorkers, Event!ChangePeople(w)
  PROVE  Event!CountIsExact'
<1> DEFINE u == job[w].user
<1>1. members \subseteq EventUsers /\ IsFiniteSet(members) /\ count = Cardinality(members)
  BY FS_Subset, EventCount DEF Held, Typed, Event!TypeOK, EventPeople, Event!CountIsExact
<1>2. Cardinality(members) \in Nat
  BY <1>1, FS_CardinalityType
<1>3. ASSUME u \notin members
      PROVE  Cardinality(members \cup {u}) = Cardinality(members) + 1
  BY <1>1, <1>3, FS_AddElement
<1>4. CASE Event!Join(w)
  <2>1. members' = members \cup {u} /\ count' = count + 1 /\ u \notin members
    BY <1>4 DEF Event!Join
  <2>2. QED
    BY <1>1, <1>3, <2>1, EventCount DEF Event!CountIsExact
<1>5. CASE Event!Leave(w)
  <2>1. members' = members \ {u} /\ count' = Event!AtLeastZero(count - 1)
    BY <1>5 DEF Event!Leave
  <2>2. u \in members
    BY <1>5 DEF Event!Leave, Held, ReadsHold, Reads
  <2>3. Cardinality(members \ {u}) = Cardinality(members) - 1
    BY <1>1, <2>2, FS_RemoveElement
  <2>4. Cardinality(members) # 0
    BY <1>1, <2>2, FS_EmptySet
  <2>5. count' = count - 1
    BY <1>1, <1>2, <2>1, <2>4 DEF Event!AtLeastZero
  <2>6. QED
    BY <1>1, <2>1, <2>3, <2>5, EventCount DEF Event!CountIsExact
<1>6. CASE Event!AdmitEditor(w)
  <2>1. members' = members \cup {u} /\ count' = IF u \in members THEN count ELSE count + 1
    BY <1>6 DEF Event!AdmitEditor
  <2>2. u \in members => members \cup {u} = members
    OBVIOUS
  <2>3. QED
    BY <1>1, <1>3, <2>1, <2>2, EventCount DEF Event!CountIsExact
<1>7. CASE Event!Grant(w)
  BY <1>7 DEF Event!Grant, Event!CountIsExact, Held
<1>8. QED
  BY <1>4, <1>5, <1>6, <1>7 DEF Event!ChangePeople

-----------------------------------------------------------------------------
(* What is open stays current.                                             *)
LEMMA ExecutedCurrent ==
  ASSUME EventPeople, Typed, Current, Apart, setting' = setting,
         NEW rows, NEW i \in DOMAIN rows, Executed(rows, i), rows[i].status # "open",
         \A k \in DOMAIN rows : k # i => k \in Event!Ids /\ rows[k] = requests[k],
         rows[i].about = "edit" => \A k \in Event!Ids :
           k # i /\ Event!Open(k) /\ requests[k].about = "edit" => requests[k].change \cap rows[i].change = {},
         rows[i].about \in {"phase", "edit", "update"}
  PROVE  Current' /\ Apart'
<1>1. \A k \in DOMAIN requests' : k \in DOMAIN rows
  BY DEF Executed
<1>2. Event!Ids' = DOMAIN requests'
  BY DEF Event!Ids, Executed
<1>3. ASSUME NEW k \in Event!Ids', Event!Open(k)'
      PROVE  /\ k \in Event!Ids /\ k # i /\ Event!Open(k) /\ Kept(requests'[k], requests[k])
             /\ requests'[k].about = requests[k].about /\ requests'[k].change = requests[k].change
  <2>1. k \in DOMAIN rows /\ requests'[k].status = "open" /\ Kept(requests'[k], rows[k])
    BY <1>1, <1>2, <1>3 DEF Event!Open, Executed
  <2>2. k # i
    BY <2>1 DEF Executed
  <2>3. k \in Event!Ids /\ rows[k] = requests[k]
    BY <2>1, <2>2
  <2>4. QED
    BY <2>1, <2>2, <2>3 DEF Kept, Event!Open
<1>4. Apart'
  BY <1>3 DEF Apart
<1>5. ASSUME NEW k \in Event!Ids', Event!Open(k)'
      PROVE  CurrentIn(requests[k], phase, text, Event!OrganizerControlled)
  BY <1>3, <1>5 DEF Current
<1>6. ASSUME NEW k \in Event!Ids', Event!Open(k)'
      PROVE  CurrentIn(requests'[k], phase', text', Event!OrganizerControlled')
  <2> DEFINE old == requests[k]
             new == requests'[k]
  <2>1. /\ new.about = old.about /\ new.from = old.from /\ new.change = old.change /\ new.was = old.was
        /\ k \in Event!Ids /\ k # i /\ Event!Open(k) /\ new.status = "open"
    BY <1>3, <1>6 DEF Kept, Event!Open
  <2>2. /\ old.about = "phase" => old.from = phase
        /\ Event!OrganizerControlled => old.about = "update"
        /\ old.about = "edit" => \A f \in old.change : old.was[f] = text[f]
    BY <1>5, <1>6 DEF CurrentIn
  <2>3. Event!OrganizerControlled' <=> Event!OrganizerControlled
    BY DEF Event!OrganizerControlled
  <2>4. new.about = "phase" => phase' = phase
    <3>1. rows[i].about = "phase" => new.about # "phase"
      BY <1>1, <1>2, <1>6, <2>1 DEF Executed
    <3>2. QED
      BY <3>1 DEF Executed
  <2>5. ASSUME new.about = "edit", NEW f \in new.change
        PROVE  text'[f] = text[f]
    <3>1. CASE rows[i].about # "edit"
      BY <3>1 DEF Executed
    <3>2. CASE rows[i].about = "edit"
      <4>1. f \notin rows[i].change
        BY <2>1, <2>5, <3>2
      <4>2. f \in Event!Fields
        <5>1. requests[k] \in Event!Row
          BY <2>1, Lengths DEF Typed, Event!TypeOK
        <5>2. QED
          BY <2>1, <2>5, <5>1, RowFields
      <4>3. QED
        BY <3>2, <4>1, <4>2 DEF Executed
    <3>3. QED
      BY <3>1, <3>2
  <2> HIDE DEF old, new
  <2>6. /\ new.about = "phase" => new.from = phase'
        /\ Event!OrganizerControlled' => new.about = "update"
        /\ new.about = "edit" => \A f \in new.change : new.was[f] = text'[f]
    BY <2>1, <2>2, <2>3, <2>4, <2>5
  <2>7. QED
    BY <2>6 DEF CurrentIn, new
<1>7. QED
  BY <1>4, <1>6 DEF Current

LEMMA PostCurrent ==
  ASSUME EventAlone, EventPeople, Held, NEW w \in EventWorkers, Event!Post(w)
  PROVE  Current' /\ Apart'
<1> DEFINE r == job[w].row
           rows == Append(requests, r)
           id == Len(requests) + 1
<1>1. /\ r \in Event!Row /\ rows[id] = r /\ id \in DOMAIN rows
      /\ DOMAIN rows = DOMAIN requests \cup {id} /\ id \notin DOMAIN requests
      /\ \A k \in DOMAIN requests : rows[k] = requests[k]
      /\ UNCHANGED setting
      /\ \/ job[w].direct /\ Executed(rows, id)
         \/ ~ job[w].direct /\ requests' = rows /\ UNCHANGED Event!content
  BY PostDoes DEF Held
<1>2. Posting(job[w])
  BY DEF Event!Post, Held, ReadsHold, Reads
<1>3. /\ r.from = phase /\ \A f \in r.change : r.was[f] = text[f]
      /\ r.status = IF job[w].direct THEN "approved" ELSE "open"
      /\ r.about # "update" => (job[w].direct <=> Event!OrganizerControlled)
      /\ r.about = "edit" /\ ~ job[w].direct => ~ Event!Overlaps(r.change)
      /\ r.about \in {"phase", "edit", "update"}
  BY <1>1, <1>2, RowFields DEF Posting
<1>4. Event!Ids = DOMAIN requests
  BY Lengths DEF Held, Typed
<1> HIDE DEF r, rows, id
<1>5. CASE job[w].direct /\ Executed(rows, id)
  <2>1. r.about = "edit" => Event!OrganizerControlled
    BY <1>3, <1>5
  <2>2. r.about = "edit" => \A k \in Event!Ids : Event!Open(k) => requests[k].about = "update"
    BY <2>1 DEF Held, Current, CurrentIn
  <2>3. QED
    BY <1>1, <1>3, <1>4, <1>5, <2>2, ExecutedCurrent DEF Held
<1>6. CASE ~ job[w].direct /\ requests' = rows /\ UNCHANGED Event!content
  <2>1. phase' = phase /\ text' = text /\ (Event!OrganizerControlled' <=> Event!OrganizerControlled)
    BY <1>1, <1>6 DEF Event!content, Event!OrganizerControlled
  <2>2. Event!Ids' = DOMAIN rows
    <3>1. Typed'
      BY PostTyped DEF Held
    <3>2. QED
      BY <1>6, <3>1 DEF Event!Ids, Typed, Event!TypeOK
  <2>3. \A k \in Event!Ids' : (k \in Event!Ids /\ requests'[k] = requests[k]) \/ (k = id /\ requests'[k] = r)
    BY <1>1, <1>4, <1>6, <2>2
  <2>4. CurrentIn(r, phase', text', Event!OrganizerControlled')
    BY <1>3, <1>6, <2>1 DEF CurrentIn
  <2>5. ASSUME NEW k \in Event!Ids,
               Event!Open(k) PROVE CurrentIn(requests[k], phase', text', Event!OrganizerControlled')
    <3>1. CurrentIn(requests[k], phase, text, Event!OrganizerControlled)
      BY <2>5 DEF Held, Current
    <3> DEFINE old == requests[k]
    <3>2. /\ old.about = "phase" => old.from = phase'
          /\ Event!OrganizerControlled' => old.about = "update"
          /\ old.about = "edit" => \A f \in old.change : old.was[f] = text'[f]
      BY <2>1, <3>1 DEF CurrentIn
    <3>3. requests'[k] = requests[k]
      BY <1>1, <1>4, <1>6
    <3>4. QED
      BY <3>2, <3>3 DEF CurrentIn
  <2>6. Current'
    <3> SUFFICES ASSUME NEW k \in Event!Ids',
                        Event!Open(k)' PROVE CurrentIn(requests'[k], phase', text', Event!OrganizerControlled')
      BY DEF Current
    <3>1. CASE k \in Event!Ids /\ requests'[k] = requests[k]
      BY <2>5, <3>1 DEF Event!Open, CurrentIn
    <3>2. CASE k = id /\ requests'[k] = r
      <4>1. /\ r.about = "phase" => r.from = phase'
            /\ Event!OrganizerControlled' => r.about = "update"
            /\ r.about = "edit" => \A f \in r.change : r.was[f] = text'[f]
        BY <1>3, <1>6, <2>1
      <4>2. QED
        BY <3>2, <4>1 DEF CurrentIn
    <3>3. QED
      BY <2>3, <3>1, <3>2
  <2>7. \A k \in Event!Ids : Event!Open(k) /\ requests[k].about = "edit" /\ r.about = "edit" =>
          requests[k].change \cap r.change = {}
    BY <1>3, <1>6 DEF Event!Overlaps
  <2>8. Apart'
    <3> SUFFICES ASSUME NEW i \in Event!Ids', NEW k \in Event!Ids', i # k, Event!Open(i)',
                        Event!Open(k)',
                        requests'[i].about = "edit", requests'[k].about = "edit"
                 PROVE  requests'[i].change \cap requests'[k].change = {}
      BY DEF Apart
    <3>1. /\ i \in Event!Ids /\ requests'[i] = requests[i] => Event!Open(i)
          /\ k \in Event!Ids /\ requests'[k] = requests[k] => Event!Open(k)
      BY DEF Event!Open
    <3>2. CASE i \in Event!Ids /\ requests'[i] = requests[i] /\ k \in Event!Ids /\ requests'[k] = requests[k]
      BY <3>1, <3>2 DEF Held, Apart
    <3>3. CASE i = id /\ requests'[i] = r /\ k \in Event!Ids /\ requests'[k] = requests[k]
      BY <2>7, <3>1, <3>3
    <3>4. CASE k = id /\ requests'[k] = r /\ i \in Event!Ids /\ requests'[i] = requests[i]
      BY <2>7, <3>1, <3>4
    <3>5. QED
      BY <2>3, <3>2, <3>3, <3>4
  <2>9. QED
    BY <2>6, <2>8
<1>7. QED
  BY <1>1, <1>5, <1>6

(* The facts of a vote's commit, one request at a time.                    *)
LEMMA VoteFacts ==
  ASSUME EventPeople, Held, NEW w \in EventWorkers, Event!CommitVote(w)
  PROVE  \E j \in Event!VoteJob :
           LET row == requests[j.id]
           IN  /\ j.id \in Event!Ids /\ j.id \in DOMAIN requests /\ row \in Event!Row /\ Event!Open(j.id)
               /\ UNCHANGED setting
               /\ job' = [job EXCEPT ![w] = Event!Idle]
               /\ \/ /\ Executed(Voted(j, "approved"), j.id)
                     /\ \E n \in Event!WeeklyActive :
                          Event!Decide(Ballot(j), Event!Weight, n) = "approved" /\ Event!GateAtApproval(row, n)
                  \/ \E s \in {"rejected", "open"} : requests' = Voted(j, s) /\ UNCHANGED Event!content
<1>1. PICK j : j = job[w]
  OBVIOUS
<1>2. /\ j \in Event!VoteJob /\ j.id \in DOMAIN requests
      /\ UNCHANGED setting
      /\ job' = [job EXCEPT ![w] = Event!Idle]
      /\ \/ /\ Executed(Voted(j, "approved"), j.id)
            /\ \E n \in Event!WeeklyActive :
                 Event!Decide(Ballot(j), Event!Weight, n) = "approved" /\ Event!GateAtApproval(requests[j.id], n)
         \/ requests' = Voted(j, "rejected") /\ UNCHANGED Event!content
         \/ requests' = Voted(j, requests[j.id].status) /\ UNCHANGED Event!content
  BY <1>1, VoteDoes DEF Held
<1>3. Event!Open(j.id)
  BY <1>1 DEF Event!CommitVote, Held, ReadsHold, Reads
<1>4. j.id \in Event!Ids /\ requests[j.id] \in Event!Row
  BY <1>2, Lengths DEF Held, Typed, Event!TypeOK
<1>5. requests[j.id].status = "open"
  BY <1>3 DEF Event!Open
<1>6. QED
  BY <1>2, <1>3, <1>4, <1>5

LEMMA VoteCurrent ==
  ASSUME EventPeople, Held, NEW w \in EventWorkers, Event!CommitVote(w)
  PROVE  Current' /\ Apart'
<1>1. PICK j \in Event!VoteJob :
        /\ j.id \in Event!Ids /\ j.id \in DOMAIN requests /\ requests[j.id] \in Event!Row /\ Event!Open(j.id)
        /\ UNCHANGED setting
        /\ \/ Executed(Voted(j, "approved"), j.id)
           \/ \E s \in {"rejected", "open"} : requests' = Voted(j, s) /\ UNCHANGED Event!content
  BY VoteFacts
<1>2. Event!Ids = DOMAIN requests
  BY Lengths DEF Held, Typed
<1>3. \A s \in {"approved", "rejected", "open"} :
        LET rows == Voted(j, s)
        IN  /\ rows \in Seq(Event!Row) /\ DOMAIN rows = DOMAIN requests /\ Len(rows) = Len(requests)
            /\ \A k \in DOMAIN requests \ {j.id} : rows[k] = requests[k]
            /\ rows[j.id].status = s
            /\ rows[j.id].about = requests[j.id].about /\ rows[j.id].from = requests[j.id].from
            /\ rows[j.id].change = requests[j.id].change /\ rows[j.id].was = requests[j.id].was
  <2>1. {"approved", "rejected", "open"} \subseteq Event!Statuses
    BY DEF Event!Statuses
  <2>2. QED
    BY <1>1, <2>1, VotedRows DEF Held
<1>4. requests[j.id].about \in {"phase", "edit", "update"}
  BY <1>1, RowFields
<1>5. CASE Executed(Voted(j, "approved"), j.id)
  <2> DEFINE rows == Voted(j, "approved")
  <2>1. /\ j.id \in DOMAIN rows /\ rows[j.id].status = "approved"
        /\ \A k \in DOMAIN rows : k # j.id => k \in Event!Ids /\ rows[k] = requests[k]
        /\ rows[j.id].about = requests[j.id].about /\ rows[j.id].change = requests[j.id].change
    BY <1>1, <1>2, <1>3
  <2> HIDE DEF rows
  <2>2. rows[j.id].about = "edit" => \A k \in Event!Ids :
          k # j.id /\ Event!Open(k) /\ requests[k].about = "edit" => requests[k].change \cap rows[j.id].change = {}
    BY <1>1, <2>1 DEF Held, Apart
  <2>3. Executed(rows, j.id)
    BY <1>5 DEF rows
  <2>4. QED
    BY <1>1, <1>4, <2>1, <2>2, <2>3, ExecutedCurrent DEF Held
<1>6. ASSUME NEW s \in {"rejected", "open"}, requests' = Voted(j, s), UNCHANGED Event!content
      PROVE  Current' /\ Apart'
  <2>1. /\ DOMAIN requests' = DOMAIN requests /\ Len(requests') = Len(requests)
        /\ \A k \in DOMAIN requests :
             /\ requests'[k].status = "open" => requests[k].status = "open"
             /\ requests'[k].about = requests[k].about /\ requests'[k].from = requests[k].from
             /\ requests'[k].change = requests[k].change /\ requests'[k].was = requests[k].was
    BY <1>1, <1>3, <1>6 DEF Event!Open
  <2>2. Event!Ids' = Event!Ids /\ phase' = phase /\ text' = text /\ (Event!OrganizerControlled' <=> Event!OrganizerControlled)
    BY <1>1, <1>6, <2>1 DEF Event!Ids, Event!content, Event!OrganizerControlled
  <2>3. Current'
    BY <1>2, <2>1, <2>2 DEF Held, Current, CurrentIn, Event!Open
  <2>4. Apart'
    BY <1>2, <2>1, <2>2 DEF Held, Apart, Event!Open
  <2>5. QED
    BY <2>3, <2>4
<1>7. QED
  BY <1>1, <1>5, <1>6

LEMMA CalmCurrent ==
  ASSUME Held, Calm
  PROVE  Current' /\ Apart'
  BY DEF Held, Calm, Event!content, Current, Apart, Event!Ids, Event!Open,
     Event!OrganizerControlled

LEMMA KeepsHeld ==
  ASSUME EventAlone, EventPeople, Held, [Event!Next]_(Event!vars)
  PROVE  Held'
<1>1. Typed'
  BY KeepsTyped DEF Held
<1>2. ASSUME UNCHANGED Event!people PROVE Event!CountIsExact'
  BY <1>2 DEF Event!people, Held, Event!CountIsExact
<1>3. ASSUME NEW w \in EventWorkers, Event!Start(w) PROVE Held'
  BY <1>1, <1>2, <1>3, StartJobs, StartReads, CalmCurrent DEF Held
<1>4. ASSUME NEW w \in EventWorkers, Event!Continue(w) PROVE Held'
  BY <1>1, <1>2, <1>4, ContinueJobs, ContinueReads, CalmCurrent DEF Held
<1>5. ASSUME NEW w \in EventWorkers, Event!Post(w) PROVE Held'
  <2>1. UNCHANGED Event!people
    BY <1>5, PostDoes DEF Held
  <2>2. ReadsHold'
    <3> DEFINE pj == [op |-> "proposer", user |-> job[w].row.author, id |-> Len(requests) + 1,
                      ballot |-> "yes"]
    <3>1. job' = [job EXCEPT ![w] = Event!Idle] \/ job' = [job EXCEPT ![w] = pj]
      BY <1>5, PostDoes DEF Held
    <3>2. pj.op = "proposer" /\ Event!Idle.op = "idle"
      BY DEF Event!Idle
    <3> HIDE DEF pj
    <3>3. QED
      BY <3>1, <3>2, IdleReads DEF Held, Typed
  <2>3. QED
    BY <1>1, <1>2, <1>5, <2>1, <2>2, PostCurrent DEF Held
<1>6. ASSUME NEW w \in EventWorkers, Event!CommitVote(w) PROVE Held'
  <2>1. UNCHANGED Event!people /\ job' = [job EXCEPT ![w] = Event!Idle]
    BY <1>6 DEF Event!CommitVote
  <2>2. ReadsHold'
    BY <2>1, IdleReads DEF Held, Typed, Event!Idle
  <2>3. QED
    BY <1>1, <1>2, <1>6, <2>1, <2>2, VoteCurrent DEF Held
<1>7. ASSUME NEW w \in EventWorkers, Event!ChangePeople(w) PROVE Held'
  <2>1. Calm /\ \E j \in Event!Jobs : j.op \in {"idle", "appoint"} /\ job' = [job EXCEPT ![w] = j]
    BY <1>7, PeopleJobs DEF Held
  <2>2. ReadsHold'
    BY <2>1, IdleReads DEF Held, Typed
  <2>3. QED
    BY <1>1, <1>7, <2>1, <2>2, CalmCurrent, PeopleCounted DEF Held
<1>8. ASSUME Calm, UNCHANGED <<members, count, job>> PROVE Held'
  <2>1. ReadsHold'
    BY <1>8 DEF Calm, Event!content, Held, ReadsHold, Reads, Posting, Event!OrganizerControlled,
       Event!Overlaps, Event!Open, Event!Ids
  <2>2. Event!CountIsExact'
    BY <1>8 DEF Held, Event!CountIsExact
  <2>3. QED
    BY <1>1, <1>8, <2>1, <2>2, CalmCurrent DEF Held
<1>9. ASSUME \/ \E u \in EventUsers, other \in Promotable : Event!Revoke(u, other)
             \/ \E u \in Signalers, signal \in {"demand", "opposition"} : Event!ToggleSignal(u, signal)
             \/ UNCHANGED Event!vars
      PROVE  Held'
  BY <1>8, <1>9 DEF Event!Revoke, Event!ToggleSignal, Event!vars, Calm, Event!content,
     Event!people
<1>10. QED
  BY <1>3, <1>4, <1>5, <1>6, <1>7, <1>9 DEF Event!Next

(* A step that changes the phase or the text, or approves a request.       *)
LEMMA Changing ==
  ASSUME EventAlone, EventPeople, Held, [Event!Next]_(Event!vars)
  PROVE  \/ UNCHANGED <<phase, text, requests>>
         \/ \E w \in EventWorkers : Event!Post(w)
         \/ \E w \in EventWorkers : Event!CommitVote(w)
<1>1. ASSUME NEW w \in EventWorkers,
             Event!Start(w) \/ Event!Continue(w) \/ Event!ChangePeople(w)
      PROVE  UNCHANGED <<phase, text, requests>>
  BY <1>1, StartJobs, ContinueJobs, PeopleJobs DEF Calm, Event!content, Held
<1>2. ASSUME \/ \E u \in EventUsers, other \in Promotable : Event!Revoke(u, other)
             \/ \E u \in Signalers, signal \in {"demand", "opposition"} : Event!ToggleSignal(u, signal)
             \/ UNCHANGED Event!vars
      PROVE  UNCHANGED <<phase, text, requests>>
  BY <1>2 DEF Event!Revoke, Event!ToggleSignal, Event!vars, Event!content
<1>3. QED
  BY <1>1, <1>2 DEF Event!Next

LEMMA EventBegins ==
  ASSUME EventPeople, Event!Init
  PROVE  Held
<1>1. Cardinality({Creator}) = 1
  BY FS_Singleton
<1>2. requests = <<>> /\ Event!Ids = {} /\ Len(requests) = 0
  BY DEF Event!Init, Event!Ids
<1>3. Typed
  BY <1>2 DEF Event!Init, Typed, Event!TypeOK, Event!Phases, EventPeople, NamesExist, Named,
     Event!Idle, Event!Jobs
<1>4. ReadsHold
  BY DEF Event!Init, ReadsHold, Reads, Event!Idle
<1>5. QED
  BY <1>1, <1>2, <1>3, <1>4, EventCount DEF Held, Current, Apart, Event!CountIsExact, Event!Init

LEMMA HeldAlways ==
  ASSUME EventAlone, EventPeople
  PROVE  Event!Spec => []Held
<1>1. Event!Init => Held
  BY EventBegins
<1>2. Held /\ [Event!Next]_(Event!vars) => Held'
  BY KeepsHeld
<1>3. QED
  BY <1>1, <1>2, PTL DEF Event!Spec

(* An event's types are right, however its requests overlap.               *)
THEOREM EventTypes ==
  ASSUME EventPeople
  PROVE  Event!Spec => []Event!TypeOK
<1>1. Event!Init => Typed
  BY EventBegins DEF Held
<1>2. Typed /\ [Event!Next]_(Event!vars) => Typed'
  BY KeepsTyped
<1>3. Typed => Event!TypeOK
  BY DEF Typed
<1>4. QED
  BY <1>1, <1>2, <1>3, PTL DEF Event!Spec

(* One request at a time, an event's phase changes are voted on only from  *)
(* the phase it is in, organizers are never outvoted, and members are      *)
(* counted (events/phases/phase_requests.py:72 and 304-312,                *)
(* edit_requests.py:47, events/actions.py:96-113).                         *)
THEOREM EventVotesCurrent ==
  ASSUME EventAlone, EventPeople
  PROVE  Event!Spec => []EventVotesAreCurrent
<1>1. Held => EventVotesAreCurrent
  BY DEF Held, Current, CurrentIn, EventVotesAreCurrent, Event!OpenVotesAreCurrent,
     Event!NoVoteUnderOrganizers
<1>2. QED
  BY <1>1, HeldAlways, PTL

LEMMA PostUndoesNothing ==
  ASSUME EventAlone, EventPeople, Held, NEW w \in EventWorkers, Event!Post(w),
         NEW i \in DOMAIN requests', Event!BecomesApproved(i), requests'[i].about = "edit",
         NEW f \in requests'[i].change
  PROVE  text[f] = requests'[i].was[f]
<1> DEFINE r == job[w].row
           rows == Append(requests, r)
           id == Len(requests) + 1
<1>1. /\ rows[id] = r /\ id \in DOMAIN rows
      /\ DOMAIN rows = DOMAIN requests \cup {id} /\ id \notin DOMAIN requests
      /\ \A k \in DOMAIN requests : rows[k] = requests[k]
      /\ \/ Executed(rows, id)
         \/ requests' = rows
  BY PostDoes DEF Held
<1>2. \A g \in r.change : r.was[g] = text[g]
  BY DEF Event!Post, Held, ReadsHold, Reads, Posting
<1>3. Event!Ids = DOMAIN requests
  BY Lengths DEF Held, Typed
<1> HIDE DEF r, rows, id
<1>4. i \in DOMAIN rows
  BY <1>1 DEF Executed
<1>5. i \in DOMAIN requests => requests[i].status # "approved" /\ requests'[i].status = "approved"
  BY <1>3 DEF Event!BecomesApproved
<1>6. i \notin DOMAIN requests
  <2>1. CASE Executed(rows, id)
    BY <1>1, <1>4, <1>5, <2>1 DEF Executed, Kept
  <2>2. CASE requests' = rows
    BY <1>1, <1>4, <1>5, <2>2
  <2>3. QED
    BY <1>1, <2>1, <2>2
<1>7. requests'[i] = r
  BY <1>1, <1>4, <1>6 DEF Executed
<1>8. QED
  BY <1>2, <1>7

LEMMA VoteUndoesNothing ==
  ASSUME EventAlone, EventPeople, Held, NEW w \in EventWorkers, Event!CommitVote(w),
         NEW i \in DOMAIN requests', Event!BecomesApproved(i)
  PROVE  /\ i \in Event!Ids
         /\ requests'[i].about = "edit" =>
              \A f \in requests'[i].change : text[f] = requests'[i].was[f]
<1>1. PICK j \in Event!VoteJob :
        /\ j.id \in Event!Ids /\ j.id \in DOMAIN requests /\ Event!Open(j.id)
        /\ \/ Executed(Voted(j, "approved"), j.id)
           \/ \E s \in {"rejected", "open"} : requests' = Voted(j, s) /\ UNCHANGED Event!content
  BY VoteFacts
<1>2. \A s \in {"approved", "rejected", "open"} :
        LET rows == Voted(j, s)
        IN  /\ DOMAIN rows = DOMAIN requests
            /\ \A k \in DOMAIN requests \ {j.id} : rows[k] = requests[k]
            /\ rows[j.id].status = s
            /\ rows[j.id].about = requests[j.id].about
            /\ rows[j.id].change = requests[j.id].change /\ rows[j.id].was = requests[j.id].was
  <2>1. {"approved", "rejected", "open"} \subseteq Event!Statuses
    BY DEF Event!Statuses
  <2>2. QED
    BY <1>1, <2>1, VotedRows DEF Held
<1>3. Event!Ids = DOMAIN requests
  BY Lengths DEF Held, Typed
<1>4. i \in DOMAIN requests
  BY <1>1, <1>2 DEF Executed
<1>5. requests'[i].status = "approved" /\ requests[i].status # "approved"
  BY <1>3, <1>4 DEF Event!BecomesApproved
<1>6. CASE Executed(Voted(j, "approved"), j.id)
  <2> DEFINE rows == Voted(j, "approved")
  <2>1. /\ DOMAIN rows = DOMAIN requests
        /\ \A k \in DOMAIN requests \ {j.id} : rows[k] = requests[k]
        /\ rows[j.id].about = requests[j.id].about
        /\ rows[j.id].change = requests[j.id].change /\ rows[j.id].was = requests[j.id].was
    BY <1>2
  <2> HIDE DEF rows
  <2>2. Executed(rows, j.id)
    BY <1>6 DEF rows
  <2>3. i = j.id
    BY <1>4, <1>5, <2>1, <2>2 DEF Executed, Kept
  <2>4. requests'[i] = rows[i]
    BY <2>2, <2>3 DEF Executed
  <2>5. requests[i].about = "edit" => \A f \in requests[i].change : requests[i].was[f] = text[f]
    BY <1>1, <2>3 DEF Held, Current, CurrentIn
  <2>6. QED
    BY <1>3, <1>4, <2>1, <2>3, <2>4, <2>5
<1>7. ASSUME NEW s \in {"rejected", "open"}, requests' = Voted(j, s)
      PROVE  FALSE
  BY <1>2, <1>4, <1>5, <1>7
<1>8. QED
  BY <1>1, <1>6, <1>7

(* One request at a time, an edit of an event that passes or is decided by *)
(* an organizer undoes no other (events/phases/edit_requests.py:57-64).    *)
LEMMA EditsUndoNothing ==
  ASSUME EventAlone, EventPeople
  PROVE  Event!Spec => Event!EditsNeverUndo
<1>1. Held /\ [Event!Next]_(Event!vars) =>
        [\A i \in DOMAIN requests' :
           Event!BecomesApproved(i) /\ requests'[i].about = "edit" =>
             \A f \in requests'[i].change : text[f] = requests'[i].was[f]]_(Event!vars)
  <2> SUFFICES ASSUME Held, [Event!Next]_(Event!vars), NEW i \in DOMAIN requests',
                      Event!BecomesApproved(i),
                      requests'[i].about = "edit", NEW f \in requests'[i].change
               PROVE  text[f] = requests'[i].was[f]
    OBVIOUS
  <2>1. ASSUME UNCHANGED requests PROVE FALSE
    <3>1. i \in Event!Ids /\ requests'[i] = requests[i]
      BY <2>1, Lengths DEF Held, Typed
    <3>2. QED
      BY <3>1 DEF Event!BecomesApproved
  <2>2. QED
    BY <2>1, Changing, PostUndoesNothing, VoteUndoesNothing
<1>2. QED
  BY <1>1, HeldAlways, PTL DEF Event!Spec, Event!EditsNeverUndo

(* In an event its members govern, a post changes neither phase nor text.  *)
LEMMA PostChangesNothing ==
  ASSUME EventPeople, Held, NEW w \in EventWorkers, Event!Post(w), ~ Event!OrganizerControlled
  PROVE  UNCHANGED <<phase, text>>
<1> DEFINE r == job[w].row
           rows == Append(requests, r)
           id == Len(requests) + 1
<1>1. /\ rows[id] = r
      /\ \/ job[w].direct /\ Executed(rows, id)
         \/ UNCHANGED Event!content
  BY PostDoes DEF Held
<1>2. r.about # "update" => (job[w].direct <=> Event!OrganizerControlled)
  BY DEF Event!Post, Held, ReadsHold, Reads, Posting
<1> HIDE DEF r, rows, id
<1>3. QED
  BY <1>1, <1>2 DEF Executed, Event!content

(* A vote that changes them approves one request, on ballots that carry    *)
(* it; one that opens the planning finds the signals in favour.            *)
LEMMA VoteChangesByApproval ==
  ASSUME EventPeople, Held, NEW w \in EventWorkers, Event!CommitVote(w), <<phase,
         text>>' # <<phase, text>>
  PROVE  \E i \in Event!Ids :
           /\ Event!BecomesApproved(i) /\ Event!Carried(requests'[i])
           /\ phase = 1 /\ phase' \in {2, 3} => Event!Supported
<1>1. PICK j \in Event!VoteJob :
        /\ j.id \in Event!Ids /\ j.id \in DOMAIN requests /\ requests[j.id] \in Event!Row /\ Event!Open(j.id)
        /\ \/ /\ Executed(Voted(j, "approved"), j.id)
              /\ \E n \in Event!WeeklyActive :
                   Event!Decide(Ballot(j), Event!Weight, n) = "approved" /\ Event!GateAtApproval(requests[j.id], n)
           \/ UNCHANGED Event!content
  BY VoteFacts
<1>2. Executed(Voted(j, "approved"), j.id)
  BY <1>1 DEF Event!content
<1>3. PICK n \in Event!WeeklyActive :
        Event!Decide(Ballot(j), Event!Weight, n) = "approved" /\ Event!GateAtApproval(requests[j.id], n)
  BY <1>1 DEF Event!content
<1> DEFINE rows == Voted(j, "approved")
           row  == requests[j.id]
<1>4. /\ rows[j.id].votes = Ballot(j) /\ rows[j.id].status = "approved"
      /\ rows[j.id].about = row.about /\ rows[j.id].target = row.target
  <2>1. "approved" \in Event!Statuses
    BY DEF Event!Statuses
  <2>2. QED
    BY <1>1, <2>1, VotedRows DEF Held
<1> HIDE DEF rows
<1>5. Executed(rows, j.id)
  BY <1>2 DEF rows
<1>6. requests'[j.id] = rows[j.id]
  BY <1>5 DEF Executed
<1>7. Event!BecomesApproved(j.id)
  BY <1>1, <1>4, <1>6 DEF Event!BecomesApproved, Event!Open
<1>8. Event!Carried(requests'[j.id])
  <2>1. Event!IsPassing(Ballot(j), Event!Weight, n)
    BY <1>3 DEF Event!Decide, Event!Outcome, Event!IsPassing
  <2>2. QED
    BY <1>4, <1>6, <2>1 DEF Event!Carried
<1>9. ASSUME phase = 1, phase' \in {2, 3} PROVE Event!Supported
  <2>1. rows[j.id].about = "phase" /\ phase' = row.target
    <3>1. row.about \in {"phase", "edit", "update"}
      BY <1>1, RowFields
    <3>2. phase' # phase
      BY <1>9
    <3>3. QED
      BY <1>4, <1>5, <3>1, <3>2 DEF Executed
  <2>2. row.from = 1
    BY <1>1, <1>4, <1>9, <2>1 DEF Held, Current, CurrentIn
  <2>3. Event!ChangeKind(row.target, row.from) = "advance"
    BY <1>9, <2>1, <2>2 DEF Event!ChangeKind
  <2>4. QED
    BY <1>3, <1>4, <2>1, <2>2, <2>3 DEF Event!GateAtApproval, Event!SignalGate, Event!Unlocked
<1>10. QED
  BY <1>1, <1>7, <1>8, <1>9

LEMMA ChangesByApproval ==
  ASSUME EventAlone, EventPeople, Held, [Event!Next]_(Event!vars), ~ Event!OrganizerControlled,
         <<phase, text>>' # <<phase, text>>
  PROVE  \E i \in Event!Ids :
           /\ Event!BecomesApproved(i) /\ Event!Carried(requests'[i])
           /\ phase = 1 /\ phase' \in {2, 3} => Event!Supported
  BY Changing, PostChangesNothing, VoteChangesByApproval

(* One request at a time, an event its members govern goes from proposal   *)
(* to planning only while the signals support it, even when they turned    *)
(* after the vote was opened (events/phases/gates.py:103-121).             *)
LEMMA SupportOpens ==
  ASSUME EventAlone, EventPeople
  PROVE  Event!Spec => Event!SupportOpensPlanning
<1>1. Held /\ [Event!Next]_(Event!vars) =>
        [~ Event!OrganizerControlled /\ phase = 1 /\ phase' \in {2, 3} => Event!Supported]_(Event!vars)
  <2> SUFFICES ASSUME Held, [Event!Next]_(Event!vars), ~ Event!OrganizerControlled, phase = 1,
                      phase' \in {2, 3}
               PROVE  Event!Supported
    OBVIOUS
  <2>1. <<phase, text>>' # <<phase, text>>
    OBVIOUS
  <2>2. QED
    BY <2>1, ChangesByApproval
<1>2. QED
  BY <1>1, HeldAlways, PTL DEF Event!Spec, Event!SupportOpensPlanning

(* One request at a time, what such an event says and its phase change     *)
(* only with the approval of one request, on ballots that carry it among   *)
(* the members the event has then (phase_requests.py:286-312,              *)
(* edit_requests.py).                                                      *)
LEMMA ChangesCarried ==
  ASSUME EventAlone, EventPeople
  PROVE  Event!Spec => Event!ChangesAreCarried
<1>1. Held /\ [Event!Next]_(Event!vars) =>
        [~ Event!OrganizerControlled /\ <<phase, text>>' # <<phase, text>> =>
           \E i \in Event!Ids : Event!BecomesApproved(i) /\ Event!Carried(requests'[i])]_(Event!vars)
  <2> SUFFICES ASSUME Held, [Event!Next]_(Event!vars), ~ Event!OrganizerControlled, <<phase,
                      text>>' # <<phase, text>>
               PROVE  \E i \in Event!Ids : Event!BecomesApproved(i) /\ Event!Carried(requests'[i])
    OBVIOUS
  <2>1. QED
    BY ChangesByApproval
<1>2. QED
  BY <1>1, HeldAlways, PTL DEF Event!Spec, Event!ChangesAreCarried

(* One request at a time, an event changes only by ballots that carry the  *)
(* change and the support it needs, and an edit that passes undoes no      *)
(* other (events/phases/edit_requests.py:57-64, gates.py:103-121).         *)
THEOREM EventChangesCarried ==
  ASSUME EventAlone, EventPeople
  PROVE  Event!Spec => EventChangesAreCarried
  BY ChangesCarried, EditsUndoNothing, SupportOpens DEF EventChangesAreCarried

-----------------------------------------------------------------------------
(* Links.  One request at a time, what a vote has read and tallied is      *)
(* still so when it commits (Found), so that a link is made for each       *)
(* request that is approved and for no other, and none is severed without  *)
(* one (Follow).                                                           *)
LinksAlone == \A v, w \in LinkWorkers : v = w
LinkPeople ==
  /\ IsFiniteSet(LinkUsers)
  /\ LinkMembers \in [Linked!Sides -> SUBSET LinkUsers]
  /\ LinkScheme \in {"detail", "project"}

LEMMA LinkCount == \A S : Linked!Cardinality(S) = Cardinality(S)
  BY DEF Linked!Cardinality, Cardinality

(* What is in the tables, and what a job names is there; only members have *)
(* ballots.                                                                *)
Request == [type : Linked!Types, link : Nat, status : Linked!Outcomes,
            votes : [Linked!Sides -> [LinkUsers -> Linked!Ballots]]]
Link == [request : Nat, active : BOOLEAN]
LinkVote == [op : {"read", "tallied"}, id : Nat, side : Linked!Sides, user : LinkUsers, vote : Linked!VoteValues,
            found : Linked!Ballots]
Rows ==
  /\ linkRequests \in Seq(Request)
  /\ links \in Seq(Link)
  /\ \A r \in DOMAIN linkRequests :
       /\ linkRequests[r].type = "sever" => linkRequests[r].link \in DOMAIN links
       /\ \A s \in Linked!Sides, u \in LinkUsers : linkRequests[r].votes[s][u] # "none" => u \in LinkMembers[s]

(* One request at a time, what a vote has read and tallied still is so.    *)
Reading(j) ==
  /\ j.op \in {"read", "tallied"}
  /\ j.id \in DOMAIN linkRequests /\ linkRequests[j.id].status = "open"
  /\ j.side \in Linked!Sides /\ j.user \in LinkMembers[j.side] /\ j.vote \in Linked!VoteValues
  /\ j.found = linkRequests[j.id].votes[j.side][j.user]
Holds(j) ==
  \/ j = Linked!Idle
  \/ /\ Reading(j)
     /\ j.op = "tallied" => j.outcome = Linked!Tallied(Linked!Cast(j), Linked!Population)
LinkJobs == DOMAIN linkJob = LinkWorkers /\ \A w \in LinkWorkers : Holds(linkJob[w])

Found == Rows /\ LinkJobs

LEMMA OneLinkJob ==
  ASSUME LinksAlone, NEW w \in LinkWorkers, NEW j, linkJob' = [linkJob EXCEPT ![w] = j],
         DOMAIN linkJob = LinkWorkers
  PROVE  DOMAIN linkJob' = LinkWorkers /\ \A v \in LinkWorkers : linkJob'[v] = j
  BY DEF LinksAlone

LEMMA TallyOutcome ==
  ASSUME NEW v, NEW n
  PROVE  /\ Linked!Tallied(v, n) \in Linked!Outcomes
         /\ Linked!Tallied(v, n) = "rejected" => LinkScheme = "detail"
  BY DEF Linked!Tallied, Linked!DetailOutcome, Linked!ProjectOutcome, Linked!Outcomes

(* The ballots a vote writes: its own changed, the others as they were.    *)
LEMMA CastIs ==
  ASSUME LinkPeople, Rows, NEW j, Reading(j)
  PROVE  /\ Linked!Cast(j) \in [Linked!Sides -> [LinkUsers -> Linked!Ballots]]
         /\ \A s \in Linked!Sides, u \in LinkUsers : Linked!Cast(j)[s][u] # "none" => u \in LinkMembers[s]
<1>1. j.id \in DOMAIN linkRequests /\ j.side \in Linked!Sides /\ j.user \in LinkUsers /\ j.user \in LinkMembers[j.side]
  BY DEF Reading, LinkPeople
<1> DEFINE v == linkRequests[j.id].votes
<1>2. v \in [Linked!Sides -> [LinkUsers -> Linked!Ballots]]
  <2>1. linkRequests[j.id] \in Request
    BY <1>1 DEF Rows
  <2>2. QED
    BY <2>1 DEF Request
<1>3. \A s \in Linked!Sides, u \in LinkUsers : v[s][u] # "none" => u \in LinkMembers[s]
  BY <1>1 DEF Rows
<1>4. Linked!Recorded(j.found, v[j.side][j.user], j.vote) \in Linked!Ballots
  BY <1>1, <1>2 DEF Reading, Linked!Recorded, Linked!Ballots, Linked!VoteValues
<1>5. Linked!Cast(j) = [v EXCEPT ![j.side][j.user] = Linked!Recorded(j.found, @, j.vote)]
  BY DEF Linked!Cast
<1> HIDE DEF v
<1>6. QED
  BY <1>1, <1>2, <1>3, <1>4, <1>5

-----------------------------------------------------------------------------
(* A new request.                                                          *)
LEMMA AskedRows ==
  ASSUME LinkPeople, Rows, NEW type \in Linked!Types, NEW link \in Nat, Linked!Ask(type, link),
         type = "sever" => link \in DOMAIN links
  PROVE  /\ Rows'
         /\ \E row : /\ linkRequests' = Append(linkRequests, row) /\ row.type = type /\ row.link = link
                     /\ row.status = "open" /\ row \in Request
<1> DEFINE row == [type |-> type, link |-> link, status |-> "open", votes |-> Linked!NoBallots]
<1>1. row \in Request
  BY DEF Request, Linked!Outcomes, Linked!NoBallots, Linked!Ballots
<1>2. linkRequests' = Append(linkRequests, row) /\ links' = links
  BY DEF Linked!Ask
<1>3. row.type = type /\ row.link = link /\ row.status = "open" /\ row.votes = Linked!NoBallots
  OBVIOUS
<1>4. \A s \in Linked!Sides, u \in LinkUsers : Linked!NoBallots[s][u] = "none"
  BY DEF Linked!NoBallots
<1> HIDE DEF row
<1>5. \A r \in DOMAIN linkRequests' :
        \/ r \in DOMAIN linkRequests /\ linkRequests'[r] = linkRequests[r]
        \/ r = Len(linkRequests) + 1 /\ linkRequests'[r] = row
  BY <1>1, <1>2 DEF Rows
<1>6. linkRequests' \in Seq(Request)
  BY <1>1, <1>2 DEF Rows
<1>7. ASSUME NEW r \in DOMAIN linkRequests'
      PROVE  /\ linkRequests'[r].type = "sever" => linkRequests'[r].link \in DOMAIN links'
             /\ \A s \in Linked!Sides, u \in LinkUsers : linkRequests'[r].votes[s][u] # "none" => u \in LinkMembers[s]
  BY <1>2, <1>3, <1>4, <1>5 DEF Rows
<1>8. Rows'
  BY <1>2, <1>6, <1>7 DEF Rows
<1>9. QED
  BY <1>1, <1>2, <1>3, <1>8

(* What a commit writes, one request at a time.                            *)
LEMMA Committed ==
  ASSUME LinkPeople, Found, NEW w \in LinkWorkers, Linked!CommitVote(w)
  PROVE  LET j == linkJob[w]
         IN  /\ Reading(j) /\ j.op = "tallied" /\ j.outcome = Linked!Tallied(Linked!Cast(j), Linked!Population)
             /\ DOMAIN linkRequests' = DOMAIN linkRequests /\ Len(linkRequests') = Len(linkRequests)
             /\ linkRequests' \in Seq(Request)
             /\ linkRequests'[j.id] = [linkRequests[j.id] EXCEPT !.votes = Linked!Cast(j), !.status = j.outcome]
             /\ \A r \in DOMAIN linkRequests \ {j.id} : linkRequests'[r] = linkRequests[r]
             /\ links' = Linked!Effect(j)
             /\ j.outcome \in Linked!Outcomes
<1> DEFINE j == linkJob[w]
<1>1. j.op = "tallied" /\ j # Linked!Idle
  <2>1. j.op = "tallied"
    BY DEF Linked!CommitVote
  <2>2. Linked!Idle.op = "idle"
    BY DEF Linked!Idle
  <2>3. QED
    BY <2>1, <2>2
<1>2. Reading(j) /\ j.outcome = Linked!Tallied(Linked!Cast(j), Linked!Population)
  BY <1>1 DEF Found, LinkJobs, Holds
<1>3. j.id \in DOMAIN linkRequests /\ linkRequests[j.id].status = "open"
  BY <1>2 DEF Reading
<1>4. j.outcome \in Linked!Outcomes
  BY <1>2, TallyOutcome
<1>5. linkRequests' = [linkRequests EXCEPT ![j.id].votes = Linked!Cast(j),
                                   ![j.id].status = IF j.outcome = "open" THEN @ ELSE j.outcome]
      /\ links' = Linked!Effect(j)
  BY DEF Linked!CommitVote
<1>6. linkRequests \in Seq(Request) /\ Linked!Cast(j) \in [Linked!Sides -> [LinkUsers -> Linked!Ballots]]
  BY <1>2, CastIs DEF Found, Rows
<1> HIDE DEF j
<1> DEFINE new == [linkRequests[j.id] EXCEPT !.votes = Linked!Cast(j), !.status = j.outcome]
<1>7. linkRequests[j.id] \in Request
  BY <1>3, <1>6
<1>8. new \in Request
  BY <1>4, <1>6, <1>7 DEF Request
<1>9. linkRequests' = [linkRequests EXCEPT ![j.id] = new]
  BY <1>3, <1>5, <1>6, <1>7 DEF Request
<1> HIDE DEF new
<1>10. /\ DOMAIN linkRequests' = DOMAIN linkRequests /\ Len(linkRequests') = Len(linkRequests)
       /\ linkRequests' \in Seq(Request)
       /\ linkRequests'[j.id] = new
       /\ \A r \in DOMAIN linkRequests \ {j.id} : linkRequests'[r] = linkRequests[r]
  BY <1>3, <1>6, <1>8, <1>9
<1>11. QED
  BY <1>1, <1>2, <1>4, <1>5, <1>10 DEF j, new

-----------------------------------------------------------------------------
(* What a commit does to the rows and to the links.                        *)
LEMMA EffectRows ==
  ASSUME Rows, NEW j, Reading(j)
  PROVE  /\ Linked!Effect(j) \in Seq(Link)
         /\ DOMAIN links \subseteq DOMAIN Linked!Effect(j)
<1>1. links \in Seq(Link) /\ j.id \in DOMAIN linkRequests /\ j.id \in Nat
  BY DEF Rows, Reading
<1>2. CASE j.outcome # "approved"
  BY <1>1, <1>2 DEF Linked!Effect
<1>3. CASE j.outcome = "approved" /\ linkRequests[j.id].type = "sever"
  <2>1. linkRequests[j.id].link \in DOMAIN links
    BY <1>1, <1>3 DEF Rows
  <2>2. Linked!Effect(j) = [links EXCEPT ![linkRequests[j.id].link].active = FALSE]
    BY <1>3 DEF Linked!Effect
  <2>3. links[linkRequests[j.id].link] \in Link
    BY <1>1, <2>1
  <2>4. [links[linkRequests[j.id].link] EXCEPT !.active = FALSE] \in Link
    BY <2>3 DEF Link
  <2>5. QED
    BY <1>1, <2>1, <2>2, <2>4
<1>4. CASE j.outcome = "approved" /\ linkRequests[j.id].type # "sever"
  <2>1. [request |-> j.id, active |-> TRUE] \in Link
    BY <1>1 DEF Link
  <2>2. Linked!Effect(j) = Append(links, [request |-> j.id, active |-> TRUE])
    BY <1>4 DEF Linked!Effect
  <2>3. QED
    BY <1>1, <2>1, <2>2
<1>5. QED
  BY <1>2, <1>3, <1>4

LEMMA CommittedRows ==
  ASSUME LinkPeople, Found, NEW w \in LinkWorkers, Linked!CommitVote(w)
  PROVE  Rows'
<1> DEFINE j == linkJob[w]
<1>1. /\ Reading(j)
      /\ DOMAIN linkRequests' = DOMAIN linkRequests /\ linkRequests' \in Seq(Request)
      /\ linkRequests'[j.id] = [linkRequests[j.id] EXCEPT !.votes = Linked!Cast(j), !.status = j.outcome]
      /\ \A r \in DOMAIN linkRequests \ {j.id} : linkRequests'[r] = linkRequests[r]
      /\ links' = Linked!Effect(j)
  BY Committed
<1>2. Rows
  BY DEF Found
<1>3. links' \in Seq(Link) /\ DOMAIN links \subseteq DOMAIN links'
  BY <1>1, <1>2, EffectRows
<1>4. \A s \in Linked!Sides, u \in LinkUsers : Linked!Cast(j)[s][u] # "none" => u \in LinkMembers[s]
  BY <1>1, <1>2, CastIs
<1>5. j.id \in DOMAIN linkRequests /\ linkRequests[j.id] \in Request
  BY <1>1, <1>2 DEF Reading, Rows
<1> HIDE DEF j
<1>6. /\ linkRequests'[j.id].type = linkRequests[j.id].type /\ linkRequests'[j.id].link = linkRequests[j.id].link
      /\ linkRequests'[j.id].votes = Linked!Cast(j)
  BY <1>1, <1>5 DEF Request
<1>7. ASSUME NEW r \in DOMAIN linkRequests'
      PROVE  /\ linkRequests'[r].type = "sever" => linkRequests'[r].link \in DOMAIN links'
             /\ \A s \in Linked!Sides, u \in LinkUsers : linkRequests'[r].votes[s][u] # "none" => u \in LinkMembers[s]
  <2>1. CASE r = j.id
    BY <1>2, <1>3, <1>4, <1>5, <1>6, <2>1 DEF Rows
  <2>2. CASE r # j.id
    BY <1>1, <1>2, <1>3, <2>2 DEF Rows
  <2>3. QED
    BY <2>1, <2>2
<1>8. QED
  BY <1>1, <1>3, <1>7 DEF Rows

(* The same as LinksFollowDecisions, with a name for the link.             *)
Follow ==
  /\ \A r \in Linked!Approved("create") :
       \E n \in DOMAIN links : {m \in DOMAIN links : links[m].request = r} = {n}
  /\ \A n \in DOMAIN links :
       /\ links[n].request \in Linked!Approved("create")
       /\ links[n].active <=> \A r \in Linked!Approved("sever") : linkRequests[r].link # n

LEMMA FollowIs == Follow => Linked!LinksFollowDecisions
<1> SUFFICES ASSUME Follow, NEW r \in Linked!Approved("create")
             PROVE  Cardinality({n \in DOMAIN links : links[n].request = r}) = 1
  BY LinkCount DEF Follow, Linked!LinksFollowDecisions
<1>1. PICK n \in DOMAIN links : {m \in DOMAIN links : links[m].request = r} = {n}
  BY DEF Follow
<1>2. QED
  BY <1>1, FS_Singleton

LEMMA SameFollow ==
  ASSUME Follow, links' = links,
         \A type \in Linked!Types : Linked!Approved(type)' = Linked!Approved(type),
         \A r \in Linked!Approved("sever") : linkRequests'[r].link = linkRequests[r].link
  PROVE  Follow'
  BY DEF Follow, Linked!Types

(* A request that was open and is the only one that changes joins the      *)
(* approved ones of its kind, or nothing joins them.                       *)
LEMMA ApprovedOne ==
  ASSUME NEW i \in DOMAIN linkRequests, linkRequests[i].status # "approved",
         DOMAIN linkRequests' = DOMAIN linkRequests,
         linkRequests'[i].type = linkRequests[i].type,
         \A r \in DOMAIN linkRequests \ {i} : linkRequests'[r] = linkRequests[r],
         NEW type
  PROVE  /\ linkRequests'[i].status = "approved" /\ linkRequests[i].type = type =>
              Linked!Approved(type)' = Linked!Approved(type) \cup {i}
         /\ linkRequests'[i].status # "approved" \/ linkRequests[i].type # type =>
              Linked!Approved(type)' = Linked!Approved(type)
<1>1. ASSUME NEW r, r # i
      PROVE  r \in Linked!Approved(type)' <=> r \in Linked!Approved(type)
  BY <1>1 DEF Linked!Approved
<1>2. i \notin Linked!Approved(type)
  BY DEF Linked!Approved
<1>3. i \in Linked!Approved(type)' <=> linkRequests'[i].status = "approved" /\ linkRequests[i].type = type
  BY DEF Linked!Approved
<1>4. QED
  BY <1>1, <1>2, <1>3

LEMMA CommitFollows ==
  ASSUME LinkPeople, Found, Follow, NEW w \in LinkWorkers, Linked!CommitVote(w)
  PROVE  Follow'
<1> DEFINE j == linkJob[w]
<1>1. /\ Reading(j) /\ j.outcome \in Linked!Outcomes
      /\ DOMAIN linkRequests' = DOMAIN linkRequests
      /\ linkRequests'[j.id] = [linkRequests[j.id] EXCEPT !.votes = Linked!Cast(j), !.status = j.outcome]
      /\ \A r \in DOMAIN linkRequests \ {j.id} : linkRequests'[r] = linkRequests[r]
      /\ links' = Linked!Effect(j)
  BY Committed
<1>2. /\ j.id \in DOMAIN linkRequests /\ linkRequests[j.id] \in Request /\ linkRequests[j.id].status = "open"
      /\ links \in Seq(Link) /\ linkRequests \in Seq(Request)
      /\ linkRequests[j.id].type = "sever" => linkRequests[j.id].link \in DOMAIN links
      /\ linkRequests[j.id].type \in Linked!Types
  <2>1. j.id \in DOMAIN linkRequests /\ linkRequests[j.id].status = "open"
    BY <1>1 DEF Reading
  <2>2. links \in Seq(Link) /\ linkRequests \in Seq(Request)
    BY DEF Found, Rows
  <2>3. linkRequests[j.id] \in Request
    BY <2>1, <2>2
  <2>4. linkRequests[j.id].type = "sever" => linkRequests[j.id].link \in DOMAIN links
    BY <2>1 DEF Found, Rows
  <2>5. QED
    BY <2>1, <2>2, <2>3, <2>4 DEF Request
<1> HIDE DEF j
<1>3. /\ linkRequests'[j.id].type = linkRequests[j.id].type /\ linkRequests'[j.id].link = linkRequests[j.id].link
      /\ linkRequests'[j.id].status = j.outcome
  BY <1>1, <1>2 DEF Request
<1>4. \A r \in DOMAIN linkRequests : linkRequests'[r].link = linkRequests[r].link
  BY <1>1, <1>3
<1>5. ASSUME NEW type
      PROVE  /\ j.outcome = "approved" /\ linkRequests[j.id].type = type =>
                  Linked!Approved(type)' = Linked!Approved(type) \cup {j.id}
             /\ j.outcome # "approved" \/ linkRequests[j.id].type # type =>
                  Linked!Approved(type)' = Linked!Approved(type)
  <2>1. linkRequests[j.id].status # "approved"
    BY <1>2
  <2>2. /\ j.id \in DOMAIN linkRequests /\ DOMAIN linkRequests' = DOMAIN linkRequests
        /\ \A r \in DOMAIN linkRequests \ {j.id} : linkRequests'[r] = linkRequests[r]
    BY <1>1, <1>2
  <2>3. linkRequests'[j.id].type = linkRequests[j.id].type
    BY <1>3
  <2>4. /\ linkRequests'[j.id].status = "approved" /\ linkRequests[j.id].type = type =>
              Linked!Approved(type)' = Linked!Approved(type) \cup {j.id}
        /\ linkRequests'[j.id].status # "approved" \/ linkRequests[j.id].type # type =>
              Linked!Approved(type)' = Linked!Approved(type)
    BY <2>1, <2>2, <2>3, ApprovedOne
  <2>5. QED
    BY <2>4, <1>3
<1>6. CASE j.outcome # "approved"
  <2>1. \A type \in Linked!Types : Linked!Approved(type)' = Linked!Approved(type)
    BY <1>5, <1>6
  <2>2. links' = links
    BY <1>1, <1>6 DEF Linked!Effect
  <2>3. Linked!Approved("sever") \subseteq DOMAIN linkRequests
    BY DEF Linked!Approved
  <2>4. QED
    BY <1>4, <2>1, <2>2, <2>3, SameFollow
<1>7. CASE j.outcome = "approved" /\ linkRequests[j.id].type = "sever"
  <2> DEFINE l == linkRequests[j.id].link
  <2>1. Linked!Approved("create")' = Linked!Approved("create")
    BY <1>5, <1>7
  <2>2. Linked!Approved("sever")' = Linked!Approved("sever") \cup {j.id}
    BY <1>5, <1>7
  <2>3. links' = [links EXCEPT ![l].active = FALSE]
    BY <1>1, <1>7 DEF Linked!Effect
  <2>4. l \in DOMAIN links /\ links[l] \in Link
    BY <1>2, <1>7
  <2>5. Linked!Approved("sever") \subseteq DOMAIN linkRequests
    BY DEF Linked!Approved
  <2>6. DOMAIN links' = DOMAIN links /\ \A n \in DOMAIN links : links'[n].request = links[n].request
    BY <1>2, <2>3, <2>4 DEF Link
  <2>7. \A n \in DOMAIN links : links'[n].active = IF n = l THEN FALSE ELSE links[n].active
    BY <1>2, <2>3, <2>4 DEF Link
  <2> HIDE DEF l
  <2>8. ASSUME NEW n \in DOMAIN links
        PROVE  links'[n].active <=> \A r \in Linked!Approved("sever")' : linkRequests'[r].link # n
    <3>1. (\A r \in Linked!Approved("sever")' : linkRequests'[r].link # n)
            <=> n # l /\ \A r \in Linked!Approved("sever") : linkRequests[r].link # n
      BY <1>2, <1>4, <2>2, <2>5 DEF l
    <3>2. links[n].active <=> \A r \in Linked!Approved("sever") : linkRequests[r].link # n
      BY DEF Follow
    <3>3. QED
      BY <2>7, <3>1, <3>2
  <2>9. ASSUME NEW r \in Linked!Approved("create")
        PROVE  {m \in DOMAIN links' : links'[m].request = r} = {m \in DOMAIN links : links[m].request = r}
    BY <2>6
  <2>10. QED
    BY <2>1, <2>6, <2>8, <2>9 DEF Follow
<1>8. CASE j.outcome = "approved" /\ linkRequests[j.id].type = "create"
  <2> DEFINE new == [request |-> j.id, active |-> TRUE]
             k == Len(links) + 1
  <2>1. Linked!Approved("create")' = Linked!Approved("create") \cup {j.id}
    BY <1>5, <1>8
  <2>2. Linked!Approved("sever")' = Linked!Approved("sever")
    BY <1>5, <1>8
  <2>3. links' = Append(links, new)
    BY <1>1, <1>8 DEF Linked!Effect
  <2>4. /\ DOMAIN links' = DOMAIN links \cup {k} /\ k \notin DOMAIN links
        /\ links'[k] = new /\ \A n \in DOMAIN links : links'[n] = links[n]
    BY <1>2, <2>3
  <2>5. new.request = j.id /\ new.active = TRUE
    OBVIOUS
  <2> HIDE DEF new, k
  <2>6. \A n \in DOMAIN links : links[n].request # j.id
    BY <1>2 DEF Follow, Linked!Approved
  <2>7. \A r \in Linked!Approved("sever") : linkRequests[r].link \in DOMAIN links /\ r \in DOMAIN linkRequests
    BY DEF Linked!Approved, Found, Rows
  <2>8. ASSUME NEW n \in DOMAIN links'
        PROVE  /\ links'[n].request \in Linked!Approved("create")'
               /\ links'[n].active <=> \A r \in Linked!Approved("sever")' : linkRequests'[r].link # n
    <3>1. CASE n = k
      BY <1>4, <2>1, <2>2, <2>4, <2>5, <2>7, <3>1
    <3>2. CASE n \in DOMAIN links
      BY <1>4, <2>1, <2>2, <2>4, <2>7, <3>2 DEF Follow
    <3>3. QED
      BY <2>4, <3>1, <3>2
  <2>9. ASSUME NEW r \in Linked!Approved("create")'
        PROVE  \E n \in DOMAIN links' : {m \in DOMAIN links' : links'[m].request = r} = {n}
    <3>1. CASE r = j.id
      <4>1. {m \in DOMAIN links' : links'[m].request = r} = {k}
        BY <2>4, <2>5, <2>6, <3>1
      <4>2. QED
        BY <2>4, <4>1
    <3>2. CASE r # j.id
      <4>1. r \in Linked!Approved("create")
        BY <2>1, <3>2
      <4>2. PICK n \in DOMAIN links : {m \in DOMAIN links : links[m].request = r} = {n}
        BY <4>1 DEF Follow
      <4>3. {m \in DOMAIN links' : links'[m].request = r} = {m \in DOMAIN links : links[m].request = r}
        BY <2>4, <2>5, <3>2
      <4>4. QED
        BY <2>4, <4>2, <4>3
    <3>3. QED
      BY <3>1, <3>2
  <2>10. QED
    BY <2>8, <2>9 DEF Follow
<1>9. QED
  BY <1>1, <1>2, <1>6, <1>7, <1>8 DEF Linked!Types

-----------------------------------------------------------------------------
(* A rejection is fair when everybody is a full member: the ballots a side *)
(* has not cast are its members without one, and they weigh what is left.  *)
(* Links between projects are never rejected.                              *)
EveryoneFull == LinkScheme = "detail" => \A u \in LinkUsers : LinkLevel[u] = "full"

Fair(v) ==
  \E s \in Linked!Sides :
    LET all == [u \in LinkUsers |-> IF v[s][u] = "none" /\ u \in LinkMembers[s] THEN "yes"
                                ELSE v[s][u]]
    IN  ~ Linked!Passing(Linked!Heads(all, "yes"), Linked!Heads(all, "no"), Linked!Population[s])

(* The arithmetic and the counts of Linked are those above.                *)
LEMMA LinkVotes ==
  /\ \A y, z, n : Linked!Passing(y, z, n) = Passing(y, z, n)
  /\ \A y, z, n : Linked!Outcome(y, z, n) = Outcome(y, z, n)
  /\ \A y, z, n : Linked!RemainingWeight(y, z, n) = RemainingWeight(y, z, n)
<1>1. \A n : Linked!RequiredVotes(n) = RequiredVotes(n)
  BY DEF Linked!RequiredVotes, RequiredVotes, Linked!CochranSample, CochranSample,
         Linked!SampleOf, SampleOf, Linked!CeilDiv, CeilDiv, Linked!AtMost, AtMost
<1>2. QED
  BY <1>1 DEF Linked!Passing, Passing, Linked!MeetsQuorum, MeetsQuorum,
              Linked!MeetsApproval, MeetsApproval, Linked!Outcome, Outcome,
              Linked!CanStillPass, CanStillPass, Linked!RemainingWeight, RemainingWeight,
              Linked!AtLeastZero, AtLeastZero

LEMMA SideRejected ==
  ASSUME IsFiniteSet(LinkUsers), NEW v \in [LinkUsers -> Linked!Ballots],
         NEW M \in SUBSET LinkUsers,
         \A u \in LinkUsers : v[u] # "none" => u \in M,
         Linked!Outcome(Linked!Heads(v, "yes"), Linked!Heads(v, "no"), Cardinality(M)) = "rejected"
  PROVE  LET all == [u \in LinkUsers |-> IF v[u] = "none" /\ u \in M THEN "yes" ELSE v[u]]
         IN  ~ Linked!Passing(Linked!Heads(all, "yes"), Linked!Heads(all, "no"), Cardinality(M))
<1> DEFINE all == [u \in LinkUsers |-> IF v[u] = "none" /\ u \in M THEN "yes" ELSE v[u]]
           Y == {u \in LinkUsers : v[u] = "yes"}
           N == {u \in LinkUsers : v[u] = "no"}
           Z == {u \in LinkUsers : v[u] = "none" /\ u \in M}
<1>1. IsFiniteSet(Y) /\ IsFiniteSet(N) /\ IsFiniteSet(Z) /\ IsFiniteSet(M)
  BY FS_Subset
<1>2. {u \in LinkUsers : all[u] = "yes"} = Y \cup Z /\ {u \in LinkUsers : all[u] = "no"} = N
  BY DEF Linked!Ballots
<1>3. Y \cap Z = {} /\ (Y \cup Z) \cap N = {} /\ (Y \cup Z) \cup N = M
  BY DEF Linked!Ballots
<1>4. Linked!Heads(v, "yes") = 2 * Cardinality(Y) /\ Linked!Heads(v, "no") = 2 * Cardinality(N)
  BY LinkCount DEF Linked!Heads
<1>5. Linked!Heads(all, "yes") = 2 * Cardinality(Y \cup Z) /\ Linked!Heads(all, "no") = 2 * Cardinality(N)
  BY <1>2, LinkCount DEF Linked!Heads
<1> HIDE DEF all, Y, N, Z
<1>6. Cardinality(Y) \in Nat /\ Cardinality(N) \in Nat /\ Cardinality(Z) \in Nat
      /\ Cardinality(M) \in Nat
  BY <1>1, FS_CardinalityType
<1>7. IsFiniteSet(Y \cup Z) /\ Cardinality(Y \cup Z) = Cardinality(Y) + Cardinality(Z)
  <2>1. Cardinality(Y \cap Z) = 0
    BY <1>3, FS_EmptySet
  <2>2. /\ IsFiniteSet(Y \cup Z)
        /\ Cardinality(Y \cup Z) = Cardinality(Y) + Cardinality(Z) - Cardinality(Y \cap Z)
    BY <1>1, FS_Union
  <2>3. QED
    BY <1>6, <2>1, <2>2
<1>8. Cardinality(M) = Cardinality(Y) + Cardinality(Z) + Cardinality(N)
  <2>1. Cardinality((Y \cup Z) \cap N) = 0
    BY <1>3, FS_EmptySet
  <2>2. Cardinality((Y \cup Z) \cup N) = Cardinality(Y \cup Z) + Cardinality(N)
                                          - Cardinality((Y \cup Z) \cap N)
    BY <1>1, <1>7, FS_Union
  <2>3. Cardinality((Y \cup Z) \cup N) = Cardinality(M)
    BY <1>3
  <2>4. QED
    BY <1>6, <1>7, <2>1, <2>2, <2>3
<1> DEFINE y == Cardinality(Y)
           z == Cardinality(Z)
           n == Cardinality(N)
           m == Cardinality(M)
<1>9. /\ y \in Nat /\ z \in Nat /\ n \in Nat /\ m = y + z + n
      /\ Linked!Heads(v, "yes") = 2 * y /\ Linked!Heads(v, "no") = 2 * n
      /\ Linked!Heads(all, "yes") = 2 * y + 2 * z /\ Linked!Heads(all, "no") = 2 * n + 0
      /\ Linked!Outcome(2 * y, 2 * n, m) = "rejected"
  BY <1>4, <1>5, <1>6, <1>7, <1>8
<1> HIDE DEF y, z, n, m
<1>10. Linked!RemainingWeight(2 * y, 2 * n, m) = 2 * z
  BY <1>9, LinkVotes DEF RemainingWeight, AtLeastZero
<1>11. ~ Linked!Passing(2 * y + 2 * z, 2 * n + 0, m)
  <2>1. /\ m \in Nat /\ 2 * y \in Nat /\ 2 * n \in Nat /\ 2 * z \in Nat /\ 0 \in Nat
        /\ 2 * z + 0 <= RemainingWeight(2 * y, 2 * n, m)
        /\ Outcome(2 * y, 2 * n, m) = "rejected"
    BY <1>9, <1>10, LinkVotes
  <2>2. ~ Passing(2 * y + 2 * z, 2 * n + 0, m)
    BY <1>9, <2>1, RejectionIsSound
  <2>3. QED
    BY <2>2, LinkVotes
<1>12. QED
  BY <1>9, <1>11 DEF all, m

LEMMA RejectedIsFair ==
  ASSUME LinkPeople, EveryoneFull, LinkScheme = "detail",
         NEW v \in [Linked!Sides -> [LinkUsers -> Linked!Ballots]],
         \A s \in Linked!Sides, u \in LinkUsers : v[s][u] # "none" => u \in LinkMembers[s],
         Linked!DetailOutcome(v, Linked!Population) = "rejected"
  PROVE  Fair(v)
<1>1. PICK s \in Linked!Sides : Linked!SideState(v[s], Linked!Population[s]) = "rejected"
  BY DEF Linked!DetailOutcome
<1>2. LinkMembers[s] \in SUBSET LinkUsers /\ v[s] \in [LinkUsers -> Linked!Ballots]
  BY DEF LinkPeople
<1>3. Linked!Population[s] = Cardinality(LinkMembers[s])
  <2>1. {u \in LinkMembers[s] : Linked!CountsForQuorum(LinkLevel[u])} = LinkMembers[s]
    BY <1>2 DEF EveryoneFull, Linked!CountsForQuorum
  <2>2. QED
    BY <2>1, LinkCount DEF Linked!Population
<1>4. Linked!Outcome(Linked!Heads(v[s], "yes"), Linked!Heads(v[s], "no"), Cardinality(LinkMembers[s])) = "rejected"
  BY <1>1, <1>3 DEF Linked!SideState
<1> DEFINE all == [u \in LinkUsers |-> IF v[s][u] = "none" /\ u \in LinkMembers[s] THEN "yes"
                                   ELSE v[s][u]]
<1>5. ~ Linked!Passing(Linked!Heads(all, "yes"), Linked!Heads(all, "no"), Cardinality(LinkMembers[s]))
  BY <1>2, <1>4, SideRejected DEF LinkPeople
<1>6. QED
  BY <1>3, <1>5 DEF Fair

LEMMA FairIs ==
  Linked!RejectionIsFair <=> \A r \in DOMAIN linkRequests : linkRequests[r].status = "rejected" => Fair(linkRequests[r].votes)
  BY DEF Linked!RejectionIsFair, Linked!Hopeless, Fair

LEMMA CommitFair ==
  ASSUME LinkPeople, EveryoneFull, Found, Linked!RejectionIsFair, NEW w \in LinkWorkers,
         Linked!CommitVote(w)
  PROVE  Linked!RejectionIsFair'
<1> DEFINE j == linkJob[w]
<1>1. /\ Reading(j) /\ j.outcome = Linked!Tallied(Linked!Cast(j), Linked!Population)
      /\ DOMAIN linkRequests' = DOMAIN linkRequests
      /\ linkRequests'[j.id] = [linkRequests[j.id] EXCEPT !.votes = Linked!Cast(j), !.status = j.outcome]
      /\ \A r \in DOMAIN linkRequests \ {j.id} : linkRequests'[r] = linkRequests[r]
  BY Committed
<1>2. j.id \in DOMAIN linkRequests /\ linkRequests[j.id] \in Request
  BY <1>1 DEF Reading, Found, Rows
<1>3. /\ Linked!Cast(j) \in [Linked!Sides -> [LinkUsers -> Linked!Ballots]]
      /\ \A s \in Linked!Sides, u \in LinkUsers : Linked!Cast(j)[s][u] # "none" => u \in LinkMembers[s]
  BY <1>1, CastIs DEF Found
<1>4. ASSUME j.outcome = "rejected" PROVE Fair(Linked!Cast(j))
  <2>1. Linked!DetailOutcome(Linked!Cast(j), Linked!Population) = "rejected" /\ LinkScheme = "detail"
    BY <1>1, <1>4, TallyOutcome DEF Linked!Tallied
  <2>2. QED
    BY <1>3, <2>1, RejectedIsFair
<1>5. linkRequests'[j.id].votes = Linked!Cast(j) /\ linkRequests'[j.id].status = j.outcome
  BY <1>1, <1>2 DEF Request
<1> HIDE DEF j
<1>6. \A r \in DOMAIN linkRequests' : linkRequests'[r].status = "rejected" => Fair(linkRequests'[r].votes)
  BY <1>1, <1>4, <1>5, FairIs
<1> DEFINE rows == linkRequests'
<1>7. QED
  BY <1>6 DEF Linked!RejectionIsFair, Linked!Hopeless, Fair, Linked!Population, Linked!Heads

-----------------------------------------------------------------------------
(* Every other step writes no outcome.                                     *)
Adds ==
  /\ links' = links
  /\ \E row \in Request : row.status = "open" /\ linkRequests' = Append(linkRequests, row)

LEMMA AddsKeeps ==
  ASSUME Rows, Follow, Adds
  PROVE  /\ Follow'
         /\ Linked!RejectionIsFair => Linked!RejectionIsFair'
<1>1. PICK row \in Request : row.status = "open" /\ linkRequests' = Append(linkRequests, row)
  BY DEF Adds
<1>2. \A r \in DOMAIN linkRequests' :
        \/ r \in DOMAIN linkRequests /\ linkRequests'[r] = linkRequests[r]
        \/ r \notin DOMAIN linkRequests /\ linkRequests'[r].status = "open"
  BY <1>1 DEF Rows
<1>3. \A r \in DOMAIN linkRequests : r \in DOMAIN linkRequests' /\ linkRequests'[r] = linkRequests[r]
  BY <1>1 DEF Rows
<1>4. \A type \in Linked!Types : Linked!Approved(type)' = Linked!Approved(type)
  BY <1>2, <1>3 DEF Linked!Approved
<1>5. \A r \in Linked!Approved("sever") : linkRequests'[r].link = linkRequests[r].link
  BY <1>3 DEF Linked!Approved
<1>6. Follow'
  BY <1>4, <1>5, SameFollow DEF Adds
<1>7. ASSUME Linked!RejectionIsFair PROVE Linked!RejectionIsFair'
  <2>1. \A r \in DOMAIN linkRequests' : linkRequests'[r].status = "rejected" => Fair(linkRequests'[r].votes)
    BY <1>2, <1>7, FairIs
  <2>2. QED
    BY <2>1 DEF Linked!RejectionIsFair, Linked!Hopeless, Fair, Linked!Population, Linked!Heads
<1>8. QED
  BY <1>6, <1>7

LEMMA LinkStep ==
  ASSUME LinkPeople, LinksAlone, Found, [Linked!Next]_(Linked!vars)
  PROVE  /\ Found'
         /\ \/ UNCHANGED <<linkRequests, links>>
            \/ Adds
            \/ \E w \in LinkWorkers : Linked!CommitVote(w)
<1> USE DEF Found
<1>1. CASE UNCHANGED Linked!vars
  BY <1>1 DEF Linked!vars, Rows, LinkJobs, Holds, Reading, Linked!Tallied, Linked!Cast
<1>2. ASSUME NEW type \in Linked!Types, NEW link \in Nat, Linked!Ask(type, link), Linked!Free,
             type = "sever" => link \in DOMAIN links
      PROVE  Found' /\ Adds
  <2>1. Rows' /\ Adds
    BY <1>2, AskedRows DEF Linked!Ask, Adds
  <2>2. linkJob' = linkJob /\ \A w \in LinkWorkers : linkJob[w] = Linked!Idle
    BY <1>2 DEF Linked!Ask, Linked!Free, LinksAlone
  <2>3. QED
    BY <2>1, <2>2 DEF LinkJobs, Holds
<1>3. ASSUME NEW u \in LinkUsers, Linked!Free,
             \/ Linked!CreateDetailLinkRequest(u)
             \/ Linked!CreateProjectLinkRequest(u)
             \/ \E n \in DOMAIN links : Linked!CreateDetailLinkSeverRequest(u, n)
      PROVE  Found' /\ Adds
  <2>1. "create" \in Linked!Types /\ "sever" \in Linked!Types /\ Linked!NoLink \in Nat /\ "create" # "sever"
        /\ DOMAIN links \subseteq Nat
    BY DEF Linked!Types, Linked!NoLink, Rows
  <2>2. QED
    BY <1>2, <1>3, <2>1 DEF Linked!CreateDetailLinkRequest, Linked!CreateProjectLinkRequest,
                            Linked!CreateDetailLinkSeverRequest
<1>4. ASSUME NEW w \in LinkWorkers, NEW j, linkJob' = [linkJob EXCEPT ![w] = j],
             UNCHANGED <<linkRequests, links>>,
             Holds(j)
      PROVE  Found'
  <2>1. DOMAIN linkJob' = LinkWorkers /\ \A v \in LinkWorkers : linkJob'[v] = j
    BY <1>4, OneLinkJob DEF LinkJobs
  <2>2. Rows'
    BY <1>4 DEF Rows
  <2>3. Holds(j)' <=> Holds(j)
    BY <1>4 DEF Holds, Reading, Linked!Tallied, Linked!Cast
  <2>4. QED
    BY <1>4, <2>1, <2>2 DEF LinkJobs, Holds, Reading, Linked!Tallied, Linked!Cast
<1>5. ASSUME NEW w \in LinkWorkers, NEW u \in LinkUsers, NEW id \in DOMAIN linkRequests,
             NEW side \in Linked!Sides,
             NEW vote \in Linked!VoteValues, Linked!StartVote(w, u, id, side, vote)
      PROVE  Found' /\ UNCHANGED <<linkRequests, links>>
  <2> DEFINE j == [op |-> "read", id |-> id, side |-> side, user |-> u,
                   vote |-> vote, found |-> linkRequests[id].votes[side][u]]
  <2>1. Holds(j)
    BY <1>5 DEF Linked!StartVote, Linked!Admits, Holds, Reading
  <2>2. QED
    BY <1>4, <1>5, <2>1 DEF Linked!StartVote
<1>6. ASSUME NEW w \in LinkWorkers, Linked!Tally(w)
      PROVE  Found' /\ UNCHANGED <<linkRequests, links>>
  <2> DEFINE i == linkJob[w]
             j == [op |-> "tallied", id |-> i.id, side |-> i.side, user |-> i.user,
                   vote |-> i.vote, found |-> i.found, outcome |-> Linked!Tallied(Linked!Cast(i), Linked!Population)]
  <2>1. Reading(i)
    BY <1>6 DEF Linked!Tally, LinkJobs, Holds, Linked!Idle
  <2>2. Linked!Cast(j) = Linked!Cast(i)
    BY DEF Linked!Cast
  <2>3. Reading(j)
    BY <2>1 DEF Reading
  <2>4. Holds(j)
    BY <2>2, <2>3 DEF Holds
  <2>5. QED
    BY <1>4, <1>6, <2>4 DEF Linked!Tally
<1>7. ASSUME NEW w \in LinkWorkers, Linked!CommitVote(w)
      PROVE  Found'
  <2>1. linkJob' = [linkJob EXCEPT ![w] = Linked!Idle]
    BY <1>7 DEF Linked!CommitVote, Linked!EndJob
  <2>2. LinkJobs'
    BY <2>1, OneLinkJob DEF LinkJobs, Holds
  <2>3. QED
    BY <1>7, <2>2, CommittedRows
<1>8. ASSUME NEW w \in LinkWorkers, Linked!Rollback(w)
      PROVE  Found' /\ UNCHANGED <<linkRequests, links>>
  BY <1>4, <1>8 DEF Linked!Rollback, Linked!EndJob, Holds
<1>9. QED
  BY <1>1, <1>3, <1>5, <1>6, <1>7, <1>8
     DEF Linked!Next, Linked!vars, Linked!StartDetailLinkVote, Linked!StartProjectLinkVote, Linked!CommitDetailLinkVote,
         Linked!CommitProjectLinkVote

LEMMA Starts ==
  ASSUME Linked!Init
  PROVE  Found /\ Follow /\ Linked!RejectionIsFair
  BY DEF Linked!Init, Found, Rows, LinkJobs, Holds, Follow, Linked!Approved,
     Linked!RejectionIsFair

LEMMA FoundAlways ==
  ASSUME LinkPeople, LinksAlone
  PROVE  Linked!Spec => [](Found /\ Follow)
<1>1. Linked!Init => Found /\ Follow
  BY Starts
<1>2. Found /\ Follow /\ [Linked!Next]_(Linked!vars) => (Found /\ Follow)'
  <2> SUFFICES ASSUME Found, Follow, [Linked!Next]_(Linked!vars) PROVE Found' /\ Follow'
    OBVIOUS
  <2>1. UNCHANGED <<linkRequests, links>> => Follow'
    BY SameFollow DEF Linked!Approved
  <2>2. Rows
    BY DEF Found
  <2>3. QED
    BY <2>1, <2>2, LinkStep, AddsKeeps, CommitFollows
<1>3. QED
  BY <1>1, <1>2, PTL DEF Linked!Spec

(* One request at a time, the links are what the decisions say, whoever    *)
(* votes and however often they are made and severed                       *)
(* (detail_links.py:834-860).                                              *)
THEOREM LinksFollow ==
  ASSUME LinkPeople, LinksAlone
  PROVE  Linked!Spec => []Linked!LinksFollowDecisions
<1>1. Follow => Linked!LinksFollowDecisions
  BY FollowIs
<1>2. QED
  BY <1>1, FoundAlways, PTL

(* One request at a time, and with full members only, a detail link is     *)
(* rejected only when the ballots a side has left could not approve it     *)
(* (detail_links.py:208-216 and 861-868).                                  *)
LEMMA LinkRejectionFair ==
  ASSUME LinkPeople, LinksAlone, EveryoneFull
  PROVE  Linked!Spec => []Linked!RejectionIsFair
<1>1. Linked!Init => Linked!RejectionIsFair
  BY Starts
<1>2. Found /\ Follow /\ Linked!RejectionIsFair /\ [Linked!Next]_(Linked!vars) => Linked!RejectionIsFair'
  <2> SUFFICES ASSUME Found, Follow, Linked!RejectionIsFair,
                      [Linked!Next]_(Linked!vars) PROVE Linked!RejectionIsFair'
    OBVIOUS
  <2>1. ASSUME UNCHANGED <<linkRequests, links>> PROVE Linked!RejectionIsFair'
    <3>1. ASSUME NEW r PROVE Linked!Hopeless(r)' <=> Linked!Hopeless(r)
      BY <2>1, Zenon DEF Linked!Hopeless, Linked!Population, Linked!Heads
    <3>2. QED
      BY <2>1, <3>1 DEF Linked!RejectionIsFair
  <2>2. Rows
    BY DEF Found
  <2>3. QED
    BY <2>1, <2>2, LinkStep, AddsKeeps, CommitFair
<1>3. QED
  BY <1>1, <1>2, FoundAlways, PTL DEF Linked!Spec

(* Both together, as Approvals states them.                                *)
THEOREM LinksDecided ==
  ASSUME LinkPeople, LinksAlone, EveryoneFull
  PROVE  Linked!Spec => []LinksFollowDecisions
  BY LinksFollow, LinkRejectionFair, PTL DEF LinksFollowDecisions
=============================================================================
