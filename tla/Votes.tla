------------------------------- MODULE Votes -------------------------------
(***************************************************************************)
(* The vote arithmetic every governance decision rests on:                 *)
(* app/utils/votes.py, app/services/governance_votes.py and the vote       *)
(* weights of app/services/standing.py.                                    *)
(*                                                                         *)
(* Weights are counted in half votes, so that a full member's 1.0 and a    *)
(* warm account's 0.5 are integers.  The comparisons the code makes on     *)
(* floats are the exact rational ones here.                                *)
(***************************************************************************)
EXTENDS Integers, FiniteSetsExt

FullWeight == 2
WarmWeight == 1
NoWeight   == 0

Levels == {"new", "warm", "full", "paused"}
WeightOf(level) ==
  CASE level = "full" -> FullWeight
    [] level = "warm" -> WarmWeight
    [] OTHER -> NoWeight
CanVote(level)         == level \in {"warm", "full"}
CountsForQuorum(level) == level = "full"

Ballots == {"none", "yes", "no"}

CeilDiv(a, b)    == (a + b - 1) \div b
AtMost(a, b)     == IF a <= b THEN a ELSE b
AtLeastZero(a)   == IF a >= 0 THEN a ELSE 0

(* A vote looks for the voter's ballot, then deletes, inserts or updates   *)
(* it: what is left of the ballot there is by then, and whether the insert *)
(* meets one of the same voter and fails.                                  *)
Recorded(found, ballot, vote) ==
  IF found = "none" THEN (IF vote = "neutral" THEN ballot ELSE vote)
  ELSE IF vote = "neutral" THEN "none"
  ELSE IF ballot = "none" THEN "none" ELSE vote
Duplicate(found, ballot, vote) == found = "none" /\ vote # "neutral" /\ ballot # "none"

-----------------------------------------------------------------------------
(* Quorum.  Cochran's sample size for a population of n, with an error     *)
(* margin that falls from 10% to 7% below 100 people and from 7% to 5%     *)
(* below 500, capped at three quarters of the population.  The logarithmic *)
(* margin above 500 is left unspecified: some sample of the population.    *)
SampleOf(n, base, span) ==
  CeilDiv(base * n, base + (n - 1) * (span - n) * (span - n))
CochranSample(n) ==
  IF n < 100 THEN SampleOf(n, 10458756, 331)
  ELSE IF n < 500 THEN SampleOf(n, 384160000, 1500)
  ELSE CHOOSE k \in 1..n : TRUE

RequiredVotes(n) ==
  IF n <= 0 THEN 0 ELSE AtMost(CeilDiv(3 * n, 4), CochranSample(n))

-----------------------------------------------------------------------------
(* compute_vote_summary on the weight cast for and against in a population *)
(* of n: the quorum test, the 66% approval test, and whether the weight    *)
(* the population has not used yet could still carry the request.          *)
MeetsQuorum(yes, no, n)  == yes + no >= 2 * RequiredVotes(n)
MeetsApproval(yes, no)   == yes + no > 0 /\ 100 * yes >= 66 * (yes + no)
Passing(yes, no, n)      == MeetsQuorum(yes, no, n) /\ MeetsApproval(yes, no)

RemainingWeight(yes, no, n) == AtLeastZero(2 * n - (yes + no))
CanStillPass(yes, no, n) ==
  /\ ~ Passing(yes, no, n)
  /\ Passing(yes + RemainingWeight(yes, no, n), no, n)

(* What a tally does to an open request.                                   *)
Outcome(yes, no, n) ==
  IF Passing(yes, no, n) THEN "approved"
  ELSE IF CanStillPass(yes, no, n) THEN "open" ELSE "rejected"

(* The weight of the ballots cast for a side: votes maps each voter to a   *)
(* ballot and weight maps each voter to the half votes of its standing,    *)
(* which are two, one or none.                                             *)
CastWith(w, side, votes, weight) == {u \in DOMAIN votes : votes[u] = side /\ weight[u] = w}
WeightFor(side, votes, weight) ==
    FullWeight * Cardinality(CastWith(FullWeight, side, votes, weight))
  + WarmWeight * Cardinality(CastWith(WarmWeight, side, votes, weight))
YesWeight(votes, weight) == WeightFor("yes", votes, weight)
NoWeightCast(votes, weight) == WeightFor("no", votes, weight)

IsPassing(votes, weight, n) ==
  Passing(YesWeight(votes, weight), NoWeightCast(votes, weight), n)
Decide(votes, weight, n) ==
  Outcome(YesWeight(votes, weight), NoWeightCast(votes, weight), n)
=============================================================================
