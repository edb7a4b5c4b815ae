---------------------------- MODULE PlansProofs ----------------------------
(***************************************************************************)
(* The plans of a project or an event and which of them leads, for any     *)
(* people, plans and workers.                                              *)
(*                                                                         *)
(* Types rest on JobsOK: a vote names a plan that is there, and the leader *)
(* it has picked is of the kind it voted on.  That alone carries one       *)
(* leader per kind through overlapping recounts, since a commit clears the *)
(* flags of the whole kind.  That the leader is ahead rests on PickedNow:  *)
(* what a recount has picked is what it would pick from the plans on       *)
(* record, which takes one request at a time.                              *)
(*                                                                         *)
(* Then the edits members propose next to the plans: what an open edit     *)
(* changes still says what its proposer was shown (Shown), because no two  *)
(* open edits change a field in common (Disjoint).                         *)
(***************************************************************************)
EXTENDS Agreements, FiniteSetTheorems, TLAPS

OneAtATime == \A v, w \in Workers : v = w

(* A vote is on a plan that is there, and the leader it has picked is one  *)
(* of the same kind; only the organizers of an event they control submit   *)
(* plans that lead at once.                                                *)
JobOK(j) ==
  /\ j.op \in {"read", "tallied"} => ~ Controlled /\ j.plan \in DOMAIN plans
  /\ j.op = "tallied" /\ j.leader # NoPlan =>
       j.leader \in DOMAIN plans /\ plans[j.leader].kind = plans[j.plan].kind
  /\ j.op = "submit" => Controlled
JobsOK == \A w \in Workers : JobOK(job[w])
IInv == TypeOK /\ JobsOK

-----------------------------------------------------------------------------
(* The weight of a side nobody is on.                                      *)
LEMMA NothingCast ==
  ASSUME NEW votes, NEW weight, NEW side, {u \in DOMAIN votes : votes[u] = side} = {}
  PROVE  WeightFor(side, votes, weight) = 0
<1>1. \A w : CastWith(w, side, votes, weight) = {}
  BY DEF CastWith
<1>2. QED
  BY <1>1, FS_EmptySet DEF WeightFor, FullWeight, WarmWeight

(* A plan nobody has voted on does not pass.                               *)
LEMMA NoVotesNoPass ==
  ASSUME NEW weight, NEW n, NEW S
  PROVE  ~ IsPassing([v \in S |-> "none"], weight, n)
<1> DEFINE votes == [v \in S |-> "none"]
<1>1. WeightFor("yes", votes, weight) = 0 /\ WeightFor("no", votes, weight) = 0
  <2>1. {u \in DOMAIN votes : votes[u] = "yes"} = {} /\ {u \in DOMAIN votes : votes[u] = "no"} = {}
    OBVIOUS
  <2> HIDE DEF votes
  <2>2. QED
    BY <2>1, NothingCast
<1> HIDE DEF votes
<1>2. ~ IsPassing(votes, weight, n)
  BY <1>1 DEF IsPassing, YesWeight, NoWeightCast, Passing, MeetsApproval
<1>3. QED
  BY <1>2 DEF votes

-----------------------------------------------------------------------------
(* The plan that is picked.                                                *)
LEMMA OnlyIn ==
  ASSUME NEW S, Cardinality(S) = 1
  PROVE  Only(S) \in S
<1>1. S # {}
  BY FS_EmptySet
<1>2. QED
  BY <1>1 DEF Only

LEMMA PickIsTop ==
  ASSUME NEW rows, NEW kind
  PROVE  PickLeading(rows, kind) \in TopRatio(rows, kind) \cup {NoPlan}
<1> DEFINE top == TopRatio(rows, kind)
           best == {p \in top : \A q \in top : AverageRating(rows[q]) <= AverageRating(rows[p])}
<1>1. PickLeading(rows, kind) = IF Cardinality(top) = 1 THEN Only(top) ELSE Only(best)
  BY DEF PickLeading
<1>2. best \subseteq top
  OBVIOUS
<1> HIDE DEF top, best
<1>3. CASE Cardinality(top) = 1
  BY <1>1, <1>3, OnlyIn DEF top
<1>4. CASE Cardinality(top) # 1
  <2>1. Only(best) \in best \cup {NoPlan}
    <3>1. CASE Cardinality(best) = 1
      BY <3>1, OnlyIn
    <3>2. CASE Cardinality(best) # 1
      BY <3>2 DEF Only
    <3>3. QED
      BY <3>1, <3>2
  <2>2. QED
    BY <1>1, <1>2, <1>4, <2>1 DEF top
<1>5. QED
  BY <1>3, <1>4

LEMMA PickAlone ==
  ASSUME NEW rows, NEW kind, NEW p, TopRatio(rows, kind) = {p}
  PROVE  PickLeading(rows, kind) = p
<1>1. Cardinality({p}) = 1
  BY FS_Singleton
<1>2. Only({p}) = p
  BY <1>1, OnlyIn
<1>3. QED
  BY <1>1, <1>2 DEF PickLeading

LEMMA TopIsPlan ==
  ASSUME NEW rows, NEW kind, NEW p \in TopRatio(rows, kind)
  PROVE  p \in DOMAIN rows /\ rows[p].kind = kind
  BY DEF TopRatio, Winning

(* The ratio of a kind's plans follows from the votes on them alone.       *)
LEMMA SameVotesSameTop ==
  ASSUME NEW old, NEW new, NEW kind,
         DOMAIN new = DOMAIN old,
         \A p \in DOMAIN old : new[p].kind = old[p].kind,
         \A p \in DOMAIN old : old[p].kind = kind => new[p].votes["plan"] = old[p].votes["plan"]
  PROVE  TopRatio(new, kind) = TopRatio(old, kind)
<1>1. Winning(new, kind) = Winning(old, kind)
  BY DEF Winning
<1>2. \A p, q \in Winning(old, kind) : HigherRatio(new[p], new[q]) <=> HigherRatio(old[p], old[q])
  <2>1. \A p \in Winning(old, kind) : Yes(new[p]) = Yes(old[p]) /\ All(new[p]) = All(old[p])
    BY DEF Winning, Yes, All
  <2>2. QED
    BY <2>1 DEF HigherRatio
<1>3. QED
  BY <1>1, <1>2 DEF TopRatio

LEMMA AddedSameTop ==
  ASSUME NEW R, NEW rows \in Seq(R), NEW r \in R, NEW kind,
         r.votes["plan"] = [v \in Users |-> "none"]
  PROVE  TopRatio(Append(rows, r), kind) = TopRatio(rows, kind)
<1> DEFINE more == Append(rows, r)
<1>1. /\ DOMAIN rows \subseteq DOMAIN more
      /\ \A p \in DOMAIN more : (p \in DOMAIN rows /\ more[p] = rows[p]) \/ (p \notin DOMAIN rows /\ more[p] = r)
  OBVIOUS
<1>2. ~ IsPassing(r.votes["plan"], Weight, Population)
  BY NoVotesNoPass
<1> HIDE DEF more
<1>3. Winning(more, kind) = Winning(rows, kind)
  BY <1>1, <1>2 DEF Winning
<1>4. \A p \in Winning(rows, kind) : more[p] = rows[p]
  BY <1>1 DEF Winning
<1>5. TopRatio(more, kind) = TopRatio(rows, kind)
  BY <1>3, <1>4 DEF TopRatio
<1>6. QED
  BY <1>5 DEF more

-----------------------------------------------------------------------------
(* Types.                                                                  *)
LEMMA InitIInv == Init => IInv
<1> SUFFICES ASSUME Init PROVE IInv
  OBVIOUS
<1>1. plans \in Seq(PlanRow) /\ Len(plans) <= MaxPlans
  BY InputsAssumption DEF Init
<1>2. adopted \in Adopted
  BY DEF Init, Adopted, Nothing
<1>3. job \in [Workers -> Jobs]
  BY DEF Init, Jobs, Idle
<1>4. QED
  BY <1>1, <1>2, <1>3 DEF Init, IInv, TypeOK, JobsOK, JobOK, Idle

LEMMA JobShapes ==
  ASSUME TypeOK, NEW w \in Workers
  PROVE  /\ job[w].op \in {"idle", "read", "tallied", "submit"}
         /\ job[w].op = "idle" => job[w] = Idle
         /\ job[w].op = "read" =>
              /\ job[w].user \in Users /\ job[w].plan \in 1..MaxPlans /\ job[w].on \in Targets
              /\ job[w].vote \in Answers /\ job[w].found \in Ballots
         /\ job[w].op = "tallied" =>
              /\ job[w].user \in Users /\ job[w].plan \in 1..MaxPlans
              /\ job[w].vote \in Answers /\ job[w].found \in Ballots
              /\ job[w].leader \in 0..MaxPlans
         /\ job[w].op = "submit" =>
              /\ job[w].user \in Users /\ job[w].content \in Contents \cup {Nothing}
              /\ job[w].seen \subseteq 1..MaxPlans
  BY DEF TypeOK, Jobs, Idle

LEMMA RowFields ==
  ASSUME NEW r \in PlanRow
  PROVE  /\ r.author \in Users /\ r.kind \in Kinds /\ r.content \in Contents \cup {Nothing}
         /\ r.votes \in [{"plan", "value"} -> [Users -> Ballots]]
         /\ r.stars \in [Rated -> [Users -> {0} \cup Stars]]
         /\ r.leading \in BOOLEAN /\ r.approved \in BOOLEAN
         /\ r = [author |-> r.author, kind |-> r.kind, content |-> r.content, votes |-> r.votes,
                 stars |-> r.stars, leading |-> r.leading, approved |-> r.approved]
  BY DEF PlanRow

(* A vote sets one ballot of one plan.                                     *)
LEMMA CastIs ==
  ASSUME TypeOK, NEW j, NEW on \in {"plan", "value"},
         j.user \in Users, j.plan \in DOMAIN plans, j.vote \in Answers, j.found \in Ballots
  PROVE  /\ Cast(j, on) \in Seq(PlanRow)
         /\ Len(Cast(j, on)) = Len(plans)
         /\ DOMAIN Cast(j, on) = DOMAIN plans
         /\ \A p \in DOMAIN plans :
              /\ Cast(j, on)[p].kind = plans[p].kind
              /\ Cast(j, on)[p].content = plans[p].content
              /\ Cast(j, on)[p].author = plans[p].author
              /\ Cast(j, on)[p].leading = plans[p].leading
              /\ Cast(j, on)[p].approved = plans[p].approved
              /\ p # j.plan \/ on = "value" => Cast(j, on)[p].votes["plan"] = plans[p].votes["plan"]
<1> DEFINE i == j.plan
           r == plans[i]
           b == Recorded(j.found, r.votes[on][j.user], j.vote)
           vs == [r.votes EXCEPT ![on] = [r.votes[on] EXCEPT ![j.user] = b]]
           new == [r EXCEPT !.votes = vs]
<1>1. r \in PlanRow
  BY DEF TypeOK
<1>2. r.votes \in [{"plan", "value"} -> [Users -> Ballots]]
  BY <1>1 DEF PlanRow
<1>3. b \in Ballots
  <2>1. r.votes[on][j.user] \in Ballots
    BY <1>2
  <2>2. j.vote # "neutral" => j.vote \in Ballots
    BY InputsAssumption DEF Ballots
  <2>3. QED
    BY <2>1, <2>2 DEF Recorded, Ballots
<1>4. vs \in [{"plan", "value"} -> [Users -> Ballots]]
  BY <1>2, <1>3
<1>5. new \in PlanRow /\ new = [author |-> r.author, kind |-> r.kind, content |-> r.content,
        votes |-> vs, stars |-> r.stars, leading |-> r.leading, approved |-> r.approved]
  <2> HIDE DEF r, vs
  <2>1. new = [author |-> r.author, kind |-> r.kind, content |-> r.content,
               votes |-> vs, stars |-> r.stars, leading |-> r.leading, approved |-> r.approved]
    BY <1>1 DEF PlanRow
  <2>2. QED
    BY <1>1, <1>4, <2>1 DEF PlanRow
<1>6. Cast(j, on) = [plans EXCEPT ![i] = new]
  BY DEF Cast
<1>7. on = "value" => vs["plan"] = r.votes["plan"]
  BY <1>2
<1>8. plans \in Seq(PlanRow) /\ i \in DOMAIN plans
  BY DEF TypeOK
<1> HIDE DEF new, vs, i
<1>9. /\ [plans EXCEPT ![i] = new] \in Seq(PlanRow)
      /\ Len([plans EXCEPT ![i] = new]) = Len(plans)
      /\ DOMAIN [plans EXCEPT ![i] = new] = DOMAIN plans
  BY <1>5, <1>8
<1>10. QED
  BY <1>5, <1>6, <1>7, <1>8, <1>9 DEF i

(* The recount of a vote flags one plan of a kind at most.                 *)
Reflagged(new, rows, j) ==
  \A p \in DOMAIN plans :
    /\ new[p].kind = rows[p].kind
    /\ new[p].content = rows[p].content
    /\ new[p].votes = rows[p].votes
    /\ new[p].leading <=> p = j.leader \/ (rows[p].kind # plans[j.plan].kind /\ rows[p].leading)
    /\ new[p].approved <=> p = j.leader \/ rows[p].approved

LEMMA FlaggedIs ==
  ASSUME TypeOK, NEW rows \in Seq(PlanRow), DOMAIN rows = DOMAIN plans, Len(rows) = Len(plans),
         NEW j
  PROVE  /\ Flagged(rows, j) \in Seq(PlanRow)
         /\ Len(Flagged(rows, j)) = Len(plans)
         /\ DOMAIN Flagged(rows, j) = DOMAIN plans
         /\ Reflagged(Flagged(rows, j), rows, j)
<1> DEFINE new == Flagged(rows, j)
<1>1. new = [p \in 1..Len(plans) |->
               IF p = j.leader THEN [rows[p] EXCEPT !.leading = TRUE, !.approved = TRUE]
               ELSE Unflag(rows[p], j)]
  BY DEF Flagged, TypeOK
<1>2. \A p \in 1..Len(plans) : rows[p] \in PlanRow
  BY DEF TypeOK
<1>3. \A p \in 1..Len(plans) :
        /\ new[p] \in PlanRow
        /\ new[p].kind = rows[p].kind /\ new[p].content = rows[p].content
        /\ new[p].author = rows[p].author /\ new[p].votes = rows[p].votes
        /\ new[p].leading <=> p = j.leader \/ (rows[p].kind # plans[j.plan].kind /\ rows[p].leading)
        /\ new[p].approved <=> p = j.leader \/ rows[p].approved
  <2> SUFFICES ASSUME NEW p \in 1..Len(plans)
               PROVE  /\ new[p] \in PlanRow
                      /\ new[p].kind = rows[p].kind /\ new[p].content = rows[p].content
                      /\ new[p].author = rows[p].author /\ new[p].votes = rows[p].votes
                      /\ new[p].leading <=>
                           p = j.leader \/ (rows[p].kind # plans[j.plan].kind /\ rows[p].leading)
                      /\ new[p].approved <=> p = j.leader \/ rows[p].approved
    OBVIOUS
  <2> DEFINE r == rows[p]
  <2>1. r \in PlanRow
    BY <1>2
  <2> HIDE DEF r
  <2>2. CASE p = j.leader
    <3>1. new[p] = [r EXCEPT !.leading = TRUE, !.approved = TRUE]
      BY <1>1, <2>2 DEF r
    <3>2. QED
      BY <2>1, <2>2, <3>1 DEF PlanRow, r
  <2>3. CASE p # j.leader
    <3>1. new[p] = IF r.kind = plans[j.plan].kind THEN [r EXCEPT !.leading = FALSE] ELSE r
      BY <1>1, <2>3 DEF r, Unflag
    <3>2. CASE r.kind = plans[j.plan].kind
      BY <2>1, <2>3, <3>1, <3>2 DEF PlanRow, r
    <3>3. CASE r.kind # plans[j.plan].kind
      BY <2>1, <2>3, <3>1, <3>3 DEF PlanRow, r
    <3>4. QED
      BY <3>2, <3>3
  <2>4. QED
    BY <2>2, <2>3
<1>4. DOMAIN plans = 1..Len(plans) /\ Len(plans) \in Nat
  BY DEF TypeOK
<1> HIDE DEF new
<1>5. new \in [1..Len(plans) -> PlanRow]
  BY <1>1, <1>3
<1>6. new \in Seq(PlanRow) /\ Len(new) = Len(plans) /\ DOMAIN new = DOMAIN plans
  BY <1>4, <1>5
<1>7. Reflagged(new, rows, j)
  BY <1>3, <1>4 DEF Reflagged
<1>8. QED
  BY <1>6, <1>7 DEF new

(* What the record takes over from a plan that leads.                      *)
LEMMA AdoptIs ==
  ASSUME TypeOK, NEW p \in PlanRow
  PROVE  /\ Adopt(p) \in Adopted
         /\ Adopt(p).content = IF (Kind = "project" => p.kind = "production") /\ p.content # Nothing
                               THEN p.content ELSE adopted.content
<1>1. p.author \in Users /\ p.content \in Contents \cup {Nothing}
  BY DEF PlanRow
<1>2. /\ adopted \in Adopted /\ adopted.content \in Contents \cup {Nothing}
      /\ adopted = [content |-> adopted.content, merger |-> adopted.merger]
  BY DEF TypeOK, Adopted
<1>3. CASE Kind = "project"
  <2>1. SyncMergeCapability(IF p.kind = "production" /\ p.content # Nothing THEN p.content
                            ELSE adopted.content, p, adopted.merger) \in {{}} \cup {{u} : u \in Users}
    BY <1>1, <1>2 DEF SyncMergeCapability, Adopted
  <2>2. QED
    BY <1>1, <1>2, <1>3, <2>1 DEF Adopt, AdoptProjectPlan, Adopted
<1>4. CASE Kind # "project"
  BY <1>1, <1>2, <1>4 DEF Adopt, AdoptEventPlan, Adopted
<1>5. QED
  BY <1>3, <1>4

(* A new plan.                                                             *)
(* What a plan may contain.                                                *)
Pages == Contents \cup {Nothing}

LEMMA SubmittedPlan ==
  ASSUME NEW u \in Users, NEW kind \in Kinds, NEW content \in Pages
  PROVE  /\ NewPlan(u, kind, content, FALSE) \in PlanRow
         /\ NewPlan(u, kind, content, FALSE).kind = kind
         /\ NewPlan(u, kind, content, FALSE).content = content
         /\ ~ NewPlan(u, kind, content, FALSE).leading
         /\ ~ NewPlan(u, kind, content, FALSE).approved
         /\ NewPlan(u, kind, content, FALSE).votes["plan"] = [v \in Users |-> "none"]
<1>1. [on \in {"plan", "value"} |-> [v \in Users |-> "none"]] \in [{"plan", "value"} -> [Users -> Ballots]]
  BY DEF Ballots
<1>2. [c \in Rated |-> [v \in Users |-> 0]] \in [Rated -> [Users -> {0} \cup Stars]]
  OBVIOUS
<1>3. QED
  BY <1>1, <1>2 DEF NewPlan, PlanRow, Pages

LEMMA OrganizersPlan ==
  ASSUME NEW u \in Users, NEW kind \in Kinds, NEW content \in Pages
  PROVE  /\ NewPlan(u, kind, content, TRUE) \in PlanRow
         /\ NewPlan(u, kind, content, TRUE).kind = kind
         /\ NewPlan(u, kind, content, TRUE).content = content
         /\ NewPlan(u, kind, content, TRUE).leading
         /\ NewPlan(u, kind, content, TRUE).approved
         /\ NewPlan(u, kind, content, TRUE).votes["plan"] = [v \in Users |-> "none"]
<1>1. [on \in {"plan", "value"} |-> [v \in Users |-> "none"]] \in [{"plan", "value"} -> [Users -> Ballots]]
  BY DEF Ballots
<1>2. [c \in Rated |-> [v \in Users |-> 0]] \in [Rated -> [Users -> {0} \cup Stars]]
  OBVIOUS
<1>3. QED
  BY <1>1, <1>2 DEF NewPlan, PlanRow, Pages

LEMMA AddPlan ==
  ASSUME NEW rows \in Seq(PlanRow), NEW r \in PlanRow
  PROVE  /\ Append(rows, r) \in Seq(PlanRow)
         /\ Len(Append(rows, r)) = Len(rows) + 1
         /\ DOMAIN Append(rows, r) = DOMAIN rows \cup {Len(rows) + 1}
         /\ Len(rows) + 1 \notin DOMAIN rows
         /\ \A p \in DOMAIN rows : Append(rows, r)[p] = rows[p]
         /\ Append(rows, r)[Len(rows) + 1] = r
  OBVIOUS

(* The effect of a vote: one ballot, and the flags of one kind.            *)
LEMMA PlanVoteEffect ==
  ASSUME IInv, NEW w \in Workers, CommitPlanVote(w)
  PROVE  /\ job[w].op = "tallied" /\ ~ Controlled
         /\ job[w].plan \in DOMAIN plans
         /\ job[w].leader # NoPlan => job[w].leader \in DOMAIN plans
              /\ plans[job[w].leader].kind = plans[job[w].plan].kind
         /\ plans' \in Seq(PlanRow) /\ Len(plans') = Len(plans) /\ DOMAIN plans' = DOMAIN plans
         /\ \A p \in DOMAIN plans :
              /\ plans'[p].kind = plans[p].kind
              /\ plans'[p].content = plans[p].content
              /\ plans'[p].votes["plan"] = Cast(job[w], "plan")[p].votes["plan"]
              /\ p # job[w].plan => plans'[p].votes["plan"] = plans[p].votes["plan"]
              /\ plans'[p].leading <=>
                   p = job[w].leader \/ (plans[p].kind # plans[job[w].plan].kind /\ plans[p].leading)
              /\ plans'[p].approved <=> p = job[w].leader \/ plans[p].approved
         /\ adopted' \in Adopted
         /\ adopted' = IF job[w].leader = NoPlan THEN adopted ELSE Adopt(plans[job[w].leader])
         /\ job' = [job EXCEPT ![w] = Idle] /\ phase' = phase
<1> DEFINE j == job[w]
           rows == Cast(j, "plan")
<1>1. /\ j.op = "tallied" /\ ~ Controlled /\ j.plan \in DOMAIN plans
      /\ j.user \in Users /\ j.vote \in Answers /\ j.found \in Ballots
      /\ j.leader # NoPlan => j.leader \in DOMAIN plans /\ plans[j.leader].kind = plans[j.plan].kind
  BY JobShapes DEF IInv, JobsOK, JobOK, CommitPlanVote
<1>2. /\ plans' = Flagged(rows, j) /\ job' = [job EXCEPT ![w] = Idle] /\ phase' = phase
      /\ adopted' = IF j.leader = NoPlan THEN adopted ELSE Adopt(plans[j.leader])
  BY DEF CommitPlanVote, EndJob
<1>3. TypeOK
  BY DEF IInv
<1> HIDE DEF j
<1>4. /\ rows \in Seq(PlanRow) /\ Len(rows) = Len(plans) /\ DOMAIN rows = DOMAIN plans
      /\ \A p \in DOMAIN plans :
           /\ rows[p].kind = plans[p].kind /\ rows[p].content = plans[p].content
           /\ rows[p].leading = plans[p].leading /\ rows[p].approved = plans[p].approved
           /\ p # j.plan => rows[p].votes["plan"] = plans[p].votes["plan"]
  BY <1>1, <1>3, CastIs
<1> HIDE DEF rows
<1>5. adopted' \in Adopted
  BY <1>1, <1>2, <1>3, AdoptIs DEF TypeOK
<1>6. /\ plans' \in Seq(PlanRow) /\ Len(plans') = Len(plans) /\ DOMAIN plans' = DOMAIN plans
      /\ \A p \in DOMAIN plans :
           /\ plans'[p].kind = rows[p].kind
           /\ plans'[p].content = rows[p].content
           /\ plans'[p].votes = rows[p].votes
           /\ plans'[p].leading <=> p = j.leader \/ (plans[p].kind # plans[j.plan].kind /\ rows[p].leading)
           /\ plans'[p].approved <=> p = j.leader \/ rows[p].approved
  <2>1. /\ plans' \in Seq(PlanRow) /\ Len(plans') = Len(plans) /\ DOMAIN plans' = DOMAIN plans
        /\ Reflagged(plans', rows, j)
    BY <1>2, <1>3, <1>4, FlaggedIs
  <2>2. \A p \in DOMAIN plans : rows[p].kind = plans[p].kind
    BY <1>4
  <2>3. QED
    BY <2>1, <2>2 DEF Reflagged
<1>7. QED
  BY <1>1, <1>2, <1>4, <1>5, <1>6 DEF j, rows

SamePlan(p, q) ==
  /\ p.kind = q.kind
  /\ p.content = q.content
  /\ p.votes["plan"] = q.votes["plan"]
  /\ p.leading <=> q.leading
  /\ p.approved <=> q.approved

(* The effect of a vote on a plan's value and of a rating: neither touches *)
(* what makes a plan lead.                                                 *)
LEMMA ValueVoteEffect ==
  ASSUME IInv, NEW w \in Workers, CommitValueVote(w)
  PROVE  /\ plans' \in Seq(PlanRow) /\ Len(plans') = Len(plans) /\ DOMAIN plans' = DOMAIN plans
         /\ \A p \in DOMAIN plans : SamePlan(plans'[p], plans[p])
         /\ job' = [job EXCEPT ![w] = Idle] /\ phase' = phase /\ adopted' = adopted
         /\ job[w].op = "read"
<1> DEFINE j == job[w]
<1>1. /\ j.op = "read" /\ j.plan \in DOMAIN plans
      /\ j.user \in Users /\ j.vote \in Answers /\ j.found \in Ballots
  BY JobShapes DEF IInv, JobsOK, JobOK, CommitValueVote
<1>2. /\ plans' = Cast(j, "value") /\ job' = [job EXCEPT ![w] = Idle]
      /\ phase' = phase /\ adopted' = adopted
  BY DEF CommitValueVote, EndJob
<1> HIDE DEF j
<1>3. QED
  BY <1>1, <1>2, CastIs DEF IInv, SamePlan, j

LEMMA RateEffect ==
  ASSUME TypeOK, NEW u \in Users, NEW p \in DOMAIN plans, NEW c \in Rated,
         NEW n \in Stars \cup {0},
         Rate(u, p, c, n)
  PROVE  /\ plans' \in Seq(PlanRow) /\ Len(plans') = Len(plans) /\ DOMAIN plans' = DOMAIN plans
         /\ \A q \in DOMAIN plans : SamePlan(plans'[q], plans[q])
         /\ UNCHANGED <<phase, adopted, job>>
<1> DEFINE r == plans[p]
           stars == [r.stars EXCEPT ![c] = [r.stars[c] EXCEPT ![u] = n]]
           new == [r EXCEPT !.stars = stars]
<1>1. r \in PlanRow /\ plans \in Seq(PlanRow)
  BY DEF TypeOK
<1>2. stars \in [Rated -> [Users -> {0} \cup Stars]]
  <2>1. r.stars \in [Rated -> [Users -> {0} \cup Stars]]
    BY <1>1 DEF PlanRow
  <2>2. QED
    BY <2>1
<1>3. plans' = [plans EXCEPT ![p] = new]
  BY DEF Rate
<1> HIDE DEF r, stars
<1>4. new = [author |-> r.author, kind |-> r.kind, content |-> r.content, votes |-> r.votes,
             stars |-> stars, leading |-> r.leading, approved |-> r.approved]
  <2>1. r = [author |-> r.author, kind |-> r.kind, content |-> r.content, votes |-> r.votes,
             stars |-> r.stars, leading |-> r.leading, approved |-> r.approved]
    BY <1>1, RowFields
  <2>2. QED
    BY <2>1
<1>5. new \in PlanRow
  BY <1>1, <1>2, <1>4 DEF PlanRow
<1>6. SamePlan(new, r)
  BY <1>4 DEF SamePlan
<1> HIDE DEF new
<1>7. /\ plans' \in Seq(PlanRow) /\ Len(plans') = Len(plans) /\ DOMAIN plans' = DOMAIN plans
      /\ \A q \in DOMAIN plans : plans'[q] = IF q = p THEN new ELSE plans[q]
  BY <1>1, <1>3, <1>5
<1>8. \A q \in DOMAIN plans : SamePlan(plans[q], plans[q])
  BY DEF SamePlan
<1>9. \A q \in DOMAIN plans : SamePlan(plans'[q], plans[q])
  BY <1>6, <1>7, <1>8 DEF r
<1>10. QED
  BY <1>7, <1>9 DEF Rate

(* The effect of an organizer's plan: it leads, and so do only plans it    *)
(* has not seen.                                                           *)
LEMMA OrganizerPlanEffect ==
  ASSUME IInv, NEW w \in Workers, CommitOrganizerPlan(w)
  PROVE  /\ job[w].op = "submit" /\ Controlled /\ Kinds = {"event"} /\ Kind = "event"
         /\ plans' \in Seq(PlanRow) /\ Len(plans') <= MaxPlans
         /\ DOMAIN plans' = DOMAIN plans \cup {Len(plans) + 1} /\ Len(plans) + 1 \notin DOMAIN plans
         /\ \A p \in DOMAIN plans : plans'[p].kind = plans[p].kind
         /\ \A p \in DOMAIN plans : p \in job[w].seen => ~ plans'[p].leading
         /\ plans'[Len(plans) + 1].approved
         /\ plans'[Len(plans) + 1].content # Nothing => adopted'.content = plans'[Len(plans) + 1].content
         /\ adopted' \in Adopted
         /\ job' = [job EXCEPT ![w] = Idle] /\ phase' = phase
<1> DEFINE j == job[w]
           plan == NewPlan(j.user, "event", j.content, TRUE)
           kept == [p \in DOMAIN plans |-> [plans[p] EXCEPT !.leading = @ /\ p \notin j.seen]]
<1>1. /\ j.op = "submit" /\ j.user \in Users /\ j.content \in Contents \cup {Nothing} /\ Controlled
  BY JobShapes DEF IInv, JobsOK, JobOK, CommitOrganizerPlan
<1>2. /\ Len(plans) < MaxPlans /\ plans' = Append(kept, plan) /\ adopted' = Adopt(plan)
      /\ job' = [job EXCEPT ![w] = Idle] /\ phase' = phase
  BY DEF CommitOrganizerPlan, EndJob
<1>3. TypeOK
  BY DEF IInv
<1>4. Kinds = {"event"} /\ Kind = "event"
  BY <1>1, KindsAssumption
<1> HIDE DEF j
<1>5. /\ plan \in PlanRow /\ plan.content = j.content /\ plan.approved
  <2>1. "event" \in Kinds /\ j.user \in Users /\ j.content \in Pages
    BY <1>1, <1>4 DEF Pages
  <2>2. plan \in PlanRow
    BY <2>1, OrganizersPlan
  <2>3. plan.content = j.content /\ plan.approved
    BY DEF NewPlan
  <2>4. QED
    BY <2>2, <2>3
<1> HIDE DEF plan
<1>6. adopted' \in Adopted /\ (plan.content # Nothing => adopted'.content = plan.content)
  BY <1>2, <1>3, <1>4, <1>5, AdoptIs
<1>7. /\ kept \in Seq(PlanRow) /\ Len(kept) = Len(plans) /\ DOMAIN kept = DOMAIN plans
      /\ \A p \in DOMAIN plans : kept[p].kind = plans[p].kind /\ (p \in j.seen => ~ kept[p].leading)
  <2>1. DOMAIN plans = 1..Len(plans) /\ Len(plans) \in Nat
    BY <1>3 DEF TypeOK
  <2>2. \A p \in DOMAIN plans :
          kept[p] \in PlanRow /\ kept[p].kind = plans[p].kind /\ (p \in j.seen => ~ kept[p].leading)
    <3> SUFFICES ASSUME NEW p \in DOMAIN plans
                 PROVE  kept[p] \in PlanRow /\ kept[p].kind = plans[p].kind /\ (p \in j.seen => ~ kept[p].leading)
      OBVIOUS
    <3> DEFINE r == plans[p]
               flag == r.leading /\ p \notin j.seen
    <3>1. r \in PlanRow
      BY <1>3 DEF TypeOK
    <3>2. kept[p] = [r EXCEPT !.leading = flag]
      OBVIOUS
    <3>3. flag \in BOOLEAN /\ (p \in j.seen => ~ flag)
      OBVIOUS
    <3> HIDE DEF r, flag, kept
    <3>4. QED
      BY <3>1, <3>2, <3>3 DEF PlanRow, r
  <2> HIDE DEF kept
  <2>3. kept \in [1..Len(plans) -> PlanRow]
    BY <2>1, <2>2 DEF kept
  <2>4. QED
    BY <2>1, <2>2, <2>3
<1> HIDE DEF kept
<1>8. /\ plans' \in Seq(PlanRow) /\ Len(plans') = Len(plans) + 1
      /\ DOMAIN plans' = DOMAIN plans \cup {Len(plans) + 1} /\ Len(plans) + 1 \notin DOMAIN plans
      /\ \A p \in DOMAIN plans : plans'[p] = kept[p]
      /\ plans'[Len(plans) + 1] = plan
  BY <1>2, <1>5, <1>7, AddPlan
<1>9. Len(plans') <= MaxPlans
  BY <1>2, <1>3, <1>8, InputsAssumption DEF TypeOK
<1>10. QED
  BY <1>1, <1>2, <1>4, <1>5, <1>6, <1>7, <1>8, <1>9 DEF j

LEMMA SubmitEffect ==
  ASSUME IInv, NEW u \in Authors, NEW content \in Contents,
         SubmitProjectPlan(u, content) \/ SubmitEventPlan(u, content)
  PROVE  /\ ~ Controlled
         /\ plans' \in Seq(PlanRow) /\ Len(plans') <= MaxPlans
         /\ DOMAIN plans' = DOMAIN plans \cup {Len(plans) + 1} /\ Len(plans) + 1 \notin DOMAIN plans
         /\ \A p \in DOMAIN plans : plans'[p] = plans[p]
         /\ ~ plans'[Len(plans) + 1].leading
         /\ \A kind : TopRatio(plans', kind) = TopRatio(plans, kind)
         /\ UNCHANGED <<phase, adopted, job>>
<1> DEFINE r == NewPlan(u, phase, content, FALSE)
<1>1. /\ ~ Controlled /\ phase \in Kinds /\ u \in Users /\ Len(plans) < MaxPlans
      /\ plans' = Append(plans, r) /\ UNCHANGED <<phase, adopted, job>>
  BY PeopleAssumption, KindsAssumption DEF SubmitProjectPlan, SubmitEventPlan
<1>2. r \in PlanRow /\ ~ r.leading /\ r.votes["plan"] = [v \in Users |-> "none"]
  <2>1. u \in Users /\ phase \in Kinds /\ content \in Pages
    BY <1>1 DEF Pages
  <2>2. r \in PlanRow
    BY <2>1, SubmittedPlan
  <2>3. ~ r.leading /\ r.votes["plan"] = [v \in Users |-> "none"]
    BY DEF NewPlan
  <2>4. QED
    BY <2>2, <2>3
<1>3. plans \in Seq(PlanRow) /\ Len(plans) \in Nat
  BY DEF IInv, TypeOK
<1> HIDE DEF r
<1>4. \A kind : TopRatio(plans', kind) = TopRatio(plans, kind)
  BY <1>1, <1>2, <1>3, AddedSameTop
<1>5. QED
  BY <1>1, <1>2, <1>3, <1>4, AddPlan, InputsAssumption

-----------------------------------------------------------------------------
LEMMA JobsStay ==
  ASSUME IInv, NEW w \in Workers,
         DOMAIN plans \subseteq DOMAIN plans',
         \A p \in DOMAIN plans : plans'[p].kind = plans[p].kind,
         \A v \in Workers : job'[v] = job[v] \/ job'[v] = Idle \/ (v = w /\ JobOK(job[w])')
  PROVE  JobsOK'
<1> SUFFICES ASSUME NEW v \in Workers PROVE JobOK(job[v])'
  BY DEF JobsOK
<1>1. CASE job'[v] = job[v]
  <2>1. JobOK(job[v])
    BY DEF IInv, JobsOK
  <2>2. QED
    BY <1>1, <2>1 DEF JobOK
<1>2. CASE job'[v] = Idle
  BY <1>2 DEF JobOK, Idle
<1>3. QED
  BY <1>1, <1>2

LEMMA StartJobType ==
  ASSUME IInv, NEW w \in Workers, NEW j, StartJob(w, j), j \in Jobs, JobOK(j),
         UNCHANGED <<phase, plans, adopted>>
  PROVE  IInv'
<1>1. job' = [job EXCEPT ![w] = j] /\ job'[w] = j /\ \A v \in Workers : v # w => job'[v] = job[v]
  BY DEF StartJob, IInv, TypeOK
<1>2. TypeOK'
  BY <1>1 DEF IInv, TypeOK
<1>3. JobOK(job[w])'
  BY <1>1 DEF JobOK
<1>4. JobsOK'
  BY <1>1, <1>3, JobsStay
<1>5. QED
  BY <1>2, <1>4 DEF IInv

LEMMA InvStep == IInv /\ [Next]_vars => IInv'
<1> SUFFICES ASSUME IInv, [Next]_vars PROVE IInv'
  OBVIOUS
<1>1. ASSUME UNCHANGED job, UNCHANGED plans, UNCHANGED adopted,
             phase' \in Kinds \cup {Nothing} PROVE IInv'
  BY <1>1 DEF IInv, TypeOK, JobsOK, JobOK
<1>2. ASSUME NEW u \in Authors, NEW content \in Contents,
             SubmitProjectPlan(u, content) \/ SubmitEventPlan(u, content)
      PROVE  IInv'
  <2>1. /\ plans' \in Seq(PlanRow) /\ Len(plans') <= MaxPlans /\ DOMAIN plans \subseteq DOMAIN plans'
        /\ \A p \in DOMAIN plans : plans'[p].kind = plans[p].kind
        /\ UNCHANGED <<phase, adopted, job>>
    BY <1>2, SubmitEffect
  <2>2. QED
    BY <2>1 DEF IInv, TypeOK, JobsOK, JobOK
<1>3. ASSUME NEW u \in Users, NEW p \in DOMAIN plans, NEW c \in Rated, NEW n \in Stars \cup {0},
             Rate(u, p, c, n)
      PROVE  IInv'
  <2>1. TypeOK
    BY DEF IInv
  <2>2. /\ plans' \in Seq(PlanRow) /\ Len(plans') = Len(plans) /\ DOMAIN plans' = DOMAIN plans
        /\ \A q \in DOMAIN plans : plans'[q].kind = plans[q].kind
        /\ UNCHANGED <<phase, adopted, job>>
    BY <1>3, <2>1, RateEffect DEF SamePlan
  <2>3. QED
    BY <2>2 DEF IInv, TypeOK, JobsOK, JobOK
<1>4. ASSUME NEW w \in Workers, NEW u \in Authors, NEW content \in Contents,
             StartOrganizerPlan(w, u, content)
      PROVE  IInv'
  <2> DEFINE j == [op |-> "submit", user |-> u, content |-> content, seen |-> DOMAIN plans]
  <2>1. StartJob(w, j) /\ Controlled /\ u \in Users /\ UNCHANGED <<phase, plans, adopted>>
    BY <1>4, PeopleAssumption DEF StartOrganizerPlan
  <2>2. DOMAIN plans \subseteq 1..MaxPlans
    BY InputsAssumption DEF IInv, TypeOK
  <2>3. j \in Jobs /\ JobOK(j)
    BY <2>1, <2>2 DEF Jobs, JobOK
  <2>4. QED
    BY <2>1, <2>3, StartJobType
<1>5. ASSUME NEW w \in Workers, NEW u \in Users, NEW p \in DOMAIN plans, NEW vote \in Answers,
             NEW on \in Targets, StartVote(w, u, p, on, vote)
      PROVE  IInv'
  <2> DEFINE j == [op |-> "read", user |-> u, plan |-> p, on |-> on, vote |-> vote,
                   found |-> plans[p].votes[on][u]]
  <2>1. StartJob(w, j) /\ ~ Controlled /\ UNCHANGED <<phase, plans, adopted>>
    BY <1>5 DEF StartVote, MayVote
  <2>2. plans[p].votes[on][u] \in Ballots /\ p \in 1..MaxPlans
    <3>1. plans[p] \in PlanRow
      BY DEF IInv, TypeOK
    <3>2. plans[p].votes \in [{"plan", "value"} -> [Users -> Ballots]] /\ on \in {"plan", "value"}
      BY <3>1, InputsAssumption DEF PlanRow
    <3>3. QED
      BY <3>2, InputsAssumption DEF IInv, TypeOK
  <2>3. j \in Jobs /\ JobOK(j)
    BY <2>1, <2>2 DEF Jobs, JobOK
  <2>4. QED
    BY <2>1, <2>3, StartJobType
<1>6. ASSUME NEW w \in Workers, Tally(w) PROVE IInv'
  <2> DEFINE j == job[w]
             rows == Cast(j, "plan")
             kind == IF Kind = "project" THEN plans[j.plan].kind ELSE "event"
             leader == PickLeading(rows, kind)
             told == [op |-> "tallied", user |-> j.user, plan |-> j.plan, vote |-> j.vote,
                      found |-> j.found, leader |-> leader]
  <2>1. /\ j.op = "read" /\ j.plan \in DOMAIN plans /\ j.plan \in 1..MaxPlans /\ ~ Controlled
        /\ j.user \in Users /\ j.vote \in Answers /\ j.found \in Ballots
    BY <1>6, JobShapes DEF IInv, JobsOK, JobOK, Tally
  <2>2. /\ job' = [job EXCEPT ![w] = Idle] \/ job' = [job EXCEPT ![w] = told]
        /\ UNCHANGED <<phase, plans, adopted>>
    BY <1>6 DEF Tally, SyncProjectPlanLeadingFlags, SyncEventPlanLeadingFlags
  <2> HIDE DEF j
  <2>3. DOMAIN rows = DOMAIN plans /\ \A p \in DOMAIN plans : rows[p].kind = plans[p].kind
    BY <2>1, CastIs DEF IInv
  <2>4. kind = plans[j.plan].kind
    <3>1. plans[j.plan] \in PlanRow
      BY <2>1 DEF IInv, TypeOK
    <3>2. plans[j.plan].kind \in Kinds
      BY <3>1, RowFields
    <3>3. QED
      BY <3>2, KindsAssumption
  <2>5. leader = NoPlan \/ (leader \in DOMAIN plans /\ plans[leader].kind = kind)
    <3> HIDE DEF rows, kind
    <3>1. leader \in TopRatio(rows, kind) \cup {NoPlan}
      BY PickIsTop
    <3>2. QED
      BY <2>3, <3>1, TopIsPlan
  <2>6. DOMAIN plans \subseteq 1..MaxPlans
    BY InputsAssumption DEF IInv, TypeOK
  <2> HIDE DEF leader, kind
  <2>7. told \in Jobs /\ JobOK(told)
    <3>1. leader \in 0..MaxPlans
      BY <2>5, <2>6, InputsAssumption DEF NoPlan
    <3>2. told \in Jobs
      BY <2>1, <3>1 DEF Jobs
    <3>3. JobOK(told)
      BY <2>1, <2>4, <2>5 DEF JobOK
    <3>4. QED
      BY <3>2, <3>3
  <2>8. Idle \in Jobs /\ JobOK(Idle)
    BY DEF Jobs, JobOK, Idle
  <2> HIDE DEF told
  <2>9. job' \in [Workers -> Jobs] /\ \A v \in Workers : JobOK(job'[v])
    BY <2>2, <2>7, <2>8 DEF IInv, TypeOK, JobsOK
  <2>10. QED
    BY <2>2, <2>9 DEF IInv, TypeOK, JobsOK, JobOK
<1>7. ASSUME NEW w \in Workers, CommitPlanVote(w) PROVE IInv'
  <2>1. /\ plans' \in Seq(PlanRow) /\ Len(plans') = Len(plans) /\ DOMAIN plans' = DOMAIN plans
        /\ \A p \in DOMAIN plans : plans'[p].kind = plans[p].kind
        /\ adopted' \in Adopted /\ job' = [job EXCEPT ![w] = Idle] /\ phase' = phase
    BY <1>7, PlanVoteEffect
  <2>2. TypeOK'
    BY <2>1 DEF IInv, TypeOK, Jobs
  <2>3. \A v \in Workers : job'[v] = job[v] \/ job'[v] = Idle
    BY <2>1 DEF IInv, TypeOK
  <2>4. QED
    BY <2>1, <2>2, <2>3, JobsStay DEF IInv
<1>8. ASSUME NEW w \in Workers, CommitValueVote(w) PROVE IInv'
  <2>1. /\ plans' \in Seq(PlanRow) /\ Len(plans') = Len(plans) /\ DOMAIN plans' = DOMAIN plans
        /\ \A p \in DOMAIN plans : plans'[p].kind = plans[p].kind
        /\ job' = [job EXCEPT ![w] = Idle] /\ phase' = phase /\ adopted' = adopted
    BY <1>8, ValueVoteEffect DEF SamePlan
  <2>2. TypeOK'
    BY <2>1 DEF IInv, TypeOK, Jobs
  <2>3. \A v \in Workers : job'[v] = job[v] \/ job'[v] = Idle
    BY <2>1 DEF IInv, TypeOK
  <2>4. QED
    BY <2>1, <2>2, <2>3, JobsStay DEF IInv
<1>9. ASSUME NEW w \in Workers, CommitOrganizerPlan(w) PROVE IInv'
  <2>1. /\ plans' \in Seq(PlanRow) /\ Len(plans') <= MaxPlans /\ DOMAIN plans \subseteq DOMAIN plans'
        /\ \A p \in DOMAIN plans : plans'[p].kind = plans[p].kind
        /\ adopted' \in Adopted /\ job' = [job EXCEPT ![w] = Idle] /\ phase' = phase
    BY <1>9, OrganizerPlanEffect
  <2>2. TypeOK'
    BY <2>1 DEF IInv, TypeOK, Jobs
  <2>3. \A v \in Workers : job'[v] = job[v] \/ job'[v] = Idle
    BY <2>1 DEF IInv, TypeOK
  <2>4. QED
    BY <2>1, <2>2, <2>3, JobsStay DEF IInv
<1>10. ASSUME NEW w \in Workers, Rollback(w) PROVE IInv'
  <2>1. /\ job' = [job EXCEPT ![w] = Idle] /\ UNCHANGED <<phase, plans, adopted>>
    BY <1>10 DEF Rollback, EndJob
  <2>2. TypeOK'
    BY <2>1 DEF IInv, TypeOK, Jobs
  <2>3. \A v \in Workers : job'[v] = job[v] \/ job'[v] = Idle
    BY <2>1 DEF IInv, TypeOK
  <2>4. QED
    BY <2>1, <2>2, <2>3, JobsStay DEF IInv
<1>11. ChangePhase => phase' \in Kinds \cup {Nothing} /\ UNCHANGED <<plans, adopted, job>>
  BY DEF ChangePhase
<1>12. UNCHANGED vars => phase' \in Kinds \cup {Nothing} /\ UNCHANGED <<plans, adopted, job>>
  BY DEF vars, IInv, TypeOK
<1>13. QED
  BY <1>1, <1>2, <1>3, <1>4, <1>5, <1>6, <1>7, <1>8, <1>9, <1>10, <1>11, <1>12
  DEF Next, RateProjectPlan, RateEventPlan, StartProjectPlanVote, StartProjectPlanValueVote,
      StartEventPlanVote, StartEventPlanValueVote, CommitProjectPlanVote, CommitEventPlanVote,
      CommitProjectPlanValueVote, CommitEventPlanValueVote

THEOREM Invariant == Spec => []IInv
  BY InitIInv, InvStep, PTL DEF Spec

(* The type invariant, for any people, plans and workers.                  *)
THEOREM TypeCorrect == Spec => []TypeOK
<1>1. IInv => TypeOK
  BY DEF IInv
<1>2. QED
  BY <1>1, Invariant, PTL

-----------------------------------------------------------------------------
(* One plan leads.  Votes may overlap in any number; two organizers who    *)
(* submit at once would not see each other's plan, so that where they      *)
(* control an event requests come one at a time.                           *)
SeesAll == \A w \in Workers : job[w].op = "submit" => job[w].seen = DOMAIN plans

LEMMA InitAdopted == Init => LeaderIsAdopted /\ SeesAll
<1> SUFFICES ASSUME Init PROVE LeaderIsAdopted /\ SeesAll
  OBVIOUS
<1>1. DOMAIN plans = {}
  BY DEF Init
<1>2. QED
  BY <1>1 DEF Init, LeaderIsAdopted, Leading, SeesAll, Idle

(* Leading plans that keep their kind, content and approval keep the       *)
(* property.                                                               *)
LEMMA AdoptedStays ==
  ASSUME LeaderIsAdopted,
         DOMAIN plans \subseteq DOMAIN plans',
         \A p \in DOMAIN plans' : plans'[p].leading => p \in DOMAIN plans /\ SamePlan(plans'[p], plans[p]),
         adopted'.content = adopted.content
  PROVE  LeaderIsAdopted'
<1> SUFFICES ASSUME NEW kind \in ProjectKinds \cup {"event"}, NEW p \in Leading(kind)'
             PROVE  /\ Leading(kind)' = {p}
                    /\ plans'[p].approved
                    /\ kind # "distribution" /\ plans'[p].content # Nothing
                         => adopted'.content = plans'[p].content
  BY DEF LeaderIsAdopted
<1>1. Leading(kind)' \subseteq Leading(kind)
  BY DEF Leading, SamePlan
<1>2. Leading(kind) = {p}
  BY <1>1 DEF LeaderIsAdopted
<1>3. p \in DOMAIN plans /\ SamePlan(plans'[p], plans[p])
  BY DEF Leading
<1>4. QED
  BY <1>1, <1>2, <1>3 DEF LeaderIsAdopted, SamePlan

LEMMA AdoptedStep ==
  ASSUME Controlled => OneAtATime
  PROVE  IInv /\ LeaderIsAdopted /\ SeesAll /\ [Next]_vars => (LeaderIsAdopted /\ SeesAll)'
<1> SUFFICES ASSUME IInv, LeaderIsAdopted, SeesAll, [Next]_vars
             PROVE  LeaderIsAdopted' /\ SeesAll'
  OBVIOUS
<1>1. ASSUME UNCHANGED <<plans, adopted>>,
             \A v \in Workers : job'[v].op = "submit" => job'[v] = job[v] \/ job'[v].seen = DOMAIN plans
      PROVE  LeaderIsAdopted' /\ SeesAll'
  BY <1>1 DEF LeaderIsAdopted, Leading, SeesAll
<1>2. ASSUME NEW u \in Authors, NEW content \in Contents,
             SubmitProjectPlan(u, content) \/ SubmitEventPlan(u, content)
      PROVE  LeaderIsAdopted' /\ SeesAll'
  <2>1. /\ ~ Controlled
        /\ DOMAIN plans' = DOMAIN plans \cup {Len(plans) + 1} /\ Len(plans) + 1 \notin DOMAIN plans
        /\ \A p \in DOMAIN plans : plans'[p] = plans[p]
        /\ ~ plans'[Len(plans) + 1].leading
        /\ UNCHANGED <<phase, adopted, job>>
    BY <1>2, SubmitEffect
  <2>2. \A p \in DOMAIN plans' : plans'[p].leading => p \in DOMAIN plans /\ SamePlan(plans'[p], plans[p])
    BY <2>1 DEF SamePlan
  <2>3. LeaderIsAdopted'
    BY <2>1, <2>2, AdoptedStays
  <2>4. SeesAll'
    BY <2>1 DEF SeesAll, IInv, JobsOK, JobOK
  <2>5. QED
    BY <2>3, <2>4
<1>3. ASSUME NEW u \in Users, NEW p \in DOMAIN plans, NEW c \in Rated, NEW n \in Stars \cup {0},
             Rate(u, p, c, n)
      PROVE  LeaderIsAdopted' /\ SeesAll'
  <2>1. TypeOK
    BY DEF IInv
  <2>2. /\ DOMAIN plans' = DOMAIN plans /\ \A q \in DOMAIN plans : SamePlan(plans'[q], plans[q])
        /\ UNCHANGED <<phase, adopted, job>>
    BY <1>3, <2>1, RateEffect
  <2>3. LeaderIsAdopted'
    BY <2>2, AdoptedStays
  <2>4. SeesAll'
    BY <2>2 DEF SeesAll
  <2>5. QED
    BY <2>3, <2>4
<1>4. ASSUME NEW w \in Workers, CommitPlanVote(w) PROVE LeaderIsAdopted' /\ SeesAll'
  <2> DEFINE i == job[w].plan
             L == job[w].leader
  <2>1. /\ ~ Controlled /\ i \in DOMAIN plans
        /\ L # NoPlan => L \in DOMAIN plans /\ plans[L].kind = plans[i].kind
        /\ DOMAIN plans' = DOMAIN plans
        /\ adopted' = IF L = NoPlan THEN adopted ELSE Adopt(plans[L])
        /\ job' = [job EXCEPT ![w] = Idle]
    BY <1>4, PlanVoteEffect
  <2>2. \A p \in DOMAIN plans :
          /\ plans'[p].kind = plans[p].kind /\ plans'[p].content = plans[p].content
          /\ plans'[p].leading <=> p = L \/ (plans[p].kind # plans[i].kind /\ plans[p].leading)
          /\ plans'[p].approved <=> p = L \/ plans[p].approved
    BY <1>4, PlanVoteEffect
  <2> HIDE DEF i, L
  <2>3. TypeOK /\ NoPlan \notin DOMAIN plans
    BY DEF IInv, TypeOK, NoPlan
  <2>4. \A p \in DOMAIN plans : plans[p] \in PlanRow /\ plans[p].kind \in Kinds
    <3>1. \A p \in DOMAIN plans : plans[p] \in PlanRow
      BY <2>3 DEF TypeOK
    <3>2. QED
      BY <3>1, RowFields
  <2>5. L # NoPlan => adopted'.content = IF (Kind = "project" => plans[L].kind = "production") /\ plans[L].content # Nothing
                                         THEN plans[L].content ELSE adopted.content
    BY <2>1, <2>3, <2>4, AdoptIs
  <2>6. ASSUME NEW kind \in ProjectKinds \cup {"event"}, NEW p \in Leading(kind)'
        PROVE  /\ Leading(kind)' = {p}
               /\ plans'[p].approved
               /\ kind # "distribution" /\ plans'[p].content # Nothing
                    => adopted'.content = plans'[p].content
    <3>1. p \in DOMAIN plans /\ plans[p].kind = kind /\ plans'[p].leading
      BY <2>1, <2>2, <2>6 DEF Leading
    <3>2. CASE kind = plans[i].kind
      <4>1. L = p /\ L # NoPlan
        BY <2>2, <2>3, <3>1, <3>2
      <4>2. Leading(kind)' = {p}
        BY <2>1, <2>2, <3>1, <3>2, <4>1 DEF Leading
      <4>3. kind = "distribution" \/ (Kind = "project" => kind = "production")
        BY <2>4, <3>1, KindsAssumption DEF ProjectKinds
      <4>4. QED
        BY <2>2, <2>5, <3>1, <4>1, <4>2, <4>3
    <3>3. CASE kind # plans[i].kind
      <4>1. plans[p].leading /\ p # L
        BY <2>1, <2>2, <2>3, <3>1, <3>3
      <4>2. p \in Leading(kind)
        BY <3>1, <4>1 DEF Leading
      <4>3. Leading(kind) = {p} /\ plans[p].approved
            /\ (kind # "distribution" /\ plans[p].content # Nothing => adopted.content = plans[p].content)
        BY <4>2 DEF LeaderIsAdopted
      <4>4. Leading(kind)' = Leading(kind)
        <5>1. \A q \in DOMAIN plans :
                plans[q].kind = kind => (plans'[q].kind = kind /\ (plans'[q].leading <=> plans[q].leading))
          BY <2>1, <2>2, <2>3, <3>3
        <5>2. \A q \in DOMAIN plans : plans'[q].kind = plans[q].kind
          BY <2>2
        <5>3. QED
          BY <2>1, <5>1, <5>2 DEF Leading
      <4>5. kind # "distribution" => adopted'.content = adopted.content
        <5>1. Kinds \subseteq ProjectKinds /\ Kind = "project"
          BY <2>1, <2>4, <3>1, <3>3, KindsAssumption
        <5>2. CASE L = NoPlan
          BY <2>1, <5>2
        <5>3. CASE L # NoPlan
          <6>1. kind # "distribution" => plans[L].kind # "production"
            BY <2>1, <2>4, <3>1, <3>3, <5>1, <5>3 DEF ProjectKinds
          <6>2. QED
            BY <2>5, <5>1, <5>3, <6>1
        <5>4. QED
          BY <5>2, <5>3
      <4>6. QED
        BY <2>2, <3>1, <4>1, <4>3, <4>4, <4>5
    <3>4. QED
      BY <3>2, <3>3
  <2>7. LeaderIsAdopted'
    BY <2>6 DEF LeaderIsAdopted
  <2>8. SeesAll'
    BY <2>1, <2>3 DEF SeesAll, TypeOK, Idle
  <2>9. QED
    BY <2>7, <2>8
<1>5. ASSUME NEW w \in Workers, CommitValueVote(w) PROVE LeaderIsAdopted' /\ SeesAll'
  <2>1. /\ DOMAIN plans' = DOMAIN plans /\ \A q \in DOMAIN plans : SamePlan(plans'[q], plans[q])
        /\ adopted' = adopted /\ job' = [job EXCEPT ![w] = Idle]
    BY <1>5, ValueVoteEffect
  <2>2. LeaderIsAdopted'
    BY <2>1, AdoptedStays
  <2>3. SeesAll'
    BY <2>1 DEF SeesAll, IInv, TypeOK, Idle
  <2>4. QED
    BY <2>2, <2>3
<1>6. ASSUME NEW w \in Workers, CommitOrganizerPlan(w) PROVE LeaderIsAdopted' /\ SeesAll'
  <2> DEFINE q == Len(plans) + 1
  <2>1. /\ job[w].op = "submit" /\ Controlled /\ Kinds = {"event"}
        /\ plans' \in Seq(PlanRow) /\ DOMAIN plans' = DOMAIN plans \cup {q} /\ q \notin DOMAIN plans
        /\ \A p \in DOMAIN plans : p \in job[w].seen => ~ plans'[p].leading
        /\ plans'[q].approved
        /\ plans'[q].content # Nothing => adopted'.content = plans'[q].content
        /\ job' = [job EXCEPT ![w] = Idle]
    BY <1>6, OrganizerPlanEffect
  <2> HIDE DEF q
  <2>2. job[w].seen = DOMAIN plans
    BY <2>1 DEF SeesAll
  <2>3. ASSUME NEW kind \in ProjectKinds \cup {"event"}, NEW p \in Leading(kind)'
        PROVE  /\ Leading(kind)' = {p}
               /\ plans'[p].approved
               /\ kind # "distribution" /\ plans'[p].content # Nothing
                    => adopted'.content = plans'[p].content
    <3>1. Leading(kind)' \subseteq {q}
      BY <2>1, <2>2 DEF Leading
    <3>2. p = q
      BY <2>3, <3>1
    <3>3. QED
      BY <2>1, <2>3, <3>1, <3>2
  <2>4. LeaderIsAdopted'
    BY <2>3 DEF LeaderIsAdopted
  <2>5. \A v \in Workers : job'[v] = Idle
    BY <2>1 DEF OneAtATime, IInv, TypeOK
  <2>6. SeesAll'
    BY <2>5 DEF SeesAll, Idle
  <2>7. QED
    BY <2>4, <2>6
<1>7. ASSUME NEW w \in Workers, NEW u \in Authors, NEW content \in Contents,
             StartOrganizerPlan(w, u, content)
      PROVE  LeaderIsAdopted' /\ SeesAll'
  <2>1. /\ job' = [job EXCEPT ![w] = [op |-> "submit", user |-> u, content |-> content, seen |-> DOMAIN plans]]
        /\ UNCHANGED <<plans, adopted>>
    BY <1>7 DEF StartOrganizerPlan, StartJob
  <2>2. \A v \in Workers : job'[v] = job[v] \/ job'[v].seen = DOMAIN plans
    BY <2>1 DEF IInv, TypeOK
  <2>3. QED
    BY <1>1, <2>1, <2>2
<1>8. ASSUME NEW w \in Workers, NEW j, job' = [job EXCEPT ![w] = j], j.op # "submit",
             UNCHANGED <<plans, adopted>>
      PROVE  LeaderIsAdopted' /\ SeesAll'
  <2>1. \A v \in Workers : job'[v].op = "submit" => job'[v] = job[v]
    BY <1>8 DEF IInv, TypeOK
  <2>2. QED
    BY <1>1, <1>8, <2>1
<1>9. ASSUME NEW w \in Workers, NEW u \in Users, NEW p \in DOMAIN plans, NEW vote \in Answers,
             NEW on \in Targets, StartVote(w, u, p, on, vote)
      PROVE  LeaderIsAdopted' /\ SeesAll'
  <2> DEFINE j == [op |-> "read", user |-> u, plan |-> p, on |-> on, vote |-> vote,
                   found |-> plans[p].votes[on][u]]
  <2>1. job' = [job EXCEPT ![w] = j] /\ j.op # "submit" /\ UNCHANGED <<plans, adopted>>
    BY <1>9 DEF StartVote, StartJob
  <2> HIDE DEF j
  <2>2. QED
    BY <1>8, <2>1
<1>10. ASSUME NEW w \in Workers, Tally(w) PROVE LeaderIsAdopted' /\ SeesAll'
  <2>1. job' = [job EXCEPT ![w] = job'[w]] /\ job'[w].op # "submit" /\ UNCHANGED <<plans, adopted>>
    BY <1>10 DEF Tally, Idle, IInv, TypeOK
  <2>2. QED
    BY <1>8, <2>1
<1>11. ASSUME NEW w \in Workers, Rollback(w) PROVE LeaderIsAdopted' /\ SeesAll'
  <2>1. job' = [job EXCEPT ![w] = Idle] /\ Idle.op # "submit" /\ UNCHANGED <<plans, adopted>>
    BY <1>11 DEF Rollback, EndJob, Idle
  <2>2. QED
    BY <1>8, <2>1
<1>12. ChangePhase \/ UNCHANGED vars => UNCHANGED <<plans, adopted, job>>
  BY DEF ChangePhase, vars
<1>13. QED
  BY <1>1, <1>2, <1>3, <1>4, <1>5, <1>6, <1>7, <1>9, <1>10, <1>11, <1>12
  DEF Next, RateProjectPlan, RateEventPlan, StartProjectPlanVote, StartProjectPlanValueVote,
      StartEventPlanVote, StartEventPlanValueVote, CommitProjectPlanVote, CommitEventPlanVote,
      CommitProjectPlanValueVote, CommitEventPlanValueVote

(* One plan of a kind leads, it was approved, and the project or the event *)
(* has taken over what it says, however votes overlap; where organizers    *)
(* control an event, one request at a time (projects_plans.py:187-231,     *)
(* events_plans.py:64-106).                                                *)
THEOREM LeaderAdopted ==
  ASSUME Controlled => OneAtATime
  PROVE  Spec => []LeaderIsAdopted
<1>1. IInv /\ LeaderIsAdopted /\ SeesAll /\ [Next]_vars => (LeaderIsAdopted /\ SeesAll)'
  BY AdoptedStep
<1>2. QED
  BY InitAdopted, Invariant, <1>1, PTL DEF Spec

-----------------------------------------------------------------------------
(* The leader is ahead.  The votes a recount knows are those on record     *)
(* when it commits, if requests come one at a time.                        *)
PickedNow ==
  \A w \in Workers :
    job[w].op = "tallied" =>
      job[w].leader = PickLeading(Cast(job[w], "plan"), plans[job[w].plan].kind)

LEMMA InitAhead == Init => LeaderIsAhead /\ PickedNow
<1> SUFFICES ASSUME Init PROVE LeaderIsAhead /\ PickedNow
  OBVIOUS
<1>1. DOMAIN plans = {}
  BY DEF Init
<1>2. \A kind : TopRatio(plans, kind) = {} /\ Leading(kind) = {}
  BY <1>1 DEF TopRatio, Winning, Leading
<1>3. LeaderIsAhead
  BY <1>2 DEF LeaderIsAhead
<1>4. PickedNow
  BY DEF Init, PickedNow, Idle
<1>5. QED
  BY <1>3, <1>4

LEMMA AheadStays ==
  ASSUME LeaderIsAhead,
         \A kind : TopRatio(plans', kind) = TopRatio(plans, kind) /\ Leading(kind)' = Leading(kind)
  PROVE  LeaderIsAhead'
  BY DEF LeaderIsAhead

LEMMA SamePlansAhead ==
  ASSUME LeaderIsAhead, DOMAIN plans' = DOMAIN plans,
         \A p \in DOMAIN plans : SamePlan(plans'[p], plans[p])
  PROVE  LeaderIsAhead'
<1>1. ASSUME NEW kind PROVE TopRatio(plans', kind) = TopRatio(plans, kind)
  BY SameVotesSameTop DEF SamePlan
<1>2. ASSUME NEW kind PROVE Leading(kind)' = Leading(kind)
  BY DEF Leading, SamePlan
<1>3. QED
  BY <1>1, <1>2, AheadStays

LEMMA AheadStep ==
  ASSUME OneAtATime
  PROVE  IInv /\ LeaderIsAhead /\ PickedNow /\ [Next]_vars => (LeaderIsAhead /\ PickedNow)'
<1> SUFFICES ASSUME IInv, LeaderIsAhead, PickedNow, [Next]_vars
             PROVE  LeaderIsAhead' /\ PickedNow'
  OBVIOUS
<1>1. ASSUME UNCHANGED plans, \A v \in Workers : job'[v].op = "tallied" => job'[v] = job[v]
      PROVE  LeaderIsAhead' /\ PickedNow'
  <2>1. LeaderIsAhead'
    BY <1>1 DEF LeaderIsAhead, Leading
  <2>2. ASSUME NEW v \in Workers, job'[v].op = "tallied"
        PROVE  job'[v].leader = PickLeading(Cast(job[v], "plan")', plans'[job'[v].plan].kind)
    <3>1. job'[v] = job[v]
      BY <1>1, <2>2
    <3>2. Cast(job[v], "plan")' = Cast(job[v], "plan")
      BY <1>1, <3>1 DEF Cast
    <3>3. QED
      BY <1>1, <2>2, <3>1, <3>2 DEF PickedNow
  <2>3. PickedNow'
    BY <2>2 DEF PickedNow
  <2>4. QED
    BY <2>1, <2>3
<1>2. ASSUME NEW u \in Authors, NEW content \in Contents, Free,
             SubmitProjectPlan(u, content) \/ SubmitEventPlan(u, content)
      PROVE  LeaderIsAhead' /\ PickedNow'
  <2>1. /\ DOMAIN plans' = DOMAIN plans \cup {Len(plans) + 1} /\ Len(plans) + 1 \notin DOMAIN plans
        /\ \A p \in DOMAIN plans : plans'[p] = plans[p]
        /\ ~ plans'[Len(plans) + 1].leading
        /\ \A kind : TopRatio(plans', kind) = TopRatio(plans, kind)
        /\ UNCHANGED <<phase, adopted, job>>
    BY <1>2, SubmitEffect
  <2>2. \A kind : Leading(kind)' = Leading(kind)
    BY <2>1 DEF Leading
  <2>3. LeaderIsAhead'
    BY <2>1, <2>2, AheadStays
  <2>4. PickedNow'
    BY <1>2, <2>1 DEF PickedNow, Free, OneAtATime, Idle
  <2>5. QED
    BY <2>3, <2>4
<1>3. ASSUME NEW u \in Users, NEW p \in DOMAIN plans, NEW c \in Rated, NEW n \in Stars \cup {0},
             Free,
             Rate(u, p, c, n)
      PROVE  LeaderIsAhead' /\ PickedNow'
  <2>1. TypeOK
    BY DEF IInv
  <2>2. /\ DOMAIN plans' = DOMAIN plans /\ \A q \in DOMAIN plans : SamePlan(plans'[q], plans[q])
        /\ UNCHANGED <<phase, adopted, job>>
    BY <1>3, <2>1, RateEffect
  <2>3. LeaderIsAhead'
    BY <2>2, SamePlansAhead
  <2>4. PickedNow'
    BY <1>3, <2>2 DEF PickedNow, Free, OneAtATime, Idle
  <2>5. QED
    BY <2>3, <2>4
<1>4. ASSUME NEW w \in Workers, job' = [job EXCEPT ![w] = Idle] PROVE PickedNow'
  <2>1. \A v \in Workers : job'[v] = Idle
    BY <1>4 DEF OneAtATime, IInv, TypeOK
  <2>2. QED
    BY <2>1 DEF PickedNow, Idle
<1>5. ASSUME NEW w \in Workers, CommitPlanVote(w) PROVE LeaderIsAhead' /\ PickedNow'
  <2> DEFINE i == job[w].plan
             L == job[w].leader
             rows == Cast(job[w], "plan")
  <2>1. /\ job[w].op = "tallied" /\ i \in DOMAIN plans
        /\ L # NoPlan => L \in DOMAIN plans /\ plans[L].kind = plans[i].kind
        /\ DOMAIN plans' = DOMAIN plans
        /\ job' = [job EXCEPT ![w] = Idle]
    BY <1>5, PlanVoteEffect
  <2>2. \A p \in DOMAIN plans :
          /\ plans'[p].kind = plans[p].kind
          /\ plans'[p].votes["plan"] = rows[p].votes["plan"]
          /\ p # i => plans'[p].votes["plan"] = plans[p].votes["plan"]
          /\ plans'[p].leading <=> p = L \/ (plans[p].kind # plans[i].kind /\ plans[p].leading)
    BY <1>5, PlanVoteEffect
  <2>3. L = PickLeading(rows, plans[i].kind)
    BY <2>1 DEF PickedNow
  <2>4. DOMAIN rows = DOMAIN plans /\ \A p \in DOMAIN plans : rows[p].kind = plans[p].kind
    <3>1. /\ TypeOK /\ job[w].user \in Users /\ job[w].plan \in DOMAIN plans
          /\ job[w].vote \in Answers /\ job[w].found \in Ballots
      BY <2>1, JobShapes DEF IInv
    <3>2. QED
      BY <3>1, CastIs
  <2>5. NoPlan \notin DOMAIN plans
    BY DEF IInv, TypeOK, NoPlan
  <2> HIDE DEF i, L, rows
  <2>6. ASSUME NEW kind \in ProjectKinds \cup {"event"}, ~ Controlled
        PROVE  /\ Leading(kind)' \subseteq TopRatio(plans', kind)
               /\ \A p \in TopRatio(plans', kind) :
                    TopRatio(plans', kind) = {p} => Leading(kind)' = TopRatio(plans', kind)
    <3>1. CASE kind # plans[i].kind
      <4>1. TopRatio(plans', kind) = TopRatio(plans, kind)
        <5>1. \A p \in DOMAIN plans : plans[p].kind = kind => plans'[p].votes["plan"] = plans[p].votes["plan"]
          BY <2>2, <3>1
        <5>2. QED
          BY <2>1, <2>2, <5>1, SameVotesSameTop
      <4>2. Leading(kind)' = Leading(kind)
        <5>1. \A q \in DOMAIN plans :
                plans[q].kind = kind => (plans'[q].kind = kind /\ (plans'[q].leading <=> plans[q].leading))
          BY <2>1, <2>2, <2>5, <3>1
        <5>2. \A q \in DOMAIN plans : plans'[q].kind = plans[q].kind
          BY <2>2
        <5>3. QED
          BY <2>1, <5>1, <5>2 DEF Leading
      <4>3. QED
        BY <2>6, <4>1, <4>2 DEF LeaderIsAhead
    <3>2. CASE kind = plans[i].kind
      <4>1. TopRatio(plans', kind) = TopRatio(rows, kind)
        <5>1. /\ DOMAIN plans' = DOMAIN rows /\ \A p \in DOMAIN rows : plans'[p].kind = rows[p].kind
              /\ \A p \in DOMAIN rows : rows[p].kind = kind => plans'[p].votes["plan"] = rows[p].votes["plan"]
          BY <2>1, <2>2, <2>4
        <5>2. QED
          BY <5>1, SameVotesSameTop
      <4>2. L \in TopRatio(rows, kind) \cup {NoPlan}
        BY <2>3, <3>2, PickIsTop
      <4>3. Leading(kind)' = {p \in DOMAIN plans : p = L}
        BY <2>1, <2>2, <2>5, <3>2 DEF Leading
      <4>4. ASSUME NEW p, TopRatio(rows, kind) = {p} PROVE Leading(kind)' = {p}
        <5>1. L = p
          BY <2>3, <3>2, <4>4, PickAlone
        <5>2. p \in DOMAIN plans
          BY <2>4, <4>4, TopIsPlan
        <5>3. QED
          BY <4>3, <5>1, <5>2
      <4>5. Leading(kind)' \subseteq TopRatio(rows, kind)
        BY <2>5, <4>2, <4>3
      <4>6. QED
        BY <4>1, <4>4, <4>5
    <3>3. QED
      BY <3>1, <3>2
  <2>7. LeaderIsAhead'
    BY <2>6 DEF LeaderIsAhead
  <2>8. QED
    BY <1>4, <2>1, <2>7
<1>6. ASSUME NEW w \in Workers, CommitValueVote(w) PROVE LeaderIsAhead' /\ PickedNow'
  <2>1. /\ DOMAIN plans' = DOMAIN plans /\ \A q \in DOMAIN plans : SamePlan(plans'[q], plans[q])
        /\ job' = [job EXCEPT ![w] = Idle]
    BY <1>6, ValueVoteEffect
  <2>2. QED
    BY <1>4, <2>1, SamePlansAhead
<1>7. ASSUME NEW w \in Workers, CommitOrganizerPlan(w) PROVE LeaderIsAhead' /\ PickedNow'
  <2>1. Controlled /\ job' = [job EXCEPT ![w] = Idle]
    BY <1>7, OrganizerPlanEffect
  <2>2. LeaderIsAhead'
    BY <2>1 DEF LeaderIsAhead
  <2>3. QED
    BY <1>4, <2>1, <2>2
<1>8. ASSUME NEW w \in Workers, Tally(w) PROVE LeaderIsAhead' /\ PickedNow'
  <2> DEFINE j == job[w]
             kind == IF Kind = "project" THEN plans[j.plan].kind ELSE "event"
             leader == PickLeading(Cast(j, "plan"), kind)
             told == [op |-> "tallied", user |-> j.user, plan |-> j.plan, vote |-> j.vote,
                      found |-> j.found, leader |-> leader]
  <2>1. /\ j.op = "read" /\ j.plan \in DOMAIN plans
        /\ job' = [job EXCEPT ![w] = Idle] \/ job' = [job EXCEPT ![w] = told]
        /\ UNCHANGED <<phase, plans, adopted>>
    BY <1>8 DEF Tally, SyncProjectPlanLeadingFlags, SyncEventPlanLeadingFlags, IInv, JobsOK,
       JobOK
  <2> HIDE DEF j
  <2>2. kind = plans[j.plan].kind
    <3>1. plans[j.plan] \in PlanRow
      BY <2>1 DEF IInv, TypeOK
    <3>2. plans[j.plan].kind \in Kinds
      BY <3>1, RowFields
    <3>3. QED
      BY <3>2, KindsAssumption
  <2>3. Cast(told, "plan") = Cast(j, "plan")
    BY DEF Cast
  <2>4. told.op = "tallied" /\ told.plan = j.plan /\ told.leader = leader
    OBVIOUS
  <2>5. LeaderIsAhead'
    BY <2>1 DEF LeaderIsAhead, Leading
  <2>6. CASE job' = [job EXCEPT ![w] = told]
    <3> HIDE DEF told
    <3>1. \A v \in Workers : job'[v] = told
      BY <2>6 DEF OneAtATime, IInv, TypeOK
    <3>2. ASSUME NEW v \in Workers
          PROVE  job'[v].leader = PickLeading(Cast(job[v], "plan")', plans'[job'[v].plan].kind)
      <4>1. job'[v] = told
        BY <3>1
      <4>2. Cast(job[v], "plan")' = Cast(told, "plan")
        BY <2>1, <4>1 DEF Cast
      <4>3. QED
        BY <2>1, <2>2, <2>3, <2>4, <4>1, <4>2
    <3>3. PickedNow'
      BY <3>2 DEF PickedNow
    <3>4. QED
      BY <2>5, <3>3
  <2>7. QED
    BY <1>4, <2>1, <2>5, <2>6
<1>9. ASSUME NEW w \in Workers, NEW j, job' = [job EXCEPT ![w] = j], j.op # "tallied",
             UNCHANGED plans
      PROVE  LeaderIsAhead' /\ PickedNow'
  <2>1. \A v \in Workers : job'[v].op = "tallied" => job'[v] = job[v]
    BY <1>9 DEF IInv, TypeOK
  <2>2. QED
    BY <1>1, <1>9, <2>1
<1>10. ASSUME NEW w \in Workers, NEW u \in Authors, NEW content \in Contents,
              StartOrganizerPlan(w, u, content)
       PROVE  LeaderIsAhead' /\ PickedNow'
  <2> DEFINE j == [op |-> "submit", user |-> u, content |-> content, seen |-> DOMAIN plans]
  <2>1. job' = [job EXCEPT ![w] = j] /\ j.op # "tallied" /\ UNCHANGED plans
    BY <1>10 DEF StartOrganizerPlan, StartJob
  <2> HIDE DEF j
  <2>2. QED
    BY <1>9, <2>1
<1>11. ASSUME NEW w \in Workers, NEW u \in Users, NEW p \in DOMAIN plans, NEW vote \in Answers,
              NEW on \in Targets, StartVote(w, u, p, on, vote)
       PROVE  LeaderIsAhead' /\ PickedNow'
  <2> DEFINE j == [op |-> "read", user |-> u, plan |-> p, on |-> on, vote |-> vote,
                   found |-> plans[p].votes[on][u]]
  <2>1. job' = [job EXCEPT ![w] = j] /\ j.op # "tallied" /\ UNCHANGED plans
    BY <1>11 DEF StartVote, StartJob
  <2> HIDE DEF j
  <2>2. QED
    BY <1>9, <2>1
<1>12. ASSUME NEW w \in Workers, Rollback(w) PROVE LeaderIsAhead' /\ PickedNow'
  <2>1. job' = [job EXCEPT ![w] = Idle] /\ Idle.op # "tallied" /\ UNCHANGED plans
    BY <1>12 DEF Rollback, EndJob, Idle
  <2>2. QED
    BY <1>9, <2>1
<1>13. ChangePhase \/ UNCHANGED vars => UNCHANGED <<plans, job>>
  BY DEF ChangePhase, vars
<1>14. QED
  BY <1>1, <1>2, <1>3, <1>5, <1>6, <1>7, <1>8, <1>10, <1>11, <1>12, <1>13
  DEF Next, RateProjectPlan, RateEventPlan, StartProjectPlanVote, StartProjectPlanValueVote,
      StartEventPlanVote, StartEventPlanValueVote, CommitProjectPlanVote, CommitEventPlanVote,
      CommitProjectPlanValueVote, CommitEventPlanValueVote

(* One request at a time, only a plan that passes and that no other        *)
(* overtakes leads, and a plan alone at the top leads                      *)
(* (projects_plans.py:155-233).                                            *)
THEOREM LeaderAhead ==
  ASSUME OneAtATime
  PROVE  Spec => []LeaderIsAhead
<1>1. IInv /\ LeaderIsAhead /\ PickedNow /\ [Next]_vars => (LeaderIsAhead /\ PickedNow)'
  BY AheadStep
<1>2. QED
  BY InitAhead, Invariant, <1>1, PTL DEF Spec

-----------------------------------------------------------------------------
(* Proposals of changes of the text.  No two open edits change a field in  *)
(* common (Disjoint), so that what an open edit changes still says what    *)
(* its proposer was shown (Shown) when another one is applied.             *)

(* No two open edits change the same field, and what an open edit changes  *)
(* still says what its proposer was shown.                                 *)
Texted == text \in [Fields -> Texts] /\ requests \in Seq(Edits!RequestRow)
OpenRow(r) == r \in DOMAIN requests /\ requests[r].status = "open"
Shown == \A r \in DOMAIN requests : OpenRow(r) =>
           \A f \in Edits!Changing(requests[r].changes) : text[f] = requests[r].seen[f]
Disjoint == \A r, s \in DOMAIN requests : OpenRow(r) /\ OpenRow(s) /\ r # s =>
              Edits!Changing(requests[r].changes) \cap Edits!Changing(requests[s].changes) = {}

(* One request at a time, what a handler has read still is so.             *)
Voting(j) ==
  /\ j.op \in {"read", "tallied"}
  /\ OpenRow(j.id) /\ j.user \in Users /\ j.vote \in Edits!VoteValues /\ j.found \in Edits!Ballots
Proposing(j) ==
  /\ j.op = "propose" /\ j.changes \in Edits!Changes /\ j.user \in Users
  /\ j.seen = text /\ ~ Edits!OverlappingEdit(j.changes)
Holds(j) ==
  \/ j = Edits!Idle
  \/ Proposing(j)
  \/ j.op = "own" /\ j.id \in DOMAIN requests /\ j.user \in Users
  \/ Voting(j) /\ (j.op = "tallied" => j.outcome \in Edits!Outcomes)
  \/ j.op = "value"
EditJobs == DOMAIN editJob = Workers /\ \A w \in Workers : Holds(editJob[w])

Sound == Texted /\ Shown /\ Disjoint /\ EditJobs

LEMMA AloneEditing ==
  ASSUME OneAtATime, NEW w \in Workers, NEW j, editJob' = [editJob EXCEPT ![w] = j],
         DOMAIN editJob = Workers
  PROVE  DOMAIN editJob' = Workers /\ \A v \in Workers : editJob'[v] = j
  BY DEF OneAtATime

LEMMA TallyOutcome ==
  ASSUME NEW v
  PROVE  Edits!Tallied(v) \in Edits!Outcomes
  BY DEF Edits!Tallied, Edits!Outcomes, Edits!Decide, Edits!Outcome

(* A step that leaves the rows and the text alone.                         *)
LEMMA JobMoves ==
  ASSUME OneAtATime, Sound, NEW w \in Workers, NEW j, editJob' = [editJob EXCEPT ![w] = j],
         UNCHANGED <<text, requests>>, Holds(j)
  PROVE  Sound'
<1>1. DOMAIN editJob' = Workers /\ \A v \in Workers : editJob'[v] = j
  BY AloneEditing DEF Sound, EditJobs
<1>2. Texted' /\ Shown' /\ Disjoint'
  BY DEF Sound, Texted, Shown, Disjoint, OpenRow
<1>3. Holds(j)'
  BY DEF Holds, Voting, Proposing, OpenRow, Edits!OverlappingEdit
<1>4. EditJobs'
  BY <1>1, <1>3 DEF EditJobs, Holds, Voting, Proposing, OpenRow, Edits!OverlappingEdit
<1>5. QED
  BY <1>2, <1>4 DEF Sound

LEMMA NothingMoves ==
  ASSUME Sound, UNCHANGED <<text, requests, editJob>>
  PROVE  Sound'
  BY DEF Sound, Texted, Shown, Disjoint, OpenRow, EditJobs, Holds, Voting, Proposing,
     Edits!OverlappingEdit

LEMMA ProposalCommitted ==
  ASSUME OneAtATime, Sound, NEW w \in Workers, Edits!CommitProposal(w)
  PROVE  /\ Sound' /\ text' = text
         /\ \A r \in DOMAIN requests : requests'[r] = requests[r]
<1> DEFINE j == editJob[w]
           row == [changes |-> j.changes, seen |-> j.seen, status |-> "open",
                   votes |-> [u \in Users |-> "none"]]
           n == Len(requests) + 1
<1>1. Proposing(j)
  BY DEF Edits!CommitProposal, Sound, EditJobs, Holds, Edits!Idle, Voting
<1>2. requests' = Append(requests, row) /\ text' = text
  BY DEF Edits!CommitProposal
<1>3. row \in Edits!RequestRow
  BY <1>1 DEF Proposing, Sound, Texted, Edits!RequestRow, Edits!Outcomes, Edits!Ballots
<1>4. row.changes = j.changes /\ row.seen = text /\ row.status = "open"
  BY <1>1 DEF Proposing
<1>5. editJob' = [editJob EXCEPT ![w] = IF Scheme = "edit" /\ Edits!MayVote(j.user)
                                THEN [op |-> "own", user |-> j.user, id |-> n] ELSE Edits!Idle]
  BY DEF Edits!CommitProposal
<1> HIDE DEF row
<1>6. /\ requests' \in Seq(Edits!RequestRow) /\ n \in DOMAIN requests' /\ n \notin DOMAIN requests
      /\ DOMAIN requests' = DOMAIN requests \cup {n}
      /\ requests'[n] = row /\ \A r \in DOMAIN requests : requests'[r] = requests[r]
  BY <1>2, <1>3 DEF Sound, Texted
<1>7. Texted'
  BY <1>2, <1>6 DEF Sound, Texted
<1>8. Shown'
  BY <1>2, <1>4, <1>6 DEF Sound, Shown, OpenRow
<1>9. \A r \in DOMAIN requests : OpenRow(r) =>
        Edits!Changing(requests[r].changes) \cap Edits!Changing(row.changes) = {}
  BY <1>1, <1>4 DEF Proposing, Edits!OverlappingEdit, OpenRow
<1>10. Disjoint'
  BY <1>6, <1>9 DEF Sound, Disjoint, OpenRow
<1>11. EditJobs'
  <2>1. DOMAIN editJob' = Workers
        /\ \A v \in Workers : editJob'[v] = IF Scheme = "edit" /\ Edits!MayVote(j.user)
                                        THEN [op |-> "own", user |-> j.user, id |-> n] ELSE Edits!Idle
    BY <1>5, AloneEditing DEF Sound, EditJobs
  <2>2. j.user \in Users
    BY <1>1 DEF Proposing
  <2>3. QED
    BY <1>6, <2>1, <2>2 DEF EditJobs, Holds
<1>12. QED
  BY <1>2, <1>6, <1>7, <1>8, <1>10, <1>11 DEF Sound

-----------------------------------------------------------------------------
(* What the commit of a vote writes.                                       *)
LEMMA EditCast ==
  ASSUME Texted, NEW j, Voting(j)
  PROVE  Edits!Cast(j) \in [Users -> Edits!Ballots]
<1>1. j.id \in DOMAIN requests /\ requests[j.id] \in Edits!RequestRow
  BY DEF Voting, OpenRow, Texted
<1> DEFINE v == requests[j.id].votes
<1>2. v \in [Users -> Edits!Ballots]
  BY <1>1 DEF Edits!RequestRow
<1>3. Edits!Recorded(j.found, v[j.user], j.vote) \in Edits!Ballots
  BY <1>2 DEF Voting, Edits!Recorded, Edits!Ballots, Edits!VoteValues
<1>4. Edits!Cast(j) = [v EXCEPT ![j.user] = Edits!Recorded(j.found, @, j.vote)]
  BY DEF Edits!Cast
<1> HIDE DEF v
<1>5. QED
  BY <1>2, <1>3, <1>4

LEMMA Committed ==
  ASSUME Sound, NEW w \in Workers, Edits!CommitVote(w)
  PROVE  LET j == editJob[w]
         IN  /\ Voting(j) /\ j.outcome \in Edits!Outcomes
             /\ DOMAIN requests' = DOMAIN requests /\ requests' \in Seq(Edits!RequestRow)
             /\ requests'[j.id] = [requests[j.id] EXCEPT !.votes = Edits!Cast(j), !.status = j.outcome]
             /\ \A r \in DOMAIN requests \ {j.id} : requests'[r] = requests[r]
             /\ text' = IF j.outcome = "approved" THEN Edits!Applied(requests[j.id].changes) ELSE text
<1> DEFINE j == editJob[w]
<1>1. Voting(j) /\ j.outcome \in Edits!Outcomes
  BY DEF Edits!CommitVote, Sound, EditJobs, Holds, Edits!Idle, Proposing
<1>2. j.id \in DOMAIN requests /\ requests[j.id].status = "open"
  BY <1>1 DEF Voting, OpenRow
<1>3. requests' = [requests EXCEPT ![j.id].votes = Edits!Cast(j),
                                   ![j.id].status = IF j.outcome = "open" THEN @ ELSE j.outcome]
      /\ text' = IF j.outcome = "approved" THEN Edits!Applied(requests[j.id].changes) ELSE text
  BY DEF Edits!CommitVote
<1>4. requests \in Seq(Edits!RequestRow) /\ Edits!Cast(j) \in [Users -> Edits!Ballots]
  BY <1>1, EditCast DEF Sound, Texted
<1> HIDE DEF j
<1> DEFINE new == [requests[j.id] EXCEPT !.votes = Edits!Cast(j), !.status = j.outcome]
<1>5. requests[j.id] \in Edits!RequestRow
  BY <1>2, <1>4
<1>6. new \in Edits!RequestRow
  BY <1>1, <1>4, <1>5 DEF Edits!RequestRow
<1>7. requests' = [requests EXCEPT ![j.id] = new]
  BY <1>2, <1>3, <1>4, <1>5 DEF Edits!RequestRow
<1> HIDE DEF new
<1>8. /\ DOMAIN requests' = DOMAIN requests /\ requests' \in Seq(Edits!RequestRow)
      /\ requests'[j.id] = new
      /\ \A r \in DOMAIN requests \ {j.id} : requests'[r] = requests[r]
  BY <1>2, <1>4, <1>6, <1>7
<1>9. QED
  BY <1>1, <1>3, <1>8 DEF j, new

LEMMA VoteCommitted ==
  ASSUME OneAtATime, Sound, NEW w \in Workers, Edits!CommitVote(w)
  PROVE  Sound'
<1> DEFINE j == editJob[w]
<1>1. /\ Voting(j) /\ j.outcome \in Edits!Outcomes
      /\ DOMAIN requests' = DOMAIN requests /\ requests' \in Seq(Edits!RequestRow)
      /\ requests'[j.id] = [requests[j.id] EXCEPT !.votes = Edits!Cast(j), !.status = j.outcome]
      /\ \A r \in DOMAIN requests \ {j.id} : requests'[r] = requests[r]
      /\ text' = IF j.outcome = "approved" THEN Edits!Applied(requests[j.id].changes) ELSE text
  BY Committed
<1>2. OpenRow(j.id) /\ j.id \in DOMAIN requests
  BY <1>1 DEF Voting, OpenRow
<1>3. requests[j.id] \in Edits!RequestRow
  BY <1>2 DEF Sound, Texted
<1>4. editJob' = [editJob EXCEPT ![w] = Edits!Idle]
  BY DEF Edits!CommitVote, Edits!EndJob
<1>5. EditJobs'
  BY <1>4, AloneEditing DEF Sound, EditJobs, Holds
<1> HIDE DEF j
<1>6. /\ requests'[j.id].changes = requests[j.id].changes /\ requests'[j.id].seen = requests[j.id].seen
      /\ requests'[j.id].status = j.outcome
  BY <1>1, <1>3 DEF Edits!RequestRow
<1>7. \A r \in DOMAIN requests :
        /\ requests'[r].changes = requests[r].changes /\ requests'[r].seen = requests[r].seen
        /\ OpenRow(r)' => OpenRow(r)
  BY <1>1, <1>2, <1>6 DEF OpenRow
<1>8. Disjoint'
  BY <1>1, <1>7 DEF Sound, Disjoint
<1>9. Texted'
  <2>1. requests[j.id].changes \in Edits!Changes /\ text \in [Fields -> Texts]
    BY <1>3 DEF Edits!RequestRow, Sound, Texted
  <2>2. Edits!Applied(requests[j.id].changes) \in [Fields -> Texts]
    BY <2>1 DEF Edits!Applied, Edits!Changes
  <2>3. QED
    BY <1>1, <2>1, <2>2 DEF Texted
<1>10. Shown'
  <2> SUFFICES ASSUME NEW r \in DOMAIN requests, OpenRow(r)',
                      NEW f \in Edits!Changing(requests[r].changes)
               PROVE  text'[f] = requests[r].seen[f]
    BY <1>1, <1>7 DEF Shown
  <2>1. text[f] = requests[r].seen[f]
    BY <1>7 DEF Sound, Shown
  <2>2. CASE j.outcome # "approved"
    BY <1>1, <2>1, <2>2
  <2>3. CASE j.outcome = "approved"
    <3>1. r # j.id
      BY <1>6, <2>3 DEF OpenRow
    <3>2. f \notin Edits!Changing(requests[j.id].changes)
      BY <1>2, <1>7, <3>1 DEF Sound, Disjoint
    <3>3. f \in Fields
      BY DEF Edits!Changing
    <3>4. Edits!Applied(requests[j.id].changes)[f] = text[f]
      BY <3>2, <3>3 DEF Edits!Applied, Edits!Changing
    <3>5. QED
      BY <1>1, <2>1, <2>3, <3>4
  <2>4. QED
    BY <2>2, <2>3
<1>11. QED
  BY <1>5, <1>8, <1>9, <1>10 DEF Sound

-----------------------------------------------------------------------------
LEMMA KeepsSound ==
  ASSUME OneAtATime, Scheme = "edit", Sound, [Edits!Next]_(Edits!vars)
  PROVE  /\ Sound'
         /\ \/ \A r \in DOMAIN requests : requests'[r] = requests[r]
            \/ \E w \in Workers : Edits!CommitVote(w)
<1> DEFINE Same == \A r \in DOMAIN requests : requests'[r] = requests[r]
<1>1. ASSUME NEW w \in Workers, NEW u \in Users, NEW form \in [Fields -> Texts],
             Edits!StartProjectEdit(w, u, form)
      PROVE  Sound' /\ Same
  <2> DEFINE changes == Edits!ChangedText(form)
             j == [op |-> "propose", user |-> u, changes |-> changes, seen |-> text]
  <2>1. changes \in Edits!Changes /\ ~ Edits!OverlappingEdit(changes)
    BY <1>1 DEF Edits!StartProjectEdit, Edits!ChangedText, Edits!Changes
  <2>2. j.op = "propose" /\ j.changes = changes /\ j.user = u /\ j.seen = text
    OBVIOUS
  <2>3. editJob' = [editJob EXCEPT ![w] = j] /\ UNCHANGED <<text, requests>>
    BY <1>1 DEF Edits!StartProjectEdit, Edits!StartJob
  <2> HIDE DEF j, changes
  <2>4. Holds(j)
    BY <2>1, <2>2 DEF Holds, Proposing
  <2>5. QED
    BY <2>3, <2>4, JobMoves
<1>2. ASSUME NEW w \in Workers, NEW u \in Users, NEW id \in DOMAIN requests,
             NEW vote \in Edits!VoteValues,
             Edits!StartVote(w, u, id, vote)
      PROVE  Sound' /\ Same
  <2>1. requests[id].votes[u] \in Edits!Ballots
    <3>1. requests[id] \in Edits!RequestRow
      BY DEF Sound, Texted
    <3>2. QED
      BY <3>1 DEF Edits!RequestRow
  <2>2. Holds(Edits!Read(u, id, vote))
    BY <1>2, <2>1 DEF Edits!StartVote, Holds, Voting, Edits!Read, OpenRow
  <2>3. QED
    BY <1>2, <2>2, JobMoves DEF Edits!StartVote, Edits!StartJob
<1>3. ASSUME NEW w \in Workers, Edits!CastProposerYes(w)
      PROVE  Sound' /\ Same
  <2> DEFINE i == editJob[w]
             j == IF requests[i.id].status = "open" THEN Edits!Read(i.user, i.id, "yes") ELSE Edits!Idle
  <2>1. i.id \in DOMAIN requests /\ i.user \in Users
    BY <1>3 DEF Edits!CastProposerYes, Sound, EditJobs, Holds, Edits!Idle, Proposing, Voting
  <2>2. requests[i.id].votes[i.user] \in Edits!Ballots
    <3>1. requests[i.id] \in Edits!RequestRow
      BY <2>1 DEF Sound, Texted
    <3>2. QED
      BY <2>1, <3>1 DEF Edits!RequestRow
  <2>3. Holds(j)
    BY <2>1, <2>2 DEF Holds, Voting, Edits!Read, OpenRow, Edits!VoteValues
  <2>4. editJob' = [editJob EXCEPT ![w] = j] /\ UNCHANGED <<text, requests>>
    BY <1>3 DEF Edits!CastProposerYes
  <2> HIDE DEF j
  <2>5. QED
    BY <2>3, <2>4, JobMoves
<1>4. ASSUME NEW w \in Workers, Edits!Tally(w)
      PROVE  Sound' /\ Same
  <2> DEFINE i == editJob[w]
             j == [op |-> "tallied", user |-> i.user, id |-> i.id, vote |-> i.vote,
                   found |-> i.found, outcome |-> Edits!Tallied(Edits!Cast(i))]
  <2>1. Voting(i)
    BY <1>4 DEF Edits!Tally, Sound, EditJobs, Holds, Edits!Idle, Proposing
  <2>2. Voting(j) /\ j.outcome \in Edits!Outcomes
    BY <2>1, TallyOutcome DEF Voting
  <2>3. editJob' = [editJob EXCEPT ![w] = j] /\ UNCHANGED <<text, requests>>
    BY <1>4 DEF Edits!Tally
  <2> HIDE DEF j
  <2>4. Holds(j)
    BY <2>2 DEF Holds
  <2>5. QED
    BY <2>3, <2>4, JobMoves
<1>5. ASSUME NEW w \in Workers, NEW l \in Labels, Edits!StartAddValue(w, l)
      PROVE  Sound' /\ Same
  <2> DEFINE j == [op |-> "value", label |-> l]
  <2>1. Holds(j)
    BY DEF Holds
  <2>2. editJob' = [editJob EXCEPT ![w] = j] /\ UNCHANGED <<text, requests>>
    BY <1>5 DEF Edits!StartAddValue, Edits!StartJob
  <2> HIDE DEF j
  <2>3. QED
    BY <2>1, <2>2, JobMoves
<1>6. ASSUME NEW w \in Workers, Edits!CommitValue(w) \/ Edits!Rollback(w)
      PROVE  Sound' /\ Same
  <2>1. Holds(Edits!Idle)
    BY DEF Holds
  <2>2. QED
    BY <1>6, <2>1, JobMoves DEF Edits!CommitValue, Edits!Rollback, Edits!EndJob
<1>7. ASSUME \/ Edits!LeaveProposalPhase \/ UNCHANGED Edits!vars
             \/ \E u \in Users, l \in Labels, n \in {1, 10} :
                  Edits!VoteProjectValue(u, l, n) \/ Edits!VoteEventValue(u, l, n)
      PROVE  Sound' /\ Same
  <2>1. UNCHANGED <<text, requests, editJob>>
    BY <1>7 DEF Edits!LeaveProposalPhase, Edits!vars, Edits!VoteProjectValue,
       Edits!VoteEventValue, Edits!Weigh
  <2>2. QED
    BY <2>1, NothingMoves
<1>8. ASSUME NEW w \in Workers, NEW u \in Users, NEW form \in [Fields -> Texts],
             Edits!StartSettingsChange(w, u, form)
      PROVE  FALSE
  BY <1>8 DEF Edits!StartSettingsChange
<1>9. QED
  BY <1>1, <1>2, <1>3, <1>4, <1>5, <1>6, <1>7, <1>8, ProposalCommitted, VoteCommitted
     DEF Edits!Next, Edits!StartEditVote, Edits!StartSettingsVote, Edits!CommitEditVote, Edits!CommitSettingsVote,
         Edits!AddProjectValue, Edits!AddEventValue

(* One request at a time, an edit that passes replaces the text its        *)
(* proposer was shown, however many are open (projects/phases/             *)
(* edit_requests.py:65-84).                                                *)
THEOREM EditsUndoNothing ==
  ASSUME OneAtATime, Scheme = "edit"
  PROVE  Edits!Spec => EditsNeverUndo
<1>1. Edits!Init => Sound
  BY DEF Edits!Init, Sound, Texted, Shown, Disjoint, OpenRow, EditJobs, Holds
<1>2. Sound /\ [Edits!Next]_(Edits!vars) => Sound'
  BY KeepsSound
<1>3. Sound /\ [Edits!Next]_(Edits!vars) => [Edits!EditsNeverUndo]_(Edits!vars)
  <2> SUFFICES ASSUME Sound, [Edits!Next]_(Edits!vars), NEW r \in DOMAIN requests,
                      requests'[r].status = "approved", requests[r].status = "open",
                      NEW f \in Edits!Changing(requests[r].changes)
               PROVE  text[f] = requests[r].seen[f]
    BY DEF Edits!EditsNeverUndo
  <2>1. QED
    BY DEF Sound, Shown, OpenRow
<1>4. QED
  BY <1>1, <1>2, <1>3, PTL DEF Edits!Spec, EditsNeverUndo
=============================================================================
