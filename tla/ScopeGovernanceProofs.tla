----------------------- MODULE ScopeGovernanceProofs -----------------------
(***************************************************************************)
(* The proposals of a community, for any people, names, workers and number *)
(* of proposals.                                                           *)
(*                                                                         *)
(* For any number of requests in flight, what a worker holds names a row   *)
(* that is there (NamesExist): an outcome is written into a row only by a  *)
(* handler that has seen it open.  With one request at a time what it has  *)
(* read still holds when it commits (OneInv, VerdictInv).  What a series   *)
(* of settled proposals does to the community is a fold, and its           *)
(* properties are proved by induction on their number (NatSets).           *)
(***************************************************************************)
EXTENDS ScopeGovernance, FiniteSetTheorems, WellFoundedInduction, TLAPS

-----------------------------------------------------------------------------
(* A quorum is an integer, whatever the population.                        *)

(* Rounding up by a positive divisor yields an integer.                    *)
LEMMA CeilDivInt ==
  ASSUME NEW a \in Int, NEW b \in Int, b > 0
  PROVE  CeilDiv(a, b) \in Int
  BY SMT DEF CeilDiv

(* The sample size is an integer: its divisor is positive.                 *)
LEMMA SampleOfInt ==
  ASSUME NEW n \in Nat, n >= 1, NEW base \in Nat, base >= 1, NEW span \in Nat
  PROVE  SampleOf(n, base, span) \in Int
<1>1. (span - n) * (span - n) >= 0
  BY SMT
<1>2. (n - 1) * (span - n) * (span - n) >= 0
  BY <1>1, SMT
<1>3. base + (n - 1) * (span - n) * (span - n) > 0
  BY <1>2, SMT
<1>4. base * n \in Int /\ base + (n - 1) * (span - n) * (span - n) \in Int
  BY SMT
<1>5. QED
  BY <1>3, <1>4, CeilDivInt DEF SampleOf

LEMMA CochranSampleInt ==
  ASSUME NEW n \in Nat, n >= 1
  PROVE  CochranSample(n) \in Int
<1>1. SampleOf(n, 10458756, 331) \in Int /\ SampleOf(n, 384160000, 1500) \in Int
  BY SampleOfInt, SMT
<1>2. (CHOOSE k \in 1..n : TRUE) \in Int
  <2>1. 1 \in 1..n
    OBVIOUS
  <2>2. (CHOOSE k \in 1..n : TRUE) \in 1..n
    BY <2>1
  <2>3. QED
    BY <2>2
<1>3. QED
  BY <1>1, <1>2, SMT DEF CochranSample

LEMMA RequiredVotesInt ==
  ASSUME NEW n \in Nat
  PROVE  RequiredVotes(n) \in Int
<1>1. CeilDiv(3 * n, 4) \in Int
  BY CeilDivInt
<1>2. QED
  BY <1>1, CochranSampleInt, SMT DEF RequiredVotes, AtMost

-----------------------------------------------------------------------------
(* What a community has on record.                                         *)

RowsOK ==
  /\ proposals \in [Ids -> Row \cup {Absent}]
  /\ votes \in [Ids -> [Users -> Ballots]]
  /\ job \in [Workers -> Jobs]

NamesExist ==
  \A w \in Workers, p \in Ids : Touches(w, p) => proposals[p] \in Row

IInv == RowsOK /\ NamesExist

-----------------------------------------------------------------------------
LEMMA SettleType ==
  ASSUME NEW c, NEW change, NEW ballots, NEW old
  PROVE  Settle(c, change, ballots, old) \in Outcomes
  BY DEF Settle, Verdict, SwitchOutcome, MajorityOutcome, Outcomes

LEMMA OutcomeType ==
  ASSUME NEW c, NEW p
  PROVE  /\ OutcomeOn(c, p) \in Outcomes
         /\ OutcomeOn(c, p) # "open" => Open(p)
  BY SettleType DEF OutcomeOn, Outcomes

LEMMA JobShapes ==
  ASSUME NEW j \in Jobs
  PROVE  /\ j.pc = "opening" => j \in [pc : {"opening"}, user : Users, change : Changes,
                                       outcome : Outcomes]
         /\ j.pc = "voting" => j \in [pc : {"voting"}, user : Users, proposal : Ids,
                                      ballot : {"yes", "no"}]
         /\ j.pc = "deciding" => j \in [pc : {"deciding"}, user : Users, proposal : Ids,
                                        ballot : {"yes", "no"}, outcome : Outcomes]
         /\ j.pc = "closing" => j \in [pc : {"closing"}, outcomes : [Ids -> Outcomes]]
         /\ j.pc = "direct" => j \in [pc : {"direct"}, user : Users,
                                      change : Edits \cup Removals]
  BY DEF Jobs, Idle

(* A job of any other kind names no proposal.                              *)
LEMMA Untouched ==
  ASSUME NEW w \in Workers, NEW p \in Ids, job[w].pc \notin {"voting", "deciding", "closing"}
  PROVE  ~ Touches(w, p)
  BY DEF Touches

(* Rows are present or absent, and the present ones are not Absent.        *)
LEMMA Presence ==
  ASSUME RowsOK, NEW p \in Ids
  PROVE  /\ Open(p) => proposals[p] \in Row
         /\ Settled(p) => proposals[p] \in Row
         /\ proposals[p] = Absent => ~ Open(p) /\ ~ Settled(p)
  BY DEF RowsOK, Row, Absent, Open, Settled

LEMMA InitIInv == Init => IInv
  BY DEF Init, IInv, RowsOK, NamesExist, Touches, Jobs, Idle, Ballots

-----------------------------------------------------------------------------
(* A new row is added where there was none.                                *)
LEMMA Added ==
  ASSUME IInv, NEW u \in Users, NEW c \in Changes, NEW o \in Outcomes, AddRow(u, c, o),
         NEW w \in Workers, job' = [job EXCEPT ![w] = [pc |-> "reading"]]
  PROVE  IInv'
<1>1. [pc |-> "reading"] \in Jobs
  BY DEF Jobs
<1>2. [status |-> o, change |-> c] \in Row
  BY DEF Row
<1>3. PICK p \in Ids : /\ proposals[p] = Absent
                       /\ proposals' = [proposals EXCEPT ![p] = [status |-> o, change |-> c]]
                       /\ votes' = [votes EXCEPT ![p][u] = "yes"]
  BY DEF AddRow
<1>4. RowsOK'
  BY <1>1, <1>2, <1>3 DEF IInv, RowsOK, Ballots
<1>5. NamesExist'
  BY <1>1, <1>2, <1>3 DEF IInv, RowsOK, NamesExist, Touches
<1>6. QED
  BY <1>4, <1>5 DEF IInv

(* Outcomes are written into rows that are there.                          *)
LEMMA WrittenRows ==
  ASSUME IInv, NEW outcomes \in [Ids -> Outcomes],
         \A p \in Ids : outcomes[p] # "open" => proposals[p] \in Row,
         WriteOutcomes(outcomes)
  PROVE  /\ proposals' \in [Ids -> Row \cup {Absent}]
         /\ \A p \in Ids : proposals[p] \in Row => proposals'[p] \in Row
<1>1. ASSUME NEW p \in Ids, outcomes[p] # "open"
      PROVE  [proposals[p] EXCEPT !.status = outcomes[p]] \in Row
  BY <1>1 DEF Row
<1>2. QED
  BY <1>1 DEF WriteOutcomes, IInv, RowsOK

LEMMA InvStep == IInv /\ [Next]_vars => IInv'
<1> SUFFICES ASSUME IInv, [Next]_vars PROVE IInv'
  OBVIOUS
<1> USE DEF IInv
<1>1. ASSUME UNCHANGED <<proposals, votes>>, NEW w \in Workers, NEW j \in Jobs,
             job' = [job EXCEPT ![w] = j],
             j.pc \notin {"voting", "deciding", "closing"}
      PROVE  IInv'
  BY <1>1 DEF RowsOK, NamesExist, Touches
<1>2. /\ Idle \in Jobs /\ [pc |-> "reading"] \in Jobs
      /\ Idle.pc = "idle"
  BY DEF Jobs, Idle
<1>3. ASSUME NEW w \in Workers, NEW u \in Users, NEW c \in Changes, Propose(w, u, c)
      PROVE  IInv'
  <2> DEFINE j == [pc |-> "opening", user |-> u, change |-> c,
                   outcome |-> Settle(community, c,
                                  [v \in Users |-> IF v = u THEN "yes" ELSE "none"], FALSE)]
  <2>1. j \in Jobs /\ j.pc = "opening"
    BY SettleType DEF Jobs
  <2>2. QED
    BY <1>1, <1>3, <2>1 DEF Propose, Start
<1>4. ASSUME NEW w \in Workers, CommitProposal(w)
      PROVE  IInv'
  <2>1. job[w].user \in Users /\ job[w].change \in Changes /\ job[w].outcome \in Outcomes
    BY <1>4, JobShapes DEF CommitProposal, RowsOK
  <2>2. QED
    BY <1>4, <2>1, Added DEF CommitProposal
<1>5. ASSUME NEW w \in Workers, NEW u \in Users, NEW p \in Ids, NEW b \in {"yes", "no"},
             StartVote(w, u, p, b)
      PROVE  IInv'
  <2>1. [pc |-> "voting", user |-> u, proposal |-> p, ballot |-> b] \in Jobs
    BY DEF Jobs
  <2>2. proposals[p] \in Row
    BY <1>5, Presence DEF StartVote, AcceptsVotes
  <2>3. QED
    BY <1>5, <2>1, <2>2 DEF StartVote, Start, RowsOK, NamesExist, Touches
<1>6. ASSUME NEW w \in Workers, TallyVote(w)
      PROVE  IInv'
  <2> DEFINE j == [pc |-> "deciding", user |-> job[w].user, proposal |-> job[w].proposal,
                   ballot |-> job[w].ballot,
                   outcome |-> Settle(community, proposals[job[w].proposal].change,
                               [votes[job[w].proposal] EXCEPT ![job[w].user] = job[w].ballot],
                               job[w].proposal \in expired)]
  <2>1. j \in Jobs
    BY <1>6, JobShapes, SettleType DEF TallyVote, RowsOK, Jobs
  <2>2. proposals[job[w].proposal] \in Row
    BY <1>6, JobShapes DEF TallyVote, RowsOK, NamesExist, Touches
  <2>3. QED
    BY <1>6, <2>1, <2>2 DEF TallyVote, RowsOK, NamesExist, Touches
<1>7. ASSUME NEW w \in Workers, CommitVote(w)
      PROVE  IInv'
  <2> DEFINE outcomes == [p \in Ids |-> IF p = job[w].proposal THEN job[w].outcome ELSE "open"]
  <2>1. /\ job[w].proposal \in Ids /\ job[w].user \in Users
        /\ job[w].ballot \in Ballots /\ job[w].outcome \in Outcomes
    BY <1>7, JobShapes DEF CommitVote, RowsOK, Ballots
  <2>2. outcomes \in [Ids -> Outcomes]
        /\ \A p \in Ids : outcomes[p] # "open" => proposals[p] \in Row
    BY <1>7, <2>1 DEF CommitVote, Outcomes, NamesExist, Touches
  <2>3. /\ proposals' \in [Ids -> Row \cup {Absent}]
        /\ \A p \in Ids : proposals[p] \in Row => proposals'[p] \in Row
    BY <1>7, <2>2, WrittenRows DEF CommitVote
  <2>4. votes' \in [Ids -> [Users -> Ballots]]
    BY <1>7, <2>1 DEF CommitVote, RowsOK
  <2>5. QED
    BY <1>2, <1>7, <2>3, <2>4 DEF CommitVote, RowsOK, NamesExist, Touches
<1>8. ASSUME NEW w \in Workers, ReadSettings(w)
      PROVE  IInv'
  <2>1. SettleAll \in [Ids -> Outcomes]
        /\ \A p \in Ids : SettleAll[p] # "open" => proposals[p] \in Row
    BY OutcomeType, Presence DEF SettleAll
  <2>2. [pc |-> "closing", outcomes |-> SettleAll] \in Jobs
    BY <2>1 DEF Jobs
  <2>3. QED
    BY <1>1, <1>2, <1>8, <2>1, <2>2 DEF ReadSettings, RowsOK, NamesExist, Touches
<1>9. ASSUME NEW w \in Workers, CommitSettled(w)
      PROVE  IInv'
  <2>1. /\ job[w].outcomes \in [Ids -> Outcomes]
        /\ \A p \in Ids : job[w].outcomes[p] # "open" => proposals[p] \in Row
    BY <1>9, JobShapes DEF CommitSettled, RowsOK, NamesExist, Touches
  <2>2. /\ proposals' \in [Ids -> Row \cup {Absent}]
        /\ \A p \in Ids : proposals[p] \in Row => proposals'[p] \in Row
    BY <1>9, <2>1, WrittenRows DEF CommitSettled
  <2>3. QED
    BY <1>2, <1>9, <2>2 DEF CommitSettled, RowsOK, NamesExist, Touches
<1>10. ASSUME NEW w \in Workers, NEW u \in Users, NEW c \in Edits \cup Removals,
              ChangeDirectly(w, u, c)
       PROVE  IInv'
  <2>1. [pc |-> "direct", user |-> u, change |-> c] \in Jobs
    BY DEF Jobs
  <2>2. QED
    BY <1>1, <1>10, <2>1 DEF ChangeDirectly, Start
<1>11. ASSUME NEW w \in Workers, CommitDirect(w)
       PROVE  IInv'
  <2>1. job[w].user \in Users /\ job[w].change \in Changes /\ "passed" \in Outcomes
    BY <1>11, JobShapes DEF CommitDirect, RowsOK, Changes, Outcomes
  <2>2. QED
    BY <1>11, <2>1, Added DEF CommitDirect
<1>12. ASSUME NEW w \in Workers, NEW u \in Users, NEW v \in Users, NEW r \in {"member", "manager"},
              SetOrganizer(w, u, v, r)
       PROVE  IInv'
  <2>1. [pc |-> "role", user |-> v, role |-> r] \in Jobs
    BY DEF Jobs
  <2>2. QED
    BY <1>1, <1>12, <2>1 DEF SetOrganizer, Start
<1>13. ASSUME NEW w \in Workers, OpenSettings(w) \/ CommitRole(w) \/ Rollback(w)
       PROVE  IInv'
  BY <1>1, <1>2, <1>13 DEF OpenSettings, Start, CommitRole, Rollback
<1>14. ASSUME UNCHANGED <<proposals, votes, job>>
       PROVE  IInv'
  BY <1>14 DEF RowsOK, NamesExist, Touches
<1>15. QED
  BY <1>3, <1>4, <1>5, <1>6, <1>7, <1>8, <1>9, <1>10, <1>11, <1>12, <1>13, <1>14
  DEF Next, Step, Join, Leave, Expire, vars

THEOREM Invariant == Spec => []IInv
<1>1. QED
  BY InitIInv, InvStep, PTL DEF Spec

(* The rows the model writes are rows of the tables.                       *)
THEOREM RowTypes == Spec => []RowsOK
<1>1. IInv => RowsOK
  BY DEF IInv
<1>2. QED
  BY <1>1, Invariant, PTL

-----------------------------------------------------------------------------
(* What a step does to one proposal p that is already settled.             *)
KeepsSettled(p) ==
  /\ Settled(p)'
  /\ \A w \in Workers : Touches(w, p)' => Touches(w, p)
  /\ (\A w \in Workers : ~ Touches(w, p)) =>
       proposals'[p] = proposals[p] /\ votes'[p] = votes[p]

LEMMA AddingKeeps ==
  ASSUME IInv, NEW p \in Ids, Settled(p),
         NEW u \in Users, NEW c \in Changes, NEW o \in Outcomes, AddRow(u, c, o),
         NEW w \in Workers, job' = [job EXCEPT ![w] = [pc |-> "reading"]]
  PROVE  KeepsSettled(p)
<1>1. proposals[p] # Absent
  BY Presence DEF IInv
<1>2. proposals'[p] = proposals[p] /\ votes'[p] = votes[p]
  BY <1>1 DEF AddRow, IInv, RowsOK
<1>3. QED
  BY <1>2 DEF KeepsSettled, Settled, Touches, IInv, RowsOK

LEMMA WritingKeeps ==
  ASSUME IInv, NEW p \in Ids, Settled(p),
         NEW outcomes \in [Ids -> Outcomes], WriteOutcomes(outcomes)
  PROVE  /\ Settled(p)'
         /\ outcomes[p] = "open" => proposals'[p] = proposals[p]
<1>1. proposals[p] \in Row
  BY Presence DEF IInv
<1>2. QED
  BY <1>1 DEF WriteOutcomes, Settled, Row, Outcomes

(* Nothing new touches p: the rows stay and no worker takes p up.          *)
LEMMA NothingNew ==
  ASSUME NEW p \in Ids, Settled(p), UNCHANGED <<proposals, votes>>,
         \A v \in Workers : Touches(v, p)' => Touches(v, p)
  PROVE  KeepsSettled(p)
  BY DEF KeepsSettled, Settled

LEMMA SettledStep ==
  ASSUME IInv, [Next]_vars, NEW p \in Ids, Settled(p)
  PROVE  KeepsSettled(p)
<1> USE DEF IInv
<1>1. ~ Open(p)
  BY DEF Settled, Open
<1>2. ASSUME NEW w \in Workers, CommitProposal(w)
      PROVE  KeepsSettled(p)
  <2>1. job[w].user \in Users /\ job[w].change \in Changes /\ job[w].outcome \in Outcomes
    BY <1>2, JobShapes DEF CommitProposal, RowsOK
  <2>2. QED
    BY <1>2, <2>1, AddingKeeps DEF CommitProposal
<1>3. ASSUME NEW w \in Workers, CommitDirect(w)
      PROVE  KeepsSettled(p)
  <2>1. job[w].user \in Users /\ job[w].change \in Changes /\ "passed" \in Outcomes
    BY <1>3, JobShapes DEF CommitDirect, RowsOK, Changes, Outcomes
  <2>2. QED
    BY <1>3, <2>1, AddingKeeps DEF CommitDirect
<1>4. ASSUME NEW w \in Workers, CommitVote(w)
      PROVE  KeepsSettled(p)
  <2> DEFINE outcomes == [q \in Ids |-> IF q = job[w].proposal THEN job[w].outcome ELSE "open"]
  <2>1. job[w].proposal \in Ids /\ job[w].outcome \in Outcomes
    BY <1>4, JobShapes DEF CommitVote, RowsOK
  <2>2. outcomes \in [Ids -> Outcomes]
    BY <2>1 DEF Outcomes
  <2>3. Settled(p)' /\ (outcomes[p] = "open" => proposals'[p] = proposals[p])
    BY <1>4, <2>2, WritingKeeps DEF CommitVote
  <2>4. \A v \in Workers : Touches(v, p)' => Touches(v, p)
    BY <1>4 DEF CommitVote, Touches, RowsOK
  <2>5. ASSUME \A v \in Workers : ~ Touches(v, p)
        PROVE  proposals'[p] = proposals[p] /\ votes'[p] = votes[p]
    <3>1. p # job[w].proposal
      BY <1>4, <2>5 DEF CommitVote, Touches
    <3>2. QED
      BY <1>4, <2>1, <2>3, <3>1 DEF CommitVote, RowsOK
  <2>6. QED
    BY <2>3, <2>4, <2>5 DEF KeepsSettled
<1>5. ASSUME NEW w \in Workers, CommitSettled(w)
      PROVE  KeepsSettled(p)
  <2>1. job[w].outcomes \in [Ids -> Outcomes]
    BY <1>5, JobShapes DEF CommitSettled, RowsOK
  <2>2. Settled(p)' /\ (job[w].outcomes[p] = "open" => proposals'[p] = proposals[p])
    BY <1>5, <2>1, WritingKeeps DEF CommitSettled
  <2>3. \A v \in Workers : Touches(v, p)' => Touches(v, p)
    BY <1>5 DEF CommitSettled, Touches, RowsOK, Idle
  <2>4. (\A v \in Workers : ~ Touches(v, p)) => job[w].outcomes[p] = "open"
    BY <1>5 DEF CommitSettled, Touches
  <2>5. QED
    BY <1>5, <2>2, <2>3, <2>4 DEF CommitSettled, KeepsSettled
<1>6. ASSUME NEW w \in Workers, NEW u \in Users, NEW q \in Ids, NEW b \in {"yes", "no"},
             StartVote(w, u, q, b)
      PROVE  KeepsSettled(p)
  <2>1. q # p
    BY <1>1, <1>6 DEF StartVote, AcceptsVotes
  <2>2. \A v \in Workers : Touches(v, p)' => Touches(v, p)
    BY <1>6, <2>1 DEF StartVote, Start, Touches, RowsOK
  <2>3. QED
    BY <1>6, <2>2, NothingNew DEF StartVote
<1>7. ASSUME NEW w \in Workers, ReadSettings(w)
      PROVE  KeepsSettled(p)
  <2>1. SettleAll[p] = "open"
    BY <1>1, OutcomeType DEF SettleAll
  <2>2. \A v \in Workers : Touches(v, p)' => Touches(v, p)
    BY <1>7, <2>1 DEF ReadSettings, Touches, RowsOK, Idle
  <2>3. QED
    BY <1>7, <2>2, NothingNew DEF ReadSettings
<1>8. ASSUME NEW w \in Workers, TallyVote(w)
      PROVE  KeepsSettled(p)
  <2>1. \A v \in Workers : Touches(v, p)' => Touches(v, p)
    BY <1>8 DEF TallyVote, Touches, RowsOK
  <2>2. QED
    BY <1>8, <2>1, NothingNew DEF TallyVote
<1>9. ASSUME NEW w \in Workers, NEW j, job' = [job EXCEPT ![w] = j],
             j.pc \notin {"voting", "deciding", "closing"}, UNCHANGED <<proposals, votes>>
      PROVE  KeepsSettled(p)
  <2>1. \A v \in Workers : Touches(v, p)' => Touches(v, p)
    BY <1>9 DEF Touches, RowsOK
  <2>2. QED
    BY <1>9, <2>1, NothingNew
<1>10. ASSUME NEW w \in Workers,
              \/ \E u \in Users, c \in Changes : Propose(w, u, c)
              \/ \E u \in Users, c \in Edits \cup Removals : ChangeDirectly(w, u, c)
              \/ \E u, v \in Users, r \in {"member", "manager"} : SetOrganizer(w, u, v, r)
              \/ OpenSettings(w) \/ CommitRole(w) \/ Rollback(w)
       PROVE  KeepsSettled(p)
  BY <1>9, <1>10 DEF Propose, ChangeDirectly, SetOrganizer, OpenSettings, CommitRole,
                     Rollback, Start, Idle
<1>11. ASSUME UNCHANGED <<proposals, votes, job>>
       PROVE  KeepsSettled(p)
  BY <1>11 DEF KeepsSettled, Settled, Touches
<1>12. QED
  BY <1>2, <1>3, <1>4, <1>5, <1>6, <1>7, <1>8, <1>10, <1>11
  DEF Next, Step, Join, Leave, Expire, vars

(* However many requests are in flight, only one that saw a proposal open  *)
(* can still write to it once it is settled; after them nobody does        *)
(* (scope_governance.py:286 and 407).                                      *)
THEOREM SettledFinal == Spec => SettledIsFinal
<1>1. IInv /\ [Next]_vars => \A p \in Ids : Settled(p) => KeepsSettled(p)
  BY SettledStep
<1>2. QED
  BY <1>1, Invariant, PTL DEF Spec, SettledIsFinal, KeepsSettled

-----------------------------------------------------------------------------
(* Induction on the natural numbers, from their being well-founded.        *)
LEMMA NatSets ==
  ASSUME NEW S \in SUBSET Nat, 0 \in S, \A n \in S : n + 1 \in S
  PROVE  S = Nat
<1> SUFFICES ASSUME Nat \ S # {} PROVE FALSE
  OBVIOUS
<1> DEFINE R == OpToRel(<, Nat)
           T == Nat \ S
<1>1. IsWellFoundedOn(R, Nat)
  BY NatLessThanWellFounded
<1>2. PICK m \in T : \A y \in T : ~ (<<y, m>> \in R)
  <2> HIDE DEF R
  <2>1. T \subseteq Nat /\ T # {}
    OBVIOUS
  <2> HIDE DEF T
  <2>2. QED
    BY <1>1, <2>1, WFMin
<1>3. \A y \in T : ~ (y < m)
  BY <1>2 DEF OpToRel
<1>4. m \in Nat /\ m # 0
  OBVIOUS
<1>5. m - 1 \in Nat /\ m - 1 < m
  BY <1>4
<1>6. m - 1 \in S
  BY <1>3, <1>5
<1>7. QED
  BY <1>4, <1>6

(* Writing a set of outcomes is a fold of Effect over the passed ones.     *)
LEMMA WrittenIs ==
  ASSUME NEW outcomes
  PROVE  \E after : /\ after = [p \in 0..MaxProposals |->
                         IF p = 0 THEN community
                         ELSE IF outcomes[p] = "passed"
                              THEN Effect(after[p - 1], proposals[p].change)
                              ELSE after[p - 1]]
                    /\ Written(outcomes) = after[MaxProposals]
<1> DEFINE Body(g, n) == [p \in 0..n |->
                         IF p = 0 THEN community
                         ELSE IF outcomes[p] = "passed"
                              THEN Effect(g[p - 1], proposals[p].change)
                              ELSE g[p - 1]]
           Built == {n \in Nat : \E g : g = Body(g, n)}
<1>1. 0 \in Built
  <2>1. [p \in 0..0 |-> community] = Body([p \in 0..0 |-> community], 0)
    OBVIOUS
  <2>2. QED
    BY <2>1
<1>2. ASSUME NEW n \in Built
      PROVE  n + 1 \in Built
  <2>1. PICK g : g = Body(g, n)
    OBVIOUS
  <2> DEFINE h == [p \in 0..(n + 1) |->
                     IF p \in 0..n THEN g[p]
                         ELSE IF outcomes[p] = "passed"
                              THEN Effect(g[p - 1], proposals[p].change)
                              ELSE g[p - 1]]
  <2>2. \A p \in 0..(n+1) : h[p] = IF p = 0 THEN community
                         ELSE IF outcomes[p] = "passed"
                              THEN Effect(h[p - 1], proposals[p].change)
                              ELSE h[p - 1]
    BY <2>1
  <2>3. h = Body(h, n + 1)
    BY <2>2
  <2> HIDE DEF h
  <2>4. QED
    BY <2>3
<1>3. Built = Nat
  <2> HIDE DEF Built
  <2>1. Built \in SUBSET Nat
    BY DEF Built
  <2>2. QED
    BY <2>1, <1>1, <1>2, NatSets
<1>4. \E g : g = Body(g, MaxProposals)
  BY <1>3, BoundAssumption
<1>5. QED
  BY <1>4 DEF Written

Communities == [role : [Users -> {"out", "member", "manager"}], mode : Modes, name : Names]

(* What one change does to a community.                                    *)
LEMMA EffectFacts ==
  ASSUME NEW c \in Communities, NEW change \in Changes
  PROVE  /\ Effect(c, change) \in Communities
         /\ Effect(c, change).name # c.name => change.about = {Effect(c, change).name}
         /\ Effect(c, change).mode # c.mode =>
              change.kind = IF Effect(c, change).mode = "organizer" THEN "to_organizer"
                            ELSE "to_collaborative"
<1>1. CASE change \in Edits
  <2>1. PICK n \in Names : change = [kind |-> "edit", about |-> {n}]
    BY <1>1 DEF Edits
  <2>2. Effect(c, change) = [c EXCEPT !.name = CHOOSE m \in {n} : TRUE]
    BY <2>1 DEF Effect
  <2>3. (CHOOSE m \in {n} : TRUE) = n
    OBVIOUS
  <2>4. Effect(c, change) = [c EXCEPT !.name = n]
    BY <2>2, <2>3
  <2>5. QED
    BY <2>1, <2>4 DEF Communities
<1>2. CASE change \in Removals
  <2>1. Effect(c, change) =
          [c EXCEPT !.role = [u \in Users |-> IF u \in change.about THEN "out" ELSE @[u]]]
    BY <1>2 DEF Removals, Effect
  <2>2. QED
    BY <2>1 DEF Communities
<1>3. CASE change = Switch
  <2>1. Effect(c, change) = [c EXCEPT !.mode = "collaborative"]
    BY <1>3 DEF Switch, Effect
  <2>2. QED
    BY <1>3, <2>1 DEF Communities, Modes, Switch
<1>4. CASE change \in Handovers
  <2>1. change.kind = "to_organizer"
    BY <1>4 DEF Handovers
  <2> DEFINE roles == [u \in Users |-> IF c.role[u] = "out" THEN "out"
                                     ELSE IF u \in change.about THEN "manager" ELSE "member"]
  <2>2. Effect(c, change) = [role |-> roles, mode |-> "organizer", name |-> c.name]
    BY <2>1 DEF Effect, Communities
  <2>3. roles \in [Users -> {"out", "member", "manager"}]
    OBVIOUS
  <2> HIDE DEF roles
  <2>4. QED
    BY <2>1, <2>2, <2>3 DEF Communities, Modes
<1>5. QED
  BY <1>1, <1>2, <1>3, <1>4 DEF Changes

(* What a series of changes does, by induction on their number.            *)
LEMMA WrittenFacts ==
  ASSUME community \in Communities, NEW outcomes,
         \A p \in Ids : outcomes[p] = "passed" => proposals[p].change \in Changes
  PROVE  /\ Written(outcomes) \in Communities
         /\ Written(outcomes).name # community.name =>
              \E p \in Ids : /\ outcomes[p] = "passed"
                             /\ proposals[p].change.about = {Written(outcomes).name}
         /\ Written(outcomes).mode # community.mode =>
              \E p \in Ids : /\ outcomes[p] = "passed"
                             /\ proposals[p].change.kind =
                                  IF Written(outcomes).mode = "organizer" THEN "to_organizer"
                                  ELSE "to_collaborative"
<1>1. PICK after : /\ after = [p \in 0..MaxProposals |->
                         IF p = 0 THEN community
                         ELSE IF outcomes[p] = "passed"
                              THEN Effect(after[p - 1], proposals[p].change)
                              ELSE after[p - 1]]
                   /\ Written(outcomes) = after[MaxProposals]
  BY WrittenIs
<1> DEFINE Good(c) ==
             /\ c \in Communities
             /\ c.name # community.name =>
                  \E p \in Ids : outcomes[p] = "passed" /\ proposals[p].change.about = {c.name}
             /\ c.mode # community.mode =>
                  \E p \in Ids : /\ outcomes[p] = "passed"
                                 /\ proposals[p].change.kind =
                                      IF c.mode = "organizer" THEN "to_organizer"
                                      ELSE "to_collaborative"
           Reached == {n \in Nat : n <= MaxProposals => Good(after[n])}
<1>2. 0 \in Reached
  BY <1>1, BoundAssumption
<1>3. ASSUME NEW n \in Reached
      PROVE  n + 1 \in Reached
  <2> SUFFICES ASSUME n + 1 <= MaxProposals PROVE Good(after[n + 1])
    OBVIOUS
  <2>1. n \in Nat /\ n + 1 \in Ids /\ Good(after[n])
    BY BoundAssumption DEF Ids
  <2> HIDE DEF Good
  <2>2. after[n + 1] = IF outcomes[n + 1] = "passed"
                       THEN Effect(after[n], proposals[n + 1].change) ELSE after[n]
    BY <1>1, <2>1, BoundAssumption
  <2>3. CASE outcomes[n + 1] = "passed"
    <3>1. proposals[n + 1].change \in Changes
      BY <2>1, <2>3
    <3>2. after[n] \in Communities
      BY <2>1 DEF Good
    <3>3. after[n + 1] = Effect(after[n], proposals[n + 1].change)
      BY <2>2, <2>3
    <3>4. /\ after[n + 1] \in Communities
          /\ after[n + 1].name # after[n].name =>
               proposals[n + 1].change.about = {after[n + 1].name}
          /\ after[n + 1].mode # after[n].mode =>
               proposals[n + 1].change.kind =
                 IF after[n + 1].mode = "organizer" THEN "to_organizer"
                 ELSE "to_collaborative"
      BY <3>1, <3>2, <3>3, EffectFacts
    <3>5. QED
      BY <2>1, <2>3, <3>4 DEF Good
  <2>4. CASE outcomes[n + 1] # "passed"
    BY <2>1, <2>2, <2>4
  <2>5. QED
    BY <2>3, <2>4
<1>4. Reached = Nat
  <2>1. Reached \in SUBSET Nat
    OBVIOUS
  <2> HIDE DEF Reached
  <2>2. QED
    BY <1>2, <1>3, <2>1, NatSets
<1>5. Good(after[MaxProposals])
  BY <1>4, BoundAssumption
<1>6. QED
  BY <1>1, <1>5

(* What the community is, whoever is changing it at the same time.         *)
PlaceOK == community \in Communities /\ expired \subseteq Ids

LEMMA PlaceStep ==
  ASSUME IInv, PlaceOK, [Next]_vars
  PROVE  PlaceOK'
<1>1. ASSUME NEW outcomes \in [Ids -> Outcomes],
             \A p \in Ids : outcomes[p] # "open" => proposals[p] \in Row,
             WriteOutcomes(outcomes), UNCHANGED expired
      PROVE  PlaceOK'
  <2>1. \A p \in Ids : outcomes[p] = "passed" => proposals[p].change \in Changes
    BY <1>1 DEF Row
  <2>2. QED
    BY <1>1, <2>1, WrittenFacts DEF PlaceOK, WriteOutcomes
<1>2. ASSUME NEW w \in Workers, CommitVote(w)
      PROVE  PlaceOK'
  <2> DEFINE outcomes == [p \in Ids |-> IF p = job[w].proposal THEN job[w].outcome ELSE "open"]
  <2>1. outcomes \in [Ids -> Outcomes]
    BY <1>2, JobShapes DEF CommitVote, IInv, RowsOK, Outcomes
  <2>2. \A p \in Ids : outcomes[p] # "open" => proposals[p] \in Row
    BY <1>2 DEF CommitVote, IInv, NamesExist, Touches
  <2>3. WriteOutcomes(outcomes) /\ UNCHANGED expired
    BY <1>2 DEF CommitVote
  <2> HIDE DEF outcomes
  <2>4. QED
    BY <1>1, <2>1, <2>2, <2>3
<1>3. ASSUME NEW w \in Workers, CommitSettled(w)
      PROVE  PlaceOK'
  BY <1>1, <1>3, JobShapes DEF CommitSettled, IInv, RowsOK, NamesExist, Touches
<1>4. ASSUME NEW w \in Workers, CommitProposal(w)
      PROVE  PlaceOK'
  <2>1. job[w].change \in Changes
    BY <1>4, JobShapes DEF CommitProposal, IInv, RowsOK
  <2>2. QED
    BY <1>4, <2>1, EffectFacts DEF CommitProposal, PlaceOK
<1>5. ASSUME NEW w \in Workers, CommitDirect(w)
      PROVE  PlaceOK'
  <2>1. job[w].change \in Changes
    BY <1>5, JobShapes DEF CommitDirect, IInv, RowsOK, Changes
  <2>2. QED
    BY <1>5, <2>1, EffectFacts DEF CommitDirect, PlaceOK
<1>6. ASSUME NEW w \in Workers, CommitRole(w)
      PROVE  PlaceOK'
  <2>1. job[w].role \in {"member", "manager"}
    BY <1>6 DEF CommitRole, IInv, RowsOK, Jobs, Idle
  <2>2. QED
    BY <1>6, <2>1 DEF CommitRole, PlaceOK, Communities
<1>7. ASSUME NEW w \in Workers, NEW u \in Users, Join(w, u) \/ Leave(w, u)
      PROVE  PlaceOK'
  BY <1>7 DEF Join, Leave, PlaceOK, Communities
<1>8. ASSUME NEW p \in Ids, Expire(p)
      PROVE  PlaceOK'
  BY <1>8 DEF Expire, PlaceOK
<1>9. ASSUME UNCHANGED <<community, expired>>
      PROVE  PlaceOK'
  BY <1>9 DEF PlaceOK
<1>10. QED
  BY <1>2, <1>3, <1>4, <1>5, <1>6, <1>7, <1>8, <1>9
  DEF Next, Step, Propose, StartVote, TallyVote, OpenSettings, ReadSettings,
      ChangeDirectly, SetOrganizer, Rollback, vars

THEOREM PlaceInvariant == Spec => []PlaceOK
<1>1. Init => PlaceOK
  BY FounderAssumption DEF Init, PlaceOK, Communities, Modes
<1>2. IInv /\ PlaceOK /\ [Next]_vars => PlaceOK'
  BY PlaceStep
<1>3. QED
  BY <1>1, <1>2, Invariant, PTL DEF Spec

(* The type invariant, for every instance.                                 *)
THEOREM TypeCorrect == Spec => []TypeOK
<1>1. IInv /\ PlaceOK => TypeOK
  BY DEF IInv, RowsOK, PlaceOK, Communities, TypeOK
<1>2. QED
  BY <1>1, PlaceInvariant, Invariant, PTL

-----------------------------------------------------------------------------
(* From here on one request is served at a time: what a request has read   *)
(* still holds when it commits.                                            *)
OneAtATime == \A v, w \in Workers : v = w

StillOpen  == \A w \in Workers, p \in Ids : Touches(w, p) => Open(p)
StillNew   == \A w \in Workers : job[w].pc = "opening" => ~ AlreadyOpen(job[w].change)
OneInv     == StillOpen /\ StillNew /\ OneVotePerChange

LEMMA InitOneInv == Init => OneInv
  BY DEF Init, OneInv, StillOpen, StillNew, OneVotePerChange, Touches, Open, Absent, Idle

(* No proposal opens, and nobody takes one up.                             *)
LEMMA NothingOpens ==
  ASSUME IInv, OneInv, OneAtATime, NEW w \in Workers, NEW j, job' = [job EXCEPT ![w] = j],
         j.pc \notin {"opening", "voting", "deciding", "closing"},
         \A p \in Ids : Open(p)' => Open(p) /\ proposals'[p].change = proposals[p].change
  PROVE  OneInv'
<1>1. StillOpen' /\ StillNew'
  BY DEF IInv, RowsOK, OneAtATime, StillOpen, StillNew, Touches
<1>2. OneVotePerChange'
  BY DEF OneInv, OneVotePerChange
<1>3. QED
  BY <1>1, <1>2 DEF OneInv

LEMMA WrittenOpen ==
  ASSUME IInv, NEW outcomes \in [Ids -> Outcomes], WriteOutcomes(outcomes),
         \A p \in Ids : outcomes[p] # "open" => Open(p),
         NEW p \in Ids, Open(p)'
  PROVE  Open(p) /\ proposals'[p].change = proposals[p].change
<1>1. CASE outcomes[p] = "open"
  BY <1>1 DEF WriteOutcomes, Open
<1>2. CASE outcomes[p] # "open"
  <2>1. proposals[p] \in Row
    BY <1>2, Presence DEF IInv
  <2>2. proposals'[p].status = outcomes[p]
    BY <1>2, <2>1 DEF WriteOutcomes, Row
  <2>3. QED
    BY <1>2, <2>2 DEF Open
<1>3. QED
  BY <1>1, <1>2

LEMMA OneInvStep ==
  ASSUME IInv, OneInv, OneAtATime, [Next]_vars
  PROVE  OneInv'
<1>1. ASSUME UNCHANGED proposals, NEW w \in Workers, NEW j, job' = [job EXCEPT ![w] = j],
             j.pc \notin {"opening", "voting", "deciding", "closing"}
      PROVE  OneInv'
  BY <1>1, NothingOpens DEF Open
<1>2. ASSUME NEW w \in Workers, NEW u \in Users, NEW c \in Changes, Propose(w, u, c)
      PROVE  OneInv'
  <2>1. job'[w].pc = "opening" /\ job'[w].change = c /\ UNCHANGED proposals
    BY <1>2 DEF Propose, Start, IInv, RowsOK
  <2>2. ~ AlreadyOpen(c)
    BY <1>2 DEF Propose
  <2>3. QED
    BY <2>1, <2>2 DEF OneInv, OneAtATime, StillOpen, StillNew, OneVotePerChange, Touches,
                      AlreadyOpen, Open
<1>3. ASSUME NEW w \in Workers, NEW u \in Users, NEW c \in Changes, NEW o \in Outcomes,
             AddRow(u, c, o), job' = [job EXCEPT ![w] = [pc |-> "reading"]],
             o = "open" => ~ AlreadyOpen(c)
      PROVE  OneInv'
  <2>1. PICK p \in Ids : proposals' = [proposals EXCEPT ![p] = [status |-> o, change |-> c]]
    BY <1>3 DEF AddRow
  <2>2. OneVotePerChange'
    BY <1>3, <2>1 DEF OneInv, OneVotePerChange, AlreadyOpen, Open, IInv, RowsOK
  <2>3. StillOpen' /\ StillNew'
    BY <1>3 DEF IInv, RowsOK, OneAtATime, StillOpen, StillNew, Touches
  <2>4. QED
    BY <2>2, <2>3 DEF OneInv
<1>4. ASSUME NEW w \in Workers, CommitProposal(w)
      PROVE  OneInv'
  <2>1. job[w].user \in Users /\ job[w].change \in Changes /\ job[w].outcome \in Outcomes
    BY <1>4, JobShapes DEF CommitProposal, IInv, RowsOK
  <2>2. QED
    BY <1>3, <1>4, <2>1 DEF CommitProposal, OneInv, StillNew
<1>5. ASSUME NEW w \in Workers, CommitDirect(w)
      PROVE  OneInv'
  <2>1. job[w].user \in Users /\ job[w].change \in Changes /\ "passed" \in Outcomes
    BY <1>5, JobShapes DEF CommitDirect, IInv, RowsOK, Changes, Outcomes
  <2>2. QED
    BY <1>3, <1>5, <2>1 DEF CommitDirect
<1>6. ASSUME NEW w \in Workers, NEW u \in Users, NEW p \in Ids, NEW b \in {"yes", "no"},
             StartVote(w, u, p, b)
      PROVE  OneInv'
  <2>1. Open(p) /\ UNCHANGED proposals
    BY <1>6 DEF StartVote, AcceptsVotes
  <2>2. job'[w].pc = "voting" /\ job'[w].proposal = p
    BY <1>6 DEF StartVote, Start, IInv, RowsOK
  <2>3. QED
    BY <2>1, <2>2 DEF OneInv, OneAtATime, StillOpen, StillNew, OneVotePerChange, Touches, Open
<1>7. ASSUME NEW w \in Workers, TallyVote(w)
      PROVE  OneInv'
  <2>1. UNCHANGED proposals
    BY <1>7 DEF TallyVote
  <2>2. job'[w].pc = "deciding" /\ job'[w].proposal = job[w].proposal /\ job[w].pc = "voting"
    BY <1>7 DEF TallyVote, IInv, RowsOK
  <2>3. QED
    BY <2>1, <2>2 DEF OneInv, OneAtATime, StillOpen, StillNew, OneVotePerChange, Touches, Open
<1>8. ASSUME NEW w \in Workers, CommitVote(w)
      PROVE  OneInv'
  <2> DEFINE outcomes == [p \in Ids |-> IF p = job[w].proposal THEN job[w].outcome ELSE "open"]
  <2>1. outcomes \in [Ids -> Outcomes]
    BY <1>8, JobShapes DEF CommitVote, IInv, RowsOK, Outcomes
  <2>2. \A p \in Ids : outcomes[p] # "open" => Open(p)
    BY <1>8 DEF CommitVote, OneInv, StillOpen, Touches
  <2>3. WriteOutcomes(outcomes)
    BY <1>8 DEF CommitVote
  <2> HIDE DEF outcomes
  <2>4. \A p \in Ids : Open(p)' => Open(p) /\ proposals'[p].change = proposals[p].change
    BY <2>1, <2>2, <2>3, WrittenOpen
  <2>5. QED
    BY <1>8, <2>4, NothingOpens DEF CommitVote
<1>9. ASSUME NEW w \in Workers, CommitSettled(w)
      PROVE  OneInv'
  <2>1. /\ job[w].outcomes \in [Ids -> Outcomes]
        /\ \A p \in Ids : job[w].outcomes[p] # "open" => Open(p)
    BY <1>9, JobShapes DEF CommitSettled, IInv, RowsOK, OneInv, StillOpen, Touches
  <2>2. \A p \in Ids : Open(p)' => Open(p) /\ proposals'[p].change = proposals[p].change
    BY <1>9, <2>1, WrittenOpen DEF CommitSettled
  <2>3. QED
    BY <1>9, <2>2, NothingOpens DEF CommitSettled, Idle
<1>10. ASSUME NEW w \in Workers, ReadSettings(w)
       PROVE  OneInv'
  <2>1. UNCHANGED proposals
    BY <1>10 DEF ReadSettings
  <2>2. \A p \in Ids : SettleAll[p] # "open" => Open(p)
    BY OutcomeType DEF SettleAll
  <2>3. job'[w] = Idle \/ job'[w] = [pc |-> "closing", outcomes |-> SettleAll]
    BY <1>10 DEF ReadSettings, IInv, RowsOK
  <2>4. QED
    BY <2>1, <2>2, <2>3 DEF OneInv, OneAtATime, StillOpen, StillNew, OneVotePerChange,
                            Touches, Open, Idle
<1>11. ASSUME NEW w \in Workers,
              \/ \E u \in Users, c \in Edits \cup Removals : ChangeDirectly(w, u, c)
              \/ \E u, v \in Users, r \in {"member", "manager"} : SetOrganizer(w, u, v, r)
              \/ OpenSettings(w) \/ CommitRole(w) \/ Rollback(w)
       PROVE  OneInv'
  BY <1>1, <1>11 DEF ChangeDirectly, SetOrganizer, OpenSettings, CommitRole, Rollback,
                     Start, Idle
<1>12. ASSUME UNCHANGED <<proposals, job>>
       PROVE  OneInv'
  BY <1>12 DEF OneInv, StillOpen, StillNew, OneVotePerChange, Touches, AlreadyOpen, Open
<1>13. QED
  BY <1>2, <1>4, <1>5, <1>6, <1>7, <1>8, <1>9, <1>10, <1>11, <1>12
  DEF Next, Step, Join, Leave, Expire, vars

THEOREM OneInvariant ==
  ASSUME OneAtATime
  PROVE  Spec => []OneInv
<1>1. IInv /\ OneInv /\ [Next]_vars => OneInv'
  BY OneInvStep
<1>2. QED
  BY <1>1, InitOneInv, Invariant, PTL DEF Spec

(* One request at a time, no change is put to two votes at once            *)
(* (scope_governance.py:358-372).                                          *)
THEOREM OneVoteEach ==
  ASSUME OneAtATime
  PROVE  Spec => []OneVotePerChange
<1>1. OneInv => OneVotePerChange
  BY DEF OneInv
<1>2. QED
  BY <1>1, OneInvariant, PTL

-----------------------------------------------------------------------------
(* A step puts on record the change of name or of government it makes.     *)
OnRecord ==
  /\ community'.name # community.name =>
       \E p \in Ids : Passes(p) /\ proposals'[p].change.about = {community'.name}
  /\ community'.mode # community.mode =>
       \E p \in Ids : Passes(p) /\ proposals'[p].change.kind =
         (IF community'.mode = "organizer" THEN "to_organizer" ELSE "to_collaborative")

LEMMA AddedOnRecord ==
  ASSUME IInv, PlaceOK, NEW u \in Users, NEW c \in Changes, AddRow(u, c, "passed"),
         community' = Effect(community, c)
  PROVE  OnRecord
<1>1. PICK p \in Ids : /\ proposals[p] = Absent
                       /\ proposals' = [proposals EXCEPT ![p] = [status |-> "passed", change |-> c]]
  BY DEF AddRow
<1>2. Passes(p) /\ proposals'[p].change = c
  BY <1>1 DEF Passes, Absent, IInv, RowsOK
<1>3. QED
  BY <1>2, EffectFacts DEF OnRecord, PlaceOK

LEMMA WrittenOnRecord ==
  ASSUME IInv, PlaceOK, NEW outcomes \in [Ids -> Outcomes], WriteOutcomes(outcomes),
         \A p \in Ids : outcomes[p] # "open" => Open(p)
  PROVE  OnRecord
<1>1. ASSUME NEW p \in Ids, outcomes[p] = "passed"
      PROVE  /\ proposals[p].change \in Changes
             /\ Passes(p)
             /\ proposals'[p].change = proposals[p].change
  <2>1. Open(p) /\ proposals[p] \in Row
    BY <1>1, Presence DEF IInv
  <2>2. proposals'[p] = [proposals[p] EXCEPT !.status = "passed"]
    BY <1>1 DEF WriteOutcomes
  <2>3. QED
    BY <2>1, <2>2 DEF Row, Passes, Open
<1>2. community' = Written(outcomes)
  BY DEF WriteOutcomes
<1>3. /\ community'.name # community.name =>
           \E p \in Ids : outcomes[p] = "passed" /\ proposals[p].change.about = {community'.name}
      /\ community'.mode # community.mode =>
           \E p \in Ids : /\ outcomes[p] = "passed"
                          /\ proposals[p].change.kind =
                               IF community'.mode = "organizer" THEN "to_organizer"
                               ELSE "to_collaborative"
  BY <1>1, <1>2, WrittenFacts DEF PlaceOK
<1>4. QED
  BY <1>1, <1>3 DEF OnRecord

LEMMA OnRecordStep ==
  ASSUME IInv, PlaceOK, OneInv, [Next]_vars
  PROVE  OnRecord
<1>1. ASSUME community'.name = community.name, community'.mode = community.mode
      PROVE  OnRecord
  BY <1>1 DEF OnRecord
<1>2. ASSUME NEW w \in Workers, CommitProposal(w)
      PROVE  OnRecord
  <2>1. job[w].user \in Users /\ job[w].change \in Changes
    BY <1>2, JobShapes DEF CommitProposal, IInv, RowsOK
  <2>2. CASE job[w].outcome = "passed"
    BY <1>2, <2>1, <2>2, AddedOnRecord DEF CommitProposal
  <2>3. CASE job[w].outcome # "passed"
    BY <1>1, <1>2, <2>3 DEF CommitProposal
  <2>4. QED
    BY <2>2, <2>3
<1>3. ASSUME NEW w \in Workers, CommitDirect(w)
      PROVE  OnRecord
  <2>1. job[w].user \in Users /\ job[w].change \in Changes
    BY <1>3, JobShapes DEF CommitDirect, IInv, RowsOK, Changes
  <2>2. QED
    BY <1>3, <2>1, AddedOnRecord DEF CommitDirect
<1>4. ASSUME NEW w \in Workers, CommitVote(w)
      PROVE  OnRecord
  <2> DEFINE outcomes == [p \in Ids |-> IF p = job[w].proposal THEN job[w].outcome ELSE "open"]
  <2>1. outcomes \in [Ids -> Outcomes]
    BY <1>4, JobShapes DEF CommitVote, IInv, RowsOK, Outcomes
  <2>2. \A p \in Ids : outcomes[p] # "open" => Open(p)
    BY <1>4 DEF CommitVote, OneInv, StillOpen, Touches
  <2>3. WriteOutcomes(outcomes)
    BY <1>4 DEF CommitVote
  <2> HIDE DEF outcomes
  <2>4. QED
    BY <2>1, <2>2, <2>3, WrittenOnRecord
<1>5. ASSUME NEW w \in Workers, CommitSettled(w)
      PROVE  OnRecord
  <2>1. /\ job[w].outcomes \in [Ids -> Outcomes]
        /\ \A p \in Ids : job[w].outcomes[p] # "open" => Open(p)
    BY <1>5, JobShapes DEF CommitSettled, IInv, RowsOK, OneInv, StillOpen, Touches
  <2>2. QED
    BY <1>5, <2>1, WrittenOnRecord DEF CommitSettled
<1>6. ASSUME NEW w \in Workers, NEW u \in Users, Join(w, u) \/ Leave(w, u) \/ CommitRole(w)
      PROVE  OnRecord
  <2>1. community'.name = community.name /\ community'.mode = community.mode
    BY <1>6 DEF Join, Leave, CommitRole, PlaceOK, Communities
  <2>2. QED
    BY <1>1, <2>1
<1>7. ASSUME UNCHANGED community
      PROVE  OnRecord
  BY <1>1, <1>7
<1>8. QED
  BY <1>2, <1>3, <1>4, <1>5, <1>6, <1>7, FounderAssumption
  DEF Next, Step, Propose, StartVote, TallyVote, OpenSettings, ReadSettings,
      ChangeDirectly, SetOrganizer, Rollback, Expire, vars

(* One request at a time, a community is renamed and its government        *)
(* changes hands only by a decision that goes on record as passed in the   *)
(* same commit, however many of them are settled together                  *)
(* (scope_governance.py:294-305 and 442-463).                              *)
THEOREM ChangesOnRecord ==
  ASSUME OneAtATime
  PROVE  Spec => EveryChangeIsOnRecord
<1>1. IInv /\ PlaceOK /\ OneInv /\ [Next]_vars => OnRecord
  BY OnRecordStep
<1>2. QED
  BY <1>1, Invariant, PlaceInvariant, OneInvariant, PTL
  DEF Spec, EveryChangeIsOnRecord, OnRecord

-----------------------------------------------------------------------------
(* Rejecting a proposal early is fair: the arithmetic of the tally first.  *)
LEMMA MajoritySound ==
  ASSUME NEW yes \in Nat, NEW no \in Nat, NEW other \in Nat,
         MajorityOutcome(yes, no, yes + no + other) = "rejected"
  PROVE  MajorityOutcome(yes + other, no, yes + no + other) # "passed"
<1> DEFINE size == yes + no + other
           needed == AtLeastOne(RequiredVotes(size))
           unused == Unused(size, needed, yes + no)
<1>1. size \in Nat
  OBVIOUS
<1>2. needed \in Int
  <2>1. RequiredVotes(size) \in Int
    BY <1>1, RequiredVotesInt
  <2>2. QED
    BY <2>1 DEF AtLeastOne
<1> HIDE DEF needed
<1>3. unused \in Nat /\ unused >= other /\ yes + no + unused >= needed
  BY <1>2 DEF Unused, AtLeastZero
<1> HIDE DEF unused
<1>4. ~ (yes + no + unused >= needed /\ MeetsApproval(yes + unused, no))
  BY DEF MajorityOutcome, needed, unused
<1>5. ~ MeetsApproval(yes + unused, no)
  BY <1>3, <1>4
<1>6. ~ MeetsApproval(yes + other, no)
  BY <1>3, <1>5 DEF MeetsApproval
<1>7. QED
  BY <1>6 DEF MajorityOutcome

LEMMA SwitchSound ==
  ASSUME NEW yes \in Nat, NEW no \in Nat, NEW other \in Nat,
         SwitchOutcome(yes, no, yes + no + other) = "rejected"
  PROVE  SwitchOutcome(yes + other, no, yes + no + other) # "passed"
<1> DEFINE size == yes + no + other
           needed == AtLeastOne(CeilDiv(66 * size, 100))
<1>1. needed \in Int
  <2>1. CeilDiv(66 * size, 100) \in Int
    BY CeilDivInt
  <2>2. QED
    BY <2>1 DEF AtLeastOne
<1>2. no > size - needed
  BY DEF SwitchOutcome
<1> HIDE DEF needed
<1>3. ~ (yes + other >= needed)
  BY <1>1, <1>2
<1>4. QED
  BY <1>3 DEF SwitchOutcome, needed

LEMMA DisjointSum ==
  ASSUME NEW S, NEW T, IsFiniteSet(S), IsFiniteSet(T), S \cap T = {}
  PROVE  /\ IsFiniteSet(S \cup T)
         /\ Cardinality(S \cup T) = Cardinality(S) + Cardinality(T)
<1>1. /\ IsFiniteSet(S \cup T)
      /\ Cardinality(S \cup T) = Cardinality(S) + Cardinality(T) - Cardinality(S \cap T)
  BY FS_Union
<1>2. Cardinality(S \cap T) = 0 /\ Cardinality(S) \in Nat /\ Cardinality(T) \in Nat
  BY FS_EmptySet, FS_CardinalityType
<1>3. QED
  BY <1>1, <1>2

(* The electorate splits into those for, against and silent.               *)
LEMMA Split ==
  ASSUME IsFiniteSet(Users), NEW e \in SUBSET Users, NEW ballots \in [Users -> Ballots]
  PROVE  LET for     == {u \in e : ballots[u] = "yes"}
             against == {u \in e : ballots[u] = "no"}
             silent  == {u \in e : ballots[u] = "none"}
         IN  /\ Cardinality(for) \in Nat
             /\ Cardinality(against) \in Nat
             /\ Cardinality(silent) \in Nat
             /\ Cardinality(for \cup silent) = Cardinality(for) + Cardinality(silent)
             /\ Cardinality(e) = Cardinality(for) + Cardinality(against) + Cardinality(silent)
<1> DEFINE for     == {u \in e : ballots[u] = "yes"}
           against == {u \in e : ballots[u] = "no"}
           silent  == {u \in e : ballots[u] = "none"}
<1>1. IsFiniteSet(for) /\ IsFiniteSet(against) /\ IsFiniteSet(silent)
  <2>1. for \in SUBSET Users /\ against \in SUBSET Users /\ silent \in SUBSET Users
    OBVIOUS
  <2> HIDE DEF for, against, silent
  <2>2. QED
    BY <2>1, FS_Subset
<1>2. /\ for \cap silent = {}
      /\ (for \cup silent) \cap against = {}
      /\ e = (for \cup silent) \cup against
  BY DEF Ballots
<1> HIDE DEF for, against, silent
<1>3. /\ Cardinality(for) \in Nat /\ Cardinality(against) \in Nat /\ Cardinality(silent) \in Nat
      /\ Cardinality({}) = 0
  BY <1>1, FS_CardinalityType, FS_EmptySet
<1>4. /\ IsFiniteSet(for \cup silent)
      /\ Cardinality(for \cup silent) = Cardinality(for) + Cardinality(silent)
  BY <1>1, <1>2, DisjointSum
<1>5. Cardinality(e) = Cardinality(for \cup silent) + Cardinality(against)
  BY <1>1, <1>2, <1>4, DisjointSum
<1>6. QED
  BY <1>3, <1>4, <1>5 DEF for, against, silent

(* What was voted down fails even with the yes of everybody silent.        *)
AllYes(c, change, ballots) ==
  [u \in Users |-> IF u \in Electorate(c, change) /\ ballots[u] = "none" THEN "yes"
                   ELSE ballots[u]]

LEMMA SettleSound ==
  ASSUME IsFiniteSet(Users), NEW c, NEW change, NEW ballots \in [Users -> Ballots],
         Settle(c, change, ballots, FALSE) = "rejected"
  PROVE  Settle(c, change, AllYes(c, change, ballots), FALSE) # "passed"
<1> DEFINE e       == Electorate(c, change)
           after   == AllYes(c, change, ballots)
           for     == {u \in e : ballots[u] = "yes"}
           against == {u \in e : ballots[u] = "no"}
           silent  == {u \in e : ballots[u] = "none"}
<1>1. e \in SUBSET Users
  BY DEF Electorate, Managers, Members
<1>2. /\ Cardinality(for) \in Nat
      /\ Cardinality(against) \in Nat
      /\ Cardinality(silent) \in Nat
      /\ Cardinality(for \cup silent) = Cardinality(for) + Cardinality(silent)
      /\ Cardinality(e) = Cardinality(for) + Cardinality(against) + Cardinality(silent)
  BY <1>1, Split
<1>3. /\ {u \in e : after[u] = "yes"} = for \cup silent
      /\ {u \in e : after[u] = "no"} = against
  BY <1>1 DEF AllYes
<1>4. CASE change.kind = "to_collaborative"
  <2>1. SwitchOutcome(Cardinality(for), Cardinality(against), Cardinality(e)) = "rejected"
    BY <1>4 DEF Settle, Verdict
  <2>2. SwitchOutcome(Cardinality(for \cup silent), Cardinality(against), Cardinality(e))
          # "passed"
    <3> HIDE DEF e, for, against, silent
    <3>1. QED
      BY <1>2, <2>1, SwitchSound
  <2>3. QED
    BY <1>3, <1>4, <2>2 DEF Settle, Verdict
<1>5. CASE change.kind # "to_collaborative"
  <2>1. MajorityOutcome(Cardinality(for), Cardinality(against), Cardinality(e)) = "rejected"
    BY <1>5 DEF Settle, Verdict
  <2>2. MajorityOutcome(Cardinality(for \cup silent), Cardinality(against), Cardinality(e))
          # "passed"
    <3> HIDE DEF e, for, against, silent
    <3>1. QED
      BY <1>2, <2>1, MajoritySound
  <2>3. QED
    BY <1>3, <1>5, <2>2 DEF Settle, Verdict
<1>6. QED
  BY <1>4, <1>5

-----------------------------------------------------------------------------
(* One request at a time, the verdict a request carries to its commit is   *)
(* still the one the rows call for; only the week may have ended since.    *)
Judged(o, change, ballots, p) ==
  \E old \in BOOLEAN : (old => p \in expired) /\ o = Settle(community, change, ballots, old)

OwnBallot(u)  == [v \in Users |-> IF v = u THEN "yes" ELSE "none"]
NoStrayVotes  == \A p \in Ids : proposals[p] = Absent => votes[p] = [u \in Users |-> "none"]
VerdictHolds(j) ==
  /\ j.pc = "opening" => j.outcome = Settle(community, j.change, OwnBallot(j.user), FALSE)
  /\ j.pc = "deciding" =>
       Judged(j.outcome, proposals[j.proposal].change,
              [votes[j.proposal] EXCEPT ![j.user] = j.ballot], j.proposal)
  /\ j.pc = "closing" =>
       \A p \in Ids :
         j.outcomes[p] # "open" /\ (\A q \in Ids : q < p => j.outcomes[q] # "passed") =>
           Judged(j.outcomes[p], proposals[p].change, votes[p], p)
VerdictInv == NoStrayVotes /\ \A w \in Workers : VerdictHolds(job[w])

LEMMA InitVerdictInv == Init => VerdictInv
<1> SUFFICES ASSUME Init PROVE VerdictInv
  OBVIOUS
<1>1. NoStrayVotes
  BY DEF Init, NoStrayVotes
<1>2. \A w \in Workers : job[w].pc = "idle"
  BY DEF Init, Idle
<1>3. \A w \in Workers : VerdictHolds(job[w])
  BY <1>2 DEF VerdictHolds
<1>4. QED
  BY <1>1, <1>3 DEF VerdictInv

(* A verdict reached on the rows as they are is one the rows call for, and *)
(* stays one while they do.                                                *)
LEMMA JudgedNow ==
  ASSUME NEW change, NEW ballots, NEW p
  PROVE  Judged(Settle(community, change, ballots, p \in expired), change, ballots, p)
<1>1. CASE p \in expired
  <2>1. (p \in expired) = TRUE
    BY <1>1
  <2>2. QED
    BY <1>1, <2>1 DEF Judged
<1>2. CASE p \notin expired
  <2>1. (p \in expired) = FALSE
    BY <1>2
  <2>2. QED
    BY <1>2, <2>1 DEF Judged
<1>3. QED
  BY <1>1, <1>2

LEMMA JudgedStill ==
  ASSUME NEW o, NEW change, NEW ballots, NEW p, Judged(o, change, ballots, p),
         UNCHANGED community, expired \subseteq expired'
  PROVE  Judged(o, change, ballots, p)'
  BY DEF Judged

(* As long as nothing passes, the page settles on the community it found.  *)
LEMMA AfterReadingIs ==
  AfterReading = [p \in 0..MaxProposals |->
                    IF p = 0 THEN community
                    ELSE IF OutcomeOn(AfterReading[p - 1], p) = "passed"
                         THEN Effect(AfterReading[p - 1], proposals[p].change)
                         ELSE AfterReading[p - 1]]
<1> DEFINE Body(g, n) == [p \in 0..n |->
                            IF p = 0 THEN community
                            ELSE IF OutcomeOn(g[p - 1], p) = "passed"
                                 THEN Effect(g[p - 1], proposals[p].change)
                                 ELSE g[p - 1]]
           Built == {n \in Nat : \E g : g = Body(g, n)}
<1>1. 0 \in Built
  <2>1. [p \in 0..0 |-> community] = Body([p \in 0..0 |-> community], 0)
    OBVIOUS
  <2>2. QED
    BY <2>1
<1>2. ASSUME NEW n \in Built
      PROVE  n + 1 \in Built
  <2>1. PICK g : g = Body(g, n)
    OBVIOUS
  <2> DEFINE h == [p \in 0..(n + 1) |->
                     IF p \in 0..n THEN g[p]
                     ELSE IF OutcomeOn(g[p - 1], p) = "passed"
                          THEN Effect(g[p - 1], proposals[p].change)
                          ELSE g[p - 1]]
  <2>2. \A p \in 0..(n + 1) :
          h[p] = IF p = 0 THEN community
                 ELSE IF OutcomeOn(h[p - 1], p) = "passed"
                      THEN Effect(h[p - 1], proposals[p].change)
                      ELSE h[p - 1]
    BY <2>1
  <2>3. h = Body(h, n + 1)
    BY <2>2
  <2> HIDE DEF h
  <2>4. QED
    BY <2>3
<1>3. Built = Nat
  <2> HIDE DEF Built
  <2>1. Built \in SUBSET Nat
    BY DEF Built
  <2>2. QED
    BY <1>1, <1>2, <2>1, NatSets
<1>4. \E g : g = Body(g, MaxProposals)
  BY <1>3, BoundAssumption
<1>5. QED
  BY <1>4 DEF AfterReading

LEMMA AfterReadingStays ==
  ASSUME NEW p \in Ids, \A q \in Ids : q < p => SettleAll[q] # "passed"
  PROVE  AfterReading[p - 1] = community
<1> DEFINE Same == {n \in Nat : n < p => AfterReading[n] = community}
<1>1. 0 \in Same
  BY AfterReadingIs, BoundAssumption
<1>2. ASSUME NEW n \in Same
      PROVE  n + 1 \in Same
  <2> SUFFICES ASSUME n + 1 < p PROVE AfterReading[n + 1] = community
    OBVIOUS
  <2>1. n + 1 \in Ids /\ n \in Nat /\ AfterReading[n] = community
    BY BoundAssumption DEF Ids
  <2>2. OutcomeOn(AfterReading[n], n + 1) # "passed"
    BY <2>1 DEF SettleAll
  <2>3. QED
    BY <2>1, <2>2, AfterReadingIs, BoundAssumption DEF Ids
<1>3. Same = Nat
  <2>1. Same \in SUBSET Nat
    OBVIOUS
  <2> HIDE DEF Same
  <2>2. QED
    BY <1>1, <1>2, <2>1, NatSets
<1>4. p - 1 \in Nat /\ p - 1 < p
  BY BoundAssumption DEF Ids
<1>5. QED
  BY <1>3, <1>4

LEMMA VerdictStep ==
  ASSUME IInv, VerdictInv, OneAtATime, [Next]_vars
  PROVE  VerdictInv'
<1>1. ASSUME NEW w \in Workers, NEW j, job' = [job EXCEPT ![w] = j],
             j.pc \notin {"opening", "deciding", "closing"}
      PROVE  \A v \in Workers : VerdictHolds(job[v])'
  BY <1>1 DEF IInv, RowsOK, OneAtATime, VerdictHolds
<1>2. ASSUME UNCHANGED <<proposals, votes>>, \A v \in Workers : VerdictHolds(job[v])'
      PROVE  VerdictInv'
  BY <1>2 DEF VerdictInv, NoStrayVotes
<1>3. ASSUME NEW w \in Workers, NEW u \in Users, NEW c \in Changes, Propose(w, u, c)
      PROVE  VerdictInv'
  <2>1. /\ job'[w] = [pc |-> "opening", user |-> u, change |-> c,
                      outcome |-> Settle(community, c, OwnBallot(u), FALSE)]
        /\ UNCHANGED <<community, proposals, votes>>
    BY <1>3 DEF Propose, Start, OwnBallot, IInv, RowsOK
  <2>2. VerdictHolds(job[w])'
    BY <2>1 DEF VerdictHolds, Settle, Electorate, Members, Managers, OwnBallot
  <2>3. QED
    BY <1>2, <2>1, <2>2 DEF OneAtATime
<1>4. ASSUME NEW w \in Workers, NEW u \in Users, NEW c \in Changes, NEW o \in Outcomes,
             AddRow(u, c, o), job' = [job EXCEPT ![w] = [pc |-> "reading"]]
      PROVE  VerdictInv'
  <2>1. PICK p \in Ids : /\ proposals' = [proposals EXCEPT ![p] = [status |-> o, change |-> c]]
                         /\ votes' = [votes EXCEPT ![p][u] = "yes"]
    BY <1>4 DEF AddRow
  <2>2. [status |-> o, change |-> c] # Absent
    BY DEF Absent, Outcomes
  <2>3. NoStrayVotes'
    BY <2>1, <2>2 DEF VerdictInv, NoStrayVotes, IInv, RowsOK
  <2>4. QED
    BY <1>1, <1>4, <2>3 DEF VerdictInv
<1>5. ASSUME NEW w \in Workers, CommitProposal(w)
      PROVE  VerdictInv'
  <2>1. job[w].user \in Users /\ job[w].change \in Changes /\ job[w].outcome \in Outcomes
    BY <1>5, JobShapes DEF CommitProposal, IInv, RowsOK
  <2>2. QED
    BY <1>4, <1>5, <2>1 DEF CommitProposal
<1>6. ASSUME NEW w \in Workers, CommitDirect(w)
      PROVE  VerdictInv'
  <2>1. job[w].user \in Users /\ job[w].change \in Changes /\ "passed" \in Outcomes
    BY <1>6, JobShapes DEF CommitDirect, IInv, RowsOK, Changes, Outcomes
  <2>2. QED
    BY <1>4, <1>6, <2>1 DEF CommitDirect
<1>7. ASSUME NEW w \in Workers, TallyVote(w)
      PROVE  VerdictInv'
  <2>1. PICK o, c, b :
             /\ c = proposals[job[w].proposal].change
             /\ b = [votes[job[w].proposal] EXCEPT ![job[w].user] = job[w].ballot]
             /\ o = Settle(community, c, b, job[w].proposal \in expired)
             /\ job'[w] = [pc |-> "deciding", user |-> job[w].user,
                           proposal |-> job[w].proposal, ballot |-> job[w].ballot,
                           outcome |-> o]
    BY <1>7 DEF TallyVote, IInv, RowsOK
  <2>2. UNCHANGED <<community, proposals, votes, expired>>
    BY <1>7 DEF TallyVote
  <2>3. PICK p : p = job[w].proposal
    OBVIOUS
  <2>4. Judged(o, c, b, p)'
    BY <2>1, <2>2, <2>3, JudgedNow, JudgedStill
  <2>5. VerdictHolds(job[w])'
    <3>1. /\ job'[w].pc = "deciding" /\ job'[w].outcome = o /\ job'[w].proposal = p
          /\ job'[w].user = job[w].user /\ job'[w].ballot = job[w].ballot
      BY <2>1, <2>3
    <3>2. /\ c = proposals[p].change /\ b = [votes[p] EXCEPT ![job[w].user] = job[w].ballot]
          /\ UNCHANGED <<proposals, votes>>
      BY <2>1, <2>2, <2>3
    <3>3. QED
      BY <2>4, <3>1, <3>2 DEF VerdictHolds
  <2>6. QED
    BY <1>2, <2>2, <2>5 DEF OneAtATime
<1>8. ASSUME NEW w \in Workers, CommitVote(w)
      PROVE  VerdictInv'
  <2> DEFINE outcomes == [p \in Ids |-> IF p = job[w].proposal THEN job[w].outcome ELSE "open"]
  <2>1. job[w].proposal \in Ids /\ job[w].outcome \in Outcomes /\ proposals[job[w].proposal] \in Row
    BY <1>8, JobShapes DEF CommitVote, IInv, RowsOK, NamesExist, Touches
  <2>2. outcomes \in [Ids -> Outcomes]
        /\ \A p \in Ids : outcomes[p] # "open" => proposals[p] \in Row
    BY <2>1 DEF Outcomes
  <2>3. \A p \in Ids : proposals[p] \in Row => proposals'[p] \in Row
    BY <1>8, <2>2, WrittenRows DEF CommitVote
  <2>4. \A p \in Ids : proposals'[p] = Absent => proposals[p] = Absent /\ p # job[w].proposal
    BY <2>1, <2>3 DEF Row, Absent, IInv, RowsOK, Outcomes
  <2>5. NoStrayVotes'
    BY <1>8, <2>1, <2>4 DEF CommitVote, VerdictInv, NoStrayVotes, IInv, RowsOK
  <2>6. QED
    BY <1>1, <1>8, <2>5 DEF CommitVote, VerdictInv
<1>9. ASSUME NEW w \in Workers, CommitSettled(w)
      PROVE  VerdictInv'
  <2>1. /\ job[w].outcomes \in [Ids -> Outcomes]
        /\ \A p \in Ids : job[w].outcomes[p] # "open" => proposals[p] \in Row
    BY <1>9, JobShapes DEF CommitSettled, IInv, RowsOK, NamesExist, Touches
  <2>2. \A p \in Ids : proposals[p] \in Row => proposals'[p] \in Row
    BY <1>9, <2>1, WrittenRows DEF CommitSettled
  <2>3. NoStrayVotes'
    BY <1>9, <2>2 DEF CommitSettled, VerdictInv, NoStrayVotes, IInv, RowsOK, Row, Absent, Outcomes
  <2>4. QED
    BY <1>1, <1>9, <2>3 DEF CommitSettled, VerdictInv, Idle
<1>10. ASSUME NEW w \in Workers, ReadSettings(w)
       PROVE  VerdictInv'
  <2>1. ASSUME NEW p \in Ids, SettleAll[p] # "open",
               \A q \in Ids : q < p => SettleAll[q] # "passed"
        PROVE  SettleAll[p] = Settle(community, proposals[p].change, votes[p], p \in expired)
    <3>1. SettleAll[p] = OutcomeOn(community, p)
      BY <2>1, AfterReadingStays DEF SettleAll
    <3>2. Open(p)
      BY <2>1, <3>1, OutcomeType
    <3>3. QED
      BY <3>1, <3>2 DEF OutcomeOn
  <2>2. UNCHANGED <<community, proposals, votes, expired>>
    BY <1>10 DEF ReadSettings
  <2>3. PICK s : /\ s = SettleAll
                 /\ job'[w] = Idle \/ job'[w] = [pc |-> "closing", outcomes |-> s]
    BY <1>10 DEF ReadSettings, IInv, RowsOK
  <2>4. ASSUME NEW p \in Ids, s[p] # "open", \A q \in Ids : q < p => s[q] # "passed"
        PROVE  Judged(s[p], proposals[p].change, votes[p], p)'
    <3>1. PICK o, c, b : o = s[p] /\ c = proposals[p].change /\ b = votes[p]
      OBVIOUS
    <3>2. Judged(o, c, b, p)'
      BY <2>1, <2>2, <2>3, <2>4, <3>1, JudgedNow, JudgedStill
    <3>3. QED
      BY <2>2, <3>1, <3>2
  <2>5. VerdictHolds(job[w])'
    <3>1. \/ job'[w].pc = "idle"
          \/ job'[w].pc = "closing" /\ job'[w].outcomes = s
      BY <2>3 DEF Idle
    <3>2. CASE job'[w].pc = "idle"
      BY <3>2 DEF VerdictHolds
    <3>3. CASE job'[w].pc = "closing" /\ job'[w].outcomes = s
      BY <2>4, <3>3 DEF VerdictHolds
    <3>4. QED
      BY <3>1, <3>2, <3>3
  <2>6. QED
    BY <1>2, <2>2, <2>5 DEF OneAtATime
<1>11. ASSUME NEW w \in Workers,
              \/ \E u \in Users, p \in Ids, b \in {"yes", "no"} : StartVote(w, u, p, b)
              \/ \E u \in Users, c \in Edits \cup Removals : ChangeDirectly(w, u, c)
              \/ \E u, v \in Users, r \in {"member", "manager"} : SetOrganizer(w, u, v, r)
              \/ OpenSettings(w) \/ CommitRole(w) \/ Rollback(w)
       PROVE  VerdictInv'
  BY <1>1, <1>2, <1>11 DEF StartVote, ChangeDirectly, SetOrganizer, OpenSettings, CommitRole,
                           Rollback, Start, Idle
<1>12. ASSUME NEW w \in Workers, NEW u \in Users, Join(w, u) \/ Leave(w, u)
       PROVE  VerdictInv'
  <2>1. \A v \in Workers : job'[v].pc = "idle"
    BY <1>12 DEF Join, Leave, OneAtATime, Idle
  <2>2. \A v \in Workers : VerdictHolds(job[v])'
    BY <2>1 DEF VerdictHolds
  <2>3. QED
    BY <1>2, <1>12, <2>2 DEF Join, Leave
<1>13. ASSUME UNCHANGED <<community, proposals, votes, job>>, expired \subseteq expired'
       PROVE  VerdictInv'
  <2>1. ASSUME NEW v \in Workers
        PROVE  VerdictHolds(job[v])'
    BY <1>13 DEF VerdictInv, VerdictHolds, Judged
  <2>2. QED
    BY <1>2, <1>13, <2>1
<1>14. QED
  BY <1>3, <1>5, <1>6, <1>7, <1>8, <1>9, <1>10, <1>11, <1>12, <1>13
  DEF Next, Step, Expire, vars

THEOREM VerdictInvariant ==
  ASSUME OneAtATime
  PROVE  Spec => []VerdictInv
<1>1. IInv /\ VerdictInv /\ [Next]_vars => VerdictInv'
  BY VerdictStep
<1>2. QED
  BY <1>1, InitVerdictInv, Invariant, PTL DEF Spec

(* The one proposal a step settles is rejected fairly.                     *)
RejectedFairly(p) ==
  /\ Settles(p) /\ \A q \in Ids \ {p} : ~ Settles(q)
  /\ proposals'[p].status = "rejected" /\ p \notin expired
  => Settle(community, proposals'[p].change, AllOthersYes(community, p), FALSE) # "passed"

LEMMA JudgedFairly ==
  ASSUME IsFiniteSet(Users), RowsOK', NEW p \in Ids, p \notin expired,
         Judged("rejected", proposals'[p].change, votes'[p], p)
  PROVE  RejectedFairly(p)
<1>1. Settle(community, proposals'[p].change, votes'[p], FALSE) = "rejected"
  BY DEF Judged
<1>2. votes'[p] \in [Users -> Ballots]
  BY DEF RowsOK
<1>3. AllOthersYes(community, p) = AllYes(community, proposals'[p].change, votes'[p])
  BY DEF AllOthersYes, AllYes
<1>4. Settle(community, proposals'[p].change,
             AllYes(community, proposals'[p].change, votes'[p]), FALSE) # "passed"
  <2>1. PICK c, v : c = proposals'[p].change /\ v = votes'[p]
    OBVIOUS
  <2>2. QED
    BY <1>1, <1>2, <2>1, SettleSound
<1>5. QED
  BY <1>3, <1>4 DEF RejectedFairly

LEMMA FairStep ==
  ASSUME IsFiniteSet(Users), IInv, IInv', OneInv, VerdictInv, OneAtATime, [Next]_vars,
         NEW p \in Ids
  PROVE  RejectedFairly(p)
<1> SUFFICES ASSUME Settles(p), \A q \in Ids \ {p} : ~ Settles(q),
                    proposals'[p].status = "rejected", p \notin expired
             PROVE  RejectedFairly(p)
  BY DEF RejectedFairly
<1>1. RowsOK'
  BY DEF IInv
<1>2. ASSUME UNCHANGED proposals
      PROVE  FALSE
  BY <1>2 DEF Settles, Settled
<1>3. ASSUME NEW w \in Workers, CommitProposal(w)
      PROVE  RejectedFairly(p)
  <2>0. job[w].outcome = Settle(community, job[w].change, OwnBallot(job[w].user), FALSE)
    <3>1. VerdictHolds(job[w]) /\ job[w].pc = "opening"
      BY <1>3 DEF VerdictInv, CommitProposal
    <3>2. QED
      BY <3>1 DEF VerdictHolds
  <2>1. /\ job[w].user \in Users /\ job[w].change \in Changes
    BY <1>3, JobShapes DEF CommitProposal, IInv, RowsOK
  <2>2. PICK r \in Ids :
          /\ proposals[r] = Absent
          /\ proposals' = [proposals EXCEPT ![r] = [status |-> job[w].outcome,
                                                    change |-> job[w].change]]
          /\ votes' = [votes EXCEPT ![r][job[w].user] = "yes"]
    BY <1>3 DEF CommitProposal, AddRow
  <2>3. r = p
    BY <2>2 DEF Settles, Settled, IInv, RowsOK
  <2>4. votes'[p] = OwnBallot(job[w].user)
    <3>1. votes[p] = [u \in Users |-> "none"]
      BY <2>2, <2>3 DEF VerdictInv, NoStrayVotes
    <3>2. votes'[p] = [votes[p] EXCEPT ![job[w].user] = "yes"]
      BY <2>2, <2>3 DEF IInv, RowsOK
    <3>3. QED
      BY <3>1, <3>2 DEF OwnBallot
  <2>5. proposals'[p].change = job[w].change /\ job[w].outcome = "rejected"
    BY <2>2, <2>3 DEF IInv, RowsOK
  <2>6. Judged("rejected", proposals'[p].change, votes'[p], p)
    BY <2>0, <2>4, <2>5 DEF Judged
  <2>7. QED
    BY <1>1, <2>6, JudgedFairly
<1>4. ASSUME NEW w \in Workers, CommitDirect(w)
      PROVE  FALSE
  BY <1>4 DEF CommitDirect, AddRow, Settles, Settled, IInv, RowsOK
<1>5. ASSUME NEW w \in Workers, CommitVote(w)
      PROVE  RejectedFairly(p)
  <2>0. Judged(job[w].outcome, proposals[job[w].proposal].change,
               [votes[job[w].proposal] EXCEPT ![job[w].user] = job[w].ballot],
               job[w].proposal)
    <3>1. VerdictHolds(job[w]) /\ job[w].pc = "deciding"
      BY <1>5 DEF VerdictInv, CommitVote
    <3>2. QED
      BY <3>1 DEF VerdictHolds
  <2>1. job[w].proposal \in Ids
    BY <1>5, JobShapes DEF CommitVote, IInv, RowsOK
  <2>2. p = job[w].proposal
    BY <1>5, <2>1 DEF CommitVote, WriteOutcomes, Settles, Settled
  <2>3. Open(p) /\ proposals[p] \in Row
    BY <1>5, <2>2, Presence DEF CommitVote, OneInv, StillOpen, Touches, IInv
  <2>4. job[w].outcome = "rejected" /\ proposals'[p].change = proposals[p].change
    BY <1>5, <2>2, <2>3 DEF CommitVote, WriteOutcomes, Row, Open
  <2>5. votes'[p] = [votes[p] EXCEPT ![job[w].user] = job[w].ballot]
    BY <1>5, <2>2 DEF CommitVote, IInv, RowsOK
  <2>6. QED
    BY <1>1, <2>0, <2>2, <2>4, <2>5, JudgedFairly
<1>6. ASSUME NEW w \in Workers, CommitSettled(w)
      PROVE  RejectedFairly(p)
  <2> DEFINE o == job[w].outcomes
  <2>1. /\ o \in [Ids -> Outcomes]
        /\ \A q \in Ids : o[q] # "open" => Open(q) /\ proposals[q] \in Row
    BY <1>6, JobShapes DEF CommitSettled, IInv, RowsOK, NamesExist, OneInv, StillOpen, Touches
  <2>2. WriteOutcomes(o) /\ UNCHANGED votes
    BY <1>6 DEF CommitSettled
  <2>3. o[p] # "open" /\ (\A q \in Ids : q < p => o[q] # "passed") =>
          Judged(o[p], proposals[p].change, votes[p], p)
    BY <1>6 DEF CommitSettled, VerdictInv, VerdictHolds
  <2> HIDE DEF o
  <2>4. ASSUME NEW q \in Ids, o[q] # "open"
        PROVE  /\ Settles(q)
               /\ proposals'[q].status = o[q]
               /\ proposals'[q].change = proposals[q].change
    BY <2>1, <2>2, <2>4 DEF WriteOutcomes, Settles, Settled, Open, Row, Outcomes
  <2>5. \A q \in Ids : q < p => o[q] # "passed"
    BY <2>4 DEF Ids
  <2>6. o[p] # "open"
    BY <2>2 DEF WriteOutcomes, Settles, Settled
  <2>7. Judged("rejected", proposals'[p].change, votes'[p], p)
    BY <2>2, <2>3, <2>4, <2>5, <2>6
  <2>8. QED
    BY <1>1, <2>7, JudgedFairly
<1>7. QED
  BY <1>2, <1>3, <1>4, <1>5, <1>6
  DEF Next, Step, Propose, StartVote, TallyVote, OpenSettings, ReadSettings,
      ChangeDirectly, SetOrganizer, CommitRole, Join, Leave, Rollback, Expire, vars

(* One request at a time, a proposal whose week is not over is voted down  *)
(* only when not even the yes of everybody who has not voted would pass it *)
(* (scope_governance.py:182 and 190-204), whatever the size of the         *)
(* electorate.                                                             *)
THEOREM FairRejection ==
  ASSUME OneAtATime, IsFiniteSet(Users)
  PROVE  Spec => RejectionIsFair
<1>1. IInv /\ IInv' /\ OneInv /\ VerdictInv /\ [Next]_vars =>
        \A p \in Ids : RejectedFairly(p)
  BY FairStep
<1>2. QED
  BY <1>1, Invariant, OneInvariant, VerdictInvariant, PTL
  DEF Spec, RejectionIsFair, RejectedFairly
=============================================================================
