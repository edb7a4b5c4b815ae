--------------------------- MODULE SoftwareProofs ---------------------------
(***************************************************************************)
(* A software project's records, the holders of its inherited merge        *)
(* capabilities and its decisions, for any members, requests and workers.  *)
(*                                                                         *)
(* A vote or a merge names a row by its number, so the type invariant is   *)
(* inductive only together with NamesExist: what a job or a request names  *)
(* is there, and rows are never deleted.  That merges and decisions stand  *)
(* takes one request at a time, and then rests on JobsHold: the row is     *)
(* still in the stage the vote has read.  That a label has one holder      *)
(* takes one request at a time too, and rests on SweptIsCurrent: the rows  *)
(* a request has swept away are still all there are when it writes.        *)
(***************************************************************************)
EXTENDS Software, TLAPS

NamesExist ==
  /\ \A w \in Workers :
       /\ job[w].op \in {"pull", "merge"} => job[w].id \in DOMAIN pulls
       /\ job[w].op = "ask" => job[w].id \in DOMAIN asks
  /\ \A id \in DOMAIN asks : asks[id].action = "replace" => asks[id].pull \in DOMAIN pulls
IInv == TypeOK /\ NamesExist

-----------------------------------------------------------------------------
(* Setting one row of a table keeps the table and its numbering.           *)
LEMMA SetRow ==
  ASSUME NEW R, NEW s \in Seq(R), NEW i \in DOMAIN s, NEW r \in R
  PROVE  /\ [s EXCEPT ![i] = r] \in Seq(R)
         /\ Len([s EXCEPT ![i] = r]) = Len(s)
         /\ DOMAIN [s EXCEPT ![i] = r] = DOMAIN s
  OBVIOUS

LEMMA AddRow ==
  ASSUME NEW R, NEW s \in Seq(R), NEW r \in R
  PROVE  /\ Append(s, r) \in Seq(R)
         /\ Len(Append(s, r)) = Len(s) + 1
         /\ DOMAIN s \subseteq DOMAIN Append(s, r)
         /\ \A i \in DOMAIN Append(s, r) :
              (i \in DOMAIN s /\ Append(s, r)[i] = s[i]) \/ Append(s, r)[i] = r
  OBVIOUS

LEMMA DecideType ==
  ASSUME NEW v, NEW wt, NEW n
  PROVE  Decide(v, wt, n) \in {"open", "approved", "rejected"}
  BY DEF Decide, Outcome

LEMMA JobShapes ==
  ASSUME NEW j \in {Idle} \cup PullJob \cup AskJob \cup MergeJob \cup SyncJob
  PROVE  /\ j.op = "pull" => j \in PullJob
         /\ j.op = "ask" => j \in AskJob
         /\ j.op = "merge" => j \in MergeJob
         /\ j.op = "sync" => j \in SyncJob
  BY DEF Idle, PullJob, AskJob, MergeJob, SyncJob

(* A vote on a request has one of three outcomes, and its effect follows.  *)
LEMMA AskSettles ==
  ASSUME NEW w, CommitAskVote(w)
  PROVE  \E d \in {"open", "approved", "rejected"} :
           LET row  == asks[job[w].id]
               cast == [asks EXCEPT ![job[w].id].votes[job[w].user] = job[w].ballot]
           IN  IF d = "open"
               THEN asks' = cast /\ UNCHANGED <<repository, capable, pulls>>
               ELSE /\ asks' = [cast EXCEPT ![job[w].id].status = d]
                    /\ IF d = "approved"
                       THEN ChangeCapability(row) \/ ReplaceRepository(w, row, job[w].id)
                       ELSE UNCHANGED <<repository, capable, pulls>>
<1> DEFINE row  == asks[job[w].id]
           cast == [asks EXCEPT ![job[w].id].votes[job[w].user] = job[w].ballot]
           Decided(n) == Decide(cast[job[w].id].votes, Weight, n)
<1>1. PICK n \in Populations :
        IF Decided(n) = "open"
        THEN asks' = cast /\ UNCHANGED <<repository, capable, pulls>>
        ELSE /\ asks' = [cast EXCEPT ![job[w].id].status = Decided(n)]
             /\ IF Decided(n) = "approved"
                THEN ChangeCapability(row) \/ ReplaceRepository(w, row, job[w].id)
                ELSE UNCHANGED <<repository, capable, pulls>>
  BY Zenon DEF CommitAskVote
<1>2. Decided(n) \in {"open", "approved", "rejected"}
  BY DecideType
<1> HIDE DEF Decided, row, cast
<1>3. QED
  BY <1>1, <1>2, Zenon DEF row, cast

(* Who votes on a request votes on one that is there.                      *)
LEMMA AskReads ==
  ASSUME IInv, NEW w \in Workers, CommitAskVote(w)
  PROVE  job[w] \in AskJob /\ job[w].id \in DOMAIN asks /\ asks[job[w].id] \in AskRow
<1>1. job[w].op = "ask"
  BY DEF CommitAskVote
<1>2. job[w] \in {Idle} \cup PullJob \cup AskJob \cup MergeJob \cup SyncJob /\ asks \in Seq(AskRow)
  BY DEF IInv, TypeOK
<1>3. job[w] \in AskJob
  BY <1>1, <1>2, JobShapes
<1>4. job[w].id \in DOMAIN asks
  BY <1>1 DEF IInv, NamesExist
<1>5. QED
  BY <1>2, <1>3, <1>4

(* A vote on a pull request leaves a row behind whatever its outcome.      *)
LEMMA VotedRow ==
  ASSUME NEW row \in PullRow, NEW j \in PullJob, NEW d \in {"open", "approved", "rejected"}
  PROVE  Move(Cast(row, j), j.stage, NextStage(j.stage, d)) \in PullRow
<1>1. Cast(row, j) \in PullRow
  BY DEF Cast, PullRow, PullJob, Ballots
<1>2. NextStage(j.stage, d) \in Stages
  BY DEF NextStage, PullJob, Stages
<1>3. QED
  BY <1>1, <1>2 DEF Move, PullRow

LEMMA LeftOverType ==
  ASSUME TypeOK, NEW w, NEW v \in Users
  PROVE  LeftOver(w, v) \in {"none"} \cup Sources
  BY DEF LeftOver, TypeOK

LEMMA SetMembersType ==
  ASSUME TypeOK, NEW w, NEW u \in Users, NEW s \in Sources
  PROVE  SetMembers(w, u, s) \in [Users -> {"none"} \cup Sources]
  BY LeftOverType DEF SetMembers

LEMMA ReplacerType ==
  ASSUME TypeOK, NEW w, NEW u \in Users
  PROVE  Replacer(w, u) \in [Users -> {"none"} \cup Sources]
  BY LeftOverType DEF Replacer, Sources

LEMMA ForgetSweptType ==
  ASSUME TypeOK, NEW w, ForgetSwept(w)
  PROVE  swept' \subseteq Workers \X SUBSET Users
  BY DEF ForgetSwept, TypeOK

LEMMA InitIInv == Init => IInv
  BY SoftwareBoundsAssumption DEF Init, IInv, TypeOK, NamesExist, Idle

-----------------------------------------------------------------------------
(* A step that adds or changes a row keeps what names it.                  *)
LEMMA PullsKept ==
  ASSUME IInv, DOMAIN pulls \subseteq DOMAIN pulls', UNCHANGED asks,
         \/ UNCHANGED job
         \/ \E w \in Workers : job' = [job EXCEPT ![w] = Idle]
  PROVE  NamesExist'
<1>1. NamesExist /\ DOMAIN job = Workers
  BY DEF IInv, TypeOK
<1>2. Idle.op \notin {"pull", "merge", "ask"}
  BY DEF Idle
<1>3. ASSUME NEW v \in Workers
      PROVE  job'[v] = job[v] \/ job'[v] = Idle
  BY <1>1, <1>3
<1>4. ASSUME NEW v \in Workers
      PROVE  /\ job'[v].op \in {"pull", "merge"} => job'[v].id \in DOMAIN pulls'
             /\ job'[v].op = "ask" => job'[v].id \in DOMAIN asks'
  BY <1>1, <1>2, <1>3, <1>4 DEF NamesExist
<1>5. \A id \in DOMAIN asks' : asks'[id].action = "replace" => asks'[id].pull \in DOMAIN pulls'
  BY <1>1 DEF NamesExist
<1>6. QED
  BY <1>4, <1>5 DEF NamesExist

LEMMA InvStep == IInv /\ [Next]_vars => IInv'
<1> SUFFICES ASSUME IInv, [Next]_vars PROVE IInv'
  OBVIOUS
<1> USE DEF IInv
<1>0. /\ MaxPulls \in Nat /\ MaxAsks \in Nat /\ MaxMerges \in Nat
      /\ Len(pulls) \in Nat /\ Len(asks) \in Nat
      /\ DOMAIN pulls = 1..Len(pulls) /\ DOMAIN asks = 1..Len(asks)
      /\ DOMAIN pulls \subseteq 1..MaxPulls /\ DOMAIN asks \subseteq 1..MaxAsks
  BY SoftwareBoundsAssumption DEF TypeOK
<1>1. ASSUME NEW w \in Workers, SyncLeadingPlan(w)
      PROVE  IInv'
  <2>1. job[w].user \in Users
    BY <1>1, JobShapes DEF SyncLeadingPlan, TypeOK, SyncJob
  <2>2. capable' \in [Users -> {"none"} \cup Sources]
    BY <1>1, <2>1, SetMembersType DEF SyncLeadingPlan, Sources
  <2>3. swept' \subseteq Workers \X SUBSET Users
    BY <1>1, ForgetSweptType DEF SyncLeadingPlan
  <2>4. NamesExist'
    BY <1>1, PullsKept DEF SyncLeadingPlan
  <2>5. QED
    BY <1>1, <2>1, <2>2, <2>3, <2>4 DEF SyncLeadingPlan, TypeOK
<1>14. ASSUME NEW w \in Workers, DeleteMembers(w)
       PROVE  IInv'
  <2>1. swept' \subseteq Workers \X SUBSET Users
    BY <1>14 DEF DeleteMembers, TypeOK
  <2>2. QED
    BY <1>14, <2>1 DEF DeleteMembers, TypeOK, NamesExist
<1>2. CASE NoPlanLeads
  BY <1>2 DEF NoPlanLeads, TypeOK, NamesExist
<1>3. ASSUME NEW u \in Users, SubmitPull(u)
      PROVE  IInv'
  <2> DEFINE row == [author |-> u, stage |-> "approval", votes |-> NoVotes,
                     castAt |-> [v \in Users |-> 0], merges |-> 0, merged |-> FALSE]
  <2>1. row \in PullRow
    BY <1>0 DEF PullRow, Stages, NoVotes, Ballots
  <2>2. pulls' = Append(pulls, row)
    BY <1>3 DEF SubmitPull
  <2> HIDE DEF row
  <2>3. pulls' \in Seq(PullRow) /\ Len(pulls') <= MaxPulls /\ DOMAIN pulls \subseteq DOMAIN pulls'
    BY <1>0, <1>3, <2>1, <2>2, AddRow DEF TypeOK, SubmitPull
  <2>4. NamesExist'
    BY <1>3, <2>3, PullsKept DEF SubmitPull
  <2>5. QED
    BY <1>3, <2>3, <2>4 DEF SubmitPull, TypeOK
<1>4. ASSUME NEW row \in AskRow, row.action = "replace" => row.pull \in DOMAIN pulls,
             AddAsk(row)
      PROVE  IInv'
  <2>1. /\ asks' \in Seq(AskRow) /\ Len(asks') <= MaxAsks /\ DOMAIN asks \subseteq DOMAIN asks'
        /\ \A i \in DOMAIN asks' :
             (i \in DOMAIN asks /\ asks'[i] = asks[i]) \/ asks'[i] = row
    BY <1>0, <1>4, AddRow DEF TypeOK, AddAsk
  <2>2. NamesExist'
    BY <1>4, <2>1 DEF AddAsk, NamesExist
  <2>3. QED
    BY <1>4, <2>1, <2>2 DEF AddAsk, TypeOK
<1>5. ASSUME NEW u \in Users, NEW action \in {"grant", "revoke"}, NEW target \in Users,
             RequestCapability(u, action, target)
      PROVE  IInv'
  <2> DEFINE row == [author |-> u, votes |-> NoVotes, action |-> action, target |-> target,
                     pull |-> 0, status |-> "open"]
  <2>1. row \in AskRow /\ row.action # "replace"
    BY <1>0 DEF AskRow, Actions, NoVotes, Ballots
  <2>2. QED
    BY <1>4, <1>5, <2>1 DEF RequestCapability
<1>6. ASSUME NEW u \in Users, NEW id \in DOMAIN pulls, RequestReplacement(u, id)
      PROVE  IInv'
  <2> DEFINE row == [author |-> u, votes |-> NoVotes, action |-> "replace", target |-> u,
                     pull |-> id, status |-> "open"]
  <2>1. id \in 0..MaxPulls
    BY <1>0
  <2>2. row \in AskRow /\ row.pull \in DOMAIN pulls
    BY <2>1 DEF AskRow, Actions, NoVotes, Ballots
  <2>3. QED
    BY <1>4, <1>6, <2>2 DEF RequestReplacement
<1>7. ASSUME NEW w \in Workers, NEW u \in Users, Start(w, u)
      PROVE  IInv'
  <2>1. ASSUME NEW id \in DOMAIN pulls, NEW b \in {"yes", "no"}, StartPullVote(w, u, id, b)
        PROVE  IInv'
    <3>1. [op |-> "pull", user |-> u, id |-> id, ballot |-> b,
           insert |-> pulls[id].votes[u] = "none", stage |-> pulls[id].stage] \in PullJob
      BY <1>0, <2>1 DEF PullJob, StartPullVote
    <3>2. QED
      BY <1>7, <2>1, <3>1 DEF Start, StartPullVote, StartJob, TypeOK, NamesExist
  <2>2. ASSUME NEW id \in DOMAIN pulls, StartMerge(w, u, id)
        PROVE  IInv'
    <3>1. [op |-> "merge", user |-> u, id |-> id] \in MergeJob
      BY <1>0 DEF MergeJob
    <3>2. QED
      BY <1>7, <2>2, <3>1 DEF Start, StartMerge, StartJob, TypeOK, NamesExist
  <2>3. ASSUME NEW id \in DOMAIN asks, NEW b \in {"yes", "no"}, StartAskVote(w, u, id, b)
        PROVE  IInv'
    <3>1. [op |-> "ask", user |-> u, id |-> id, ballot |-> b,
           insert |-> asks[id].votes[u] = "none"] \in AskJob
      BY <1>0 DEF AskJob
    <3>2. QED
      BY <1>7, <2>3, <3>1 DEF Start, StartAskVote, StartJob, TypeOK, NamesExist
  <2>4. ASSUME StartSync(w, u)
        PROVE  IInv'
    <3>1. [op |-> "sync", user |-> u] \in SyncJob
      BY DEF SyncJob
    <3>2. QED
      BY <1>7, <2>4, <3>1 DEF Start, StartSync, StartJob, TypeOK, NamesExist
  <2>5. QED
    BY <1>7, <2>1, <2>2, <2>3, <2>4 DEF Start
<1>8. ASSUME NEW w \in Workers, CommitPullVote(w)
      PROVE  IInv'
  <2> DEFINE j == job[w]
  <2>1. j \in PullJob /\ j.id \in DOMAIN pulls /\ pulls[j.id] \in PullRow
    BY <1>8, JobShapes DEF CommitPullVote, TypeOK, NamesExist
  <2>2. PICK d \in {"open", "approved", "rejected"} :
          pulls' = [pulls EXCEPT ![j.id] =
                      Move(Cast(pulls[j.id], j), j.stage, NextStage(j.stage, d))]
    <3>1. PICK n \in Populations :
            pulls' = [pulls EXCEPT ![j.id] =
              Move(Cast(pulls[j.id], j), j.stage,
                   NextStage(j.stage, Decide(Cast(pulls[j.id], j).votes, Weight, n)))]
      BY <1>8 DEF CommitPullVote
    <3>2. QED
      BY <3>1, DecideType
  <2>3. pulls' \in Seq(PullRow) /\ Len(pulls') = Len(pulls) /\ DOMAIN pulls' = DOMAIN pulls
    BY <2>1, <2>2, VotedRow, SetRow DEF TypeOK
  <2>4. NamesExist'
    BY <1>8, <2>3, PullsKept DEF CommitPullVote
  <2>5. QED
    BY <1>8, <2>3, <2>4 DEF CommitPullVote, TypeOK
<1>9. ASSUME NEW w \in Workers, RecordMerge(w)
      PROVE  IInv'
  <2> DEFINE id == job[w].id
             row == [pulls[id] EXCEPT !.stage = "confirmation", !.merged = TRUE,
                                      !.merges = @ + 1, !.votes = ClearBallots(pulls[id])]
  <2>1. id \in DOMAIN pulls /\ pulls[id] \in PullRow /\ pulls[id].merges < MaxMerges
    BY <1>9, JobShapes DEF RecordMerge, TypeOK, NamesExist, MergeJob
  <2>2. row \in PullRow
    <3>1. NoVotes \in [Users -> Ballots]
      BY DEF NoVotes, Ballots
    <3>2. pulls[id].merges + 1 \in 0..MaxMerges
      <4>1. pulls[id].merges \in 0..MaxMerges
        BY <2>1 DEF PullRow
      <4>2. \A n \in 0..MaxMerges : n < MaxMerges => n + 1 \in 0..MaxMerges
        BY <1>0
      <4>3. QED
        BY <2>1, <4>1, <4>2
    <3>3. "confirmation" \in Stages
      BY DEF Stages
    <3>4. QED
      BY <2>1, <3>1, <3>2, <3>3 DEF PullRow, ClearBallots
  <2>3. pulls' = [pulls EXCEPT ![id] = row]
    BY <1>9 DEF RecordMerge
  <2> HIDE DEF id, row
  <2>4. pulls' \in Seq(PullRow) /\ Len(pulls') = Len(pulls) /\ DOMAIN pulls' = DOMAIN pulls
    BY <2>1, <2>2, <2>3, SetRow DEF TypeOK
  <2>5. NamesExist'
    BY <1>9, <2>4, PullsKept DEF RecordMerge
  <2>6. QED
    BY <1>9, <2>4, <2>5 DEF RecordMerge, TypeOK
<1>10. ASSUME NEW w \in Workers, CommitAskVote(w)
       PROVE  IInv'
  <2> DEFINE j == job[w]
             cast == [asks EXCEPT ![j.id].votes[j.user] = j.ballot]
  <2>1. j \in AskJob /\ j.id \in DOMAIN asks /\ asks[j.id] \in AskRow
    BY <1>10, AskReads
  <2>2. PICK d \in {"open", "approved", "rejected"} :
          IF d = "open"
          THEN asks' = cast /\ UNCHANGED <<repository, capable, pulls>>
          ELSE /\ asks' = [cast EXCEPT ![j.id].status = d]
               /\ IF d = "approved"
                  THEN ChangeCapability(asks[j.id]) \/ ReplaceRepository(w, asks[j.id], j.id)
                  ELSE UNCHANGED <<repository, capable, pulls>>
    BY <1>10, AskSettles, Zenon
  <2>3. PICK row \in AskRow : /\ asks' = [asks EXCEPT ![j.id] = row]
                              /\ row.action = asks[j.id].action /\ row.pull = asks[j.id].pull
    <3>1. [asks[j.id] EXCEPT !.votes[j.user] = j.ballot] \in AskRow
      BY <2>1 DEF AskRow, AskJob, Ballots
    <3>2. [asks[j.id] EXCEPT !.votes[j.user] = j.ballot, !.status = d] \in AskRow
      BY <2>1 DEF AskRow, AskJob, Ballots
    <3>3. CASE d = "open"
      BY <2>1, <2>2, <3>1, <3>3 DEF AskRow
    <3>4. CASE d # "open"
      BY <2>1, <2>2, <3>2, <3>4 DEF AskRow
    <3>5. QED
      BY <3>3, <3>4
  <2>4. asks' \in Seq(AskRow) /\ Len(asks') = Len(asks) /\ DOMAIN asks' = DOMAIN asks
    BY <2>1, <2>3, SetRow DEF TypeOK
  <2>5. /\ repository' \in [Users -> 0..MaxAsks]
        /\ capable' \in [Users -> {"none"} \cup Sources]
        /\ pulls' \in Seq(PullRow) /\ Len(pulls') = Len(pulls) /\ DOMAIN pulls' = DOMAIN pulls
    <3>1. CASE UNCHANGED <<repository, capable, pulls>>
      BY <3>1 DEF TypeOK
    <3>2. CASE ChangeCapability(asks[j.id])
      BY <3>2 DEF ChangeCapability, TypeOK, Sources
    <3>3. CASE ReplaceRepository(w, asks[j.id], j.id)
      <4>1. asks[j.id].pull \in DOMAIN pulls /\ asks[j.id].author \in Users
        BY <2>1, <3>3 DEF ReplaceRepository, NamesExist, AskRow
      <4>2. [pulls[asks[j.id].pull] EXCEPT !.stage = "replaced"] \in PullRow
        <5>1. pulls[asks[j.id].pull] \in PullRow
          BY <4>1 DEF TypeOK
        <5>2. "replaced" \in Stages
          BY DEF Stages
        <5>3. QED
          BY <5>1, <5>2 DEF PullRow
      <4>3. pulls' \in Seq(PullRow) /\ Len(pulls') = Len(pulls) /\ DOMAIN pulls' = DOMAIN pulls
        BY <3>3, <4>1, <4>2, SetRow DEF ReplaceRepository, Retired, TypeOK
      <4>4. j.id \in 0..MaxAsks
        BY <1>0, <2>1
      <4>5. QED
        BY <3>3, <4>1, <4>3, <4>4, ReplacerType DEF ReplaceRepository, TypeOK
    <3>4. QED
      BY <2>2, <3>1, <3>2, <3>3
  <2>6. NamesExist'
    <3>1. \A i \in DOMAIN asks' : asks'[i].action = asks[i].action /\ asks'[i].pull = asks[i].pull
      BY <2>1, <2>3, <2>4 DEF TypeOK
    <3>2. job' = [job EXCEPT ![w] = Idle]
      BY <1>10 DEF CommitAskVote
    <3>3. QED
      BY <2>4, <2>5, <3>1, <3>2 DEF NamesExist, Idle, TypeOK
  <2>7. swept' \subseteq Workers \X SUBSET Users
    BY <1>10, ForgetSweptType DEF CommitAskVote
  <2>8. QED
    BY <1>10, <2>4, <2>5, <2>6, <2>7 DEF CommitAskVote, TypeOK
<1>11. ASSUME NEW w \in Workers, Rollback(w)
       PROVE  IInv'
  <2>1. swept' \subseteq Workers \X SUBSET Users
    BY <1>11, ForgetSweptType DEF Rollback
  <2>2. NamesExist'
    BY <1>11, PullsKept DEF Rollback
  <2>3. QED
    BY <1>11, <2>1, <2>2 DEF Rollback, TypeOK
<1>12. CASE UNCHANGED vars
  BY <1>12 DEF vars, TypeOK, NamesExist
<1>13. QED
  BY <1>1, <1>2, <1>3, <1>5, <1>6, <1>7, <1>8, <1>9, <1>10, <1>11, <1>12, <1>14 DEF Next

(* The records of a software project keep their types.                     *)
THEOREM TypeCorrect == Spec => []TypeOK
<1>1. Init => IInv
  BY InitIInv
<1>2. IInv /\ [Next]_vars => IInv'
  BY InvStep
<1>3. IInv => TypeOK
  BY DEF IInv
<1>4. QED
  BY <1>1, <1>2, <1>3, PTL DEF Spec

-----------------------------------------------------------------------------
(* From here on one request is served at a time: the stage and the status  *)
(* a vote has read are still those of the row when it commits.  Plans that *)
(* take the lead and new requests come in between, which touch no row that *)
(* is there.                                                               *)
OneAtATime == \A v, w \in Workers : v = w

(* One request at a time, what a DELETE has removed is who holds the       *)
(* labels at the commit, so that each label goes to one person.            *)
SweptIsCurrent ==
  \A s \in swept :
    /\ job[s[1]].op \in {"sync", "ask"}
    /\ \A v \in Users : capable[v] \in Labels(s[1]) => v \in s[2]

LEMMA Emptied ==
  ASSUME IInv, OneAtATime, NEW w \in Workers, ForgetSwept(w)
  PROVE  swept' = {}
  BY DEF ForgetSwept, OneAtATime, IInv, TypeOK

LEMMA NothingLeftOver ==
  ASSUME IInv, SweptIsCurrent, NEW w \in Workers, HasSwept(w), NEW v \in Users
  PROVE  LeftOver(w, v) = IF capable[v] \in Labels(w) THEN "none" ELSE capable[v]
<1>1. PICK s \in swept : s[1] = w
  BY DEF HasSwept
<1>2. capable[v] \in Labels(w) => v \in s[2]
  BY <1>1 DEF SweptIsCurrent
<1>3. s[2] \subseteq Swept(w)
  BY <1>1 DEF Swept
<1>4. QED
  BY <1>2, <1>3 DEF LeftOver

LEMMA HolderStep ==
  ASSUME OneAtATime, IInv, SweptIsCurrent, OneHolderPerSource, [Next]_vars
  PROVE  SweptIsCurrent' /\ OneHolderPerSource'
<1>1. capable \in [Users -> {"none"} \cup Sources] /\ DOMAIN job = Workers
  BY DEF IInv, TypeOK
<1>2. ASSUME NEW w \in Workers, SyncLeadingPlan(w)
      PROVE  SweptIsCurrent' /\ OneHolderPerSource'
  <2>1. swept' = {}
    BY <1>2, Emptied DEF SyncLeadingPlan
  <2>2. Labels(w) = {"plan-creator"}
    BY <1>2 DEF SyncLeadingPlan, Labels
  <2>3. capable' = [v \in Users |-> IF v = job[w].user THEN "plan-creator" ELSE LeftOver(w, v)]
    BY <1>2 DEF SyncLeadingPlan, SetMembers
  <2>4. \A v \in Users : LeftOver(w, v) = IF capable[v] = "plan-creator" THEN "none" ELSE capable[v]
    BY <1>2, <2>2, NothingLeftOver DEF SyncLeadingPlan
  <2>5. QED
    BY <1>1, <2>1, <2>3, <2>4 DEF SweptIsCurrent, OneHolderPerSource
<1>3. ASSUME NEW w \in Workers, CommitAskVote(w)
      PROVE  SweptIsCurrent' /\ OneHolderPerSource'
  <2> DEFINE row == asks[job[w].id]
  <2>1. /\ swept' = {} /\ job[w].op = "ask"
        /\ \/ UNCHANGED capable
           \/ ChangeCapability(row)
           \/ ReplaceRepository(w, row, job[w].id)
    BY <1>3, Emptied DEF CommitAskVote
  <2>2. CASE ChangeCapability(row)
    BY <1>1, <2>1, <2>2 DEF ChangeCapability, OneHolderPerSource, SweptIsCurrent
  <2>3. CASE ReplaceRepository(w, row, job[w].id)
    <3>1. Labels(w) = {"plan-creator", "repo-replacement"} /\ HasSwept(w)
      BY <2>1, <2>3 DEF ReplaceRepository, Labels
    <3>2. \A v \in Users :
            LeftOver(w, v) \in {"none", capable[v]} \ {"plan-creator", "repo-replacement"}
      BY <3>1, NothingLeftOver
    <3>3. capable' = [v \in Users |-> IF v = row.author /\ LeftOver(w, v) = "none"
                                     THEN "repo-replacement" ELSE LeftOver(w, v)]
      BY <2>3 DEF ReplaceRepository, Replacer
    <3>4. QED
      BY <1>1, <2>1, <3>2, <3>3 DEF OneHolderPerSource, SweptIsCurrent
  <2>4. QED
    BY <2>1, <2>2, <2>3 DEF OneHolderPerSource, SweptIsCurrent
<1>4. ASSUME NEW w \in Workers, DeleteMembers(w)
      PROVE  SweptIsCurrent' /\ OneHolderPerSource'
  <2> DEFINE rows == {v \in Users : capable[v] \in Labels(w)}
  <2>1. /\ swept' = swept \cup {<<w, rows>>} /\ UNCHANGED <<capable, job>>
        /\ job[w].op \in {"sync", "ask"}
    BY <1>4 DEF DeleteMembers
  <2>2. \A x : Labels(x)' = Labels(x)
    BY <2>1 DEF Labels
  <2>3. SweptIsCurrent'
    BY <2>1, <2>2 DEF SweptIsCurrent
  <2>4. QED
    BY <2>1, <2>3 DEF OneHolderPerSource
<1>5. ASSUME NEW w \in Workers, NEW u \in Users, Start(w, u)
      PROVE  SweptIsCurrent' /\ OneHolderPerSource'
  <2>1. job[w] = Idle /\ UNCHANGED <<capable, swept>>
    BY <1>5 DEF Start, StartPullVote, StartMerge, StartAskVote, StartSync, StartJob
  <2>2. \A s \in swept : s[1] = w
    BY DEF OneAtATime, IInv, TypeOK
  <2>3. swept = {}
    BY <2>1, <2>2 DEF SweptIsCurrent, Idle
  <2>4. QED
    BY <2>1, <2>3 DEF SweptIsCurrent, OneHolderPerSource
<1>6. ASSUME NEW w \in Workers, CommitPullVote(w) \/ RecordMerge(w) \/ Rollback(w)
      PROVE  SweptIsCurrent' /\ OneHolderPerSource'
  <2>1. UNCHANGED capable /\ (UNCHANGED swept \/ ForgetSwept(w))
    BY <1>6 DEF CommitPullVote, RecordMerge, Rollback
  <2>2. CASE Rollback(w)
    BY <2>1, <2>2, Emptied DEF Rollback, SweptIsCurrent, OneHolderPerSource
  <2>3. CASE CommitPullVote(w) \/ RecordMerge(w)
    <3>1. job[w].op \in {"pull", "merge"} /\ UNCHANGED swept
      BY <2>3 DEF CommitPullVote, RecordMerge
    <3>2. \A s \in swept : s[1] = w
      BY DEF OneAtATime, IInv, TypeOK
    <3>3. swept = {}
      BY <3>1, <3>2 DEF SweptIsCurrent
    <3>4. QED
      BY <2>1, <3>1, <3>3 DEF SweptIsCurrent, OneHolderPerSource
  <2>4. QED
    BY <1>6, <2>2, <2>3
<1>7. ASSUME UNCHANGED <<capable, job, swept>>
      PROVE  SweptIsCurrent' /\ OneHolderPerSource'
  <2>1. \A x : Labels(x)' = Labels(x)
    BY <1>7 DEF Labels
  <2>2. QED
    BY <1>7, <2>1 DEF SweptIsCurrent, OneHolderPerSource
<1>8. QED
  BY <1>2, <1>3, <1>4, <1>5, <1>6, <1>7
  DEF Next, vars, NoPlanLeads, SubmitPull, RequestCapability, RequestReplacement, AddAsk

(* One request at a time, the capability that a leading plan brings, and   *)
(* that a replacement brings, has one holder, whatever is granted,         *)
(* revoked, led, replaced or rolled back (merge_capability.py:210-231,     *)
(* repository.py:202-219).                                                 *)
THEOREM OneHolder ==
  ASSUME OneAtATime
  PROVE  Spec => []OneHolderPerSource
<1> DEFINE Inv == IInv /\ SweptIsCurrent /\ OneHolderPerSource
<1>1. Init => Inv
  BY InitIInv DEF Init, SweptIsCurrent, OneHolderPerSource
<1>2. Inv /\ [Next]_vars => Inv'
  BY InvStep, HolderStep
<1>3. Inv => OneHolderPerSource
  OBVIOUS
<1>4. QED
  BY <1>1, <1>2, <1>3, PTL DEF Spec

-----------------------------------------------------------------------------
JobsHold ==
  \A w \in Workers :
    /\ job[w].op = "pull" => pulls[job[w].id].stage = job[w].stage
    /\ job[w].op = "merge" => pulls[job[w].id].stage = "awaiting-merge"
    /\ job[w].op = "ask" => asks[job[w].id].status = "open"

(* Ballots on the confirmation of a merge were cast on that merge.         *)
BallotsAreFresh ==
  \A id \in DOMAIN pulls, u \in Users :
    pulls[id].stage = "confirmation" /\ pulls[id].votes[u] # "none" =>
      pulls[id].castAt[u] = pulls[id].merges

RepositoriesExist ==
  \A u \in Users : repository[u] # 0 => repository[u] \in DOMAIN asks

OneInv == JobsHold /\ BallotsAreFresh /\ RepositoriesExist /\ MergesAreOnRecord

LEMMA InitOneInv == Init => OneInv
  BY DEF Init, OneInv, JobsHold, BallotsAreFresh, RepositoriesExist, MergesAreOnRecord,
         MergeOnRecord, ReplacementTakesHold, Idle

(* A vote moves a pull request on from the stage it was cast in, and no    *)
(* vote moves one to the confirmation of a merge.                          *)
LEMMA VotedStage ==
  ASSUME NEW row \in PullRow, NEW j \in PullJob, row.stage = j.stage,
         NEW d \in {"open", "approved", "rejected"}
  PROVE  LET new == Move(Cast(row, j), j.stage, NextStage(j.stage, d))
         IN  /\ new.stage = NextStage(j.stage, d)
             /\ new.stage # "replaced"
             /\ new.stage = "confirmation" => row.stage = "confirmation"
             /\ new.stage = "confirmed" => row.stage = "confirmation"
             /\ new.merges = row.merges
             /\ new.merged = (row.merged /\ ~ (j.stage = "confirmation"
                                               /\ new.stage = "awaiting-merge"))
             /\ \A u \in Users : new.votes[u] # "none" =>
                  \/ new.castAt[u] = row.merges
                  \/ row.votes[u] # "none" /\ new.castAt[u] = row.castAt[u]
<1> DEFINE cast == Cast(row, j)
           new  == Move(cast, j.stage, NextStage(j.stage, d))
<1>1. cast \in PullRow
  BY DEF Cast, PullRow, PullJob, Ballots
<1>2. cast.stage = row.stage /\ cast.merges = row.merges /\ cast.merged = row.merged
  BY DEF Cast, PullRow, PullJob
<1>3. \A u \in Users : cast.votes[u] # "none" =>
        cast.castAt[u] = row.merges \/ (row.votes[u] # "none" /\ cast.castAt[u] = row.castAt[u])
  BY DEF Cast, PullRow, PullJob
<1>4. /\ new.stage = NextStage(j.stage, d)
      /\ new.merges = cast.merges /\ new.votes = cast.votes /\ new.castAt = cast.castAt
      /\ new.merged = (cast.merged /\ ~ (j.stage = "confirmation"
                                         /\ new.stage = "awaiting-merge"))
  <2> HIDE DEF cast
  <2>1. QED
    BY <1>1, <1>2 DEF Move, PullRow
<1>5. /\ NextStage(j.stage, d) # "replaced"
      /\ NextStage(j.stage, d) \in {"confirmation", "confirmed"} => j.stage = "confirmation"
  BY DEF NextStage, PullJob
<1>6. QED
  BY <1>2, <1>3, <1>4, <1>5

LEMMA PullVoteEffect ==
  ASSUME IInv, OneInv, NEW w \in Workers, CommitPullVote(w)
  PROVE  LET id  == job[w].id
             old == pulls[id]
             new == pulls'[id]
         IN  /\ id \in DOMAIN pulls /\ DOMAIN pulls' = DOMAIN pulls
             /\ \A i \in DOMAIN pulls : i # id => pulls'[i] = pulls[i]
             /\ old.stage \in {"approval", "confirmation"}
             /\ new.stage # "replaced"
             /\ new.stage \in {"confirmation", "confirmed"} => old.stage = "confirmation"
             /\ new.merges = old.merges
             /\ new.merged = (old.merged /\ ~ (old.stage = "confirmation"
                                               /\ new.stage = "awaiting-merge"))
             /\ old.stage = "confirmation" =>
                  new.stage \in {"confirmation", "confirmed", "awaiting-merge"}
             /\ \A u \in Users : new.votes[u] # "none" =>
                  \/ new.castAt[u] = old.merges
                  \/ old.votes[u] # "none" /\ new.castAt[u] = old.castAt[u]
<1> DEFINE j   == job[w]
           old == pulls[j.id]
<1>1. j \in PullJob /\ j.id \in DOMAIN pulls /\ old \in PullRow
  BY JobShapes DEF CommitPullVote, IInv, TypeOK, NamesExist
<1>2. old.stage = j.stage
  BY DEF CommitPullVote, OneInv, JobsHold
<1>3. PICK d \in {"open", "approved", "rejected"} :
        pulls' = [pulls EXCEPT ![j.id] = Move(Cast(old, j), j.stage, NextStage(j.stage, d))]
  <2>1. PICK n \in Populations :
          pulls' = [pulls EXCEPT ![j.id] =
            Move(Cast(old, j), j.stage,
                 NextStage(j.stage, Decide(Cast(old, j).votes, Weight, n)))]
    BY DEF CommitPullVote
  <2>2. QED
    BY <2>1, DecideType
<1>4. pulls'[j.id] = Move(Cast(old, j), j.stage, NextStage(j.stage, d))
  BY <1>1, <1>3 DEF IInv, TypeOK
<1>5. /\ DOMAIN pulls' = DOMAIN pulls
      /\ \A i \in DOMAIN pulls : i # j.id => pulls'[i] = pulls[i]
  BY <1>3 DEF IInv, TypeOK
<1>6. /\ j.stage \in {"approval", "confirmation"}
      /\ j.stage = "confirmation" =>
           NextStage(j.stage, d) \in {"confirmation", "confirmed", "awaiting-merge"}
  BY <1>1 DEF PullJob, NextStage
<1>7. QED
  <2> HIDE DEF old, j
  <2> DEFINE new == Move(Cast(old, j), j.stage, NextStage(j.stage, d))
  <2>1. /\ new.stage = NextStage(j.stage, d)
        /\ new.stage # "replaced"
        /\ new.stage = "confirmation" => old.stage = "confirmation"
        /\ new.stage = "confirmed" => old.stage = "confirmation"
        /\ new.merges = old.merges
        /\ new.merged = (old.merged /\ ~ (j.stage = "confirmation"
                                          /\ new.stage = "awaiting-merge"))
        /\ \A u \in Users : new.votes[u] # "none" =>
             \/ new.castAt[u] = old.merges
             \/ old.votes[u] # "none" /\ new.castAt[u] = old.castAt[u]
    BY <1>1, <1>2, VotedStage
  <2>2. pulls'[j.id] = new
    BY <1>4
  <2> HIDE DEF new
  <2>3. QED
    BY <1>1, <1>2, <1>5, <1>6, <2>1, <2>2 DEF j, old

LEMMA MergeEffect ==
  ASSUME IInv, OneInv, NEW w \in Workers, RecordMerge(w)
  PROVE  LET id  == job[w].id
             old == pulls[id]
             new == pulls'[id]
         IN  /\ id \in DOMAIN pulls /\ DOMAIN pulls' = DOMAIN pulls
             /\ \A i \in DOMAIN pulls : i # id => pulls'[i] = pulls[i]
             /\ old.stage = "awaiting-merge"
             /\ new.stage = "confirmation" /\ new.merged = TRUE
             /\ \A u \in Users : new.votes[u] = "none"
<1> DEFINE id == job[w].id
<1>1. id \in DOMAIN pulls /\ pulls[id] \in PullRow
  BY JobShapes DEF RecordMerge, IInv, TypeOK, NamesExist
<1>2. pulls[id].stage = "awaiting-merge"
  BY DEF RecordMerge, OneInv, JobsHold
<1>3. pulls' = [pulls EXCEPT ![id] =
                  [pulls[id] EXCEPT !.stage = "confirmation", !.merged = TRUE,
                                    !.merges = @ + 1, !.votes = ClearBallots(pulls[id])]]
  BY DEF RecordMerge
<1>4. QED
  BY <1>1, <1>2, <1>3 DEF IInv, TypeOK, PullRow, ClearBallots, NoVotes

(* A vote on another request closes it at most, and approving a            *)
(* replacement retires the pull request it answers.                        *)
LEMMA AskVoteEffect ==
  ASSUME IInv, OneInv, NEW w \in Workers, CommitAskVote(w)
  PROVE  LET id  == job[w].id
             old == asks[id]
             new == asks'[id]
         IN  /\ id \in DOMAIN asks /\ DOMAIN asks' = DOMAIN asks
             /\ \A i \in DOMAIN asks : i # id => asks'[i] = asks[i]
             /\ old.status = "open"
             /\ new.action = old.action /\ new.pull = old.pull
             /\ DOMAIN pulls' = DOMAIN pulls
             /\ \/ /\ new.status = "approved" /\ old.action = "replace"
                   /\ old.pull \in DOMAIN pulls
                   /\ repository' = [u \in Users |-> IF leader = {u} THEN id ELSE repository[u]]
                   /\ pulls'[old.pull] = [pulls[old.pull] EXCEPT !.stage = "replaced"]
                   /\ \A i \in DOMAIN pulls : i # old.pull => pulls'[i] = pulls[i]
                \/ /\ new.status = "approved" => old.action # "replace"
                   /\ UNCHANGED <<repository, pulls>>
<1> DEFINE j   == job[w]
           old == asks[j.id]
           cast == [asks EXCEPT ![j.id].votes[j.user] = j.ballot]
<1>1. j \in AskJob /\ j.id \in DOMAIN asks /\ old \in AskRow
  BY AskReads
<1>2. old.status = "open"
  BY DEF CommitAskVote, OneInv, JobsHold
<1>3. PICK d \in {"open", "approved", "rejected"} :
        IF d = "open"
        THEN asks' = cast /\ UNCHANGED <<repository, capable, pulls>>
        ELSE /\ asks' = [cast EXCEPT ![j.id].status = d]
             /\ IF d = "approved"
                THEN ChangeCapability(old) \/ ReplaceRepository(w, old, j.id)
                ELSE UNCHANGED <<repository, capable, pulls>>
  BY AskSettles, Zenon
<1>4. asks' = [asks EXCEPT ![j.id] = [old EXCEPT !.votes[j.user] = j.ballot, !.status = d]]
  <2>1. CASE d = "open"
    <3>1. [old EXCEPT !.votes[j.user] = j.ballot, !.status = d] =
            [old EXCEPT !.votes[j.user] = j.ballot]
      BY <1>1, <1>2, <2>1 DEF AskRow
    <3>2. asks' = [asks EXCEPT ![j.id] = [old EXCEPT !.votes[j.user] = j.ballot]]
      BY <1>1, <1>3, <2>1
    <3>3. QED
      BY <3>1, <3>2
  <2>2. CASE d # "open"
    BY <1>1, <1>3, <2>2 DEF IInv, TypeOK, AskRow
  <2>3. QED
    BY <2>1, <2>2
<1>5. /\ DOMAIN asks' = DOMAIN asks
      /\ \A i \in DOMAIN asks : i # j.id => asks'[i] = asks[i]
      /\ asks'[j.id].action = old.action /\ asks'[j.id].pull = old.pull
      /\ asks'[j.id].status = d
  BY <1>1, <1>4 DEF IInv, TypeOK, AskRow
<1>6. CASE d = "approved" /\ ReplaceRepository(w, old, j.id)
  <2>1. old.action = "replace" /\ old.pull \in DOMAIN pulls
    BY <1>1, <1>6 DEF ReplaceRepository, IInv, NamesExist
  <2>2. pulls' = [pulls EXCEPT ![old.pull].stage = "replaced"]
    BY <1>6 DEF ReplaceRepository, Retired
  <2>3. /\ DOMAIN pulls' = DOMAIN pulls
        /\ pulls'[old.pull] = [pulls[old.pull] EXCEPT !.stage = "replaced"]
        /\ \A i \in DOMAIN pulls : i # old.pull => pulls'[i] = pulls[i]
    BY <2>1, <2>2 DEF IInv, TypeOK
  <2>4. repository' = [u \in Users |-> IF leader = {u} THEN j.id ELSE repository[u]]
    BY <1>6 DEF ReplaceRepository
  <2>5. QED
    BY <1>1, <1>2, <1>5, <1>6, <2>1, <2>3, <2>4
<1>7. CASE ~ (d = "approved" /\ ReplaceRepository(w, old, j.id))
  <2>1. UNCHANGED <<repository, pulls>> /\ (d = "approved" => old.action # "replace")
    BY <1>3, <1>7 DEF ChangeCapability
  <2>2. QED
    BY <1>1, <1>2, <1>5, <2>1
<1>8. QED
  BY <1>6, <1>7

LEMMA OneInvStep ==
  ASSUME IInv, OneInv, OneAtATime, [Next]_vars
  PROVE  OneInv'
<1>1. ASSUME UNCHANGED <<repository, pulls, asks, job>>
      PROVE  OneInv'
  BY <1>1 DEF OneInv, MergesAreOnRecord, JobsHold, BallotsAreFresh, RepositoriesExist,
              MergeOnRecord, ReplacementTakesHold
<1>2. ASSUME UNCHANGED <<repository, pulls, asks>>, NEW w \in Workers, NEW j,
             job' = [job EXCEPT ![w] = j],
             j.op = "pull" => pulls[j.id].stage = j.stage,
             j.op = "merge" => pulls[j.id].stage = "awaiting-merge",
             j.op = "ask" => asks[j.id].status = "open"
      PROVE  OneInv'
  <2>1. JobsHold'
    BY <1>2 DEF OneInv, JobsHold, IInv, TypeOK
  <2>2. QED
    BY <1>2, <2>1 DEF OneInv, MergesAreOnRecord, BallotsAreFresh, RepositoriesExist,
                      MergeOnRecord, ReplacementTakesHold
<1>3. ASSUME NEW w \in Workers, job' = [job EXCEPT ![w] = Idle]
      PROVE  JobsHold'
  BY <1>3 DEF JobsHold, OneAtATime, IInv, TypeOK, Idle
<1>4. ASSUME NEW u \in Users, SubmitPull(u)
      PROVE  OneInv'
  <2>1. /\ DOMAIN pulls \subseteq DOMAIN pulls'
        /\ \A i \in DOMAIN pulls : pulls'[i] = pulls[i]
        /\ \A i \in DOMAIN pulls' \ DOMAIN pulls :
             /\ pulls'[i].stage = "approval" /\ pulls'[i].merged = FALSE
    BY <1>4 DEF SubmitPull, IInv, TypeOK
  <2>2. UNCHANGED <<repository, asks, job>>
    BY <1>4 DEF SubmitPull
  <2>3. JobsHold'
    BY <2>1, <2>2 DEF OneInv, JobsHold, IInv, NamesExist
  <2>4. BallotsAreFresh' /\ MergeOnRecord'
    BY <2>1 DEF OneInv, MergesAreOnRecord, BallotsAreFresh, MergeOnRecord
  <2>5. RepositoriesExist' /\ ReplacementTakesHold'
    BY <2>1, <2>2 DEF OneInv, MergesAreOnRecord, RepositoriesExist, ReplacementTakesHold,
                      IInv, NamesExist
  <2>6. QED
    BY <2>3, <2>4, <2>5 DEF OneInv, MergesAreOnRecord
<1>5. ASSUME NEW row, row.status = "open", AddAsk(row)
      PROVE  OneInv'
  <2>1. /\ DOMAIN asks \subseteq DOMAIN asks'
        /\ \A i \in DOMAIN asks : asks'[i] = asks[i]
        /\ \A i \in DOMAIN asks' \ DOMAIN asks : asks'[i].status = "open"
    BY <1>5 DEF AddAsk, IInv, TypeOK
  <2>2. UNCHANGED <<repository, pulls, job>>
    BY <1>5 DEF AddAsk
  <2>3. JobsHold'
    BY <2>1, <2>2 DEF OneInv, JobsHold, IInv, NamesExist
  <2>4. RepositoriesExist' /\ ReplacementTakesHold'
    BY <2>1, <2>2 DEF OneInv, MergesAreOnRecord, RepositoriesExist, ReplacementTakesHold,
                      IInv, NamesExist
  <2>5. QED
    BY <2>2, <2>3, <2>4 DEF OneInv, MergesAreOnRecord, BallotsAreFresh, MergeOnRecord
<1>6. ASSUME NEW w \in Workers, NEW u \in Users, Start(w, u)
      PROVE  OneInv'
  <2>1. UNCHANGED <<repository, pulls, asks>>
    BY <1>6 DEF Start
  <2>2. ASSUME NEW id \in DOMAIN pulls, NEW b, StartPullVote(w, u, id, b)
        PROVE  OneInv'
    <3> DEFINE j == [op |-> "pull", user |-> u, id |-> id, ballot |-> b,
                     insert |-> pulls[id].votes[u] = "none", stage |-> pulls[id].stage]
    <3>1. job' = [job EXCEPT ![w] = j] /\ j.op = "pull" /\ pulls[j.id].stage = j.stage
      BY <2>2 DEF StartPullVote, StartJob
    <3> HIDE DEF j
    <3>2. QED
      BY <1>2, <2>1, <3>1
  <2>3. ASSUME NEW id \in DOMAIN pulls, StartMerge(w, u, id)
        PROVE  OneInv'
    BY <1>2, <2>1, <2>3 DEF StartMerge, StartJob
  <2>4. ASSUME NEW id \in DOMAIN asks, NEW b, StartAskVote(w, u, id, b)
        PROVE  OneInv'
    <3> DEFINE j == [op |-> "ask", user |-> u, id |-> id, ballot |-> b,
                     insert |-> asks[id].votes[u] = "none"]
    <3>1. job' = [job EXCEPT ![w] = j] /\ j.op = "ask" /\ asks[j.id].status = "open"
      BY <2>4 DEF StartAskVote, StartJob, AskAdmits
    <3> HIDE DEF j
    <3>2. QED
      BY <1>2, <2>1, <3>1
  <2>5. ASSUME StartSync(w, u)
        PROVE  OneInv'
    BY <1>2, <2>1, <2>5 DEF StartSync, StartJob
  <2>6. QED
    BY <1>6, <2>2, <2>3, <2>4, <2>5 DEF Start
<1>7. ASSUME NEW w \in Workers, CommitPullVote(w)
      PROVE  OneInv'
  <2> DEFINE id == job[w].id
  <2>1. JobsHold' /\ UNCHANGED <<repository, asks>>
    BY <1>3, <1>7 DEF CommitPullVote
  <2>2. /\ id \in DOMAIN pulls /\ DOMAIN pulls' = DOMAIN pulls
        /\ \A i \in DOMAIN pulls : i # id => pulls'[i] = pulls[i]
        /\ pulls[id].stage \in {"approval", "confirmation"}
        /\ pulls'[id].stage # "replaced"
        /\ pulls'[id].stage \in {"confirmation", "confirmed"} => pulls[id].stage = "confirmation"
        /\ pulls'[id].merges = pulls[id].merges
        /\ pulls'[id].merged = (pulls[id].merged /\ ~ (pulls[id].stage = "confirmation"
                                          /\ pulls'[id].stage = "awaiting-merge"))
        /\ pulls[id].stage = "confirmation" =>
             pulls'[id].stage \in {"confirmation", "confirmed", "awaiting-merge"}
        /\ \A u \in Users : pulls'[id].votes[u] # "none" =>
             \/ pulls'[id].castAt[u] = pulls[id].merges
             \/ pulls[id].votes[u] # "none" /\ pulls'[id].castAt[u] = pulls[id].castAt[u]
    BY <1>7, PullVoteEffect
  <2> HIDE DEF id
  <2>3. BallotsAreFresh'
    BY <2>2 DEF OneInv, BallotsAreFresh
  <2>4. MergeOnRecord'
    BY <2>2 DEF OneInv, MergesAreOnRecord, MergeOnRecord
  <2>5. \A i \in DOMAIN pulls : pulls[i].stage = "replaced" => pulls'[i].stage = "replaced"
    BY <2>2
  <2>6. RepositoriesExist' /\ ReplacementTakesHold'
    BY <2>1, <2>5 DEF OneInv, MergesAreOnRecord, RepositoriesExist, ReplacementTakesHold,
                      IInv, NamesExist
  <2>7. QED
    BY <2>1, <2>3, <2>4, <2>6 DEF OneInv, MergesAreOnRecord
<1>8. ASSUME NEW w \in Workers, RecordMerge(w)
      PROVE  OneInv'
  <2> DEFINE id == job[w].id
  <2>1. JobsHold' /\ UNCHANGED <<repository, asks>>
    BY <1>3, <1>8 DEF RecordMerge
  <2>2. /\ id \in DOMAIN pulls /\ DOMAIN pulls' = DOMAIN pulls
        /\ \A i \in DOMAIN pulls : i # id => pulls'[i] = pulls[i]
        /\ pulls[id].stage = "awaiting-merge"
        /\ pulls'[id].stage = "confirmation" /\ pulls'[id].merged = TRUE
        /\ \A u \in Users : pulls'[id].votes[u] = "none"
    BY <1>8, MergeEffect
  <2> HIDE DEF id
  <2>3. BallotsAreFresh' /\ MergeOnRecord'
    BY <2>2 DEF OneInv, MergesAreOnRecord, BallotsAreFresh, MergeOnRecord
  <2>4. \A i \in DOMAIN pulls : pulls[i].stage = "replaced" => pulls'[i].stage = "replaced"
    BY <2>2
  <2>5. RepositoriesExist' /\ ReplacementTakesHold'
    BY <2>1, <2>4 DEF OneInv, MergesAreOnRecord, RepositoriesExist, ReplacementTakesHold,
                      IInv, NamesExist
  <2>6. QED
    BY <2>1, <2>3, <2>5 DEF OneInv, MergesAreOnRecord
<1>9. ASSUME NEW w \in Workers, CommitAskVote(w)
      PROVE  OneInv'
  <2> DEFINE id  == job[w].id
             old == asks[id]
  <2>1. JobsHold'
    BY <1>3, <1>9 DEF CommitAskVote
  <2>2. /\ id \in DOMAIN asks /\ DOMAIN asks' = DOMAIN asks
        /\ \A i \in DOMAIN asks : i # id => asks'[i] = asks[i]
        /\ old.status = "open"
        /\ asks'[id].action = old.action /\ asks'[id].pull = old.pull
        /\ DOMAIN pulls' = DOMAIN pulls
        /\ \/ /\ asks'[id].status = "approved" /\ old.action = "replace"
              /\ old.pull \in DOMAIN pulls
              /\ repository' = [u \in Users |-> IF leader = {u} THEN id ELSE repository[u]]
              /\ pulls'[old.pull] = [pulls[old.pull] EXCEPT !.stage = "replaced"]
              /\ \A i \in DOMAIN pulls : i # old.pull => pulls'[i] = pulls[i]
           \/ /\ asks'[id].status = "approved" => old.action # "replace"
              /\ UNCHANGED <<repository, pulls>>
    BY <1>9, AskVoteEffect
  <2> HIDE DEF id
  <2>3. \A i \in DOMAIN pulls : pulls \in Seq(PullRow) /\ pulls[i] \in PullRow
    BY DEF IInv, TypeOK
  <2>4. ASSUME NEW i \in DOMAIN pulls
        PROVE  pulls'[i].stage = "replaced" \/ pulls'[i] = pulls[i]
    <3>1. CASE UNCHANGED pulls
      BY <3>1
    <3>2. CASE /\ pulls'[old.pull] = [pulls[old.pull] EXCEPT !.stage = "replaced"]
               /\ \A k \in DOMAIN pulls : k # old.pull => pulls'[k] = pulls[k]
      <4>1. [pulls[i] EXCEPT !.stage = "replaced"].stage = "replaced"
        BY <2>3 DEF PullRow
      <4>2. QED
        BY <3>2, <4>1
    <3>3. QED
      BY <2>2, <3>1, <3>2
  <2>5. BallotsAreFresh' /\ MergeOnRecord'
    BY <2>2, <2>4 DEF OneInv, MergesAreOnRecord, BallotsAreFresh, MergeOnRecord
  <2>6. ASSUME NEW i \in DOMAIN asks', asks'[i].action = "replace", asks'[i].status = "approved"
        PROVE  pulls'[asks'[i].pull].stage = "replaced"
    <3>1. CASE i = id
      BY <2>2, <2>3, <2>6, <3>1 DEF PullRow
    <3>2. CASE i # id
      <4>1. asks[i].pull \in DOMAIN pulls /\ pulls[asks[i].pull].stage = "replaced"
        BY <2>2, <2>6, <3>2 DEF OneInv, MergesAreOnRecord, ReplacementTakesHold, IInv, NamesExist
      <4>2. QED
        BY <2>2, <2>4, <3>2, <4>1
    <3>3. QED
      BY <3>1, <3>2
  <2>7. ASSUME NEW u \in Users, repository'[u] # 0
        PROVE  /\ repository'[u] \in DOMAIN asks'
               /\ asks'[repository'[u]].action = "replace"
               /\ asks'[repository'[u]].status = "approved"
    <3>1. CASE repository'[u] = id /\ asks'[id].status = "approved" /\ old.action = "replace"
      BY <2>2, <3>1
    <3>2. CASE repository'[u] = repository[u]
      BY <2>2, <2>7, <3>2
      DEF OneInv, MergesAreOnRecord, ReplacementTakesHold, RepositoriesExist
    <3>3. QED
      BY <2>2, <3>1, <3>2
  <2>8. ReplacementTakesHold' /\ RepositoriesExist'
    BY <2>6, <2>7 DEF ReplacementTakesHold, RepositoriesExist
  <2>9. QED
    BY <2>1, <2>5, <2>8 DEF OneInv, MergesAreOnRecord
<1>10. ASSUME NEW w \in Workers, Rollback(w)
       PROVE  OneInv'
  BY <1>2, <1>10 DEF Rollback, Idle
<1>11. ASSUME NEW w \in Workers, SyncLeadingPlan(w)
       PROVE  OneInv'
  BY <1>2, <1>11 DEF SyncLeadingPlan, Idle
<1>12. QED
  BY <1>1, <1>4, <1>5, <1>6, <1>7, <1>8, <1>9, <1>10, <1>11
  DEF Next, vars, DeleteMembers, NoPlanLeads, RequestCapability, RequestReplacement

THEOREM OneInvariant ==
  ASSUME OneAtATime
  PROVE  Spec => [](IInv /\ OneInv)
<1>1. Init => IInv /\ OneInv
  BY InitIInv, InitOneInv
<1>2. (IInv /\ OneInv) /\ [Next]_vars => (IInv /\ OneInv)'
  BY InvStep, OneInvStep
<1>3. QED
  BY <1>1, <1>2, PTL DEF Spec

(* One request at a time, a pull request carries a merge exactly while one *)
(* is being confirmed or is confirmed, an approved replacement has retired *)
(* the pull request it answers, and a plan's repository is one that an     *)
(* approved replacement brought (merge_capability.py:210-231 and           *)
(* repository.py:183-201).                                                 *)
THEOREM MergesOnRecord ==
  ASSUME OneAtATime
  PROVE  Spec => []MergesAreOnRecord
<1>1. IInv /\ OneInv => MergesAreOnRecord
  BY DEF OneInv
<1>2. QED
  BY <1>1, OneInvariant, PTL

-----------------------------------------------------------------------------
(* What a step decides, it decides for good.                               *)
FinalStep ==
  /\ \A id \in DOMAIN asks : asks[id].status # "open" => asks'[id].status = asks[id].status
  /\ \A id \in DOMAIN pulls :
       pulls[id].stage \in {"confirmed", "rejected", "replaced"} =>
         pulls'[id].stage \in {pulls[id].stage, "replaced"}
AfreshStep ==
  \A id \in DOMAIN pulls :
    pulls'[id].stage = "confirmed" /\ pulls[id].stage # "confirmed" =>
      \A u \in Users : pulls'[id].votes[u] # "none" => pulls'[id].castAt[u] = pulls[id].merges

LEMMA DecisionStep ==
  ASSUME IInv, OneInv, [Next]_vars
  PROVE  FinalStep /\ AfreshStep
<1>1. ASSUME \A i \in DOMAIN pulls : pulls'[i] = pulls[i],
             \A i \in DOMAIN asks : asks'[i] = asks[i]
      PROVE  FinalStep /\ AfreshStep
  BY <1>1 DEF FinalStep, AfreshStep
<1>2. ASSUME NEW u \in Users, SubmitPull(u)
      PROVE  FinalStep /\ AfreshStep
  <2>1. \A i \in DOMAIN pulls : pulls'[i] = pulls[i]
    BY <1>2 DEF SubmitPull, IInv, TypeOK
  <2>2. QED
    BY <1>1, <1>2, <2>1 DEF SubmitPull
<1>3. ASSUME NEW row, AddAsk(row)
      PROVE  FinalStep /\ AfreshStep
  <2>1. \A i \in DOMAIN asks : asks'[i] = asks[i]
    BY <1>3 DEF AddAsk, IInv, TypeOK
  <2>2. QED
    BY <1>1, <1>3, <2>1 DEF AddAsk
<1>4. ASSUME NEW w \in Workers, CommitPullVote(w)
      PROVE  FinalStep /\ AfreshStep
  <2> DEFINE id == job[w].id
  <2>1. UNCHANGED asks
    BY <1>4 DEF CommitPullVote
  <2>2. /\ id \in DOMAIN pulls
        /\ \A i \in DOMAIN pulls : i # id => pulls'[i] = pulls[i]
        /\ pulls[id].stage \in {"approval", "confirmation"}
        /\ pulls'[id].stage \in {"confirmation", "confirmed"} => pulls[id].stage = "confirmation"
        /\ \A u \in Users : pulls'[id].votes[u] # "none" =>
             \/ pulls'[id].castAt[u] = pulls[id].merges
             \/ pulls[id].votes[u] # "none" /\ pulls'[id].castAt[u] = pulls[id].castAt[u]
    BY <1>4, PullVoteEffect
  <2> HIDE DEF id
  <2>3. FinalStep
    BY <2>1, <2>2 DEF FinalStep
  <2>4. AfreshStep
    BY <2>2 DEF AfreshStep, OneInv, BallotsAreFresh
  <2>5. QED
    BY <2>3, <2>4
<1>5. ASSUME NEW w \in Workers, RecordMerge(w)
      PROVE  FinalStep /\ AfreshStep
  <2> DEFINE id == job[w].id
  <2>1. UNCHANGED asks
    BY <1>5 DEF RecordMerge
  <2>2. /\ \A i \in DOMAIN pulls : i # id => pulls'[i] = pulls[i]
        /\ pulls[id].stage = "awaiting-merge"
        /\ pulls'[id].stage = "confirmation"
    BY <1>5, MergeEffect
  <2> HIDE DEF id
  <2>3. QED
    BY <2>1, <2>2 DEF FinalStep, AfreshStep
<1>6. ASSUME NEW w \in Workers, CommitAskVote(w)
      PROVE  FinalStep /\ AfreshStep
  <2> DEFINE id  == job[w].id
             old == asks[id]
  <2>1. /\ \A i \in DOMAIN asks : i # id => asks'[i] = asks[i]
        /\ old.status = "open"
        /\ \/ /\ old.pull \in DOMAIN pulls
              /\ pulls'[old.pull] = [pulls[old.pull] EXCEPT !.stage = "replaced"]
              /\ \A i \in DOMAIN pulls : i # old.pull => pulls'[i] = pulls[i]
           \/ UNCHANGED pulls
    BY <1>6, AskVoteEffect
  <2> HIDE DEF id
  <2>2. \A i \in DOMAIN pulls : pulls[i] \in PullRow
    BY DEF IInv, TypeOK
  <2>3. \A i \in DOMAIN pulls : pulls'[i].stage = "replaced" \/ pulls'[i] = pulls[i]
    BY <2>1, <2>2 DEF PullRow
  <2>4. QED
    BY <2>1, <2>3 DEF FinalStep, AfreshStep
<1>7. QED
  BY <1>1, <1>2, <1>3, <1>4, <1>5, <1>6
  DEF Next, vars, DeleteMembers, SyncLeadingPlan, NoPlanLeads, RequestCapability,
      RequestReplacement, Start, Rollback

(* One request at a time, nothing that was voted down or voted through is  *)
(* decided again, and a merge is confirmed by ballots cast on it           *)
(* (pull_requests.py:161-183 and 262-277).                                 *)
THEOREM DecisionsFinal ==
  ASSUME OneAtATime
  PROVE  Spec => DecisionsStand
<1>1. IInv /\ OneInv /\ [Next]_vars => FinalStep /\ AfreshStep
  BY DecisionStep
<1>2. QED
  BY <1>1, OneInvariant, PTL
  DEF Spec, DecisionsStand, DecisionsAreFinal, ConfirmedAfresh, FinalStep, AfreshStep
=============================================================================
