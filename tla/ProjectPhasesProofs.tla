------------------------ MODULE ProjectPhasesProofs ------------------------
(***************************************************************************)
(* Phase governance, for any number of members, workers and requests.      *)
(*                                                                         *)
(* ClosedAgrees is not inductive alone: that closing writes an outcome     *)
(* depends on what the requests table may hold, and that a revert cannot   *)
(* reach phase-7 on what the worker read before.  Rows and Reads say so.   *)
(* One request at a time, what a handler has read or worked out is still   *)
(* so when it commits (HandTrue), and each vote is what its ballots say.   *)
(***************************************************************************)
EXTENDS ProjectPhases, FiniteSetTheorems, TLAPS

Proper(row) ==
  /\ row.target = 7 <=> row.outcome # "none"
  /\ row.kind = "return" => row.target # 7

Rows ==
  /\ \A r \in Requests : requests[r] # Absent => Proper(requests[r])
  /\ \A w \in Workers : job[w].pc = "creating" => Proper(job[w].row)

Reads ==
  \A w \in Workers : job[w].pc \in {"proposer", "read", "tallied"} =>
    /\ requests[job[w].request] # Absent
    /\ job[w].via = "revert" => requests[job[w].request].kind = "return"

IInv == TypeOK /\ ClosedAgrees /\ Rows /\ Reads

-----------------------------------------------------------------------------
(* Every tally leaves the request open, approves it or rejects it.         *)
LEMMA DecideType ==
  ASSUME NEW v, NEW wt, NEW n
  PROVE  Decide(v, wt, n) \in {"open", "approved", "rejected"}
  BY DEF Decide, Outcome

LEMMA InitIInv == Init => IInv
<1> SUFFICES ASSUME Init PROVE IInv
  OBVIOUS
<1> USE DEF Init
<1>1. TypeOK
  <2>1. project \in [phase : Phases, closed : BOOLEAN, outcome : Outcomes, subtype : Subtypes]
    BY DEF Phases, Outcomes
  <2>2. votes \in [Requests -> [Users -> Ballots]]
    BY DEF Ballots
  <2>3. requests \in [Requests -> RequestRow \cup {Absent}] /\ job \in [Workers -> Jobs]
    BY DEF Jobs
  <2>4. QED
    BY <2>1, <2>2, <2>3 DEF TypeOK
<1>2. ClosedAgrees
  BY DEF ClosedAgrees
<1>3. Rows /\ Reads
  <2>1. \A r \in Requests : requests[r] = Absent
    OBVIOUS
  <2>2. \A w \in Workers : job[w].pc = "idle"
    BY DEF Idle
  <2>3. QED
    BY <2>1, <2>2 DEF Rows, Reads
<1>4. QED
  BY <1>1, <1>2, <1>3 DEF IInv

(* The kinds of jobs tell themselves apart by their pc.                    *)
LEMMA JobShapes ==
  ASSUME NEW j \in Jobs
  PROVE  /\ j.pc = "idle" => j = Idle
         /\ j.pc \in {"proposer", "read"} => j \in VoteJob
         /\ j.pc = "tallied" => j \in TallyJob
         /\ j.pc = "creating" => j \in CreateJob
         /\ j.pc = "advancing" => j \in AdvanceJob
  BY DEF Jobs, Idle, VoteJob, TallyJob, CreateJob, AdvanceJob

-----------------------------------------------------------------------------
LEMMA TypeStep == TypeOK /\ Reads /\ Rows /\ [Next]_vars => TypeOK'
<1> SUFFICES ASSUME TypeOK, Reads, Rows, [Next]_vars PROVE TypeOK'
  OBVIOUS
<1> USE DEF TypeOK
<1>1. ASSUME NEW w \in Workers, NEW u \in Users, NEW t \in Targets, NEW o \in Outcomes,
             CheckCreate(w, u, t, o)
      PROVE  TypeOK'
  <2> DEFINE row == [status |-> "open", kind |-> ChangeKind(t, project.phase),
                     from |-> project.phase, target |-> t, outcome |-> o]
  <2>1. t \in Phases
    BY TargetsAssumption DEF Phases
  <2>2. row \in RequestRow
    BY <2>1 DEF RequestRow, ChangeKind, Kinds
  <2>3. [pc |-> "creating", user |-> u, proposes |-> TRUE, row |-> row] \in Jobs
    BY <2>2 DEF Jobs, CreateJob
  <2>4. QED
    BY <1>1, <2>3 DEF CheckCreate, StartJob, env
<1>2. ASSUME NEW w \in Workers, NEW u \in Users, NEW t \in Targets, CheckRevert(w, u, t)
      PROVE  TypeOK'
  <2> DEFINE row == [status |-> "open", kind |-> "return", from |-> project.phase,
                     target |-> t, outcome |-> "none"]
  <2>1. t \in Phases
    BY TargetsAssumption DEF Phases
  <2>2. row \in RequestRow
    BY <2>1 DEF RequestRow, Kinds, Outcomes
  <2>3. [pc |-> "creating", user |-> u, proposes |-> FALSE, row |-> row] \in Jobs
    BY <2>2 DEF Jobs, CreateJob
  <2>4. QED
    BY <1>2, <2>3 DEF CheckRevert, StartJob, env
<1>3. ASSUME NEW w \in Workers, Insert(w)
      PROVE  TypeOK'
  <2>1. job[w] \in CreateJob
    BY <1>3, JobShapes DEF Insert
  <2>2. PICK r \in Requests :
          /\ requests' = [requests EXCEPT ![r] = job[w].row]
          /\ IF job[w].proposes
             THEN /\ votes' = [votes EXCEPT ![r][job[w].user] = "yes"]
                  /\ job' = [job EXCEPT ![w] =
                               [pc |-> "proposer", user |-> job[w].user, request |-> r,
                                ballot |-> "yes", via |-> "vote"]]
             ELSE /\ job' = [job EXCEPT ![w] = Idle]
                  /\ UNCHANGED votes
    BY <1>3 DEF Insert
  <2>3. requests' \in [Requests -> RequestRow \cup {Absent}]
    BY <2>1, <2>2 DEF CreateJob
  <2>4. votes' \in [Requests -> [Users -> Ballots]]
    <3>1. job[w].user \in Users /\ "yes" \in Ballots
      BY <2>1 DEF CreateJob, Ballots
    <3>2. votes' = votes \/ votes' = [votes EXCEPT ![r][job[w].user] = "yes"]
      BY <2>2
    <3>3. QED
      BY <3>1, <3>2
  <2>5. [pc |-> "proposer", user |-> job[w].user, request |-> r,
         ballot |-> "yes", via |-> "vote"] \in Jobs
    BY <2>1 DEF CreateJob, Jobs, VoteJob
  <2>6. job' \in [Workers -> Jobs]
    <3>1. Idle \in Jobs
      BY DEF Jobs
    <3>2. PICK j \in Jobs : job' = [job EXCEPT ![w] = j]
      BY <2>2, <2>5, <3>1
    <3>3. QED
      BY <3>2
  <2>7. QED
    BY <1>3, <2>3, <2>4, <2>6 DEF Insert, env
<1>4. ASSUME NEW w \in Workers, NEW u \in Users, NEW r \in Requests,
             NEW b \in {"yes", "no"}, NEW v \in {"vote", "revert"}, StartVote(w, u, r, b, v)
      PROVE  TypeOK'
  <2>1. [pc |-> "read", user |-> u, request |-> r, ballot |-> b, via |-> v] \in Jobs
    BY DEF Jobs, VoteJob
  <2>2. QED
    BY <1>4, <2>1 DEF StartVote, StartJob, env
<1>5. ASSUME NEW w \in Workers, ProposerVote(w)
      PROVE  TypeOK'
  <2>1. job[w] \in VoteJob
    BY <1>5, JobShapes DEF ProposerVote
  <2>2. [job[w] EXCEPT !.pc = "read"] \in Jobs
    BY <2>1 DEF VoteJob, Jobs
  <2>3. job' \in [Workers -> Jobs]
    BY <1>5, <2>2 DEF ProposerVote, Jobs
  <2>4. QED
    BY <1>5, <2>3 DEF ProposerVote, env
<1>6. ASSUME NEW w \in Workers, Tally(w)
      PROVE  TypeOK'
  <2>1. job[w] \in VoteJob
    BY <1>6, JobShapes DEF Tally
  <2>2. ASSUME NEW d \in {"open", "approved", "rejected"}
        PROVE  [pc |-> "tallied", user |-> job[w].user, request |-> job[w].request,
                ballot |-> job[w].ballot, via |-> job[w].via,
                insert |-> votes[job[w].request][job[w].user] = "none",
                decision |-> d] \in Jobs
    BY <2>1 DEF VoteJob, Jobs, TallyJob
  <2>3. PICK n \in Populations :
          job' = [job EXCEPT ![w] =
             IF Decision(job[w], n) = "approved" /\ job[w].via = "vote"
                /\ ~ SignalGate(requests[job[w].request].kind, requests[job[w].request].from)
             THEN Idle
             ELSE [pc |-> "tallied", user |-> job[w].user, request |-> job[w].request,
                   ballot |-> job[w].ballot, via |-> job[w].via,
                   insert |-> votes[job[w].request][job[w].user] = "none",
                   decision |-> IF Decision(job[w], n) = "rejected" /\ job[w].via = "revert"
                                THEN "open" ELSE Decision(job[w], n)]]
    BY <1>6 DEF Tally
  <2>4. Decision(job[w], n) \in {"open", "approved", "rejected"}
    BY DecideType DEF Decision
  <2>5. job' \in [Workers -> Jobs]
    BY <2>2, <2>3, <2>4 DEF Jobs
  <2>6. QED
    BY <1>6, <2>5 DEF Tally, env
<1>7. ASSUME NEW w \in Workers, job[w].pc = "tallied", Record(w)
      PROVE  /\ votes' \in [Requests -> [Users -> Ballots]]
             /\ job' \in [Workers -> Jobs]
             /\ plans' \subseteq {2, 3} /\ signals' \in BOOLEAN
             /\ job[w] \in TallyJob
  <2>1. job[w] \in TallyJob
    BY <1>7, JobShapes
  <2>2. QED
    BY <1>7, <2>1 DEF Record, TallyJob, Ballots, Jobs, env
<1>8. ASSUME NEW o \in Outcomes, CloseProject(o)
      PROVE  /\ project' \in [phase : Phases, closed : BOOLEAN, outcome : Outcomes,
                              subtype : Subtypes]
             /\ conversions' \in Nat
  <2>1. 7 \in Phases
    BY DEF Phases
  <2>2. project' = [project EXCEPT !.phase = 7, !.closed = TRUE, !.outcome = o]
    BY <1>8 DEF CloseProject
  <2>3. project' \in [phase : Phases, closed : BOOLEAN, outcome : Outcomes,
                      subtype : Subtypes]
    BY <2>1, <2>2
  <2>4. conversions' \in Nat
    BY <1>8 DEF CloseProject
  <2>5. QED
    BY <2>3, <2>4
<1>9. ASSUME NEW p \in Phases, MoveProject(p)
      PROVE  /\ project' \in [phase : Phases, closed : BOOLEAN, outcome : Outcomes,
                              subtype : Subtypes]
             /\ conversions' \in Nat
  BY <1>9 DEF MoveProject
<1>10. ASSUME NEW r \in Requests, NEW s \in {"open", "approved", "rejected", "closed"},
              requests[r] # Absent
       PROVE  [requests[r] EXCEPT !.status = s] \in RequestRow
  BY <1>10 DEF RequestRow
<1>11. ASSUME NEW w \in Workers, CommitOpen(w)
       PROVE  TypeOK'
  BY <1>7, <1>11 DEF CommitOpen
<1>12. ASSUME NEW w \in Workers, CommitRejected(w)
       PROVE  TypeOK'
  <2>1. job[w].request \in Requests /\ job[w] \in TallyJob
    BY <1>7, <1>12 DEF CommitRejected, TallyJob
  <2>2. requests[job[w].request] # Absent
    BY <1>12 DEF Reads, CommitRejected
  <2>3. requests' \in [Requests -> RequestRow \cup {Absent}]
    BY <1>10, <1>12, <2>1, <2>2 DEF CommitRejected
  <2>4. QED
    BY <1>7, <1>12, <2>3 DEF CommitRejected
<1>13. ASSUME NEW w \in Workers, CommitApproved(w)
       PROVE  TypeOK'
  <2> DEFINE id == job[w].request
  <2>1. id \in Requests /\ requests[id] # Absent
    BY <1>7, <1>13 DEF CommitApproved, TallyJob, Reads
  <2>2. requests[id].target \in Phases /\ requests[id].outcome \in Outcomes
    BY <2>1 DEF RequestRow
  <2>3. requests' \in [Requests -> RequestRow \cup {Absent}]
    <3>1. requests' = [r \in Requests |->
              IF r = id THEN [requests[r] EXCEPT !.status = "approved"]
              ELSE IF Open(r) THEN [requests[r] EXCEPT !.status = "closed"]
              ELSE requests[r]]
      BY <1>13 DEF CommitApproved
    <3>2. ASSUME NEW r \in Requests, Open(r)
          PROVE  requests[r] # Absent
      BY <3>2 DEF Open, Absent
    <3>3. QED
      BY <1>10, <2>1, <3>1, <3>2
  <2>4. CASE requests[id].target = 7
    BY <1>7, <1>8, <1>13, <2>2, <2>3, <2>4 DEF CommitApproved
  <2>5. CASE requests[id].target # 7
    BY <1>7, <1>9, <1>13, <2>2, <2>3, <2>5 DEF CommitApproved
  <2>6. QED
    BY <2>4, <2>5
<1>14. ASSUME NEW w \in Workers, CommitReverted(w)
       PROVE  TypeOK'
  <2>1. job[w].request \in Requests /\ requests[job[w].request] # Absent
    BY <1>7, <1>14 DEF CommitReverted, TallyJob, Reads
  <2>2. requests[job[w].request].target \in Phases
    BY <2>1 DEF RequestRow
  <2>3. requests' \in [Requests -> RequestRow \cup {Absent}]
    BY <1>10, <1>14, <2>1 DEF CommitReverted
  <2>4. QED
    BY <1>7, <1>9, <1>14, <2>2, <2>3 DEF CommitReverted
<1>15. ASSUME NEW w \in Workers, NEW t \in Phases, CheckAdvance(w, t)
       PROVE  TypeOK'
  <2>1. PICK s \in {"keep"} \cup Subtypes :
          StartJob(w, [pc |-> "advancing", to |-> t, subtype |-> s])
    BY <1>15, SubtypesAssumption DEF CheckAdvance, Subtypes
  <2>2. [pc |-> "advancing", to |-> t, subtype |-> s] \in Jobs
    BY DEF Jobs, AdvanceJob
  <2>3. QED
    BY <1>15, <2>1, <2>2 DEF CheckAdvance, StartJob, env
<1>16. ASSUME NEW w \in Workers, CommitAdvance(w)
       PROVE  TypeOK'
  <2>1. job[w] \in AdvanceJob
    BY <1>16, JobShapes DEF CommitAdvance
  <2>2. job' \in [Workers -> Jobs]
    BY <1>16 DEF CommitAdvance, Jobs
  <2>3. CASE job[w].to = 7
    BY <1>8, <1>16, <2>2, <2>3 DEF CommitAdvance, Outcomes, env
  <2>4. CASE job[w].to # 7
    <3>1. PICK s \in Subtypes : project' = [project EXCEPT !.phase = job[w].to, !.subtype = s]
      <4>1. project.subtype \in Subtypes /\ job[w].subtype \in {"keep"} \cup Subtypes
        BY <2>1 DEF AdvanceJob
      <4>2. project' = [project EXCEPT !.phase = job[w].to,
                          !.subtype = IF job[w].subtype = "keep" THEN @ ELSE job[w].subtype]
        BY <1>16, <2>4 DEF CommitAdvance
      <4>3. CASE job[w].subtype = "keep"
        BY <4>1, <4>2, <4>3
      <4>4. CASE job[w].subtype # "keep"
        BY <4>1, <4>2, <4>4
      <4>5. QED
        BY <4>3, <4>4
    <3>2. job[w].to \in Phases
      BY <2>1 DEF AdvanceJob
    <3>3. project' \in [phase : Phases, closed : BOOLEAN, outcome : Outcomes,
                        subtype : Subtypes]
      BY <3>1, <3>2
    <3>4. QED
      BY <1>16, <2>2, <2>4, <3>3 DEF CommitAdvance, env
  <2>5. QED
    BY <2>3, <2>4
<1>17. ASSUME NEW w \in Workers, Rollback(w)
       PROVE  TypeOK'
  BY <1>17 DEF Rollback, Jobs, env
<1>18. CASE UNCHANGED vars
  BY <1>18 DEF vars
<1>19. ASSUME NEW k \in PlanPhases, ChangePlan(k)
       PROVE  TypeOK'
  BY <1>19, PlanPhasesAssumption DEF ChangePlan
<1>20. CASE ChangeSignals
  BY <1>20 DEF ChangeSignals
<1>21. QED
  BY <1>1, <1>2, <1>3, <1>4, <1>5, <1>6, <1>11, <1>12, <1>13, <1>14, <1>15, <1>16, <1>17,
     <1>18, <1>19, <1>20 DEF Next, Step

-----------------------------------------------------------------------------
(* What the requests table holds stays proper: a row keeps all but its     *)
(* status once inserted, and is inserted as the create handlers built it.  *)
SameRow(old, new) ==
  new.kind = old.kind /\ new.target = old.target /\ new.outcome = old.outcome

LEMMA StatusKeepsRow ==
  ASSUME NEW row \in RequestRow, NEW s
  PROVE  SameRow(row, [row EXCEPT !.status = s]) /\ [row EXCEPT !.status = s] # Absent
  BY DEF RequestRow, SameRow, Absent

LEMMA ProperRowKept ==
  ASSUME NEW old, NEW new, SameRow(old, new), Proper(old)
  PROVE  Proper(new)
  BY DEF SameRow, Proper

(* A row is inserted or keeps everything but its status.                   *)
LEMMA RowsKept ==
  ASSUME TypeOK, Reads, NEW w \in Workers, NEW r \in Requests, requests[r] # Absent,
         Insert(w) \/ CommitOpen(w) \/ CommitRejected(w) \/ CommitApproved(w)
           \/ CommitReverted(w) \/ UNCHANGED requests
  PROVE  requests'[r] # Absent /\ SameRow(requests[r], requests'[r])
<1>1. requests[r] \in RequestRow /\ SameRow(requests[r], requests[r])
  BY DEF TypeOK, SameRow
<1>2. CASE Insert(w)
  BY <1>1, <1>2 DEF Insert, TypeOK
<1>3. CASE CommitOpen(w) \/ UNCHANGED requests
  BY <1>1, <1>3 DEF CommitOpen
<1>4. CASE CommitRejected(w) \/ CommitReverted(w)
  <2>1. requests'[r] \in {requests[r], [requests[r] EXCEPT !.status = "rejected"],
                          [requests[r] EXCEPT !.status = "approved"]}
    BY <1>1, <1>4 DEF CommitRejected, CommitReverted, TypeOK
  <2>2. QED
    BY <1>1, <2>1, StatusKeepsRow
<1>5. CASE CommitApproved(w)
  <2>1. requests'[r] \in {requests[r], [requests[r] EXCEPT !.status = "approved"],
                          [requests[r] EXCEPT !.status = "closed"]}
    BY <1>5 DEF CommitApproved
  <2>2. QED
    BY <1>1, <2>1, StatusKeepsRow
<1>6. QED
  BY <1>2, <1>3, <1>4, <1>5

-----------------------------------------------------------------------------
(* Every step of the handlers is a step of the Lifecycle.                  *)
LEMMA StepRefines == IInv /\ [Next]_vars => [Promise!Next]_(Promise!vars)
<1> SUFFICES ASSUME IInv, [Next]_vars
             PROVE  Promise!Next \/ UNCHANGED <<project, conversions>>
  BY DEF Promise!vars
<1> USE DEF IInv
<1>1. ASSUME NEW w \in Workers, CommitApproved(w)
      PROVE  Promise!Next
  <2> DEFINE id == job[w].request
  <2>1. job[w] \in TallyJob /\ id \in Requests
    BY <1>1, JobShapes DEF CommitApproved, TypeOK, TallyJob
  <2>2. requests[id] # Absent /\ requests[id] \in RequestRow /\ Proper(requests[id])
    BY <1>1, <2>1 DEF CommitApproved, TypeOK, Reads, Rows
  <2>3. CASE requests[id].target = 7
    <3>1. CloseProject(requests[id].outcome)
      BY <1>1, <2>3 DEF CommitApproved
    <3>2. requests[id].outcome \in {"close", "convert"}
      BY <2>2, <2>3 DEF Proper, RequestRow, Outcomes
    <3>3. requests[id].outcome = "convert" => conversions = 0
      BY <1>1 DEF CommitApproved, Conflicts, TypeOK
    <3>4. QED
      BY <3>1, <3>2, <3>3 DEF CloseProject, Promise!Next, Promise!Close, Promise!Convert,
                              TypeOK
  <2>4. CASE requests[id].target # 7
    <3>1. MoveProject(requests[id].target)
      BY <1>1, <2>4 DEF CommitApproved
    <3>2. requests[id].target \in 1..6
      BY <2>2, <2>4 DEF RequestRow, Phases
    <3>3. QED
      BY <3>1, <3>2 DEF MoveProject, Promise!Next, Promise!Move, TypeOK
  <2>5. QED
    BY <2>3, <2>4
<1>2. ASSUME NEW w \in Workers, CommitReverted(w)
      PROVE  Promise!Next
  <2> DEFINE id == job[w].request
  <2>1. job[w] \in TallyJob /\ id \in Requests
    BY <1>2, JobShapes DEF CommitReverted, TypeOK, TallyJob
  <2>2. requests[id] \in RequestRow /\ requests[id].target # 7
    BY <1>2, <2>1 DEF CommitReverted, TypeOK, Reads, Rows, Proper
  <2>3. requests[id].target \in 1..6
    BY <2>2 DEF RequestRow, Phases
  <2>4. QED
    BY <1>2, <2>3 DEF CommitReverted, MoveProject, Promise!Next, Promise!Move, TypeOK
<1>3. ASSUME NEW w \in Workers, CommitAdvance(w)
      PROVE  Promise!Next
  <2>1. job[w] \in AdvanceJob
    BY <1>3, JobShapes DEF CommitAdvance, TypeOK
  <2>2. CASE job[w].to = 7
    BY <1>3, <2>2 DEF CommitAdvance, CloseProject, Promise!Next, Promise!Close, TypeOK
  <2>3. CASE job[w].to # 7
    <3>1. job[w].to \in 1..6
      BY <2>1, <2>3 DEF AdvanceJob, Phases
    <3>2. QED
      BY <1>3, <2>3, <3>1 DEF CommitAdvance, Promise!Next, Promise!Move, TypeOK
  <2>4. QED
    BY <2>2, <2>3
<1>4. ASSUME NEW w \in Workers,
             \/ \E u \in Users, t \in Targets, o \in Outcomes : CheckCreate(w, u, t, o)
             \/ \E u \in Users, t \in Targets : CheckRevert(w, u, t)
             \/ Insert(w)
             \/ \E u \in Users, r \in Requests, b \in {"yes", "no"}, v \in {"vote", "revert"} :
                  StartVote(w, u, r, b, v)
             \/ ProposerVote(w) \/ Tally(w) \/ CommitOpen(w) \/ CommitRejected(w)
             \/ \E t \in Phases : CheckAdvance(w, t)
             \/ Rollback(w)
      PROVE  UNCHANGED <<project, conversions>>
  BY <1>4 DEF CheckCreate, CheckRevert, Insert, StartVote, ProposerVote, Tally, CommitOpen,
              CommitRejected, CheckAdvance, Rollback
<1>5. CASE (\E k \in PlanPhases : ChangePlan(k)) \/ ChangeSignals \/ UNCHANGED vars
  BY <1>5 DEF ChangePlan, ChangeSignals, vars
<1>6. QED
  BY <1>1, <1>2, <1>3, <1>4, <1>5 DEF Next, Step

LEMMA LifecycleKeepsClosedAgrees ==
  ASSUME TypeOK, ClosedAgrees, [Promise!Next]_(Promise!vars)
  PROVE  ClosedAgrees'
<1>1. CASE Promise!Move
  BY <1>1 DEF Promise!Move, ClosedAgrees, TypeOK
<1>2. CASE Promise!Close
  BY <1>2 DEF Promise!Close, ClosedAgrees, TypeOK
<1>3. CASE Promise!Convert
  BY <1>3 DEF Promise!Convert, ClosedAgrees, TypeOK
<1>4. CASE UNCHANGED Promise!vars
  BY <1>4 DEF Promise!vars, ClosedAgrees
<1>5. QED
  BY <1>1, <1>2, <1>3, <1>4 DEF Promise!Next

-----------------------------------------------------------------------------
(* What a job holds in its own step; the other workers' jobs stay.         *)
LEMMA RowsReadsStep == IInv /\ [Next]_vars => Rows' /\ Reads'
<1> SUFFICES ASSUME IInv, [Next]_vars PROVE Rows' /\ Reads'
  OBVIOUS
<1> USE DEF IInv
<1> DEFINE Fits(j) ==
      /\ j.pc = "creating" => Proper(j.row)
      /\ j.pc \in {"proposer", "read", "tallied"} =>
           /\ requests'[j.request] # Absent
           /\ j.via = "revert" => requests'[j.request].kind = "return"
      Keeps == \A r \in Requests : requests[r] # Absent =>
                 requests'[r] # Absent /\ SameRow(requests[r], requests'[r])
      FitsNow(w) ==
        /\ job[w].pc = "creating" => Proper(job[w].row)
        /\ job[w].pc \in {"proposer", "read", "tallied"} =>
             /\ job[w].request \in Requests
             /\ requests[job[w].request] # Absent
             /\ job[w].via = "revert" => requests[job[w].request].kind = "return"
<1>1. ASSUME NEW w \in Workers PROVE FitsNow(w)
  BY <1>1, JobShapes DEF TypeOK, Rows, Reads, VoteJob, TallyJob
<1>2. ASSUME NEW w \in Workers, NEW j, Keeps, job' = [job EXCEPT ![w] = j], Fits(j),
             \A r \in Requests : requests[r] = Absent =>
               requests'[r] = Absent \/ Proper(requests'[r])
      PROVE  Rows' /\ Reads'
  <2>1. \A v \in Workers : Fits(job'[v])
    <3> SUFFICES ASSUME NEW v \in Workers PROVE Fits(job'[v])
      OBVIOUS
    <3>1. CASE v = w
      BY <1>2, <3>1 DEF TypeOK
    <3>2. CASE v # w
      <4>1. job'[v] = job[v]
        BY <1>2, <3>2 DEF TypeOK
      <4>2. FitsNow(v)
        BY <1>1
      <4>3. ASSUME job[v].pc \in {"proposer", "read", "tallied"}
            PROVE  /\ requests'[job[v].request] # Absent
                   /\ requests'[job[v].request].kind = requests[job[v].request].kind
        BY <1>2, <4>2, <4>3 DEF SameRow
      <4>4. Fits(job[v])
        BY <4>2, <4>3
      <4>5. QED
        BY <4>1, <4>4
    <3>3. QED
      BY <3>1, <3>2
  <2>2. \A r \in Requests : requests'[r] # Absent => Proper(requests'[r])
    BY <1>2, ProperRowKept DEF Rows
  <2>3. QED
    BY <2>1, <2>2 DEF Rows, Reads
<1>3. ASSUME NEW w \in Workers, NEW j, job' = [job EXCEPT ![w] = j], Fits(j),
             UNCHANGED requests
      PROVE  Rows' /\ Reads'
  <2>1. Keeps
    BY <1>3 DEF SameRow
  <2>2. QED
    BY <1>2, <1>3, <2>1
<1>4. ASSUME NEW w \in Workers, NEW u \in Users, NEW t \in Targets, NEW o \in Outcomes,
             CheckCreate(w, u, t, o)
      PROVE  Rows' /\ Reads'
  <2> DEFINE row == [status |-> "open", kind |-> ChangeKind(t, project.phase),
                     from |-> project.phase, target |-> t, outcome |-> o]
             new == [pc |-> "creating", user |-> u, proposes |-> TRUE, row |-> row]
  <2>1. Proper(row)
    BY <1>4 DEF CheckCreate, Proper, ChangeKind
  <2>2. job' = [job EXCEPT ![w] = new] /\ UNCHANGED requests
    BY <1>4 DEF CheckCreate, StartJob
  <2>3. Fits(new)
    BY <2>1
  <2>4. QED
    BY ONLY <1>3, <2>2, <2>3
<1>5. ASSUME NEW w \in Workers, NEW u \in Users, NEW t \in Targets, CheckRevert(w, u, t)
      PROVE  Rows' /\ Reads'
  <2> DEFINE row == [status |-> "open", kind |-> "return", from |-> project.phase,
                     target |-> t, outcome |-> "none"]
             new == [pc |-> "creating", user |-> u, proposes |-> FALSE, row |-> row]
  <2>1. Proper(row)
    BY <1>5 DEF CheckRevert, Proper, TypeOK, Phases
  <2>2. job' = [job EXCEPT ![w] = new] /\ UNCHANGED requests
    BY <1>5 DEF CheckRevert, StartJob
  <2>3. Fits(new)
    BY <2>1
  <2>4. QED
    BY ONLY <1>3, <2>2, <2>3
<1>6. ASSUME NEW w \in Workers, Insert(w)
      PROVE  Rows' /\ Reads'
  <2>1. job[w] \in CreateJob /\ Proper(job[w].row)
    BY <1>6, JobShapes DEF Insert, TypeOK, Rows
  <2>2. PICK r \in Requests :
          /\ requests[r] = Absent
          /\ requests' = [requests EXCEPT ![r] = job[w].row]
          /\ IF job[w].proposes
             THEN job' = [job EXCEPT ![w] =
                            [pc |-> "proposer", user |-> job[w].user, request |-> r,
                             ballot |-> "yes", via |-> "vote"]]
             ELSE job' = [job EXCEPT ![w] = Idle]
    BY <1>6 DEF Insert
  <2>3. Keeps
    BY <1>6, RowsKept
  <2>4. \A q \in Requests : requests[q] = Absent =>
          requests'[q] = Absent \/ Proper(requests'[q])
    BY <2>1, <2>2 DEF TypeOK
  <2>5. requests'[r] # Absent
    BY <2>1, <2>2 DEF TypeOK, CreateJob, RequestRow, Absent
  <2>6. CASE job[w].proposes
    <3> DEFINE new == [pc |-> "proposer", user |-> job[w].user, request |-> r,
                       ballot |-> "yes", via |-> "vote"]
    <3>1. job' = [job EXCEPT ![w] = new] /\ Fits(new)
      BY <2>2, <2>5, <2>6
    <3>2. QED
      BY ONLY <1>2, <2>3, <2>4, <3>1
  <2>7. CASE ~ job[w].proposes
    <3>1. job' = [job EXCEPT ![w] = Idle] /\ Fits(Idle)
      BY <2>2, <2>7 DEF Idle
    <3>2. QED
      BY ONLY <1>2, <2>3, <2>4, <3>1
  <2>8. QED
    BY <2>6, <2>7
<1>7. ASSUME NEW w \in Workers, NEW u \in Users, NEW r \in Requests,
             NEW b \in {"yes", "no"}, NEW v \in {"vote", "revert"}, StartVote(w, u, r, b, v)
      PROVE  Rows' /\ Reads'
  <2> DEFINE new == [pc |-> "read", user |-> u, request |-> r, ballot |-> b, via |-> v]
  <2>1. job' = [job EXCEPT ![w] = new] /\ UNCHANGED requests
    BY <1>7 DEF StartVote, StartJob
  <2>2. Fits(new)
    BY <1>7, <2>1 DEF StartVote, Admits, Open, Absent
  <2>3. QED
    BY ONLY <1>3, <2>1, <2>2
<1>8. ASSUME NEW w \in Workers, ProposerVote(w)
      PROVE  Rows' /\ Reads'
  <2> DEFINE new == IF Admits(job[w].user, job[w].request)
                    THEN [job[w] EXCEPT !.pc = "read"] ELSE Idle
  <2>1. job[w] \in VoteJob
    BY <1>8, JobShapes DEF ProposerVote, TypeOK
  <2>2. job' = [job EXCEPT ![w] = new] /\ UNCHANGED requests
    BY <1>8 DEF ProposerVote, TypeOK
  <2>3. Fits(new)
    BY <1>1, <1>8, <2>1, <2>2 DEF ProposerVote, VoteJob, Idle
  <2>4. QED
    BY ONLY <1>3, <2>2, <2>3
<1>9. ASSUME NEW w \in Workers, Tally(w)
      PROVE  Rows' /\ Reads'
  <2> DEFINE shut(n) ==
               /\ Decision(job[w], n) = "approved" /\ job[w].via = "vote"
               /\ ~ SignalGate(requests[job[w].request].kind, requests[job[w].request].from)
             new(n) ==
               IF shut(n) THEN Idle
               ELSE [pc |-> "tallied", user |-> job[w].user, request |-> job[w].request,
                     ballot |-> job[w].ballot, via |-> job[w].via,
                     insert |-> votes[job[w].request][job[w].user] = "none",
                     decision |-> IF Decision(job[w], n) = "rejected" /\ job[w].via = "revert"
                                  THEN "open" ELSE Decision(job[w], n)]
  <2>1. PICK n \in Populations : job' = [job EXCEPT ![w] = new(n)]
    BY <1>9 DEF Tally
  <2>2. UNCHANGED requests
    BY <1>9 DEF Tally
  <2>3. Fits(new(n))
    BY <1>1, <1>9, <2>2 DEF Tally, Idle
  <2>4. QED
    BY ONLY <1>3, <2>1, <2>2, <2>3
<1>10. ASSUME NEW w \in Workers,
              CommitOpen(w) \/ CommitRejected(w) \/ CommitApproved(w) \/ CommitReverted(w)
       PROVE  Rows' /\ Reads'
  <2>1. Keeps
    BY <1>10, RowsKept
  <2>2. job' = [job EXCEPT ![w] = Idle] /\ Fits(Idle)
    BY <1>10 DEF CommitOpen, CommitRejected, CommitApproved, CommitReverted, Record, Idle
  <2>3. ASSUME NEW r \in Requests, requests[r] = Absent
        PROVE  requests'[r] = Absent
    <3>1. job[w].request \in Requests /\ requests[job[w].request] # Absent
      BY <1>1, <1>10 DEF CommitOpen, CommitRejected, CommitApproved, CommitReverted
    <3>2. QED
      BY <1>10, <2>3, <3>1 DEF CommitOpen, CommitRejected, CommitApproved, CommitReverted,
                               Open, Absent, TypeOK
  <2>4. QED
    BY ONLY <1>2, <2>1, <2>2, <2>3
<1>11. ASSUME NEW w \in Workers, NEW t \in Phases, CheckAdvance(w, t)
       PROVE  Rows' /\ Reads'
  <2>1. PICK s : job' = [job EXCEPT ![w] = [pc |-> "advancing", to |-> t, subtype |-> s]]
    BY <1>11 DEF CheckAdvance, StartJob
  <2>2. UNCHANGED requests /\ Fits([pc |-> "advancing", to |-> t, subtype |-> s])
    BY <1>11 DEF CheckAdvance
  <2>3. QED
    BY ONLY <1>3, <2>1, <2>2
<1>12. ASSUME NEW w \in Workers, CommitAdvance(w) \/ Rollback(w)
       PROVE  Rows' /\ Reads'
  <2>1. job' = [job EXCEPT ![w] = Idle] /\ UNCHANGED requests /\ Fits(Idle)
    BY <1>12 DEF CommitAdvance, Rollback, Idle
  <2>2. QED
    BY ONLY <1>3, <2>1
<1>13. CASE (\E k \in PlanPhases : ChangePlan(k)) \/ ChangeSignals \/ UNCHANGED vars
  BY <1>13 DEF ChangePlan, ChangeSignals, vars, Rows, Reads
<1>14. QED
  BY <1>4, <1>5, <1>6, <1>7, <1>8, <1>9, <1>10, <1>11, <1>12, <1>13 DEF Next, Step

LEMMA IInvStep == IInv /\ [Next]_vars => IInv'
<1>1. IInv /\ [Next]_vars => TypeOK' /\ Rows' /\ Reads'
  BY TypeStep, RowsReadsStep DEF IInv
<1>2. IInv /\ [Next]_vars => ClosedAgrees'
  BY StepRefines, LifecycleKeepsClosedAgrees DEF IInv
<1>3. QED
  BY <1>1, <1>2 DEF IInv

THEOREM Invariant == Spec => []IInv
  BY InitIInv, IInvStep, PTL DEF Spec

-----------------------------------------------------------------------------
(* The type invariant, for every instance.                                 *)
THEOREM TypeCorrect == Spec => []TypeOK
<1>1. IInv => TypeOK
  BY DEF IInv
<1>2. QED
  BY <1>1, Invariant, PTL

(* The row, its outcome and its conversion always agree, however many      *)
(* requests interleave (conversion.py:43-83 and 363-397).                  *)
THEOREM ClosedAgreement == Spec => []ClosedAgrees
<1>1. IInv => ClosedAgrees
  BY DEF IInv
<1>2. QED
  BY <1>1, Invariant, PTL

(* Phase governance implements the Lifecycle: one conversion at most, in   *)
(* the step that closes the project, and no way to take a closing back.    *)
THEOREM Refinement == Spec => IsALifecycle
<1>1. Init => Promise!Init
  BY DEF Init, Promise!Init
<1>2. QED
  BY <1>1, Invariant, StepRefines, PTL DEF Spec, IsALifecycle, Promise!Spec

-----------------------------------------------------------------------------
(* A step that decides a request, or records a ballot on it, is taken by a *)
(* worker that had read it.                                                *)
LEMMA SettledStep ==
  ASSUME IInv, [Next]_vars, NEW r \in Requests, Decided(r),
         \A w \in Workers : ~ Touches(w, r)
  PROVE  requests'[r] = requests[r] /\ votes'[r] = votes[r]
<1> USE DEF IInv
<1>1. ASSUME NEW w \in Workers, Insert(w)
      PROVE  requests'[r] = requests[r] /\ votes'[r] = votes[r]
  <2>1. requests[r] # Absent
    BY DEF Decided, Absent
  <2>2. QED
    BY <1>1, <2>1 DEF Insert, TypeOK
<1>2. ASSUME NEW w \in Workers,
             CommitOpen(w) \/ CommitRejected(w) \/ CommitApproved(w) \/ CommitReverted(w)
      PROVE  requests'[r] = requests[r] /\ votes'[r] = votes[r]
  <2>1. job[w].request # r
    BY <1>2 DEF Touches, CommitOpen, CommitRejected, CommitApproved, CommitReverted
  <2>2. votes'[r] = votes[r]
    BY <1>2, <2>1 DEF Record, CommitOpen, CommitRejected, CommitApproved, CommitReverted,
                      TypeOK
  <2>3. ~ Open(r)
    BY DEF Decided, Open
  <2>4. requests'[r] = requests[r]
    BY <1>2, <2>1, <2>3 DEF CommitOpen, CommitRejected, CommitApproved, CommitReverted, TypeOK
  <2>5. QED
    BY <2>2, <2>4
<1>3. ASSUME NEW w \in Workers,
             \/ \E u \in Users, t \in Targets, o \in Outcomes : CheckCreate(w, u, t, o)
             \/ \E u \in Users, t \in Targets : CheckRevert(w, u, t)
             \/ \E u \in Users, q \in Requests, b \in {"yes", "no"}, v \in {"vote", "revert"} :
                  StartVote(w, u, q, b, v)
             \/ ProposerVote(w) \/ Tally(w)
             \/ \E t \in Phases : CheckAdvance(w, t)
             \/ CommitAdvance(w) \/ Rollback(w)
      PROVE  requests'[r] = requests[r] /\ votes'[r] = votes[r]
  BY <1>3 DEF CheckCreate, CheckRevert, StartVote, ProposerVote, Tally, CheckAdvance,
              CommitAdvance, Rollback
<1>4. CASE (\E k \in PlanPhases : ChangePlan(k)) \/ ChangeSignals \/ UNCHANGED vars
  BY <1>4 DEF ChangePlan, ChangeSignals, vars
<1>5. QED
  BY <1>1, <1>2, <1>3, <1>4 DEF Next, Step

LEMMA StaysDecided ==
  ASSUME IInv, [Next]_vars, NEW r \in Requests, Decided(r)
  PROVE  Decided(r)'
<1> USE DEF IInv
<1>1. requests[r] # Absent /\ ~ Open(r)
  BY DEF Decided, Absent, Open
<1>2. ASSUME NEW w \in Workers, Insert(w)
      PROVE  Decided(r)'
  BY <1>1, <1>2 DEF Insert, TypeOK, Decided
<1>3. ASSUME NEW w \in Workers, CommitRejected(w)
      PROVE  Decided(r)'
  BY <1>1, <1>3 DEF CommitRejected, TypeOK, Decided, RequestRow, Absent
<1>4. ASSUME NEW w \in Workers, CommitApproved(w)
      PROVE  Decided(r)'
  BY <1>1, <1>4 DEF CommitApproved, TypeOK, Decided, RequestRow, Absent
<1>5. ASSUME NEW w \in Workers, CommitReverted(w)
      PROVE  Decided(r)'
  BY <1>1, <1>5 DEF CommitReverted, TypeOK, Decided, RequestRow, Absent
<1>6. CASE UNCHANGED requests
  BY <1>6 DEF Decided
<1>7. QED
  BY <1>2, <1>3, <1>4, <1>5, <1>6
     DEF Next, Step, CheckCreate, CheckRevert, StartVote, ProposerVote, Tally, CommitOpen,
         CheckAdvance, CommitAdvance, Rollback, ChangePlan, ChangeSignals, vars

LEMMA StragglersOnly ==
  ASSUME IInv, [Next]_vars, NEW r \in Requests, Decided(r), NEW v \in Workers,
         Touches(v, r)'
  PROVE  Touches(v, r)
<1> USE DEF IInv
<1>1. requests[r] # Absent /\ ~ Open(r)
  BY DEF Decided, Absent, Open
<1>2. ASSUME NEW w \in Workers, Insert(w)
      PROVE  Touches(v, r)
  BY <1>1, <1>2 DEF Insert, Touches, TypeOK, Idle
<1>3. ASSUME NEW w \in Workers, NEW u \in Users, NEW q \in Requests,
             NEW b \in {"yes", "no"}, NEW via \in {"vote", "revert"},
             StartVote(w, u, q, b, via)
      PROVE  Touches(v, r)
  BY <1>1, <1>3 DEF StartVote, StartJob, Admits, Touches, TypeOK
<1>4. ASSUME NEW w \in Workers, ProposerVote(w)
      PROVE  Touches(v, r)
  BY <1>4 DEF ProposerVote, Touches, TypeOK, Idle
<1>5. ASSUME NEW w \in Workers, Tally(w)
      PROVE  Touches(v, r)
  BY <1>5 DEF Tally, Touches, TypeOK, Idle
<1>6. ASSUME NEW w \in Workers,
             \/ CommitOpen(w) \/ CommitRejected(w) \/ CommitApproved(w)
             \/ CommitReverted(w) \/ CommitAdvance(w) \/ Rollback(w)
      PROVE  Touches(v, r)
  BY <1>6 DEF CommitOpen, CommitRejected, CommitApproved, CommitReverted, Record,
              CommitAdvance, Rollback, Touches, TypeOK, Idle
<1>7. ASSUME NEW w \in Workers,
             \/ \E u \in Users, t \in Targets, o \in Outcomes : CheckCreate(w, u, t, o)
             \/ \E u \in Users, t \in Targets : CheckRevert(w, u, t)
             \/ \E t \in Phases : CheckAdvance(w, t)
      PROVE  Touches(v, r)
  BY <1>7 DEF CheckCreate, CheckRevert, CheckAdvance, StartJob, Touches, TypeOK
<1>8. CASE UNCHANGED job
  BY <1>8 DEF Touches
<1>9. QED
  BY <1>2, <1>3, <1>4, <1>5, <1>6, <1>7, <1>8
     DEF Next, Step, ChangePlan, ChangeSignals, vars

(* Once a request is decided no further handler is admitted to it, and     *)
(* when those that had read it are done nothing changes it or its ballots  *)
(* again (phase_requests.py:301, revert.py:141).                           *)
THEOREM SettledFinal == Spec => SettledIsFinal
<1>1. IInv /\ [Next]_vars =>
        (\A r \in Requests :
           Decided(r) =>
             /\ Decided(r)'
             /\ \A w \in Workers : Touches(w, r)' => Touches(w, r)
             /\ (\A w \in Workers : ~ Touches(w, r)) =>
                  requests'[r] = requests[r] /\ votes'[r] = votes[r])
  BY SettledStep, StaysDecided, StragglersOnly
<1>2. QED
  BY <1>1, Invariant, PTL DEF Spec, SettledIsFinal

-----------------------------------------------------------------------------
(* One request at a time, with a weekly count that does not move during a  *)
(* vote and asks at least two people to vote (QuorumOfTwo: it does, below  *)
(* the 500 people from where the model leaves the sample open).            *)
OneAtATime  == \A v, w \in Workers : v = w
SteadyCount == \A m, n \in Populations : m = n
AsksForTwo  == \A n \in Populations : n > 1 => RequiredVotes(n) \in Nat \ {0, 1}

LEMMA AtLeastTwo ==
  ASSUME NEW n \in 2..499, NEW base \in Nat, NEW span \in Nat,
         n <= span, span * span < base
  PROVE  SampleOf(n, base, span) \in Nat \ {0, 1}
<1> DEFINE s == span - n
           q == s * s
           d == base + (n - 1) * q
<1>1. s \in Nat /\ s <= span
  OBVIOUS
<1>2. q \in Nat /\ q < base
  <2>1. s * s <= s * span /\ s * span <= span * span /\ s * s \in Nat
    BY <1>1, SMT
  <2>2. s * span \in Nat /\ span * span \in Nat
    BY <1>1, SMT
  <2>3. QED
    BY <2>1, <2>2
<1>3. (n - 1) * (span - n) * (span - n) = (n - 1) * q
  BY <1>1, SMT
<1> HIDE DEF s, q
<1>4. (n - 1) * (base - q) >= 1
  BY <1>2, SMT
<1>5. (n - 1) * (base - q) = base * n - base - (n - 1) * q
  BY <1>2, SMT
<1>6. (n - 1) * q >= 0 /\ (n - 1) * q \in Int /\ base * n \in Int
  BY <1>2, SMT
<1>7. d \in Int /\ d > 0 /\ base * n >= d + 1
  BY <1>2, <1>4, <1>5, <1>6
<1> HIDE DEF d
<1>8. (base * n + d - 1) \div d \in Int /\ (base * n + d - 1) \div d >= 2
  <2>1. base * n + d - 1 >= 2 * d
    BY <1>6, <1>7
  <2>2. QED
    BY <1>6, <1>7, <2>1, SMT
<1>9. SampleOf(n, base, span) = (base * n + d - 1) \div d
  BY <1>3 DEF SampleOf, CeilDiv, d
<1>10. QED
  BY <1>8, <1>9

(* Between 2 and 499 people, the quorum is two or more.                    *)
LEMMA QuorumOfTwo ==
  ASSUME NEW n \in 2..499
  PROVE  RequiredVotes(n) \in Nat \ {0, 1}
<1>1. CeilDiv(3 * n, 4) \in Nat \ {0, 1}
  BY SMT DEF CeilDiv
<1>2. n < 100 => SampleOf(n, 10458756, 331) \in Nat \ {0, 1}
  <2>1. PICK base \in Nat, span \in Nat : base = 10458756 /\ span = 331
    BY SMT
  <2>2. (n < 100 => n <= span) /\ span * span < base
    BY <2>1, SMT
  <2>3. n < 100 => SampleOf(n, base, span) \in Nat \ {0, 1}
    BY <2>2, AtLeastTwo
  <2>4. QED
    BY <2>1, <2>3, SMT
<1>3. SampleOf(n, 384160000, 1500) \in Nat \ {0, 1}
  <2>1. PICK base \in Nat, span \in Nat : base = 384160000 /\ span = 1500
    BY SMT
  <2>2. n <= span /\ span * span < base
    BY <2>1, SMT
  <2>3. SampleOf(n, base, span) \in Nat \ {0, 1}
    BY <2>2, AtLeastTwo
  <2>4. QED
    BY <2>1, <2>3, SMT
<1>4. CochranSample(n) \in Nat \ {0, 1}
  BY <1>2, <1>3, SMT DEF CochranSample
<1>5. QED
  BY <1>1, <1>4 DEF RequiredVotes, AtMost

(* Nobody's ballot, or one, passes nothing.                                *)
LEMMA OneBallot ==
  ASSUME AsksForTwo, NEW n \in Populations, n > 1, NEW u \in Users,
         NEW v \in [Users -> Ballots], \A x \in Users : v[x] # "none" => x = u /\ v[x] = "yes"
  PROVE  ~ IsPassing(v, Weight, n)
<1> DEFINE full == CastWith(FullWeight, "yes", v, Weight)
           warm == CastWith(WarmWeight, "yes", v, Weight)
<1>1. CastWith(FullWeight, "no", v, Weight) = {} /\ CastWith(WarmWeight, "no", v, Weight) = {}
  BY DEF CastWith
<1>2. NoWeightCast(v, Weight) = 0
  BY <1>1, FS_EmptySet DEF NoWeightCast, WeightFor, FullWeight, WarmWeight
<1>3. /\ full = {u} \/ full = {}
      /\ warm = {u} \/ warm = {}
      /\ full = {} \/ warm = {}
  BY DEF CastWith, FullWeight, WarmWeight
<1> HIDE DEF full, warm
<1>4. /\ Cardinality(full) \in {0, 1} /\ Cardinality(warm) \in {0, 1}
      /\ Cardinality(full) = 0 \/ Cardinality(warm) = 0
  <2>1. Cardinality({u}) = 1 /\ Cardinality({}) = 0
    BY FS_Singleton, FS_EmptySet
  <2>2. QED
    BY <1>3, <2>1
<1>5. YesWeight(v, Weight) \in 0..2
  BY <1>4 DEF YesWeight, WeightFor, FullWeight, WarmWeight, full, warm
<1>6. RequiredVotes(n) \in Nat \ {0, 1}
  BY DEF AsksForTwo
<1>7. ~ MeetsQuorum(YesWeight(v, Weight), 0, n)
  BY <1>5, <1>6 DEF MeetsQuorum
<1>8. QED
  BY <1>2, <1>7 DEF IsPassing, Passing

-----------------------------------------------------------------------------
(* What the worker holds is still true of the votes.                       *)
HandTrue(j) ==
  /\ j.pc = "creating" =>
       /\ j.row.status = "open"
       /\ \A r \in Requests :
            ~ (Open(r) /\ requests[r].target = j.row.target /\ requests[r].kind = j.row.kind)
  /\ j.pc \in {"proposer", "read", "tallied"} => Open(j.request)
  /\ j.pc = "tallied" => \E n \in Populations :
       \/ j.decision = Decision(j, n)
       \/ j.decision = "open" /\ Decision(j, n) = "rejected"

(* A vote is what its ballots say.                                         *)
RowTrue(r) ==
  /\ requests[r] = Absent => votes[r] = [u \in Users |-> "none"]
  /\ requests[r].status = "approved" =>
       \A n \in Populations : IsPassing(votes[r], Weight, n)
  /\ Open(r) => \A n \in Populations : n > 1 => ~ IsPassing(votes[r], Weight, n)

AloneInv ==
  /\ \A w \in Workers : HandTrue(job[w])
  /\ \A r \in Requests : RowTrue(r)
  /\ NoDuplicateVotes

LEMMA InitAlone == Init => AloneInv
  BY DEF Init, AloneInv, HandTrue, RowTrue, NoDuplicateVotes, Idle, Open, Absent

LEMMA DecidePassing ==
  ASSUME NEW v, NEW n
  PROVE  /\ Decide(v, Weight, n) = "approved" => IsPassing(v, Weight, n)
         /\ Decide(v, Weight, n) # "approved" => ~ IsPassing(v, Weight, n)
  BY DEF Decide, Outcome, IsPassing

(* A new vote opens with its author's yes or none.                         *)
LEMMA InsertAlone ==
  ASSUME IInv, AloneInv, OneAtATime, AsksForTwo, NEW w \in Workers, Insert(w)
  PROVE  AloneInv'
<1>1. job[w] \in CreateJob
  BY JobShapes DEF Insert, IInv, TypeOK
<1>2. PICK r \in Requests :
        /\ requests[r] = Absent
        /\ requests' = [requests EXCEPT ![r] = job[w].row]
        /\ IF job[w].proposes
           THEN /\ votes' = [votes EXCEPT ![r][job[w].user] = "yes"]
                /\ job' = [job EXCEPT ![w] =
                             [pc |-> "proposer", user |-> job[w].user, request |-> r,
                              ballot |-> "yes", via |-> "vote"]]
           ELSE /\ job' = [job EXCEPT ![w] = Idle]
                /\ UNCHANGED votes
  BY DEF Insert
<1>r. PICK row : row = job[w].row
  OBVIOUS
<1>3. PICK u \in Users : u = job[w].user
  BY <1>1 DEF CreateJob
<1>4. /\ row \in RequestRow /\ row.status = "open" /\ row # Absent
      /\ \A q \in Requests :
           ~ (Open(q) /\ requests[q].target = row.target /\ requests[q].kind = row.kind)
      /\ votes[r] = [x \in Users |-> "none"]
  <2>1. HandTrue(job[w]) /\ job[w].pc = "creating" /\ RowTrue(r)
    BY DEF AloneInv, Insert
  <2>2. QED
    BY <1>1, <1>2, <1>r, <2>1 DEF HandTrue, RowTrue, CreateJob, RequestRow, Absent
<1>5. /\ requests'[r] = row /\ \A q \in Requests \ {r} : requests'[q] = requests[q]
      /\ \A q \in Requests \ {r} : votes'[q] = votes[q]
      /\ votes'[r] \in [Users -> Ballots]
      /\ \A x \in Users : votes'[r][x] # "none" => x = u /\ votes'[r][x] = "yes"
  BY <1>2, <1>3, <1>r, <1>4 DEF IInv, TypeOK, Ballots
<1>6. RowTrue(r)'
  <2>1. \A n \in Populations : n > 1 => ~ IsPassing(votes'[r], Weight, n)
    <3>1. PICK v : v = votes'[r]
      OBVIOUS
    <3>2. \A n \in Populations : n > 1 => ~ IsPassing(v, Weight, n)
      BY <1>5, <3>1, OneBallot
    <3>3. QED
      BY <3>1, <3>2
  <2>2. QED
    BY <1>4, <1>5, <2>1 DEF RowTrue, Weight
<1>7. \A q \in Requests \ {r} : RowTrue(q)'
  BY <1>5 DEF AloneInv, RowTrue, Open, Weight
<1>8. NoDuplicateVotes'
  BY <1>4, <1>5 DEF AloneInv, NoDuplicateVotes, Open
<1>9. HandTrue(job[w])'
  <2>1. Open(r)'
    BY <1>4, <1>5 DEF Open
  <2>2. CASE job[w].proposes
    <3>1. job'[w].pc = "proposer" /\ job'[w].request = r
      BY <1>2, <2>2 DEF IInv, TypeOK
    <3>2. QED
      BY <2>1, <3>1 DEF HandTrue
  <2>3. CASE ~ job[w].proposes
    BY <1>2, <2>3 DEF IInv, TypeOK, HandTrue, Idle
  <2>4. QED
    BY <2>2, <2>3
<1>10. QED
  BY <1>6, <1>7, <1>8, <1>9 DEF AloneInv, OneAtATime

(* A ballot and what it decides are committed together.                    *)
LEMMA CommitAlone ==
  ASSUME IInv, AloneInv, OneAtATime, SteadyCount, NEW w \in Workers,
         CommitOpen(w) \/ CommitRejected(w) \/ CommitApproved(w) \/ CommitReverted(w)
  PROVE  AloneInv'
<1>1. job[w].pc = "tallied" /\ job[w] \in TallyJob
  BY JobShapes DEF IInv, TypeOK, CommitOpen, CommitRejected, CommitApproved, CommitReverted
<1>2. PICK j : j = job[w]
  OBVIOUS
<1>3. PICK r \in Requests : r = j.request
  BY <1>1, <1>2 DEF TallyJob
<1>4. Open(r)
  BY <1>1, <1>2, <1>3 DEF AloneInv, HandTrue
<1>5. PICK n \in Populations :
        \/ j.decision = Decision(j, n)
        \/ j.decision = "open" /\ Decision(j, n) = "rejected"
  BY <1>1, <1>2 DEF AloneInv, HandTrue
<1>6. /\ votes'[r] = [votes[r] EXCEPT ![j.user] = j.ballot]
      /\ \A q \in Requests \ {r} : votes'[q] = votes[q]
      /\ job'[w] = Idle
  BY <1>2, <1>3 DEF IInv, TypeOK, Record, CommitOpen, CommitRejected, CommitApproved,
                    CommitReverted
<1>7. PICK v : v = votes'[r] /\ Decision(j, n) = Decide(v, Weight, n)
  BY <1>3, <1>6 DEF Decision
<1>8. j.decision = "approved" <=> IsPassing(v, Weight, n)
  BY <1>5, <1>7, DecidePassing
<1>9. \A q \in Requests \ {r} :
        \/ requests'[q] = requests[q]
        \/ /\ Open(q) /\ requests[q] # Absent
           /\ requests'[q].status = "closed" /\ requests'[q] # Absent
  BY <1>2, <1>3 DEF IInv, TypeOK, CommitOpen, CommitRejected, CommitApproved,
                    CommitReverted, Open, RequestRow, Absent
<1>10. /\ j.decision = "open" => requests'[r] = requests[r]
       /\ j.decision = "rejected" => requests'[r].status = "rejected"
       /\ j.decision = "approved" => requests'[r].status = "approved"
       /\ j.decision \in {"open", "rejected", "approved"}
       /\ requests'[r] # Absent
  BY <1>1, <1>2, <1>3, <1>4 DEF IInv, TypeOK, TallyJob, CommitOpen, CommitRejected,
     CommitApproved, CommitReverted, Open, RequestRow, Absent
<1>11. RowTrue(r)'
  <2>1. \A m \in Populations : IsPassing(v, Weight, m) <=> j.decision = "approved"
    BY <1>8 DEF SteadyCount
  <2>2. requests'[r].status = "approved" => j.decision = "approved"
    BY <1>4, <1>10 DEF Open
  <2>3. Open(r)' => j.decision # "approved"
    BY <1>10 DEF Open
  <2>4. \A m \in Populations : IsPassing(votes[r], Weight, m)' <=> IsPassing(v, Weight, m)
    BY <1>7 DEF Weight
  <2>5. QED
    BY <1>10, <2>1, <2>2, <2>3, <2>4 DEF RowTrue
<1>12. ASSUME NEW q \in Requests \ {r}
       PROVE  RowTrue(q)'
  BY <1>6, <1>9, <1>12 DEF AloneInv, RowTrue, Open, Weight, Absent
<1>13. NoDuplicateVotes'
  <2>1. \A q \in Requests : Open(q)' => Open(q) /\ requests'[q] = requests[q]
    BY <1>4, <1>9, <1>10 DEF Open
  <2>2. QED
    BY <2>1 DEF AloneInv, NoDuplicateVotes, Open
<1>14. HandTrue(job[w])'
  BY <1>6 DEF HandTrue, Idle
<1>15. QED
  BY <1>11, <1>12, <1>13, <1>14 DEF AloneInv, OneAtATime

LEMMA AloneStep ==
  ASSUME IInv, AloneInv, OneAtATime, SteadyCount, AsksForTwo, [Next]_vars
  PROVE  AloneInv'
<1>1. ASSUME NEW w \in Workers, UNCHANGED <<requests, votes>>, HandTrue(job'[w])
      PROVE  AloneInv'
  <2>1. HandTrue(job[w])'
    BY <1>1 DEF HandTrue, Open, Decision, Weight
  <2>2. QED
    BY <1>1, <2>1 DEF AloneInv, OneAtATime, RowTrue, NoDuplicateVotes, Open, Weight
<1>2. ASSUME NEW w \in Workers, NEW u \in Users, NEW t \in Targets, NEW o \in Outcomes,
             CheckCreate(w, u, t, o)
      PROVE  AloneInv'
  <2>1. HandTrue(job'[w])
    BY <1>2 DEF CheckCreate, StartJob, IInv, TypeOK, HandTrue, OpenVoteOn
  <2>2. QED
    BY <1>1, <1>2, <2>1 DEF CheckCreate
<1>3. ASSUME NEW w \in Workers, NEW u \in Users, NEW t \in Targets, CheckRevert(w, u, t)
      PROVE  AloneInv'
  <2>1. HandTrue(job'[w])
    BY <1>3 DEF CheckRevert, StartJob, IInv, TypeOK, HandTrue
  <2>2. QED
    BY <1>1, <1>3, <2>1 DEF CheckRevert
<1>4. ASSUME NEW w \in Workers, NEW u \in Users, NEW r \in Requests,
             NEW b \in {"yes", "no"}, NEW v \in {"vote", "revert"}, StartVote(w, u, r, b, v)
      PROVE  AloneInv'
  <2>1. HandTrue(job'[w])
    BY <1>4 DEF StartVote, StartJob, Admits, IInv, TypeOK, HandTrue
  <2>2. QED
    BY <1>1, <1>4, <2>1 DEF StartVote
<1>5. ASSUME NEW w \in Workers, ProposerVote(w)
      PROVE  AloneInv'
  <2>1. job[w] \in VoteJob
    BY <1>5, JobShapes DEF ProposerVote, IInv, TypeOK
  <2>2. \/ job'[w] = Idle
        \/ job'[w] = [job[w] EXCEPT !.pc = "read"] /\ Open(job[w].request)
    BY <1>5 DEF ProposerVote, Admits, IInv, TypeOK
  <2>3. HandTrue(job'[w])
    BY <2>1, <2>2 DEF HandTrue, Idle, VoteJob
  <2>4. QED
    BY <1>1, <1>5, <2>3 DEF ProposerVote
<1>6. ASSUME NEW w \in Workers, Tally(w)
      PROVE  AloneInv'
  <2>1. PICK j : j = job[w]
    OBVIOUS
  <2>2. Open(j.request)
    BY <1>6, <2>1 DEF Tally, AloneInv, HandTrue
  <2>3. PICK n \in Populations :
          \/ job'[w] = Idle
          \/ job'[w] = [pc |-> "tallied", user |-> j.user, request |-> j.request,
                        ballot |-> j.ballot, via |-> j.via,
                        insert |-> votes[j.request][j.user] = "none",
                        decision |-> IF Decision(j, n) = "rejected" /\ j.via = "revert"
                                     THEN "open" ELSE Decision(j, n)]
    BY <1>6, <2>1 DEF Tally, IInv, TypeOK
  <2>4. HandTrue(job'[w])
    <3>1. CASE job'[w] = Idle
      BY <3>1 DEF HandTrue, Idle
    <3>2. CASE job'[w] # Idle
      <4>1. /\ job'[w].pc = "tallied" /\ job'[w].request = j.request
            /\ job'[w].user = j.user /\ job'[w].ballot = j.ballot
            /\ job'[w].decision = IF Decision(j, n) = "rejected" /\ j.via = "revert"
                                  THEN "open" ELSE Decision(j, n)
        BY <2>3, <3>2
      <4>2. Decision(job'[w], n) = Decision(j, n)
        BY <4>1 DEF Decision
      <4>3. QED
        BY <2>2, <4>1, <4>2 DEF HandTrue
    <3>3. QED
      BY <3>1, <3>2
  <2>5. QED
    BY <1>1, <1>6, <2>4 DEF Tally
<1>7. ASSUME NEW w \in Workers, NEW t \in Phases, CheckAdvance(w, t)
      PROVE  AloneInv'
  <2>1. HandTrue(job'[w])
    BY <1>7 DEF CheckAdvance, StartJob, IInv, TypeOK, HandTrue
  <2>2. QED
    BY <1>1, <1>7, <2>1 DEF CheckAdvance
<1>8. ASSUME NEW w \in Workers, CommitAdvance(w) \/ Rollback(w)
      PROVE  AloneInv'
  <2>1. HandTrue(job'[w])
    BY <1>8 DEF CommitAdvance, Rollback, IInv, TypeOK, HandTrue, Idle
  <2>2. QED
    BY <1>1, <1>8, <2>1 DEF CommitAdvance, Rollback
<1>9. CASE (\E k \in PlanPhases : ChangePlan(k)) \/ ChangeSignals \/ UNCHANGED vars
  <2>1. UNCHANGED <<project, requests, votes, job>>
    BY <1>9 DEF ChangePlan, ChangeSignals, vars
  <2>2. ASSUME NEW w \in Workers PROVE HandTrue(job[w])'
    <3>1. HandTrue(job[w])
      BY DEF AloneInv
    <3>2. QED
      BY <2>1, <3>1 DEF HandTrue, Open, Decision, Weight
  <2>3. ASSUME NEW r \in Requests PROVE RowTrue(r)'
    <3>1. RowTrue(r)
      BY DEF AloneInv
    <3>2. QED
      BY <2>1, <3>1 DEF RowTrue, Open, Weight
  <2>4. NoDuplicateVotes'
    BY <2>1 DEF AloneInv, NoDuplicateVotes, Open
  <2>5. QED
    BY <2>2, <2>3, <2>4 DEF AloneInv
<1>10. QED
  BY <1>2, <1>3, <1>4, <1>5, <1>6, <1>7, <1>8, <1>9, InsertAlone, CommitAlone DEF Next, Step

(* One request at a time, the ballots of an approved change carry it, no   *)
(* two votes of a kind on one phase are open, and none stays open that its *)
(* ballots carry (phase_requests.py:130-141 and 297-360, revert.py:56-67). *)
THEOREM BallotsDecide ==
  ASSUME OneAtATime, SteadyCount, AsksForTwo
  PROVE  Spec => [](ApprovedByBallots /\ NoDuplicateVotes /\ NoLostDecision)
<1>1. IInv /\ AloneInv /\ [Next]_vars => AloneInv'
  BY AloneStep
<1>2. AloneInv => ApprovedByBallots /\ NoDuplicateVotes /\ NoLostDecision
  BY DEF AloneInv, RowTrue, ApprovedByBallots, NoLostDecision
<1>3. QED
  BY <1>1, <1>2, InitAlone, Invariant, PTL DEF Spec
=============================================================================
