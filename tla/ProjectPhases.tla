--------------------------- MODULE ProjectPhases ---------------------------
(***************************************************************************)
(* The phase governance of one project: phase-change requests, reverts,    *)
(* direct advances, closing and conversion (app/services/projects/phases). *)
(* Phase i stands for "phase-i".  A handler is a READ COMMITTED            *)
(* transaction without locks: what it reads first is stale when it commits.*)
(***************************************************************************)
EXTENDS Votes

CONSTANTS Users,        \* the project's members
          Level,        \* the standing of each member
          Workers,      \* requests the API serves at the same time
          Requests,     \* identifiers of phase-change requests
          Targets,      \* the phases members ask for
          Populations,  \* what the weekly-active count may read, cached or not
          Mode,         \* project_mode
          PlanSubtypes, \* the subtypes a winning plan may carry, or "keep"
          PlanPhases,   \* bound: the phases whose plans come and go
          SignalsMove   \* bound: whether support comes and goes

ASSUME LevelAssumption == Level \in [Users -> Levels]
ASSUME TargetsAssumption == Targets \subseteq 1..7
ASSUME PopulationsAssumption == Populations \subseteq Nat
ASSUME SubtypesAssumption == PlanSubtypes \subseteq {"keep", "standard", "software"}
ASSUME PlanPhasesAssumption == PlanPhases \subseteq {2, 3}
ASSUME ModeAssumption == Mode \in {"productive", "collective-service"}

VARIABLES project,      \* the projects row: phase, closed, outcome, subtype
          conversions,  \* project_conversions rows of this predecessor
          requests,     \* project_phase_change_requests, by id
          votes,        \* project_phase_change_votes: ballot of each user
          plans,        \* planning phases (2, 3) with a leading approved plan
          signals,      \* whether the proposal's support signals unlock it
          job           \* what each worker is doing

vars == <<project, conversions, requests, votes, plans, signals, job>>
env  == <<plans, signals>>

Phases   == 1..7
Kinds    == {"advance", "return", "close"}
Outcomes == {"none", "close", "convert"}
Subtypes == {"standard", "software"}   \* no subtype counts as standard
Weight   == [u \in Users |-> WeightOf(Level[u])]

Absent     == [status |-> "absent"]
RequestRow == [status : {"open", "approved", "rejected", "closed"}, kind : Kinds,
               from : Phases, target : Phases, outcome : Outcomes]
Idle       == [pc |-> "idle"]
VoteJob    == [pc : {"proposer", "read"}, user : Users, request : Requests,
               ballot : {"yes", "no"}, via : {"vote", "revert"}]
TallyJob   == [pc : {"tallied"}, user : Users, request : Requests,
               ballot : {"yes", "no"}, via : {"vote", "revert"}, insert : BOOLEAN,
               decision : {"open", "approved", "rejected"}]
CreateJob  == [pc : {"creating"}, user : Users, row : RequestRow, proposes : BOOLEAN]
AdvanceJob == [pc : {"advancing"}, to : Phases, subtype : {"keep"} \cup Subtypes]
Jobs       == {Idle} \cup VoteJob \cup TallyJob \cup CreateJob \cup AdvanceJob

TypeOK ==
  /\ project \in [phase : Phases, closed : BOOLEAN, outcome : Outcomes, subtype : Subtypes]
  /\ conversions \in Nat
  /\ requests \in [Requests -> RequestRow \cup {Absent}]
  /\ votes \in [Requests -> [Users -> Ballots]]
  /\ plans \subseteq {2, 3}
  /\ signals \in BOOLEAN
  /\ job \in [Workers -> Jobs]

Init ==
  /\ \E s \in Subtypes :
       project = [phase |-> 1, closed |-> FALSE, outcome |-> "none", subtype |-> s]
  /\ conversions = 0
  /\ requests = [r \in Requests |-> Absent]
  /\ votes = [r \in Requests |-> [u \in Users |-> "none"]]
  /\ plans = {}
  /\ signals \in BOOLEAN
  /\ job = [w \in Workers |-> Idle]

-----------------------------------------------------------------------------
(* Phase order and gates.                                                  *)
Open(r) == requests[r].status = "open"

(* next_phase_id_for_project: phases 4 and 6 are never next, phase 3 only  *)
(* for productive projects that are not software.                          *)
NextPhases(p) ==
  IF p = 6 THEN {7}
  ELSE {q \in Phases : /\ q > p
                       /\ q \notin {4, 6}
                       /\ q = 3 => project.subtype # "software" /\ Mode = "productive"}
IsNext(q, p) == q \in NextPhases(p) /\ \A other \in NextPhases(p) : q <= other

(* Moving forward out of a planning phase needs its approved plan.         *)
NeedsPlan(p)      == p = 2 \/ (p = 3 /\ project.subtype # "software")
PlanGate(target)  ==
  target > project.phase /\ NeedsPlan(project.phase) => project.phase \in plans

(* An advance out of the proposal needs enough support.                    *)
SignalGate(kind, from) == kind = "advance" /\ from = 1 => signals

ChangeKind(target, current) ==
  IF target = 7 THEN "close" ELSE IF target < current THEN "return" ELSE "advance"

-----------------------------------------------------------------------------
(* Opening a vote: the checks, and the insert they allow.                  *)
StartJob(w, j) == job[w] = Idle /\ job' = [job EXCEPT ![w] = j]

OpenVoteOn(target) == \E r \in Requests : Open(r) /\ requests[r].target = target

CheckCreate(w, u, target, outcome) ==
  /\ ~ project.closed
  /\ target \notin {4, project.phase}
  /\ PlanGate(target)
  /\ SignalGate(ChangeKind(target, project.phase), project.phase)
  /\ outcome = "none" <=> target # 7
  /\ ~ OpenVoteOn(target)
  /\ StartJob(w, [pc |-> "creating", user |-> u, proposes |-> TRUE,
                  row |-> [status |-> "open", kind |-> ChangeKind(target, project.phase),
                           from |-> project.phase, target |-> target,
                           outcome |-> outcome]])
  /\ UNCHANGED <<project, conversions, requests, votes, env>>

CheckRevert(w, u, target) ==
  /\ target < project.phase
  /\ ~ \E r \in Requests : Open(r) /\ requests[r].kind = "return"
  /\ StartJob(w, [pc |-> "creating", user |-> u, proposes |-> FALSE,
                  row |-> [status |-> "open", kind |-> "return", from |-> project.phase,
                           target |-> target, outcome |-> "none"]])
  /\ UNCHANGED <<project, conversions, requests, votes, env>>

(* The insert.  A phase-change request is stored with its author's yes,    *)
(* which the handler then casts once more as an ordinary vote.             *)
Insert(w) ==
  /\ job[w].pc = "creating"
  /\ \E r \in Requests :
       /\ requests[r] = Absent
       /\ requests' = [requests EXCEPT ![r] = job[w].row]
       /\ IF job[w].proposes
          THEN /\ votes' = [votes EXCEPT ![r][job[w].user] = "yes"]
               /\ job' = [job EXCEPT ![w] =
                            [pc |-> "proposer", user |-> job[w].user, request |-> r,
                             ballot |-> "yes", via |-> "vote"]]
          ELSE /\ job' = [job EXCEPT ![w] = Idle]
               /\ UNCHANGED votes
  /\ UNCHANGED <<project, conversions, env>>

-----------------------------------------------------------------------------
(* Voting, through the phase-change endpoint or the revert endpoint.       *)
(* Mutant: the "already closed" check is missing.                          *)
AdmitsClosed(u, r) == CanVote(Level[u]) /\ requests[r] # Absent
Admits(u, r) == CanVote(Level[u]) /\ Open(r)

StartVote(w, u, r, ballot, via) ==
  /\ Admits(u, r)
  /\ via = "revert" => requests[r].kind = "return"
  /\ StartJob(w, [pc |-> "read", user |-> u, request |-> r, ballot |-> ballot, via |-> via])
  /\ UNCHANGED <<project, conversions, requests, votes, env>>

ProposerVote(w) ==
  /\ job[w].pc = "proposer"
  /\ job' = [job EXCEPT ![w] =
       IF Admits(job[w].user, job[w].request) THEN [@ EXCEPT !.pc = "read"] ELSE Idle]
  /\ UNCHANGED <<project, conversions, requests, votes, env>>

(* The tally of the committed ballots and the worker's own.  A passing     *)
(* advance whose signal gate is shut is rolled back; the revert endpoint   *)
(* never rejects.                                                          *)
(* Mutant: the ballot is not flushed before the tally.                     *)
DecisionOld(j, n) == Decide(votes[j.request], Weight, n)
Decision(j, n) ==
  Decide([votes[j.request] EXCEPT ![j.user] = j.ballot], Weight, n)

Tally(w) ==
  /\ job[w].pc = "read"
  /\ \E n \in Populations :
       LET j == job[w]
           r == requests[j.request]
           d == Decision(j, n)
       IN  job' = [job EXCEPT ![w] =
             IF d = "approved" /\ j.via = "vote" /\ ~ SignalGate(r.kind, r.from)
             THEN Idle
             ELSE [pc |-> "tallied", user |-> j.user, request |-> j.request,
                   ballot |-> j.ballot, via |-> j.via,
                   insert |-> votes[j.request][j.user] = "none",
                   decision |-> IF d = "rejected" /\ j.via = "revert" THEN "open" ELSE d]]
  /\ UNCHANGED <<project, conversions, requests, votes, env>>

(* Mutant: only the phase and the outcome are written.                     *)
CloseWithoutMark(outcome) ==
  /\ project' = [project EXCEPT !.phase = 7, !.outcome = outcome]
  /\ conversions' = IF outcome = "convert" THEN conversions + 1 ELSE conversions

(* apply_project_close and execute_conversion.                             *)
CloseProject(outcome) ==
  /\ project' = [project EXCEPT !.phase = 7, !.closed = TRUE, !.outcome = outcome]
  /\ conversions' = IF outcome = "convert" THEN conversions + 1 ELSE conversions

MoveProject(target) ==
  /\ project' = [project EXCEPT !.phase = target]
  /\ UNCHANGED conversions

(* Mutant: predecessors are not unique in project_conversions.             *)
ConflictsOnBallot(j) == j.insert /\ votes[j.request][j.user] # "none"

(* A first ballot is an INSERT that the primary key refuses when the same  *)
(* user's other request got there first; a second conversion is refused by *)
(* the predecessor's unique constraint.  Either rolls everything back.     *)
Conflicts(j) ==
  \/ j.insert /\ votes[j.request][j.user] # "none"
  \/ /\ j.decision = "approved"
     /\ requests[j.request].outcome = "convert"
     /\ conversions > 0

Record(w) ==
  /\ votes' = [votes EXCEPT ![job[w].request][job[w].user] = job[w].ballot]
  /\ job' = [job EXCEPT ![w] = Idle]
  /\ UNCHANGED env

CommitOpen(w) ==
  /\ job[w].pc = "tallied" /\ job[w].decision = "open"
  /\ ~ Conflicts(job[w])
  /\ Record(w)
  /\ UNCHANGED <<project, conversions, requests>>

CommitRejected(w) ==
  /\ job[w].pc = "tallied" /\ job[w].decision = "rejected"
  /\ ~ Conflicts(job[w])
  /\ Record(w)
  /\ requests' = [requests EXCEPT ![job[w].request].status = "rejected"]
  /\ UNCHANGED <<project, conversions>>

(* An approved change closes every other open vote and takes effect.       *)
CommitApproved(w) ==
  /\ job[w].pc = "tallied" /\ job[w].decision = "approved" /\ job[w].via = "vote"
  /\ ~ Conflicts(job[w])
  /\ Record(w)
  /\ LET id == job[w].request
         request == requests[id]
     IN  /\ requests' = [r \in Requests |->
              IF r = id THEN [requests[r] EXCEPT !.status = "approved"]
              ELSE IF Open(r) THEN [requests[r] EXCEPT !.status = "closed"]
              ELSE requests[r]]
         /\ IF request.target = 7
            THEN CloseProject(request.outcome)
            ELSE MoveProject(request.target)

(* An approved revert moves the project and leaves other votes open.       *)
CommitReverted(w) ==
  /\ job[w].pc = "tallied" /\ job[w].decision = "approved" /\ job[w].via = "revert"
  /\ ~ Conflicts(job[w])
  /\ Record(w)
  /\ requests' = [requests EXCEPT ![job[w].request].status = "approved"]
  /\ MoveProject(requests[job[w].request].target)

-----------------------------------------------------------------------------
(* The direct advance: any member, no vote.                                *)
CheckAdvance(w, to) ==
  /\ IsNext(to, project.phase)
  /\ PlanGate(to)
  /\ \E s \in IF project.phase = 1 /\ to = 2 THEN PlanSubtypes ELSE {"keep"} :
       StartJob(w, [pc |-> "advancing", to |-> to, subtype |-> s])
  /\ UNCHANGED <<project, conversions, requests, votes, env>>

CommitAdvance(w) ==
  /\ job[w].pc = "advancing"
  /\ job' = [job EXCEPT ![w] = Idle]
  /\ IF job[w].to = 7
     THEN CloseProject("close")
     ELSE /\ project' = [project EXCEPT !.phase = job[w].to,
                         !.subtype = IF job[w].subtype = "keep" THEN @ ELSE job[w].subtype]
          /\ UNCHANGED conversions
  /\ UNCHANGED <<requests, votes, env>>

(* A handler that fails, or is cut off by a restart, is rolled back.       *)
Rollback(w) ==
  /\ job[w] # Idle
  /\ job' = [job EXCEPT ![w] = Idle]
  /\ UNCHANGED <<project, conversions, requests, votes, env>>

-----------------------------------------------------------------------------
(* The surroundings: plans gain and lose the lead, signals come and go.    *)
ChangePlan(k) ==
  /\ plans' = IF k \in plans THEN plans \ {k} ELSE plans \cup {k}
  /\ UNCHANGED <<project, conversions, requests, votes, signals, job>>
ChangeSignals ==
  /\ SignalsMove
  /\ signals' = ~ signals
  /\ UNCHANGED <<project, conversions, requests, votes, plans, job>>

Step(w) ==
  \/ \E u \in Users, t \in Targets, o \in Outcomes : CheckCreate(w, u, t, o)
  \/ \E u \in Users, t \in Targets : CheckRevert(w, u, t)
  \/ Insert(w)
  \/ \E u \in Users, r \in Requests, b \in {"yes", "no"}, v \in {"vote", "revert"} :
       StartVote(w, u, r, b, v)
  \/ ProposerVote(w)
  \/ Tally(w)
  \/ CommitOpen(w)
  \/ CommitRejected(w)
  \/ CommitApproved(w)
  \/ CommitReverted(w)
  \/ \E t \in Phases : CheckAdvance(w, t)
  \/ CommitAdvance(w)
  \/ Rollback(w)

Next ==
  \/ \E w \in Workers : Step(w)
  \/ \E k \in PlanPhases : ChangePlan(k)
  \/ ChangeSignals

Spec == Init /\ [][Next]_vars

-----------------------------------------------------------------------------
(* Every project lives a Lifecycle, however its requests interleave: it is *)
(* converted at most once, and only by the step that closes it             *)
(* (conversion.py, 159-179 and 363-397).                                   *)
Promise == INSTANCE Lifecycle WITH
  phase <- project.phase, closed <- project.closed,
  outcome <- project.outcome, successors <- conversions
IsALifecycle == Promise!Spec

(* The row agrees with itself and with its conversion: phase-7 is closed,  *)
(* a closed project has an outcome, and a converted one has its successor  *)
(* (apply_project_close writes the three columns apart from the conversion *)
(* row; revert.py writes the phase alone).                                 *)
ClosedAgrees ==
  /\ project.phase = 7 => project.closed
  /\ project.closed <=> project.outcome # "none"
  /\ project.outcome = "convert" => conversions = 1
  /\ conversions <= 1

(* Only handlers that read a request before its decision can still change  *)
(* it: no later one is admitted (the status checks of phase_requests.py:301*)
(* and revert.py:141), it is never open again, and once the stragglers are *)
(* done neither its row nor its ballots change.                            *)
Touches(w, r) ==
  job[w].pc \in {"proposer", "read", "tallied"} /\ job[w].request = r
Decided(r) == requests[r].status \in {"approved", "rejected", "closed"}
SettledIsFinal ==
  [][\A r \in Requests :
       Decided(r) =>
         /\ Decided(r)'
         /\ \A w \in Workers : Touches(w, r)' => Touches(w, r)
         /\ (\A w \in Workers : ~ Touches(w, r)) =>
              requests'[r] = requests[r] /\ votes'[r] = votes[r]]_vars

(* One handler at a time: the ballots of an approved request carry it.     *)
ApprovedByBallots ==
  \A r \in Requests, n \in Populations :
    requests[r].status = "approved" => IsPassing(votes[r], Weight, n)

(* One handler at a time: two open votes on the same phase are one that    *)
(* advances to it and one that returns to it, never two of a kind          *)
(* (phase_requests.py:130-141, revert.py:56-67).                           *)
NoDuplicateVotes ==
  \A r, s \in Requests :
    /\ Open(r) /\ Open(s)
    /\ requests[r].target = requests[s].target
    /\ requests[r].kind = requests[s].kind
    => r = s

(* One handler at a time: no vote stays open that its ballots already      *)
(* carry; one that passes without the support it needs is rolled back with *)
(* the ballot that carried it (phase_requests.py:345).                     *)
(* In a population of one, a failure between the two transactions of the   *)
(* create handler (lines 188 and 229) does leave the author's yes behind.  *)
NoLostDecision ==
  \A r \in Requests, n \in Populations :
    Open(r) /\ n > 1 => ~ IsPassing(votes[r], Weight, n)
=============================================================================
