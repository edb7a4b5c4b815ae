------------------------------ MODULE Software ------------------------------
(***************************************************************************)
(* The governance of a software project: pull requests that are approved,  *)
(* merged and confirmed, the members who may record a merge, and votes     *)
(* that replace the repository (app/services/projects/software).           *)
(*                                                                         *)
(* As in EventGovernance a handler reads in one step and writes in a later *)
(* one, the tally being part of the writing; where it replaces who has a   *)
(* capability the DELETE is a step before the INSERT, since it removes     *)
(* only the rows it sees.  A user here is a member of the project.         *)
(***************************************************************************)
EXTENDS Votes, Sequences

CONSTANTS Users,        \* the members
          Level,        \* the standing of each member
          Workers,      \* requests the API serves at the same time
          Populations,  \* what the weekly-active count may read
          MaxPulls,     \* bound: pull requests
          MaxAsks,      \* bound: capability and replacement requests
          MaxMerges     \* bound: merges recorded for one pull request

ASSUME SoftwareLevelAssumption == Level \in [Users -> Levels]
ASSUME SoftwarePopulationsAssumption == Populations \subseteq Nat
ASSUME SoftwareBoundsAssumption == {MaxPulls, MaxAsks, MaxMerges} \subseteq Nat

VARIABLES leader,      \* author of the leading plan, if one leads
          repository,  \* the replacement request that set the repository_url of
                       \* each member's plan, 0 for the one it came with
          capable,     \* project_merge_capability_members: source_label by user
          pulls,       \* project_pull_requests with their votes
          asks,        \* capability change and repository replacement requests
          job,         \* what each worker is doing
          swept        \* <<worker, users>>: who a DELETE that has not been committed
                       \* removes from capable

vars == <<leader, repository, capable, pulls, asks, job, swept>>

Stages   == {"approval", "awaiting-merge", "confirmation", "confirmed", "rejected", "replaced"}
Sources  == {"plan-creator", "approved-request", "repo-replacement"}
Actions  == {"grant", "revoke", "replace"}
Weight   == [u \in Users |-> WeightOf(Level[u])]
NoVotes  == [u \in Users |-> "none"]
NoOne    == {}

(* merges counts the merges recorded so far, castAt tells at which of them *)
(* a ballot was cast; merged stands for merge_id, merge_url and            *)
(* merged_by_user_id.                                                      *)
PullRow == [author : Users, stage : Stages, votes : [Users -> Ballots],
            castAt : [Users -> 0..MaxMerges], merges : 0..MaxMerges, merged : BOOLEAN]
AskRow  == [author : Users, votes : [Users -> Ballots], action : Actions, target : Users,
            pull : 0..MaxPulls, status : {"open", "approved", "rejected"}]

Idle    == [op |-> "idle"]
PullJob == [op : {"pull"}, user : Users, id : 1..MaxPulls, ballot : {"yes", "no"},
            insert : BOOLEAN, stage : {"approval", "confirmation"}]
AskJob  == [op : {"ask"}, user : Users, id : 1..MaxAsks, ballot : {"yes", "no"},
            insert : BOOLEAN]
MergeJob == [op : {"merge"}, user : Users, id : 1..MaxPulls]
SyncJob  == [op : {"sync"}, user : Users]

TypeOK ==
  /\ leader \in {NoOne} \cup {{u} : u \in Users}
  /\ repository \in [Users -> 0..MaxAsks]
  /\ capable \in [Users -> {"none"} \cup Sources]
  /\ pulls \in Seq(PullRow) /\ Len(pulls) <= MaxPulls
  /\ asks \in Seq(AskRow) /\ Len(asks) <= MaxAsks
  /\ job \in [Workers -> {Idle} \cup PullJob \cup AskJob \cup MergeJob \cup SyncJob]
  /\ swept \subseteq Workers \X SUBSET Users

Init ==
  /\ leader = NoOne
  /\ repository = [u \in Users |-> 0]
  /\ capable = [u \in Users |-> "none"]
  /\ pulls = <<>>
  /\ asks = <<>>
  /\ job = [w \in Workers |-> Idle]
  /\ swept = {}

StartJob(w, j) == job[w] = Idle /\ job' = [job EXCEPT ![w] = j]

-----------------------------------------------------------------------------
(* Who holds a capability by the plan, or by that and by a replacement, is *)
(* replaced as a whole: a DELETE, then an INSERT that takes hold with the  *)
(* commit.  The rows of two transactions that overlap are not there for    *)
(* each other.  (Recounts of plans of one phase do wait for each other, at *)
(* is_leading; those of two phases do not, and any may overlap here.)  A   *)
(* vote on a request that does not pass leaves the rows in place.          *)
Labels(w)      == IF job[w].op = "sync" THEN {"plan-creator"}
                  ELSE {"plan-creator", "repo-replacement"}
HasSwept(w)    == \E s \in swept : s[1] = w
Swept(w)       == UNION {s[2] : s \in {t \in swept : t[1] = w}}
ForgetSwept(w) == swept' = {s \in swept : s[1] # w}
LeftOver(w, v) ==
  IF v \in Swept(w) /\ capable[v] \in Labels(w) THEN "none" ELSE capable[v]

DeleteMembers(w) ==
  /\ \/ job[w].op = "sync"
     \/ job[w].op = "ask" /\ asks[job[w].id].action = "replace"
  /\ ~ HasSwept(w)
  /\ swept' = swept \cup {<<w, {v \in Users : capable[v] \in Labels(w)}>>}
  /\ UNCHANGED <<leader, repository, capable, pulls, asks, job>>

(* One who holds the capability from elsewhere is relabelled.              *)
(* Mutant: those who had the label keep it.                                *)
KeepLabelled(w, u, source) == [capable EXCEPT ![u] = source]
SetMembers(w, u, source) == [v \in Users |-> IF v = u THEN source ELSE LeftOver(w, v)]

(* A vote on a plan recounts which plan leads: sync_merge_capability_for_  *)
(* leading_plan runs whenever one does, the same as before included.       *)
StartSync(w, u) == StartJob(w, [op |-> "sync", user |-> u])

SyncLeadingPlan(w) ==
  /\ job[w].op = "sync" /\ HasSwept(w)
  /\ leader' = {job[w].user}
  /\ capable' = SetMembers(w, job[w].user, "plan-creator")
  /\ job' = [job EXCEPT ![w] = Idle] /\ ForgetSwept(w)
  /\ UNCHANGED <<repository, pulls, asks>>

NoPlanLeads ==
  /\ leader # NoOne
  /\ leader' = NoOne
  /\ UNCHANGED <<repository, capable, pulls, asks, job, swept>>

-----------------------------------------------------------------------------
(* Requests.                                                               *)
SubmitPull(u) ==
  /\ Len(pulls) < MaxPulls
  /\ pulls' = Append(pulls, [author |-> u, stage |-> "approval", votes |-> NoVotes,
                             castAt |-> [v \in Users |-> 0], merges |-> 0, merged |-> FALSE])
  /\ UNCHANGED <<leader, repository, capable, asks, job, swept>>

AddAsk(row) ==
  /\ Len(asks) < MaxAsks
  /\ asks' = Append(asks, row)
  /\ UNCHANGED <<leader, repository, capable, pulls, job, swept>>

RequestCapability(u, action, target) ==
  AddAsk([author |-> u, votes |-> NoVotes, action |-> action, target |-> target,
          pull |-> 0, status |-> "open"])

RequestReplacement(u, id) ==
  AddAsk([author |-> u, votes |-> NoVotes, action |-> "replace", target |-> u,
          pull |-> id, status |-> "open"])

-----------------------------------------------------------------------------
(* Votes on a pull request.  The stage seen at the start decides what the  *)
(* tally does, whatever it has become.                                     *)
StartPullVote(w, u, id, ballot) ==
  /\ pulls[id].stage \in {"approval", "confirmation"}
  /\ CanVote(Level[u])
  /\ StartJob(w, [op |-> "pull", user |-> u, id |-> id, ballot |-> ballot,
                  insert |-> pulls[id].votes[u] = "none", stage |-> pulls[id].stage])

NextStage(stage, decision) ==
  CASE stage = "approval" /\ decision = "approved" -> "awaiting-merge"
    [] stage = "approval" /\ decision = "rejected" -> "rejected"
    [] stage = "confirmation" /\ decision = "approved" -> "confirmed"
    [] stage = "confirmation" /\ decision = "rejected" -> "awaiting-merge"
    [] OTHER -> stage

(* A ballot that was to be changed but has been deleted since is not cast. *)
Cast(row, j) ==
  IF row.votes[j.user] = "none" /\ ~ j.insert THEN row
  ELSE [row EXCEPT !.votes[j.user] = j.ballot, !.castAt[j.user] = row.merges]

(* Mutant: an unconfirmed merge stays on the row.                          *)
MoveOnly(row, seen, stage) == IF stage = seen THEN row ELSE [row EXCEPT !.stage = stage]
Move(row, seen, stage) ==
  IF stage = seen THEN row
  ELSE [row EXCEPT !.stage = stage,
                   !.merged = @ /\ ~ (seen = "confirmation" /\ stage = "awaiting-merge")]

CommitPullVote(w) ==
  /\ job[w].op = "pull"
  /\ LET j   == job[w]
         row == pulls[j.id]
     IN  /\ ~ (j.insert /\ row.votes[j.user] # "none")
         /\ \E n \in Populations :
              LET stage == NextStage(j.stage, Decide(Cast(row, j).votes, Weight, n))
              IN  pulls' = [pulls EXCEPT ![j.id] = Move(Cast(row, j), j.stage, stage)]
  /\ job' = [job EXCEPT ![w] = Idle]
  /\ UNCHANGED <<leader, repository, capable, asks, swept>>

(* Recording the merge asks for a vote of its own: the ballots that        *)
(* approved the pull request are deleted.                                  *)
StartMerge(w, u, id) ==
  /\ capable[u] # "none"
  /\ pulls[id].stage = "awaiting-merge"
  /\ pulls[id].merges < MaxMerges
  /\ StartJob(w, [op |-> "merge", user |-> u, id |-> id])

ClearBallots(row) == NoVotes

RecordMerge(w) ==
  /\ job[w].op = "merge"
  /\ LET row == pulls[job[w].id]
     IN  /\ row.merges < MaxMerges
         /\ pulls' = [pulls EXCEPT ![job[w].id] =
              [row EXCEPT !.stage = "confirmation", !.merged = TRUE,
                          !.merges = @ + 1, !.votes = ClearBallots(row)]]
  /\ job' = [job EXCEPT ![w] = Idle]
  /\ UNCHANGED <<leader, repository, capable, asks, swept>>

-----------------------------------------------------------------------------
(* Votes on the other requests.                                            *)
(* Mutant: the "already closed" check is missing.                          *)
AskAdmitsClosed(id) == asks[id].status \in {"open", "approved", "rejected"}
AskAdmits(id) == asks[id].status = "open"

StartAskVote(w, u, id, ballot) ==
  /\ AskAdmits(id)
  /\ CanVote(Level[u])
  /\ StartJob(w, [op |-> "ask", user |-> u, id |-> id, ballot |-> ballot,
                  insert |-> asks[id].votes[u] = "none"])

ChangeCapability(row) ==
  /\ row.action \in {"grant", "revoke"}
  /\ capable' = [capable EXCEPT ![row.target] =
       IF row.action = "revoke" THEN "none"
       ELSE IF @ = "none" THEN "approved-request" ELSE @]
  /\ UNCHANGED <<repository, pulls>>

(* Whoever held the capability by the plan or by an earlier replacement    *)
(* loses it to the proposer of this one.                                   *)
Replacer(w, u) ==
  [v \in Users |-> IF v = u /\ LeftOver(w, v) = "none" THEN "repo-replacement"
                   ELSE LeftOver(w, v)]

Retired(id) == [pulls EXCEPT ![id].stage = "replaced"]

ReplaceRepository(w, row, id) ==
  /\ row.action = "replace" /\ HasSwept(w)
  /\ repository' = [u \in Users |-> IF leader = {u} THEN id ELSE repository[u]]
  /\ pulls' = Retired(row.pull)
  /\ capable' = Replacer(w, row.author)

CommitAskVote(w) ==
  /\ job[w].op = "ask"
  /\ LET j    == job[w]
         row  == asks[j.id]
         cast == [asks EXCEPT ![j.id].votes[j.user] = j.ballot]
     IN  /\ ~ (j.insert /\ row.votes[j.user] # "none")
         /\ \E n \in Populations :
              LET decision == Decide(cast[j.id].votes, Weight, n)
              IN  IF decision = "open"
                  THEN asks' = cast /\ UNCHANGED <<repository, capable, pulls>>
                  ELSE /\ asks' = [cast EXCEPT ![j.id].status = decision]
                       /\ IF decision = "approved"
                          THEN ChangeCapability(row) \/ ReplaceRepository(w, row, j.id)
                          ELSE UNCHANGED <<repository, capable, pulls>>
  /\ job' = [job EXCEPT ![w] = Idle] /\ ForgetSwept(w)
  /\ UNCHANGED leader

Rollback(w) ==
  /\ job[w] # Idle
  /\ job' = [job EXCEPT ![w] = Idle] /\ ForgetSwept(w)
  /\ UNCHANGED <<leader, repository, capable, pulls, asks>>

-----------------------------------------------------------------------------
Start(w, u) ==
  /\ \/ \E id \in DOMAIN pulls, ballot \in {"yes", "no"} : StartPullVote(w, u, id, ballot)
     \/ \E id \in DOMAIN pulls : StartMerge(w, u, id)
     \/ \E id \in DOMAIN asks, ballot \in {"yes", "no"} : StartAskVote(w, u, id, ballot)
     \/ StartSync(w, u)
  /\ UNCHANGED <<leader, repository, capable, pulls, asks, swept>>

Next ==
  \/ \E u \in Users :
       \/ SubmitPull(u)
       \/ \E action \in {"grant", "revoke"}, target \in Users :
            RequestCapability(u, action, target)
       \/ \E id \in DOMAIN pulls : RequestReplacement(u, id)
  \/ NoPlanLeads
  \/ \E w \in Workers :
       \/ \E u \in Users : Start(w, u)
       \/ DeleteMembers(w)
       \/ SyncLeadingPlan(w)
       \/ CommitPullVote(w)
       \/ RecordMerge(w)
       \/ CommitAskVote(w)
       \/ Rollback(w)

Spec == Init /\ [][Next]_vars

-----------------------------------------------------------------------------
(* A merge is on the row exactly while it is being confirmed or is         *)
(* confirmed; a replaced pull request keeps what it had                    *)
(* (pull_requests.py:161-183 and 262-277).                                 *)
MergeOnRecord ==
  \A id \in DOMAIN pulls :
    pulls[id].stage # "replaced" =>
      (pulls[id].merged <=> pulls[id].stage \in {"confirmation", "confirmed"})

(* A pull request is confirmed by ballots cast on the merge it confirms,   *)
(* and on no earlier one: recording a merge starts the vote anew           *)
(* (pull_requests.py:273-277).                                             *)
ConfirmedAfresh ==
  [][\A id \in DOMAIN pulls :
       pulls'[id].stage = "confirmed" /\ pulls[id].stage # "confirmed" =>
         \A u \in Users : pulls'[id].votes[u] # "none" => pulls'[id].castAt[u] = pulls[id].merges]_vars

(* One request at a time, the capability that comes with a plan, and that  *)
(* with a replacement, is one person's, whatever is granted, revoked,      *)
(* led, replaced or rolled back (merge_capability.py:210-231,              *)
(* repository.py:202-219).  Two transactions that delete before either has *)
(* committed leave two holders.                                            *)
OneHolderPerSource ==
  \A u, v \in Users :
    capable[u] = capable[v] /\ capable[u] \in {"plan-creator", "repo-replacement"} => u = v

(* A decision is final: nothing that was voted down or voted through is    *)
(* decided again; a pull request leaves its end only by a replacement      *)
(* (the stage and status checks of the vote handlers).                     *)
DecisionsAreFinal ==
  [][/\ \A id \in DOMAIN asks : asks[id].status # "open" => asks'[id].status = asks[id].status
     /\ \A id \in DOMAIN pulls :
          pulls[id].stage \in {"confirmed", "rejected", "replaced"} =>
            pulls'[id].stage \in {pulls[id].stage, "replaced"}]_vars

(* A replacement takes hold as a whole: the pull request it answers is out *)
(* of the process for good, and a plan's repository is one that a vote     *)
(* chose (repository.py:183-201).                                          *)
ReplacementTakesHold ==
  /\ \A id \in DOMAIN asks :
       asks[id].action = "replace" /\ asks[id].status = "approved" =>
         pulls[asks[id].pull].stage = "replaced"
  /\ \A u \in Users :
       repository[u] # 0 => asks[repository[u]].action = "replace"
                            /\ asks[repository[u]].status = "approved"

(* One request at a time: a merge is on record as its ballots say, and     *)
(* what is replaced is out of the process with its pull request            *)
(* (merge_capability.py:210-231 and repository.py:183-201).                *)
MergesAreOnRecord == MergeOnRecord /\ ReplacementTakesHold

(* One request at a time: a decision is final, and a merge is confirmed by *)
(* ballots of its own (pull_requests.py, the stage and status checks of    *)
(* the votes).                                                             *)
DecisionsStand == DecisionsAreFinal /\ ConfirmedAfresh
=============================================================================
