-------------------------- MODULE ScopeGovernance --------------------------
(***************************************************************************)
(* Who decides in one community (app/services/scope_governance.py): the    *)
(* members' proposals and votes, the organizers' direct changes, and the   *)
(* memberships both depend on (app/services/scopes.py).  Every change, and *)
(* every look at the settings page, settles whatever has become decidable. *)
(* A request reads first and commits later, with nothing locked between.   *)
(***************************************************************************)
EXTENDS Votes, Sequences

CONSTANTS Users,
          Founder,       \* creates the community and is its first manager
          Private,       \* join_policy is "closed"
          Established,   \* the users whose standing lets them vote
          Names,         \* what an edit may set
          Workers,       \* requests the API serves at the same time
          MaxProposals   \* bound: rows of scope_proposals

ASSUME FounderAssumption == Founder \in Users
ASSUME PrivateAssumption == Private \in BOOLEAN
ASSUME BoundAssumption == MaxProposals \in Nat

VARIABLES community,  \* members' roles, governance mode and name
          proposals,  \* scope_proposals rows, in the order of created_at
          votes,      \* scope_proposal_votes: ballot of each user
          expired,    \* proposals opened more than PROPOSAL_DAYS ago
          job         \* what each worker is doing

vars == <<community, proposals, votes, expired, job>>

Ids      == 1..MaxProposals
Modes    == {"collaborative", "organizer"}
Outcomes == {"open", "passed", "rejected"}

(* What a proposal would change: the name, a member, or who decides.       *)
Edits     == {[kind |-> "edit", about |-> {n}] : n \in Names}
Removals  == {[kind |-> "remove_member", about |-> {u}] : u \in Users}
Handovers == {[kind |-> "to_organizer", about |-> us] : us \in SUBSET Users \ {{}}}
Switch    == [kind |-> "to_collaborative", about |-> {}]
Changes   == Edits \cup Removals \cup Handovers \cup {Switch}

Idle     == [pc |-> "idle"]
Jobs     == {Idle, [pc |-> "reading"]}
  \cup [pc : {"opening"}, user : Users, change : Changes, outcome : Outcomes]
  \cup [pc : {"voting"}, user : Users, proposal : Ids, ballot : {"yes", "no"}]
  \cup [pc : {"deciding"}, user : Users, proposal : Ids, ballot : {"yes", "no"},
        outcome : Outcomes]
  \cup [pc : {"closing"}, outcomes : [Ids -> Outcomes]]
  \cup [pc : {"direct"}, user : Users, change : Edits \cup Removals]
  \cup [pc : {"role"}, user : Users, role : {"member", "manager"}]

Row == [status : Outcomes, change : Changes]
Absent == [status |-> "absent"]

TypeOK ==
  /\ community \in [role : [Users -> {"out", "member", "manager"}],
                    mode : Modes, name : Names]
  /\ proposals \in [Ids -> Row \cup {Absent}]
  /\ votes \in [Ids -> [Users -> Ballots]]
  /\ expired \subseteq Ids
  /\ job \in [Workers -> Jobs]

-----------------------------------------------------------------------------
(* The electorate, the tally and the effect of a change on a community c.  *)
Members(c)   == {u \in Users : c.role[u] # "out"}
Managers(c)  == {u \in Users : c.role[u] = "manager"}
Open(p)      == proposals[p].status = "open"

(* Mutant: every member decides on the organizers' switch too.             *)
EveryMember(c, change) == Members(c)
Electorate(c, change) ==
  IF change.kind = "to_collaborative" THEN Managers(c) ELSE Members(c)

AtLeastOne(n) == IF n >= 1 THEN n ELSE 1

(* Handing power back needs 66% of the organizers, however few vote.       *)
SwitchOutcome(yes, no, size) ==
  LET needed == AtLeastOne(CeilDiv(66 * size, 100))
  IN  IF yes >= needed THEN "passed"
      ELSE IF no > size - needed THEN "rejected" ELSE "open"

(* Everything else needs a quorum of the members and 66% of the votes.     *)
Unused(size, needed, total) ==
  AtLeastZero((IF size >= needed THEN size ELSE needed) - total)

MajorityOutcome(yes, no, size) ==
  LET needed  == AtLeastOne(RequiredVotes(size))
      unused  == Unused(size, needed, yes + no)
      canPass == yes + no + unused >= needed /\ MeetsApproval(yes + unused, no)
  IN  IF yes + no >= needed /\ MeetsApproval(yes, no) THEN "passed"
      ELSE IF canPass THEN "open" ELSE "rejected"

(* Mutant: old proposals are kept.                                         *)
KeptWhenOld(tally, old) == tally
Verdict(tally, old) == IF tally = "open" /\ old THEN "rejected" ELSE tally

(* _settle: ballots of people who are no longer in the electorate are not  *)
(* counted; a proposal that is a week old is rejected unless it passes.    *)
Settle(c, change, ballots, old) ==
  LET electorate == Electorate(c, change)
      yes == Cardinality({u \in electorate : ballots[u] = "yes"})
      no  == Cardinality({u \in electorate : ballots[u] = "no"})
      tally == IF change.kind = "to_collaborative"
               THEN SwitchOutcome(yes, no, Cardinality(electorate))
               ELSE MajorityOutcome(yes, no, Cardinality(electorate))
  IN  Verdict(tally, old)

(* _apply.  Named organizers who are not members stay out.                 *)
Effect(c, change) ==
  CASE change.kind = "edit" -> [c EXCEPT !.name = CHOOSE n \in change.about : TRUE]
    [] change.kind = "remove_member" ->
         [c EXCEPT !.role = [u \in Users |-> IF u \in change.about THEN "out" ELSE @[u]]]
    [] change.kind = "to_collaborative" -> [c EXCEPT !.mode = "collaborative"]
    [] change.kind = "to_organizer" ->
         [c EXCEPT !.mode = "organizer",
                   !.role = [u \in Users |-> IF @[u] = "out" THEN "out"
                             ELSE IF u \in change.about THEN "manager" ELSE "member"]]

(* The open proposals settled one after the other, each on the community   *)
(* that the ones before it leave.                                          *)
OutcomeOn(c, p) ==
  IF Open(p) THEN Settle(c, proposals[p].change, votes[p], p \in expired) ELSE "open"
AfterReading[p \in 0..MaxProposals] ==
  IF p = 0 THEN community
  ELSE IF OutcomeOn(AfterReading[p - 1], p) = "passed"
       THEN Effect(AfterReading[p - 1], proposals[p].change)
       ELSE AfterReading[p - 1]
SettleAll == [p \in Ids |-> OutcomeOn(AfterReading[p - 1], p)]

(* Writing a set of outcomes: the passed changes, in order, and the rows.  *)
Written(outcomes) ==
  LET after[p \in 0..MaxProposals] ==
        IF p = 0 THEN community
        ELSE IF outcomes[p] = "passed" THEN Effect(after[p - 1], proposals[p].change)
        ELSE after[p - 1]
  IN  after[MaxProposals]
WriteOutcomes(outcomes) ==
  /\ community' = Written(outcomes)
  /\ proposals' = [p \in Ids |-> IF outcomes[p] = "open" THEN proposals[p]
                                 ELSE [proposals[p] EXCEPT !.status = outcomes[p]]]

-----------------------------------------------------------------------------
Init ==
  /\ \E m \in IF Private THEN Modes ELSE {"collaborative"}, n \in Names :
       community = [role |-> [u \in Users |-> IF u = Founder THEN "manager" ELSE "out"],
                    mode |-> m, name |-> n]
  /\ proposals = [p \in Ids |-> Absent]
  /\ votes = [p \in Ids |-> [u \in Users |-> "none"]]
  /\ expired = {}
  /\ job = [w \in Workers |-> Idle]

Start(w, j) == job[w] = Idle /\ job' = [job EXCEPT ![w] = j]

CanTakePart(u) == u \in Members(community) /\ (Private \/ u \in Established)

MayPropose(u, change) ==
  /\ change.kind \in {"remove_member", "to_organizer", "to_collaborative"} => Private
  /\ IF change.kind = "to_collaborative"
     THEN community.mode = "organizer" /\ u \in Managers(community)
     ELSE community.mode = "collaborative" /\ CanTakePart(u)
  /\ change.kind = "remove_member" => change.about \subseteq Members(community)

(* Mutant: the comparison finds the wrong rows.                            *)
AlreadyPassed(change) == \E p \in Ids : proposals[p].status = "passed"
                                      /\ proposals[p].change = change
AlreadyOpen(change) == \E p \in Ids : Open(p) /\ proposals[p].change = change

(* A proposal opens with its proposer's yes, and is settled on it.         *)
Propose(w, u, change) ==
  /\ MayPropose(u, change)
  /\ ~ AlreadyOpen(change)
  /\ Start(w, [pc |-> "opening", user |-> u, change |-> change,
               outcome |-> Settle(community, change,
                                  [v \in Users |-> IF v = u THEN "yes" ELSE "none"], FALSE)])
  /\ UNCHANGED <<community, proposals, votes, expired>>

(* Mutant: the row keeps the default status of the table.                  *)
AddOpenRow(u, change, outcome) ==
  \E p \in Ids :
    /\ proposals[p] = Absent
    /\ \A q \in Ids : q < p => proposals[q] # Absent
    /\ proposals' = [proposals EXCEPT ![p] = [status |-> "open", change |-> change]]
    /\ votes' = [votes EXCEPT ![p][u] = "yes"]

(* A new row takes the next id and carries the author's yes.               *)
AddRow(u, change, outcome) ==
  \E p \in Ids :
    /\ proposals[p] = Absent
    /\ \A q \in Ids : q < p => proposals[q] # Absent
    /\ proposals' = [proposals EXCEPT ![p] = [status |-> outcome, change |-> change]]
    /\ votes' = [votes EXCEPT ![p][u] = "yes"]

CommitProposal(w) ==
  /\ job[w].pc = "opening"
  /\ AddRow(job[w].user, job[w].change, job[w].outcome)
  /\ community' = IF job[w].outcome = "passed" THEN Effect(community, job[w].change)
                  ELSE community
  /\ job' = [job EXCEPT ![w] = [pc |-> "reading"]]
  /\ UNCHANGED expired

-----------------------------------------------------------------------------
(* A vote: admitted, tallied with the committed ballots, committed.        *)
(* Mutant: a closed vote is not refused.                                   *)
AcceptsAnyVote(p) == proposals[p] # Absent
AcceptsVotes(p) == Open(p)

StartVote(w, u, p, ballot) ==
  /\ AcceptsVotes(p)
  /\ u \in Electorate(community, proposals[p].change)
  /\ proposals[p].change.kind # "to_collaborative" => CanTakePart(u)
  /\ Start(w, [pc |-> "voting", user |-> u, proposal |-> p, ballot |-> ballot])
  /\ UNCHANGED <<community, proposals, votes, expired>>

TallyVote(w) ==
  /\ job[w].pc = "voting"
  /\ LET j == job[w]
     IN  job' = [job EXCEPT ![w] =
           [pc |-> "deciding", user |-> j.user, proposal |-> j.proposal, ballot |-> j.ballot,
            outcome |-> Settle(community, proposals[j.proposal].change,
                               [votes[j.proposal] EXCEPT ![j.user] = j.ballot],
                               j.proposal \in expired)]]
  /\ UNCHANGED <<community, proposals, votes, expired>>

CommitVote(w) ==
  /\ job[w].pc = "deciding"
  /\ votes' = [votes EXCEPT ![job[w].proposal][job[w].user] = job[w].ballot]
  /\ WriteOutcomes([p \in Ids |-> IF p = job[w].proposal THEN job[w].outcome ELSE "open"])
  /\ job' = [job EXCEPT ![w] = [pc |-> "reading"]]
  /\ UNCHANGED expired

-----------------------------------------------------------------------------
(* The settings page, on its own or as the answer to another request.      *)
OpenSettings(w) ==
  /\ Private => Members(community) # {}
  /\ Start(w, [pc |-> "reading"])
  /\ UNCHANGED <<community, proposals, votes, expired>>

ReadSettings(w) ==
  /\ job[w].pc = "reading"
  /\ LET outcomes == SettleAll
     IN  job' = [job EXCEPT ![w] =
           IF \A p \in Ids : outcomes[p] = "open" THEN Idle
           ELSE [pc |-> "closing", outcomes |-> outcomes]]
  /\ UNCHANGED <<community, proposals, votes, expired>>

CommitSettled(w) ==
  /\ job[w].pc = "closing"
  /\ WriteOutcomes(job[w].outcomes)
  /\ job' = [job EXCEPT ![w] = Idle]
  /\ UNCHANGED <<votes, expired>>

-----------------------------------------------------------------------------
(* Organizers change the name and remove members directly; the change is   *)
(* put on record as passed.  They also name and dismiss organizers.        *)
IsOrganizer(u) == community.mode = "organizer" /\ u \in Managers(community)

ChangeDirectly(w, u, change) ==
  /\ IsOrganizer(u)
  /\ change.kind = "remove_member" => u \notin change.about
  /\ Start(w, [pc |-> "direct", user |-> u, change |-> change])
  /\ UNCHANGED <<community, proposals, votes, expired>>

CommitDirect(w) ==
  /\ job[w].pc = "direct"
  /\ AddRow(job[w].user, job[w].change, "passed")
  /\ community' = Effect(community, job[w].change)
  /\ job' = [job EXCEPT ![w] = [pc |-> "reading"]]
  /\ UNCHANGED expired

SetOrganizer(w, u, target, role) ==
  /\ IsOrganizer(u)
  /\ target \in Members(community)
  /\ role = "member" => Cardinality(Managers(community)) > 1
  /\ Start(w, [pc |-> "role", user |-> target, role |-> role])
  /\ UNCHANGED <<community, proposals, votes, expired>>

CommitRole(w) ==
  /\ job[w].pc = "role"
  /\ community' = [community EXCEPT !.role[job[w].user] =
                     IF @ = "out" THEN "out" ELSE job[w].role]
  /\ job' = [job EXCEPT ![w] = [pc |-> "reading"]]
  /\ UNCHANGED <<proposals, votes, expired>>

-----------------------------------------------------------------------------
(* Joining (by invitation when private), leaving, a week going by, and     *)
(* requests that fail or are cut off.                                      *)
Join(w, u) ==
  /\ job[w] = Idle /\ u \notin Members(community)
  /\ community' = [community EXCEPT !.role[u] = "member"]
  /\ UNCHANGED <<proposals, votes, expired, job>>

Leave(w, u) ==
  /\ job[w] = Idle /\ u \in Members(community)
  /\ community' = [community EXCEPT !.role[u] = "out"]
  /\ UNCHANGED <<proposals, votes, expired, job>>

Expire(p) ==
  /\ Open(p) /\ p \notin expired
  /\ \A q \in Ids : q < p /\ Open(q) => q \in expired
  /\ expired' = expired \cup {p}
  /\ UNCHANGED <<community, proposals, votes, job>>

Rollback(w) ==
  /\ job[w] # Idle
  /\ job' = [job EXCEPT ![w] = Idle]
  /\ UNCHANGED <<community, proposals, votes, expired>>

Step(w) ==
  \/ \E u \in Users, c \in Changes : Propose(w, u, c)
  \/ CommitProposal(w)
  \/ \E u \in Users, p \in Ids, b \in {"yes", "no"} : StartVote(w, u, p, b)
  \/ TallyVote(w)
  \/ CommitVote(w)
  \/ OpenSettings(w)
  \/ ReadSettings(w)
  \/ CommitSettled(w)
  \/ \E u \in Users, c \in Edits \cup Removals : ChangeDirectly(w, u, c)
  \/ CommitDirect(w)
  \/ \E u, v \in Users, r \in {"member", "manager"} : SetOrganizer(w, u, v, r)
  \/ CommitRole(w)
  \/ \E u \in Users : Join(w, u)
  \/ \E u \in Users : Leave(w, u)
  \/ Rollback(w)

Next == (\E w \in Workers : Step(w)) \/ (\E p \in Ids : Expire(p))

Spec == Init /\ [][Next]_vars

(* A week goes by, every request ends one way or another, somebody keeps   *)
(* opening the settings, and not every one of those requests fails.        *)
Proceed(w) ==
  CommitProposal(w) \/ TallyVote(w) \/ CommitVote(w) \/ CommitDirect(w) \/ CommitRole(w)
  \/ ReadSettings(w) \/ CommitSettled(w) \/ Rollback(w)
Fairness ==
  /\ \A p \in Ids : WF_vars(Expire(p))
  /\ \A w \in Workers : /\ WF_vars(Proceed(w))
                        /\ SF_vars(OpenSettings(w))
                        /\ SF_vars(ReadSettings(w))
                        /\ SF_vars(CommitSettled(w))
FairSpec == Spec /\ Fairness

-----------------------------------------------------------------------------
(* Only a request that saw a proposal open can still change it once it is  *)
(* settled (the status checks of vote, 407, and of _settle, 286): no later *)
(* one is admitted, it is never open again, and then it stays as it is.    *)
Touches(w, p) ==
  \/ job[w].pc \in {"voting", "deciding"} /\ job[w].proposal = p
  \/ job[w].pc = "closing" /\ job[w].outcomes[p] # "open"
Settled(p) == proposals[p].status \in {"passed", "rejected"}
SettledIsFinal ==
  [][\A p \in Ids :
       Settled(p) =>
         /\ Settled(p)'
         /\ \A w \in Workers : Touches(w, p)' => Touches(w, p)
         /\ (\A w \in Workers : ~ Touches(w, p)) =>
              proposals'[p] = proposals[p] /\ votes'[p] = votes[p]]_vars

(* One request at a time: the name and the governance of a community only  *)
(* change by a decision that goes on record as passed in the same commit   *)
(* (_settle, 294-305, and _record_direct, 442-463).                        *)
Passes(p) == proposals[p].status # "passed" /\ proposals'[p].status = "passed"
EveryChangeIsOnRecord ==
  [][/\ community'.name # community.name =>
          \E p \in Ids : Passes(p) /\ proposals'[p].change.about = {community'.name}
     /\ community'.mode # community.mode =>
          \E p \in Ids : Passes(p) /\ proposals'[p].change.kind =
            (IF community'.mode = "organizer" THEN "to_organizer" ELSE "to_collaborative")]_vars

(* One request at a time: a change is put to one vote at a time, so that   *)
(* its ballots are never split (propose, 358-372).                         *)
OneVotePerChange ==
  \A p, q \in Ids : Open(p) /\ Open(q) /\ proposals[p].change = proposals[q].change => p = q

(* One request at a time: a proposal is voted down before its week is over *)
(* only if not even the yes of everybody who has not voted would pass it   *)
(* (_tally, 182 and 190-204).                                              *)
Settles(p) == ~ Settled(p) /\ Settled(p)'
AllOthersYes(c, p) ==
  [u \in Users |-> IF u \in Electorate(c, proposals'[p].change) /\ votes'[p][u] = "none"
                   THEN "yes" ELSE votes'[p][u]]
RejectionIsFair ==
  [][\A p \in Ids :
       /\ Settles(p) /\ \A q \in Ids \ {p} : ~ Settles(q)
       /\ proposals'[p].status = "rejected" /\ p \notin expired
       => Settle(community, proposals'[p].change, AllOthersYes(community, p), FALSE) # "passed"]_vars

(* One request at a time: power goes back to the members only by 66% of    *)
(* the organizers there are (the docstring's rule, 7-8; _tally, 178-189).  *)
OrganizersDecideTheSwitch ==
  [][community.mode = "organizer" /\ community'.mode = "collaborative" =>
       \E p \in Ids :
         /\ Passes(p) /\ proposals'[p].change = Switch
         /\ Managers(community) # {}
         /\ 100 * Cardinality({u \in Managers(community) : votes'[p][u] = "yes"})
              >= 66 * Cardinality(Managers(community))]_vars

(* Every proposal is settled within a week and the next look at the page,  *)
(* unless everybody leaves (_settle's expiry, 297; settings_payload, 595). *)
EventuallySettled ==
  \A p \in Ids : Open(p) ~> (~ Open(p) \/ Members(community) = {})
=============================================================================
