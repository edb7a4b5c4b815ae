---------------------------- MODULE HelpRequests ----------------------------
(***************************************************************************)
(* A help request and who takes its roles (app/services/content/           *)
(* help_requests.py and roles.py).  A role with no slots has room for      *)
(* everybody.  What is free is read in one step, the row inserted in the   *)
(* next; only the pair of a role and a person is unique.                   *)
(***************************************************************************)
EXTENDS Naturals, FiniteSets, Sequences, FiniteSetsExt, Functions

CONSTANTS Users, Author,
          Shapes,    \* slots of the roles a help request is created with
          Workers

VARIABLES slots,     \* of its roles, <<>> before it is created
          holders,   \* of each role
          told,      \* <<user, role>>: sign-ups the author was told of
          job

vars == <<slots, holders, told, job>>

Roles == 1..Max({Len(s) : s \in Shapes})
Idle  == [op |-> "idle"]

TypeOK ==
  /\ slots \in Shapes \cup {<<>>}
  /\ holders \in [Roles -> SUBSET Users]
  /\ told \subseteq Users \X Roles
  /\ job \in [Workers -> {Idle} \cup [op : {"commit", "notify"}, user : Users, role : Roles]]

Init ==
  /\ slots = <<>> /\ holders = [r \in Roles |-> {}] /\ told = {}
  /\ job = [w \in Workers |-> Idle]

(* It needs a tag, a role, and to end after it starts, when it says when.  *)
ValidRoles(shape) == shape # <<>>
ValidTimes(ends) == ends \in {"open", "after"}

CreateHelpRequest(tags, shape, ends) ==
  /\ slots = <<>>
  /\ tags # {} /\ ValidTimes(ends) /\ ValidRoles(shape)
  /\ slots' = shape
  /\ UNCHANGED <<holders, told, job>>

FilledCount(r) == Cardinality(holders[r])
Assigned(u)    == \E r \in Roles : u \in holders[r]
HasRoom(r)     == slots[r] = 0 \/ FilledCount(r) < slots[r]

StartCommitHelpRequestRole(w, u, r) ==
  /\ job[w] = Idle
  /\ r \in DOMAIN slots
  /\ ~ Assigned(u) /\ HasRoom(r)
  /\ job' = [job EXCEPT ![w] = [op |-> "commit", user |-> u, role |-> r]]
  /\ UNCHANGED <<slots, holders, told>>

CommitHelpRequestRole(w) ==
  /\ job[w].op = "commit"
  /\ job[w].user \notin holders[job[w].role]
  /\ holders' = [holders EXCEPT ![job[w].role] = @ \cup {job[w].user}]
  /\ job' = [job EXCEPT ![w] = IF job[w].user = Author THEN Idle ELSE [@ EXCEPT !.op = "notify"]]
  /\ UNCHANGED <<slots, told>>

NotifyAuthor(w) ==
  /\ job[w].op = "notify"
  /\ told' = told \cup {<<job[w].user, job[w].role>>}
  /\ job' = [job EXCEPT ![w] = Idle]
  /\ UNCHANGED <<slots, holders>>

(* The row is deleted, whether there is one or not.                        *)
UncommitHelpRequestRole(u, r) ==
  /\ \E w \in Workers : job[w] = Idle
  /\ r \in DOMAIN slots
  /\ holders' = [holders EXCEPT ![r] = @ \ {u}]
  /\ UNCHANGED <<slots, told, job>>

Rollback(w) ==
  /\ job[w].op = "commit"
  /\ job' = [job EXCEPT ![w] = Idle]
  /\ UNCHANGED <<slots, holders, told>>

(* What a list of help requests says of one.                               *)
SignedUp == SumFunction([r \in DOMAIN slots |-> FilledCount(r)])
Needed   == SumFunction(slots)

Next ==
  \/ \E shape \in Shapes, tags \in SUBSET {"channel"}, ends \in {"open", "after", "before"} :
       CreateHelpRequest(tags, shape, ends)
  \/ \E u \in Users, r \in Roles :
       \/ \E w \in Workers : StartCommitHelpRequestRole(w, u, r)
       \/ UncommitHelpRequestRole(u, r)
  \/ \E w \in Workers : CommitHelpRequestRole(w) \/ NotifyAuthor(w) \/ Rollback(w)

Spec == Init /\ [][Next]_vars

-----------------------------------------------------------------------------
(* One request at a time, nobody has two roles of a help request and no    *)
(* role more people than slots; when every role has slots, those who       *)
(* signed up are no more than are needed (help_requests.py:428-449,        *)
(* roles.py:94-100).                                                       *)
SeatsWithinBounds ==
  /\ \A r, s \in Roles : r # s => holders[r] \cap holders[s] = {}
  /\ \A r \in DOMAIN slots : slots[r] = 0 \/ FilledCount(r) <= slots[r]
  /\ (\A r \in DOMAIN slots : slots[r] > 0) => SignedUp <= Needed
=============================================================================
