------------------------------ MODULE Decision ------------------------------
(***************************************************************************)
(* What a governance request promises, whatever is being voted on: it is   *)
(* opened once, decided at most once, its effect is applied when and only  *)
(* when it is approved, and nothing changes it afterwards.                 *)
(***************************************************************************)
EXTENDS Naturals

VARIABLES status,    \* "absent", "open", "approved" or "rejected"
          effects    \* how many times the approved effect was applied

Init == status = "absent" /\ effects = 0

Open    == status = "absent" /\ status' = "open" /\ UNCHANGED effects
Approve == /\ status \in {"absent", "open"}
           /\ status' = "approved"
           /\ effects' = effects + 1
Reject  == status = "open" /\ status' = "rejected" /\ UNCHANGED effects

Next == Open \/ Approve \/ Reject
Spec == Init /\ [][Next]_<<status, effects>>
=============================================================================
