----------------------------- MODULE Lifecycle -----------------------------
(***************************************************************************)
(* What the life of a project promises: it moves between phases, closing   *)
(* leaves a mark that is never taken back, and it is converted into a      *)
(* successor at most once, in the same step that closes it.                *)
(***************************************************************************)
EXTENDS Naturals

VARIABLES phase,        \* 1..7, phase-7 being "Closed"
          closed,       \* is_closed
          outcome,      \* close_outcome: "none", "close" or "convert"
          successors    \* projects this one was converted into

vars == <<phase, closed, outcome, successors>>

Init ==
  /\ phase = 1
  /\ closed = FALSE
  /\ outcome = "none"
  /\ successors = 0

Move ==
  /\ phase' \in 1..6
  /\ UNCHANGED <<closed, outcome, successors>>

Close ==
  /\ phase' = 7
  /\ closed' = TRUE
  /\ outcome' = "close"
  /\ UNCHANGED successors

Convert ==
  /\ successors = 0
  /\ phase' = 7
  /\ closed' = TRUE
  /\ outcome' = "convert"
  /\ successors' = 1

Next == Move \/ Close \/ Convert
Spec == Init /\ [][Next]_vars
=============================================================================
