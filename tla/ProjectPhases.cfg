CONSTANTS
  w1 = w1
  Users = {ana, ben}
  Level <- AllFull
  Workers = {w2, w3}
  Requests = {r1, r2}
  Targets = {1, 7}
  Populations = {2}
  Mode = "collective-service"
  PlanSubtypes = {"keep"}
  PlanPhases = {}
  SignalsMove = FALSE
SPECIFICATION MCSpec
SYMMETRY Symmetry
INVARIANTS
  ClosedAgrees
  VotesDecide
PROPERTIES
  SettledIsFinal
  IsALifecycle
CHECK_DEADLOCK FALSE
