CONSTANTS
  ana = ana
  ben = ben
  w1 = w1
  Pair = {w2, w3}
  Users = {ana, ben}
  Author = ana
  Managers = {ana}
  Personal = TRUE
  Workers = {w1}
  Intervals <- TwoTimes
  SettingsChosen = {}
  StatusesChosen <- Accepting
  Selections = {}
  MaxTime = 1
  MaxRequests = 2
  MaxBookings = 2
SPECIFICATION MCSpec
SYMMETRY Symmetry
INVARIANTS
  AcceptedIsBooked
  HoldsNeverOverlap
  CountsAgree
  SeatsWithinBounds
PROPERTIES
  HistoryStands
CHECK_DEADLOCK FALSE
