CONSTANTS
  ana = ana
  cem = cem
  Pair = {w2, w3}
  Users = {ana, ben}
  Founder = ana
  Private = TRUE
  Established = {}
  still = still
  Names = {old, new}
  Workers = {w1}
  MaxProposals = 2
SPECIFICATION MCSpec
SYMMETRY Symmetry
INVARIANTS
  OneVotePerChange
PROPERTIES
  SettledStays
  EveryChangeIsOnRecord
  VotesAreFair
CHECK_DEADLOCK FALSE
