CONSTANTS
  Users = {ana, ben, cai}
  Level <- AllFull
  Workers = {w1}
  Populations = {3}
  MaxPulls = 1
  MaxAsks = 1
  MaxMerges = 2
SPECIFICATION Spec
SYMMETRY Symmetry
INVARIANTS
  MergesAreOnRecord
  OneHolderPerSource
PROPERTIES
  DecisionsStand
CHECK_DEADLOCK FALSE
