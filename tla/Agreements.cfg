CONSTANTS
  ana = ana
  ben = ben
  cas = cas
  w1 = w1
  Pair = {w2, w3}
  Slots = {early, late}
  Users = {ana, ben, cas}
  Level <- Mixed
  Members = {ana, ben, cas}
  Kind = "project"
  Controlled = FALSE
  Organizers = {}
  Workers = {w1}
  Kinds = {"production"}
  Authors = {ana}
  Contents = {"software", "none"}
  Answers = {"yes", "no"}
  Targets = {"plan"}
  Stars = {}
  Rated = {}
  MaxPlans = 2
  Scheme = "edit"
  Fields = {"title", "description"}
  Texts = {"one", "two"}
  Labels = {}
  MaxRequests = 2
  MaxRows = 0
SPECIFICATION MCSpec
SYMMETRY Symmetry
INVARIANTS
  LeaderIsAhead
  LeaderIsAdopted
  OverlapsAreAdopted
PROPERTIES
  EditsNeverUndo
CHECK_DEADLOCK FALSE
