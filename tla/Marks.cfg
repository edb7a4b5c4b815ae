CONSTANTS
  ana = ana
  ben = ben
  cas = cas
  dan = dan
  eve = eve
  ida = ida
  joe = joe
  kim = kim
  w1 = w1
  w2 = w2
  Workers = {w1}
  Reporters = {ana, ben, cas, dan, eve}
  Contents <- Pieces
  Reasons = {"spam", "serious-harm"}
  MaxReports = 2
  Accounts = {ida, joe, kim, dan}
  Founders = {}
  Earned = {ida, joe, kim}
  Suspects = {dan}
  Days = {0, 40}
  Warming = {ida}
  MaxReviews = 2
  Persons = {ana, ben}
  Electors = {ana, ben}
  Volunteers = {ana, ben}
  Populations = {0, 2, 3}
  LastDay = 8
SPECIFICATION MCSpec
SYMMETRY Alike
INVARIANTS
  ThreeMarksOpenAReview
CHECK_DEADLOCK FALSE
