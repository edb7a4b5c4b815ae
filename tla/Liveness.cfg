CONSTANTS
  ana = ana
  ben = ben
  phone = phone
  laptop = laptop
  tablet = tablet
  w1 = w1
  c1 = c1
  Users = {ana, ben}
  Sockets = {phone, laptop, tablet}
  Owner <- Devices
  Calls = {c1, c2}
  RingTTL = 2
  ActiveTTL = 3
  MaxPresence = 3
  Concurrency = 1
  Beating = {}
  Crashes = FALSE
  Stalls = FALSE
  Lapses = FALSE
SPECIFICATION MCSpec
INVARIANTS
  ClaimsMatchCalls
PROPERTIES
  LinesRecover
  ProposalsSettle
CHECK_DEADLOCK FALSE
