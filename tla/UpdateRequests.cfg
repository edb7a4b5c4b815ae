CONSTANTS
  ana = ana
  ben = ben
  dia = dia
  w1 = w1
  Users = {ana, ben, cem}
  Level <- Mixed
  Workers = {w1, w2, w3}
  Populations = {1, 2}
  EventUsers = {ana, ben}
  EventLevel <- AllFull
  EventWorkers = {w1}
  Creator = ana
  Promotable = {ben}
  Signalers = {ana}
  Settings <- Governances
  Kinds = {"phase"}
  QuietMembers = FALSE
  MaxRequests = 2
  LinkUsers = {ana, ben}
  LinkLevel <- AllFull
  LinkWorkers = {w1}
  LinkMembers <- DetailSides
  LinkScheme = "detail"
  MaxLinkRequests = 3
SPECIFICATION MCSpec
INVARIANTS
  PublicationsBounded
  DecidedInTime
  EventVotesAreCurrent
  LinksFollowDecisions
PROPERTIES
  SettledIsFinal
  DecidedOnce
  EventChangesAreCarried
CHECK_DEADLOCK FALSE
