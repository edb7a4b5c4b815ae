CONSTANTS
  ana = ana
  ben = ben
  cas = cas
  w1 = w1
  w2 = w2
  Tabs = {w1, w2}
  FailClosed = FALSE
  MaxTokens = 4
  MaxFaults = 0
SPECIFICATION MCSpec
INVARIANTS
  AnswersAreHeard
  UnreadIsWhatArrived
  StaysSignedIn
  CountsAgree
  PrivateStaysPrivate
PROPERTIES
  RepliesStay
  AnsweredOnce
CHECK_DEADLOCK FALSE
