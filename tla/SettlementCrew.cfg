\* Two workers for two places; no crash, no lost answer.
SPECIFICATION PaySpec
CONSTANTS
  Workers = {w1, w2}
  WorkersNeeded = 2
  Requests = {r1}
  Handlers = {h1, h2}
  Charges = {p1, p2}
  Pay = 4
  LateRefundBps = 5000
  PartialAmount = 3
  Crashes = FALSE
  LostAnswers = FALSE
  FailedStatements = FALSE
SYMMETRY Symmetry
CHECK_DEADLOCK FALSE

  
PROPERTIES
  SettledStays
  PaidWithEveryone
