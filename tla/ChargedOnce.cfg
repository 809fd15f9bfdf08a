SPECIFICATION PaySpec
CONSTANTS
  Workers = {w1}
  WorkersNeeded = 1
  Requests = {r1}
  Handlers = {h1}
  Charges = {p1, p2}
  Pay = 4
  LateRefundBps = 5000
  PartialAmount = 3
  Crashes = FALSE
  LostAnswers = TRUE
  FailedStatements = FALSE
CHECK_DEADLOCK FALSE
INVARIANT
  ChargedOnce
