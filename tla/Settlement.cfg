\* One worker, two handlers at once; the server may crash, statements may fail and answers be lost.
SPECIFICATION PaySpec
CONSTANTS
  Workers = {w1}
  WorkersNeeded = 1
  Requests = {r1}
  Handlers = {h1, h2}
  Charges = {p1, p2}
  Pay = 4
  LateRefundBps = 5000
  PartialAmount = 3
  Crashes = TRUE
  LostAnswers = TRUE
  FailedStatements = TRUE
SYMMETRY Symmetry
CHECK_DEADLOCK FALSE
INVARIANTS
  PayTypeOK
  
  
  OneLiveCharge
