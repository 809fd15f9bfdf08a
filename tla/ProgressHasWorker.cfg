SPECIFICATION Spec
CONSTANTS
  Workers = {w1, w2}
  WorkersNeeded = 2
  Requests = {r1}
CHECK_DEADLOCK FALSE
INVARIANT
  ProgressHasWorker
