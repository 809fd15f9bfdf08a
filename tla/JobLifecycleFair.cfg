\* Two workers for two places, two requests in flight; no symmetry, because
\* liveness is checked.
SPECIFICATION FairSpec
CONSTANTS
  Workers = {w1, w2}
  WorkersNeeded = 2
  Requests = {r1, r2}
CHECK_DEADLOCK FALSE
PROPERTIES
  CompletionAnswered
  PaidIsClosed
  ContractKept
