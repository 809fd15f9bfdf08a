\* Two workers for two places, two sets of terms, two proposals.
SPECIFICATION FundsSpec
CONSTANTS
  Workers = {w1, w2}
  WorkersNeeded = 2
  Requests = {r1}
  Terms = {t1, t2}
  FirstTerms = t1
  Changes = {c1, c2}
SYMMETRY Symmetry
CHECK_DEADLOCK FALSE
INVARIANTS
  FundsTypeOK
  DiffStillTrue
  AnswersDecide
  
  FundsCoverWork
PROPERTIES
  LateNoticesReach
