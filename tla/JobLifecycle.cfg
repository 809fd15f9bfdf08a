\* Three workers for two places, two requests in flight.
SPECIFICATION Spec
CONSTANTS
  Workers = {w1, w2, w3}
  WorkersNeeded = 2
  Requests = {r1, r2}
SYMMETRY Symmetry
CHECK_DEADLOCK FALSE
INVARIANTS
  TypeOK
  SlotsAccounted
  StateTellsStaffing
  DisputedIffOpen
  NoPlaceBeforeReview
  CancelledOnce
PROPERTIES
  EndedStaysEnded
