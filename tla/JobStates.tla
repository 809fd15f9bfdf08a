------------------------------ MODULE JobStates ------------------------------
(***************************************************************************)
(* The two state machines of packages/shared/src/job-states.ts, shared by  *)
(* every other module: the job's, and the assignment's (one row of         *)
(* job_workers for each worker on the job).  Also the sets of states that  *)
(* the handlers of jobs.service.ts and disputes.service.ts test.           *)
(***************************************************************************)

JOB_STATES ==
  {"DRAFT", "PENDING_REVIEW", "POSTED", "MATCHING", "PARTIALLY_FILLED",
   "FILLED", "IN_PROGRESS", "COMPLETION_PENDING", "COMPLETED",
   "PAYMENT_PENDING", "PAID", "CANCELLED", "DISPUTED", "CLOSED"}

\* A record is a function on strings, so the table reads as in the source.
JOB_TRANSITIONS ==
  [ DRAFT              |-> {"POSTED", "PENDING_REVIEW", "CANCELLED"},
    PENDING_REVIEW     |-> {"POSTED", "CANCELLED"},
    POSTED             |-> {"MATCHING", "CANCELLED"},
    MATCHING           |-> {"PARTIALLY_FILLED", "FILLED", "CANCELLED"},
    PARTIALLY_FILLED   |-> {"FILLED", "MATCHING", "IN_PROGRESS", "CANCELLED"},
    FILLED             |-> {"IN_PROGRESS", "MATCHING", "CANCELLED"},
    IN_PROGRESS        |-> {"COMPLETION_PENDING", "CANCELLED", "DISPUTED"},
    COMPLETION_PENDING |-> {"COMPLETED", "DISPUTED"},
    COMPLETED          |-> {"PAYMENT_PENDING", "DISPUTED"},
    PAYMENT_PENDING    |-> {"PAID", "DISPUTED"},
    PAID               |-> {"CLOSED", "DISPUTED"},
    CANCELLED          |-> {"CLOSED", "DISPUTED"},
    DISPUTED           |-> {"CLOSED", "PAYMENT_PENDING", "CANCELLED"},
    CLOSED             |-> {} ]

ASSIGNMENT_STATES ==
  {"ACCEPTED", "CONFIRMED", "EN_ROUTE", "ARRIVED", "STARTED", "COMPLETED",
   "CANCELLED_BY_WORKER", "CANCELLED_BY_CUSTOMER", "NO_SHOW", "REMOVED"}

ASSIGNMENT_TRANSITIONS ==
  [ ACCEPTED  |-> {"CONFIRMED", "EN_ROUTE", "CANCELLED_BY_WORKER",
                   "CANCELLED_BY_CUSTOMER", "REMOVED"},
    CONFIRMED |-> {"EN_ROUTE", "CANCELLED_BY_WORKER",
                   "CANCELLED_BY_CUSTOMER", "NO_SHOW", "REMOVED"},
    EN_ROUTE  |-> {"ARRIVED", "CANCELLED_BY_WORKER",
                   "CANCELLED_BY_CUSTOMER", "NO_SHOW", "REMOVED"},
    ARRIVED   |-> {"STARTED", "CANCELLED_BY_WORKER",
                   "CANCELLED_BY_CUSTOMER", "REMOVED"},
    STARTED   |-> {"COMPLETED", "CANCELLED_BY_WORKER",
                   "CANCELLED_BY_CUSTOMER", "REMOVED"},
    COMPLETED |-> {},
    CANCELLED_BY_WORKER   |-> {},
    CANCELLED_BY_CUSTOMER |-> {},
    NO_SHOW   |-> {},
    REMOVED   |-> {} ]

isValidJobTransition(from, to) == to \in JOB_TRANSITIONS[from]
isValidAssignmentTransition(from, to) == to \in ASSIGNMENT_TRANSITIONS[from]

ACTIVE_ASSIGNMENT_STATES ==
  {"ACCEPTED", "CONFIRMED", "EN_ROUTE", "ARRIVED", "STARTED"}

\* jobs.service.ts: the states in which a worker may accept ...
OPEN_STATES == {"POSTED", "MATCHING", "PARTIALLY_FILLED"}

\* (A fault: the table would let a DISPUTED job be cancelled, the code not.)
Fault_cancellableDisputed ==
  {"DRAFT", "PENDING_REVIEW", "POSTED", "MATCHING", "PARTIALLY_FILLED",
   "FILLED", "IN_PROGRESS", "DISPUTED"}

\* ... those in which the customer may cancel the job ...
CANCELLABLE_STATES ==
  {"DRAFT", "PENDING_REVIEW", "POSTED", "MATCHING", "PARTIALLY_FILLED",
   "FILLED", "IN_PROGRESS"}

\* ... and (disputes.service.ts) those in which a party may open a dispute.
DISPUTABLE_JOB_STATES ==
  {"IN_PROGRESS", "COMPLETION_PENDING", "COMPLETED", "PAYMENT_PENDING",
   "PAID", "CANCELLED"}

\* What a worker may ask of an assignment: the four steps of the work
\* (cancelling is the fifth request).
WORK_STEPS == {"EN_ROUTE", "ARRIVED", "STARTED", "COMPLETED"}

RESOLUTIONS == {"RELEASE", "REFUND_FULL", "REFUND_PARTIAL", "OTHER"}
=============================================================================
