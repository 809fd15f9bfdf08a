----------------------------- MODULE JobScreens -----------------------------
(***************************************************************************)
(* What people see of a job, and the buttons they are shown: the job page  *)
(* of the mobile app, the review queue and the dispute page of the admin   *)
(* site, and the three ways a worker comes upon a job (the list of jobs    *)
(* nearby, the map, the notice of the matching fan-out).                   *)
(*                                                                         *)
(* A page decides from the data it has loaded which buttons to show; the   *)
(* server decides again when one is pressed.  Both decisions are operators *)
(* of the job's state (JobLifecycle), each from its own source: the pages  *)
(* hold no copy of the server's tables.  Data older than the job's state   *)
(* are refused by the server, and are not the matter here.                 *)
(***************************************************************************)
EXTENDS JobLifecycle

-----------------------------------------------------------------------------
(* What the server answers to GET /jobs/:id (getJobForViewer) *)

\* "my_assignment" is part of the answer only for these workers ...
myAssignment(w) == w \in OnJob

\* ... and others are told of the job only while it is open: the public view
\* (without the address) is also that of a worker who has left the job.
publicView(w) == w \notin OnJob /\ state \in OPEN_STATES

-----------------------------------------------------------------------------
(* A fault: the page as a slip would have written it *)

\* The worker's page offers to start from afar.
Fault_startFromAfar(w) ==
  CASE assignment[w] \in {"ACCEPTED", "CONFIRMED"} -> "EN_ROUTE"
    [] assignment[w] = "EN_ROUTE" -> "STARTED"
    [] assignment[w] = "ARRIVED" -> "STARTED"
    [] assignment[w] = "STARTED" -> "COMPLETED"
    [] OTHER -> NoRow

-----------------------------------------------------------------------------
(* The job page: app/job/[id].tsx *)

\* The step the worker is offered, if any.
workerAction(w) ==
  CASE assignment[w] \in {"ACCEPTED", "CONFIRMED"} -> "EN_ROUTE"
    [] assignment[w] = "EN_ROUTE" -> "ARRIVED"
    [] assignment[w] = "ARRIVED" -> "STARTED"
    [] assignment[w] = "STARTED" -> "COMPLETED"
    [] OTHER -> NoRow

canAccept(w) ==
  publicView(w) /\ state \in {"POSTED", "MATCHING", "PARTIALLY_FILLED"}

offersConfirm == state = "COMPLETION_PENDING"
offersReport == state = "COMPLETION_PENDING"
offersCancel == state \in {"POSTED", "MATCHING", "PARTIALLY_FILLED", "FILLED"}

\* Of the workers who completed the page shows the first; which one that is
\* is left open.
offersRating(w) ==
  state \in {"COMPLETED", "PAYMENT_PENDING", "PAID"} /\ assignment[w] = "COMPLETED"
offersTip(w) ==
  /\ state \in {"COMPLETED", "PAYMENT_PENDING", "PAID", "CLOSED"}
  /\ assignment[w] = "COMPLETED"

\* "Message customer", and "Message worker" for the first of the assignments.
offersMessage(w) == myAssignment(w)
offersMessageTo(w) == assignment[w] # NoRow

\* The admin site: the queue of jobs to review, and the page of a dispute.
reviewQueue == state = "PENDING_REVIEW"
offersResolve == dispute = "OPEN"

-----------------------------------------------------------------------------
(* Where a worker comes upon the job *)

listed == state \in {"POSTED", "MATCHING", "PARTIALLY_FILLED"}
          /\ review_status \in {"NONE", "APPROVED"}

nearbyJobs == listed
mapPins == listed

\* The fan-out to the candidates: it looks at the state, not at the review.
fanOut == state \in {"POSTED", "MATCHING", "PARTIALLY_FILLED"}

-----------------------------------------------------------------------------
(* What the server does with a press *)

servesAccept(w) ==
  \/ Active(w)
  \/ /\ assignment[w] = NoRow
     /\ state \in OPEN_STATES
     /\ review_status # "PENDING_REVIEW"
     /\ workers_filled < WorkersNeeded

servesStep(w, to) == isValidAssignmentTransition(assignment[w], to)

servesConfirm == state = "COMPLETION_PENDING"
servesReport == state \in DISPUTABLE_JOB_STATES /\ dispute # "OPEN"
servesCancel == state \in CANCELLABLE_STATES
servesRating(w) ==
  /\ assignment[w] = "COMPLETED"
  /\ state \in {"COMPLETED", "PAYMENT_PENDING", "PAID", "CLOSED"}
servesTip(w) ==
  /\ state \in {"COMPLETED", "PAYMENT_PENDING", "PAID", "CLOSED"}
  /\ assignment[w] = "COMPLETED"
servesConversation(w) == assignment[w] # NoRow
servesReview(to) == isValidJobTransition("PENDING_REVIEW", to)
servesResolve(resolution) ==
  state = "DISPUTED" =>
    isValidJobTransition(state, IF resolution = "RELEASE"
                                  THEN "PAYMENT_PENDING" ELSE "CLOSED")

-----------------------------------------------------------------------------
(* What must hold *)

\* A worker at work always has a button for the next step of the work, and the
\* server takes it; so it does every button of the customer and of the admins;
\* and a job that is listed or on the map has a free place for every worker who
\* has not been on it, which its page offers.  Left out is what the code shows
\* in vain: "Accept" to a worker who had left the job, and "Rate this customer"
\* before the job is confirmed.  The fan-out promises nothing: a draft that
\* asked for review when it was saved, and no longer does when it is posted,
\* is told of and shown, but never listed nor given.
OfferedIsServed ==
  /\ \A w \in Workers :
       /\ Active(w) => workerAction(w) # NoRow
       /\ workerAction(w) # NoRow => servesStep(w, workerAction(w))
       /\ offersRating(w) => servesRating(w)
       /\ offersTip(w) => servesTip(w)
       /\ offersMessage(w) \/ offersMessageTo(w) => servesConversation(w)
       /\ nearbyJobs \/ mapPins =>
            (assignment[w] = NoRow => canAccept(w) /\ servesAccept(w))
       /\ fanOut /\ ~listed => ~servesAccept(w)
  /\ offersConfirm => servesConfirm
  /\ offersReport => servesReport
  /\ offersCancel => servesCancel
  /\ reviewQueue => servesReview("POSTED") /\ servesReview("CANCELLED")
  /\ offersResolve => \A resolution \in RESOLUTIONS : servesResolve(resolution)
=============================================================================
