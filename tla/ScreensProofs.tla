---------------------------- MODULE ScreensProofs ----------------------------
(***************************************************************************)
(* What people are shown and told of a job (JobScreens, JobNotices), for   *)
(* any number of workers, of places and of requests in flight.             *)
(***************************************************************************)
EXTENDS JobScreens, JobNotices, JobLifecycleProofs

-----------------------------------------------------------------------------
(* What the pages offer *)

\* A job whose text was rejected never opens again: CANCELLED leads only to
\* disputes, and from there only to payment and closing.
RejectedStaysShut ==
  review_status = "REJECTED" =>
    state \in {"CANCELLED", "DISPUTED", "PAYMENT_PENDING", "PAID", "CLOSED"}

ScreensInv == IInv /\ RejectedStaysShut

LEMMA RejectedStep ==
  ASSUME TypeOK, RejectedStaysShut, [Next]_vars
  PROVE  RejectedStaysShut'
<1> USE DEF RejectedStaysShut, transitionJob
<1>1. CASE Posting
  BY <1>1 DEF Posting, createJob, duplicateJob, postDraft, reviewJob, openMatching, NoRow
<1>2. CASE \E w \in Workers : acceptJob(w)
  BY <1>2 DEF acceptJob, OPEN_STATES
<1>3. CASE Requesting
  BY <1>3 DEF Requesting, BeginRequest, travel, start, complete, cancelAssignment, rollback
<1>4. CASE Closing
  BY <1>4 DEF Closing, confirmCompletion, autoConfirmCompletions, closeSettledJobs,
     jobStep, cancelJob, openDispute, resolveDispute, beginRelease, finishRelease,
     CANCELLABLE_STATES
<1>5. CASE UNCHANGED vars
  BY <1>5 DEF vars
<1>6. QED
  BY <1>1, <1>2, <1>3, <1>4, <1>5 DEF Next

\* A rejected text keeps its job shut, whatever is disputed and resolved.
THEOREM ScreensInvariance == Spec => []ScreensInv
<1>1. Init => RejectedStaysShut
  BY DEF Init, RejectedStaysShut
<1>2. IInv /\ RejectedStaysShut /\ [Next]_vars => RejectedStaysShut'
  BY RejectedStep DEF IInv
<1>3. QED
  BY <1>1, <1>2, Invariance, PTL DEF Spec, ScreensInv

\* The worker's button is always the next entry of the server's table.
LEMMA StepIsOffered ==
  ASSUME TypeOK, NEW w \in Workers
  PROVE  /\ Active(w) => workerAction(w) # NoRow
         /\ workerAction(w) # NoRow => servesStep(w, workerAction(w))
<1>1. assignment[w] \in ASSIGNMENT_STATES \cup {NoRow}
  BY DEF TypeOK
<1>2. Active(w) => workerAction(w) # NoRow
  BY <1>1 DEF Active, ACTIVE_ASSIGNMENT_STATES, workerAction, NoRow
<1>3. ASSUME workerAction(w) # NoRow
      PROVE  servesStep(w, workerAction(w))
  <2>1. \/ assignment[w] \in {"ACCEPTED", "CONFIRMED"} /\ workerAction(w) = "EN_ROUTE"
        \/ assignment[w] = "EN_ROUTE" /\ workerAction(w) = "ARRIVED"
        \/ assignment[w] = "ARRIVED" /\ workerAction(w) = "STARTED"
        \/ assignment[w] = "STARTED" /\ workerAction(w) = "COMPLETED"
    BY <1>1, <1>3 DEF workerAction
  <2>2. QED
    BY <2>1 DEF servesStep, isValidAssignmentTransition, ASSIGNMENT_TRANSITIONS
<1>4. QED
  BY <1>2, <1>3

\* A listed job takes whoever has not been on it; one that is announced and
\* not listed takes nobody new, and nobody is on it.
LEMMA ListedTakes ==
  ASSUME ScreensInv, NEW w \in Workers
  PROVE  /\ nearbyJobs \/ mapPins =>
              (assignment[w] = NoRow => canAccept(w) /\ servesAccept(w))
         /\ fanOut /\ ~listed => ~servesAccept(w)
<1> USE DEF ScreensInv, IInv
<1>1. ASSUME listed, assignment[w] = NoRow
      PROVE  canAccept(w) /\ servesAccept(w)
  <2>1. w \notin OnJob
    BY <1>1 DEF OnJob, Active, ACTIVE_ASSIGNMENT_STATES, NoRow
  <2>2. state \in {"MATCHING", "PARTIALLY_FILLED"} => workers_filled < WorkersNeeded
    BY DEF StateTellsStaffing
  <2>3. state = "POSTED" => workers_filled < WorkersNeeded
    BY WorkersNeededPositive DEF StateTellsStaffing
  <2>4. QED
    BY <1>1, <2>1, <2>2, <2>3 DEF listed, canAccept, publicView, servesAccept, OPEN_STATES
<1>2. ASSUME fanOut, ~listed
      PROVE  ~servesAccept(w)
  <2>1. review_status \in {"PENDING_REVIEW", "REJECTED"}
    BY <1>2 DEF fanOut, listed, TypeOK, REVIEW_STATUSES
  <2>2. review_status = "PENDING_REVIEW"
    BY <1>2, <2>1 DEF fanOut, RejectedStaysShut
  <2>3. ~Active(w)
    BY <2>2 DEF NoPlaceBeforeReview, Counted
  <2>4. QED
    BY <2>2, <2>3 DEF servesAccept
<1>3. QED
  BY <1>1, <1>2 DEF nearbyJobs, mapPins

\* Whatever a page offers, to whomever, the server of that moment serves: the
\* pages' own conditions never go beyond the two tables and the guards.
THEOREM Offered == Spec => []OfferedIsServed
<1>1. ScreensInv => OfferedIsServed
  <2> SUFFICES ASSUME ScreensInv PROVE OfferedIsServed
    OBVIOUS
  <2>1. TypeOK /\ DisputedIffOpen
    BY DEF ScreensInv, IInv
  <2>2. ASSUME NEW w \in Workers
        PROVE  /\ offersRating(w) => servesRating(w)
               /\ offersTip(w) => servesTip(w)
               /\ offersMessage(w) \/ offersMessageTo(w) => servesConversation(w)
    BY DEF offersRating, servesRating, offersTip, servesTip, offersMessage, myAssignment,
       offersMessageTo, servesConversation, OnJob, Active, ACTIVE_ASSIGNMENT_STATES, NoRow
  <2>3. offersConfirm => servesConfirm
    BY DEF offersConfirm, servesConfirm
  <2>4. offersReport => servesReport
    BY <2>1 DEF offersReport, servesReport, DISPUTABLE_JOB_STATES, DisputedIffOpen
  <2>5. offersCancel => servesCancel
    BY DEF offersCancel, servesCancel, CANCELLABLE_STATES
  <2>6. servesReview("POSTED") /\ servesReview("CANCELLED")
    BY DEF servesReview, isValidJobTransition, JOB_TRANSITIONS
  <2>7. \A resolution \in RESOLUTIONS : servesResolve(resolution)
    BY DEF servesResolve, isValidJobTransition, JOB_TRANSITIONS
  <2>8. QED
    BY <2>1, <2>2, <2>3, <2>4, <2>5, <2>6, <2>7, StepIsOffered, ListedTakes
       DEF OfferedIsServed
<1>2. QED
  BY <1>1, ScreensInvariance, PTL

-----------------------------------------------------------------------------
(* Who is told *)

\* A request moves a worker who is at the site to the next step of the work,
\* or off the job.
LEMMA AtSiteMoves ==
  ASSUME TypeOK, NEW r \in Requests, transitionAllowed(request[r]), answered(r),
         NEW w \in Workers, assignment[w] \in {"STARTED", "ARRIVED"}
  PROVE  assignment'[w] \in {"STARTED", "ARRIVED", "COMPLETED", "CANCELLED_BY_WORKER"}
<1>1. PICK q \in Request : q = request[r]
  BY RequestMoves
<1>2. assignment' = [assignment EXCEPT ![q.worker] = q.to]
  BY <1>1 DEF answered
<1>3. CASE q.worker # w
  BY <1>2, <1>3 DEF TypeOK
<1>4. CASE q.worker = w
  <2>1. /\ q.seen \in {"STARTED", "ARRIVED"} /\ isValidAssignmentTransition(q.seen, q.to)
        /\ q.to \in WORK_STEPS \cup {"CANCELLED_BY_WORKER"}
    BY <1>1, <1>4 DEF transitionAllowed, Request
  <2>2. q.to \in {"STARTED", "COMPLETED", "CANCELLED_BY_WORKER"}
    BY <2>1 DEF isValidAssignmentTransition, ASSIGNMENT_TRANSITIONS, WORK_STEPS
  <2>3. QED
    BY <1>2, <1>4, <2>2 DEF TypeOK
<1>5. QED
  BY <1>3, <1>4

\* What one step does to the lists of recipients.
LEMMA NoticesStep ==
  ASSUME TypeOK, RejectedStaysShut, [Next]_vars
  PROVE  /\ emitsJobCancelled => ActiveWorkers \subseteq onJobCancelled'
         /\ onJobCancelled \subseteq onJobCancelled'
         /\ onConfirmed \subseteq onConfirmed'
         /\ onDisputeResolved \subseteq onDisputeResolved'
         /\ state \notin CANCELLABLE_STATES =>
              \A w \in onDisputeOpened :
                w \in onDisputeOpened' \/ assignment'[w] = "CANCELLED_BY_WORKER"
<1>1. ASSUME NEW w \in Workers, NEW s \in {"COMPLETED", "CANCELLED_BY_CUSTOMER"},
             assignment[w] = s
      PROVE  assignment'[w] = s
  BY <1>1, EndedStep DEF ACTIVE_ASSIGNMENT_STATES, NoRow
<1>2. /\ onJobCancelled \subseteq onJobCancelled'
      /\ onConfirmed \subseteq onConfirmed'
      /\ onDisputeResolved \subseteq onDisputeResolved'
  BY <1>1 DEF onJobCancelled, onConfirmed, onDisputeResolved, workerIds
<1>3. ASSUME emitsJobCancelled PROVE ActiveWorkers \subseteq onJobCancelled'
  <2>1. cancelJob
    <3>1. CASE Posting
      BY <1>3, <3>1 DEF emitsJobCancelled, Posting, createJob, duplicateJob, postDraft,
         reviewJob, openMatching, transitionJob, RejectedStaysShut
    <3>2. CASE \E w \in Workers : acceptJob(w)
      BY <1>3, <3>2 DEF emitsJobCancelled, acceptJob, transitionJob
    <3>3. CASE Requesting
      BY <1>3, <3>3 DEF emitsJobCancelled, Requesting, BeginRequest, travel, start,
         complete, cancelAssignment, rollback, transitionJob
    <3>4. CASE Closing
      BY <1>3, <3>4 DEF emitsJobCancelled, Closing, confirmCompletion,
         autoConfirmCompletions, closeSettledJobs, jobStep, openDispute,
         resolveDispute, beginRelease, finishRelease, transitionJob
    <3>5. CASE UNCHANGED vars
      BY <1>3, <3>5 DEF emitsJobCancelled, vars
    <3>6. QED
      BY <3>1, <3>2, <3>3, <3>4, <3>5 DEF Next
  <2>2. \A w \in ActiveWorkers : assignment'[w] = "CANCELLED_BY_CUSTOMER"
    BY <2>1 DEF cancelJob, ActiveWorkers
  <2>3. QED
    BY <2>2 DEF onJobCancelled, workerIds, ActiveWorkers
<1>4. ASSUME state \notin CANCELLABLE_STATES, NEW w \in onDisputeOpened
      PROVE  w \in onDisputeOpened' \/ assignment'[w] = "CANCELLED_BY_WORKER"
  <2>1. w \in Workers /\ assignment[w] \in {"COMPLETED", "STARTED", "ARRIVED"}
    BY <1>4 DEF onDisputeOpened, workerIds
  <2>2. SUFFICES assignment'[w] \in
                   {"COMPLETED", "STARTED", "ARRIVED", "CANCELLED_BY_WORKER"}
    BY <2>1 DEF onDisputeOpened, workerIds
  <2>3. CASE assignment[w] = "COMPLETED"
    BY <1>1, <2>1, <2>3
  <2>4. CASE assignment[w] \in {"STARTED", "ARRIVED"}
    <3>1. CASE \E v \in Workers : acceptJob(v)
      BY <2>1, <2>4, <3>1 DEF acceptJob, TypeOK, NoRow
    <3>2. CASE \E r \in Requests :
                 travel(r) \/ start(r) \/ complete(r) \/ cancelAssignment(r)
      BY <2>1, <2>4, <3>2, AtSiteMoves DEF travel, start, complete, cancelAssignment
    <3>3. CASE cancelJob
      BY <1>4, <3>3 DEF cancelJob
    <3>4. CASE RowsUntouched
      BY <2>1, <3>4 DEF RowsUntouched
    <3>5. QED
      BY <3>1, <3>2, <3>3, <3>4, KindsOfSteps
  <2>5. QED
    BY <2>1, <2>3, <2>4
<1>5. QED
  BY <1>2, <1>3, <1>4

\* However long after the commit the listener reads the rows, nobody it was
\* meant for has dropped from its list.
THEOREM Notices == Spec => LateNoticesReach
<1>1. ScreensInv /\ [Next]_vars =>
        [/\ emitsJobCancelled => ActiveWorkers \subseteq onJobCancelled'
         /\ onJobCancelled \subseteq onJobCancelled'
         /\ onConfirmed \subseteq onConfirmed'
         /\ onDisputeResolved \subseteq onDisputeResolved'
         /\ state \notin CANCELLABLE_STATES =>
              \A w \in onDisputeOpened :
                w \in onDisputeOpened' \/ assignment'[w] = "CANCELLED_BY_WORKER"]_vars
  BY NoticesStep DEF ScreensInv, IInv
<1>2. QED
  BY <1>1, ScreensInvariance, PTL DEF Spec, LateNoticesReach
=============================================================================
