---------------------------- MODULE JobLifecycle ----------------------------
(***************************************************************************)
(* One job of the marketplace: its row in "jobs", the rows of its workers  *)
(* in "job_workers", its dispute, and the requests of its workers that are *)
(* in flight.  Jobs do not interact: every handler locks one job row.      *)
(*                                                                         *)
(* Each handler runs in one READ COMMITTED transaction.  A handler that    *)
(* locks the job before it reads anything is one action.  The two that     *)
(* read the assignment first and lock the job afterwards                   *)
(* (assignmentTransition and cancelAssignment) are two actions, because    *)
(* any other handler may commit in between: BeginRequest takes the read,   *)
(* and the rest works from that read.                                      *)
(*                                                                         *)
(* Left out: text, places, times and amounts (so eligibility, blocks and   *)
(* the ownership checks are refusals that change nothing), and the log of  *)
(* job_events.  A refused or crashed transaction is rolled back.           *)
(***************************************************************************)
EXTENDS Naturals, FiniteSets, JobStates

CONSTANTS
  Workers,        \* the workers who may ask for a place
  WorkersNeeded,  \* jobs.workers_needed
  Requests        \* slots for requests in flight (open transactions)

ASSUME WorkersFinite == IsFiniteSet(Workers)
ASSUME WorkersNeededPositive == WorkersNeeded \in Nat \ {0}

VARIABLES
  state,           \* jobs.state, or NoRow before the job exists
  review_status,   \* jobs.review_status
  workers_filled,  \* jobs.workers_filled
  assignment,      \* job_workers.state of each worker, or NoRow
  jobs_cancelled,  \* worker_profiles.jobs_cancelled
  dispute,         \* disputes.status of the latest dispute, or NoRow
  request          \* what each request in flight read, or NoRequest

vars == <<state, review_status, workers_filled, assignment, jobs_cancelled,
          dispute, request>>

NoRow == "NONE"

REVIEW_STATUSES == {"NONE", "PENDING_REVIEW", "APPROVED", "REJECTED"}

\* A worker's request: the state it asks for, and the state it read.
Request == [worker : Workers,
            to     : WORK_STEPS \cup {"CANCELLED_BY_WORKER"},
            seen   : ASSIGNMENT_STATES]

NoRequest == [worker |-> NoRow, to |-> NoRow, seen |-> NoRow]

TypeOK ==
  /\ state \in JOB_STATES \cup {NoRow}
  /\ review_status \in REVIEW_STATUSES
  /\ workers_filled \in Nat
  /\ assignment \in [Workers -> ASSIGNMENT_STATES \cup {NoRow}]
  /\ jobs_cancelled \in [Workers -> Nat]
  /\ dispute \in {NoRow, "OPEN", "RESOLVED"}
  /\ request \in [Requests -> Request \cup {NoRequest}]

Active(w) == assignment[w] \in ACTIVE_ASSIGNMENT_STATES

\* The workers who still work on the job, and those who did.
ActiveWorkers == {w \in Workers : Active(w)}
CompletedWorkers == {w \in Workers : assignment[w] = "COMPLETED"}

Init ==
  /\ state = NoRow
  /\ review_status = "NONE"
  /\ workers_filled = 0
  /\ assignment = [w \in Workers |-> NoRow]
  /\ jobs_cancelled = [w \in Workers |-> 0]
  /\ dispute = NoRow
  /\ request = [r \in Requests |-> NoRequest]

-----------------------------------------------------------------------------
(* job-state-machine.ts *)

\* transitionJob: refused unless the table has the edge.  Every caller takes
\* "from" from the row it has locked, or from its own earlier transition.
transitionJob(from, to) ==
  /\ isValidJobTransition(from, to)
  /\ state' = to

\* A transaction that only moves the job.
jobStep(from, to) ==
  /\ state = from
  /\ transitionJob(from, to)
  /\ UNCHANGED <<review_status, workers_filled, assignment, jobs_cancelled,
                 dispute, request>>

\* (A fault, see below: the row is not compared with what was read.)
Fault_RowNotCompared(q) ==
  /\ q # NoRequest
  /\ q.seen # q.to
  /\ isValidAssignmentTransition(q.seen, q.to)

\* transitionAssignment from what the request read to what it asks for:
\* the table must have the edge, and UPDATE ... WHERE state = $3 must find
\* the row as it was read.
transitionAllowed(q) ==
  /\ q # NoRequest
  /\ q.seen # q.to
  /\ isValidAssignmentTransition(q.seen, q.to)
  /\ assignment[q.worker] = q.seen

\* The request is answered: its row moves as asked, its slot is free again.
answered(r) ==
  /\ assignment' = [assignment EXCEPT ![request[r].worker] = request[r].to]
  /\ request' = [request EXCEPT ![r] = NoRequest]

-----------------------------------------------------------------------------
(***************************************************************************)
(* Faults: definitions of this module as a plausible slip would have       *)
(* written them.  They are used nowhere but to see that the properties     *)
(* below notice them.                                                      *)
(***************************************************************************)
Fault_acceptUnreviewed(w) ==
  /\ state \in OPEN_STATES
  /\ assignment[w] = NoRow
  /\ workers_filled < WorkersNeeded
  /\ assignment' = [assignment EXCEPT ![w] = "ACCEPTED"]
  /\ workers_filled' = workers_filled + 1
  /\ state' = IF workers_filled + 1 = WorkersNeeded THEN "FILLED" ELSE "PARTIALLY_FILLED"
  /\ UNCHANGED <<review_status, jobs_cancelled, dispute, request>>

Fault_acceptAgain(w) ==
  /\ state \in OPEN_STATES
  /\ ~Active(w)
  /\ workers_filled < WorkersNeeded
  /\ assignment' = [assignment EXCEPT ![w] = "ACCEPTED"]
  /\ workers_filled' = workers_filled + 1
  /\ state' = IF workers_filled + 1 = WorkersNeeded THEN "FILLED" ELSE "PARTIALLY_FILLED"
  /\ UNCHANGED <<review_status, jobs_cancelled, dispute, request>>

Fault_completeFirst(r) ==
  /\ request[r].to = "COMPLETED"
  /\ transitionAllowed(request[r])
  /\ answered(r)
  /\ state' = IF state = "IN_PROGRESS" THEN "COMPLETION_PENDING" ELSE state
  /\ UNCHANGED <<review_status, workers_filled, jobs_cancelled, dispute>>

Fault_cancelEveryRow ==
  /\ state \in CANCELLABLE_STATES
  /\ assignment' = [w \in Workers |->
                      IF assignment[w] = NoRow THEN NoRow
                                               ELSE "CANCELLED_BY_CUSTOMER"]
  /\ state' = "CANCELLED"
  /\ UNCHANGED <<review_status, workers_filled, jobs_cancelled, dispute, request>>

Fault_confirmFullCrewOnly ==
  workers_filled = WorkersNeeded /\ jobStep("COMPLETION_PENDING", "COMPLETED")

Fault_closeUndisputedOnly == dispute = NoRow /\ jobStep("PAID", "CLOSED")

-----------------------------------------------------------------------------
(* Creating, posting and reviewing the job *)

\* Posting (X -> POSTED) opens matching in the same transaction, so POSTED
\* itself is never committed.
openMatching(from) ==
  /\ from # NoRow => isValidJobTransition(from, "POSTED")
  /\ transitionJob("POSTED", "MATCHING")

\* needsReview: the screening of the text found a term that asks for review.
\* A draft keeps the flag too.
createJob(asDraft, needsReview) ==
  /\ state = NoRow
  /\ review_status' = IF needsReview THEN "PENDING_REVIEW" ELSE "NONE"
  /\ \/ asDraft /\ state' = "DRAFT"
     \/ ~asDraft /\ needsReview /\ state' = "PENDING_REVIEW"
     \/ ~asDraft /\ ~needsReview /\ openMatching(NoRow)
  /\ UNCHANGED <<workers_filled, assignment, jobs_cancelled, dispute, request>>

\* A copy of another job is a draft whose review starts over.
duplicateJob ==
  /\ state = NoRow
  /\ state' = "DRAFT"
  /\ UNCHANGED <<review_status, workers_filled, assignment, jobs_cancelled,
                 dispute, request>>

\* The text is screened again, against the terms of that moment.  The job is
\* read without a lock, but the update takes effect only in state DRAFT.
postDraft(needsReview) ==
  /\ state = "DRAFT"
  /\ IF needsReview
       THEN transitionJob("DRAFT", "PENDING_REVIEW") /\ review_status' = "PENDING_REVIEW"
       ELSE openMatching("DRAFT") /\ UNCHANGED review_status
  /\ UNCHANGED <<workers_filled, assignment, jobs_cancelled, dispute, request>>

reviewJob(approve) ==
  /\ state = "PENDING_REVIEW"
  /\ IF approve
       THEN openMatching("PENDING_REVIEW") /\ review_status' = "APPROVED"
       ELSE transitionJob("PENDING_REVIEW", "CANCELLED") /\ review_status' = "REJECTED"
  /\ UNCHANGED <<workers_filled, assignment, jobs_cancelled, dispute, request>>

-----------------------------------------------------------------------------
(* Accepting a place: the job is locked before anything is read *)

\* A worker with an active row is answered with that row, and nothing
\* changes; a worker with any other row is refused.
acceptJob(w) ==
  /\ state \in OPEN_STATES
  /\ assignment[w] = NoRow
  /\ review_status # "PENDING_REVIEW"
  /\ workers_filled < WorkersNeeded
  /\ assignment' = [assignment EXCEPT ![w] = "ACCEPTED"]
  /\ workers_filled' = workers_filled + 1
  /\ LET from == IF state = "POSTED" THEN "MATCHING" ELSE state
         next == IF workers_filled + 1 >= WorkersNeeded THEN "FILLED"
                                                        ELSE "PARTIALLY_FILLED"
     IN  IF from = next THEN UNCHANGED state ELSE transitionJob(from, next)
  /\ UNCHANGED <<review_status, jobs_cancelled, dispute, request>>

-----------------------------------------------------------------------------
(* Requests on an assignment: read it, then lock the job and work from it *)

BeginRequest(r, w, to) ==
  /\ request[r] = NoRequest
  /\ assignment[w] # NoRow
  /\ request' = [request EXCEPT ![r] =
                   [worker |-> w, to |-> to, seen |-> assignment[w]]]
  /\ UNCHANGED <<state, review_status, workers_filled, assignment,
                 jobs_cancelled, dispute>>

\* assignmentTransition to EN_ROUTE or ARRIVED.  No handler of this group
\* looks at the job's state before it moves the assignment.
travel(r) ==
  /\ request[r].to \in {"EN_ROUTE", "ARRIVED"}
  /\ transitionAllowed(request[r])
  /\ answered(r)
  /\ UNCHANGED <<state, review_status, workers_filled, jobs_cancelled, dispute>>

\* assignmentTransition to STARTED: the first start begins the job.
start(r) ==
  /\ request[r].to = "STARTED"
  /\ transitionAllowed(request[r])
  /\ answered(r)
  /\ IF state \in {"FILLED", "PARTIALLY_FILLED"}
       THEN transitionJob(state, "IN_PROGRESS")
       ELSE UNCHANGED state
  /\ UNCHANGED <<review_status, workers_filled, jobs_cancelled, dispute>>

\* assignmentTransition to COMPLETED: the last one to complete a job in
\* progress asks the customer to confirm.
complete(r) ==
  /\ request[r].to = "COMPLETED"
  /\ transitionAllowed(request[r])
  /\ answered(r)
  /\ IF state = "IN_PROGRESS" /\ ActiveWorkers \subseteq {request[r].worker}
       THEN transitionJob(state, "COMPLETION_PENDING")
       ELSE UNCHANGED state
  /\ UNCHANGED <<review_status, workers_filled, jobs_cancelled, dispute>>

\* cancelAssignment: gives the place back; a job that has not started is
\* opened for matching again.
cancelAssignment(r) ==
  /\ request[r].to = "CANCELLED_BY_WORKER"
  /\ request[r].seen \in ACTIVE_ASSIGNMENT_STATES
  /\ transitionAllowed(request[r])
  /\ answered(r)
  /\ workers_filled' = workers_filled - 1
  /\ jobs_cancelled' = [jobs_cancelled EXCEPT ![request[r].worker] = @ + 1]
  /\ IF state \in {"FILLED", "PARTIALLY_FILLED"}
       THEN transitionJob(state, "MATCHING")
       ELSE UNCHANGED state
  /\ UNCHANGED <<review_status, dispute>>

\* A repeated request (its row is already as asked), a refused one, one that
\* lost the race for the row, and one whose server died: nothing is kept.
rollback(r) ==
  /\ request[r] # NoRequest
  /\ request' = [request EXCEPT ![r] = NoRequest]
  /\ UNCHANGED <<state, review_status, workers_filled, assignment,
                 jobs_cancelled, dispute>>

-----------------------------------------------------------------------------
(* The customer, the two crons, disputes *)

\* workers_filled is left as it is.
cancelJob ==
  /\ state \in CANCELLABLE_STATES
  /\ assignment' = [w \in Workers |->
                      IF Active(w) THEN "CANCELLED_BY_CUSTOMER"
                                   ELSE assignment[w]]
  /\ transitionJob(state, "CANCELLED")
  /\ UNCHANGED <<review_status, workers_filled, jobs_cancelled, dispute, request>>

confirmCompletion == jobStep("COMPLETION_PENDING", "COMPLETED")

\* Every 10 minutes, for a job whose customer has not answered for long
\* enough; the state is checked again under the lock.
autoConfirmCompletions == jobStep("COMPLETION_PENDING", "COMPLETED")

\* Every hour, for a job that has been PAID for a day.
closeSettledJobs == jobStep("PAID", "CLOSED")

openDispute ==
  /\ state \in DISPUTABLE_JOB_STATES
  /\ dispute # "OPEN"
  /\ dispute' = "OPEN"
  /\ transitionJob(state, "DISPUTED")
  /\ UNCHANGED <<review_status, workers_filled, assignment, jobs_cancelled, request>>

resolveDispute(resolution) ==
  /\ dispute = "OPEN"
  /\ dispute' = "RESOLVED"
  /\ IF state = "DISPUTED"
       THEN transitionJob(state, IF resolution = "RELEASE"
                                   THEN "PAYMENT_PENDING" ELSE "CLOSED")
       ELSE UNCHANGED state
  /\ UNCHANGED <<review_status, workers_filled, assignment, jobs_cancelled, request>>

\* The two transactions of payments.service.ts releasePayouts that move the
\* job.  Whether the ledger allows them is not modelled here: either may
\* happen or not.
beginRelease == jobStep("COMPLETED", "PAYMENT_PENDING")
finishRelease == jobStep("PAYMENT_PENDING", "PAID")

-----------------------------------------------------------------------------
Posting ==
  \/ \E asDraft, needsReview \in BOOLEAN : createJob(asDraft, needsReview)
  \/ duplicateJob
  \/ \E needsReview \in BOOLEAN : postDraft(needsReview)
  \/ \E approve \in BOOLEAN : reviewJob(approve)

Requesting ==
  \E r \in Requests :
    \/ \E w \in Workers, to \in WORK_STEPS \cup {"CANCELLED_BY_WORKER"} :
         BeginRequest(r, w, to)
    \/ travel(r) \/ start(r) \/ complete(r) \/ cancelAssignment(r)
    \/ rollback(r)

Closing ==
  \/ confirmCompletion \/ autoConfirmCompletions \/ closeSettledJobs
  \/ cancelJob
  \/ openDispute
  \/ \E resolution \in RESOLUTIONS : resolveDispute(resolution)
  \/ beginRelease \/ finishRelease

Next ==
  \/ Posting
  \/ \E w \in Workers : acceptJob(w)
  \/ Requesting
  \/ Closing

\* The crons run forever; people need not do anything.
Fairness == WF_vars(autoConfirmCompletions) /\ WF_vars(closeSettledJobs)

Spec == Init /\ [][Next]_vars
FairSpec == Spec /\ Fairness

-----------------------------------------------------------------------------
(* What must hold *)

\* Who takes up a place: the active, the completed, and those whose place was
\* still counted when the customer cancelled the job.
OnJob == {w \in Workers : Active(w) \/ assignment[w] = "COMPLETED"}
Counted ==
  {w \in Workers : Active(w) \/ assignment[w] \in
                               {"COMPLETED", "CANCELLED_BY_CUSTOMER"}}

\* jobs.workers_filled, which acceptances and cancellations keep by adding and
\* subtracting one, is the number of places taken up, whatever requests were
\* repeated or raced; and no job has more workers than it asked for.
SlotsAccounted ==
  /\ workers_filled = Cardinality(Counted)
  /\ workers_filled <= WorkersNeeded

\* The state of the job tells how it is staffed: only a FILLED one has no free
\* place, an open one always has, and one that waits for or has the customer's
\* confirmation has nobody left at work and somebody's work to pay.
StateTellsStaffing ==
  /\ state \in {NoRow, "DRAFT", "PENDING_REVIEW", "POSTED"} =>
       workers_filled = 0
  /\ state \in {"MATCHING", "PARTIALLY_FILLED"} => workers_filled < WorkersNeeded
  /\ state = "PARTIALLY_FILLED" => workers_filled > 0
  /\ state = "FILLED" => workers_filled = WorkersNeeded
  /\ state \in {"COMPLETION_PENDING", "COMPLETED"} =>
       ActiveWorkers = {} /\ CompletedWorkers # {}

\* A job is DISPUTED exactly as long as it has an open dispute: no handler
\* takes it out of DISPUTED but the resolution, and a dispute never stays open
\* on a job that moved on.
DisputedIffOpen == state = "DISPUTED" <=> dispute = "OPEN"

\* Nobody holds a place on a job whose text waits for review.
NoPlaceBeforeReview == review_status = "PENDING_REVIEW" => Counted = {}

\* A worker who leaves a job is charged with one cancellation, however often
\* the request was sent and in whatever order the copies were served.
CancelledOnce ==
  \A w \in Workers :
    jobs_cancelled[w] = IF assignment[w] = "CANCELLED_BY_WORKER" THEN 1 ELSE 0

\* What a worker has finished or left stays so: a request that read an earlier
\* state of the row never brings it back, and no cancellation of the job
\* touches it.
EndedStaysEnded ==
  [][\A w \in Workers :
       assignment[w] \notin ACTIVE_ASSIGNMENT_STATES \cup {NoRow}
         => assignment'[w] = assignment[w]]_vars

\* The customer's silence holds nothing up: a job that waits for confirmation
\* is confirmed by the cron, unless someone disputes it.
CompletionAnswered ==
  state = "COMPLETION_PENDING" ~> state \in {"COMPLETED", "DISPUTED"}

\* A paid job is closed by the cron, unless someone disputes it.
PaidIsClosed == state = "PAID" ~> state \in {"CLOSED", "DISPUTED"}

\* The job as its people see it, each request taken as one indivisible step.
Phase ==
  CASE state \in {NoRow, "DRAFT", "PENDING_REVIEW"} -> "Unlisted"
    [] state \in {"POSTED", "MATCHING", "PARTIALLY_FILLED", "FILLED"} -> "Staffing"
    [] state = "IN_PROGRESS" -> "Working"
    [] state = "COMPLETION_PENDING" -> "Confirming"
    [] state \in {"COMPLETED", "PAYMENT_PENDING", "PAID", "DISPUTED"} -> "Settling"
    [] state = "CANCELLED" -> "CalledOff"
    [] state = "CLOSED" -> "Over"

Gone ==
  {w \in Workers :
     assignment[w] \in {"CANCELLED_BY_WORKER", "CANCELLED_BY_CUSTOMER"}}

Contract == INSTANCE GigContract WITH
  phase <- Phase, crew <- OnJob, finished <- CompletedWorkers, gone <- Gone

\* Requests that read early and commit late are still indivisible to those
\* concerned: places are bounded and taken once, work is handed over when the
\* last one finishes (GigContract).
ContractKept == Contract!Spec

\* Doc: "the job state aggregates assignments" (job-states.ts): while somebody
\* has started working, the job is not one that still waits to start.
StartedJobIsInProgress ==
  (\E w \in Workers : assignment[w] = "STARTED") =>
    state \notin {"MATCHING", "PARTIALLY_FILLED", "FILLED"}

\* Doc: "the job's aggregate state reflects the set" (USER_FLOWS.md): a job in
\* progress has somebody at work, and asks for confirmation once the workers
\* who remain on it have completed.
ProgressHasWorker ==
  state = "IN_PROGRESS" /\ CompletedWorkers # {} => ActiveWorkers # {}
=============================================================================
