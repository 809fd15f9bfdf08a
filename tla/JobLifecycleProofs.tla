------------------------- MODULE JobLifecycleProofs -------------------------
(***************************************************************************)
(* What holds of JobLifecycle for any set of workers, any number of places *)
(* and any number of requests in flight.                                   *)
(***************************************************************************)
EXTENDS JobLifecycle, FiniteSetTheorems, TLAPS

-----------------------------------------------------------------------------
(* The tables *)

\* Only an active assignment has a successor in ASSIGNMENT_TRANSITIONS, so a
\* request that is let through had read an active assignment.
LEMMA OnlyActiveMoves ==
  ASSUME NEW from \in ASSIGNMENT_STATES, NEW to,
         isValidAssignmentTransition(from, to)
  PROVE  from \in ACTIVE_ASSIGNMENT_STATES
BY DEF isValidAssignmentTransition, ASSIGNMENT_STATES, ASSIGNMENT_TRANSITIONS,
       ACTIVE_ASSIGNMENT_STATES

\* A request that is let through moves one active assignment, of a worker, to
\* the state it asked for, and frees its slot.
LEMMA RequestMoves ==
  ASSUME TypeOK, NEW r \in Requests, transitionAllowed(request[r]), answered(r)
  PROVE  /\ request[r] \in Request
         /\ Active(request[r].worker)
         /\ assignment' = [assignment EXCEPT ![request[r].worker] = request[r].to]
         /\ request' \in [Requests -> Request \cup {NoRequest}]
<1>1. request[r] \in Request
  BY DEF TypeOK, transitionAllowed
<1>2. request[r].seen \in ACTIVE_ASSIGNMENT_STATES
  BY <1>1, OnlyActiveMoves DEF Request, transitionAllowed
<1>3. QED
  BY <1>1, <1>2 DEF Active, transitionAllowed, answered, TypeOK

-----------------------------------------------------------------------------
(* Types *)

\* Every variable keeps its type through every handler: the handlers write no
\* state outside the enums of the schema, and workers_filled stays a natural
\* number (the CHECK of 0005_jobs.sql) because it counts the places taken.
LEMMA TypeStep ==
  ASSUME TypeOK, workers_filled = Cardinality(Counted), [Next]_vars
  PROVE  TypeOK'
<1> USE DEF TypeOK
<1>1. CASE Posting
  BY <1>1 DEF Posting, createJob, duplicateJob, postDraft, reviewJob,
       openMatching, transitionJob, JOB_STATES, REVIEW_STATUSES, NoRow
<1>2. CASE \E w \in Workers : acceptJob(w)
  BY <1>2 DEF acceptJob, transitionJob, JOB_STATES, ASSIGNMENT_STATES
<1>3. CASE Requesting
  <2>1. PICK r \in Requests :
          \/ \E w \in Workers, to \in WORK_STEPS \cup {"CANCELLED_BY_WORKER"} :
               BeginRequest(r, w, to)
          \/ travel(r) \/ start(r) \/ complete(r) \/ cancelAssignment(r)
          \/ rollback(r)
    BY <1>3 DEF Requesting
  <2>2. CASE \E w \in Workers, to \in WORK_STEPS \cup {"CANCELLED_BY_WORKER"} :
               BeginRequest(r, w, to)
    BY <2>2 DEF BeginRequest, Request
  <2>3. CASE travel(r) \/ start(r) \/ complete(r)
    <3>1. transitionAllowed(request[r]) /\ answered(r)
      BY <2>3 DEF travel, start, complete
    <3>2. state' \in JOB_STATES \cup {NoRow}
      BY <2>3 DEF travel, start, complete, transitionJob, JOB_STATES
    <3>3. request[r].to \in ASSIGNMENT_STATES
      BY <2>3 DEF travel, start, complete, ASSIGNMENT_STATES
    <3>4. QED
      BY <2>3, <3>1, <3>2, <3>3, RequestMoves DEF travel, start, complete, Request
  <2>4. CASE cancelAssignment(r)
    <3>1. /\ Active(request[r].worker) /\ request[r].worker \in Workers
          /\ request' \in [Requests -> Request \cup {NoRequest}]
      BY <2>4, RequestMoves DEF cancelAssignment, Request
    <3>2. workers_filled - 1 \in Nat
      <4>1. Counted # {} /\ IsFiniteSet(Counted)
        BY <3>1, WorkersFinite, FS_Subset DEF Counted
      <4>2. QED
        BY <4>1, FS_EmptySet, FS_CardinalityType
    <3>3. state' \in JOB_STATES \cup {NoRow}
      BY <2>4 DEF cancelAssignment, transitionJob, JOB_STATES
    <3>4. jobs_cancelled' \in [Workers -> Nat]
      BY <2>4, <3>1 DEF cancelAssignment
    <3>5. assignment' \in [Workers -> ASSIGNMENT_STATES \cup {NoRow}]
      BY <2>4 DEF cancelAssignment, answered, ASSIGNMENT_STATES
    <3>6. QED
      BY <2>4, <3>1, <3>2, <3>3, <3>4, <3>5 DEF cancelAssignment
  <2>5. CASE rollback(r)
    BY <2>5 DEF rollback
  <2>6. QED
    BY <2>1, <2>2, <2>3, <2>4, <2>5
<1>4. CASE Closing
  <2>1. CASE cancelJob
    BY <2>1 DEF cancelJob, transitionJob, JOB_STATES, ASSIGNMENT_STATES
  <2>2. CASE openDispute \/ \E resolution \in RESOLUTIONS : resolveDispute(resolution)
    BY <2>2 DEF openDispute, resolveDispute, transitionJob, JOB_STATES
  <2>3. CASE \E from, to \in JOB_STATES : jobStep(from, to)
    BY <2>3 DEF jobStep, transitionJob
  <2>4. QED
    BY <1>4, <2>1, <2>2, <2>3 DEF Closing, confirmCompletion,
         autoConfirmCompletions, closeSettledJobs, beginRelease, finishRelease,
         JOB_STATES
<1>5. CASE UNCHANGED vars
  BY <1>5 DEF vars
<1>6. QED
  BY <1>1, <1>2, <1>3, <1>4, <1>5 DEF Next

-----------------------------------------------------------------------------
(* Slots *)

LEMMA SomeWorkersFinite ==
  \A S \in SUBSET Workers : IsFiniteSet(S) /\ Cardinality(S) \in Nat
BY WorkersFinite, FS_Subset, FS_CardinalityType

\* Only an acceptance and a worker's cancellation change who is counted, by
\* the one worker they are about.
LEMMA AcceptCounts ==
  ASSUME TypeOK, NEW w \in Workers, acceptJob(w)
  PROVE  w \notin Counted /\ Counted' = Counted \cup {w}
<1>1. w \notin Counted
  BY DEF acceptJob, Counted, Active, ACTIVE_ASSIGNMENT_STATES, NoRow
<1>2. \A v \in Workers : v \in Counted' <=> v = w \/ v \in Counted
  BY DEF TypeOK, acceptJob, Counted, Active, ACTIVE_ASSIGNMENT_STATES
<1>3. QED
  BY <1>1, <1>2 DEF Counted

LEMMA WorkStepCounts ==
  ASSUME TypeOK, NEW r \in Requests, travel(r) \/ start(r) \/ complete(r)
  PROVE  Counted' = Counted
<1>1. /\ transitionAllowed(request[r]) /\ answered(r)
      /\ request[r].to \in {"EN_ROUTE", "ARRIVED", "STARTED", "COMPLETED"}
  BY DEF travel, start, complete
<1>2. \A v \in Workers : v \in Counted' <=> v \in Counted
  BY <1>1, RequestMoves DEF TypeOK, Counted, Active, ACTIVE_ASSIGNMENT_STATES
<1>3. QED
  BY <1>2 DEF Counted

LEMMA CancelAssignmentCounts ==
  ASSUME TypeOK, NEW r \in Requests, cancelAssignment(r)
  PROVE  /\ request[r].worker \in Counted
         /\ Counted' = Counted \ {request[r].worker}
<1>1. /\ transitionAllowed(request[r]) /\ answered(r)
      /\ request[r].to = "CANCELLED_BY_WORKER"
  BY DEF cancelAssignment
<1>2. request[r].worker \in Workers /\ Active(request[r].worker)
  BY <1>1, RequestMoves DEF Request
<1>3. \A v \in Workers : v \in Counted' <=> v # request[r].worker /\ v \in Counted
  BY <1>1, <1>2, RequestMoves DEF TypeOK, Counted, Active, ACTIVE_ASSIGNMENT_STATES
<1>4. QED
  BY <1>2, <1>3 DEF Counted

LEMMA CancelJobCounts ==
  ASSUME TypeOK, cancelJob
  PROVE  Counted' = Counted
<1>1. \A v \in Workers : v \in Counted' <=> v \in Counted
  BY DEF TypeOK, cancelJob, Counted, Active, ACTIVE_ASSIGNMENT_STATES
<1>2. QED
  BY <1>1 DEF Counted

\* The steps that leave every assignment and workers_filled alone.
RowsUntouched == UNCHANGED <<workers_filled, assignment, jobs_cancelled>>

\* Next, sorted by what it does to the assignments.
LEMMA KindsOfSteps ==
  ASSUME [Next]_vars
  PROVE  \/ \E w \in Workers : acceptJob(w)
         \/ \E r \in Requests : travel(r) \/ start(r) \/ complete(r)
         \/ \E r \in Requests : cancelAssignment(r)
         \/ cancelJob
         \/ RowsUntouched
<1>1. CASE Posting
  BY <1>1 DEF Posting, createJob, duplicateJob, postDraft, reviewJob, RowsUntouched
<1>2. CASE Requesting
  BY <1>2 DEF Requesting, BeginRequest, rollback, RowsUntouched
<1>3. CASE Closing
  BY <1>3 DEF Closing, confirmCompletion, autoConfirmCompletions,
       closeSettledJobs, beginRelease, finishRelease, jobStep, openDispute,
       resolveDispute, RowsUntouched
<1>4. QED
  BY <1>1, <1>2, <1>3 DEF Next, vars, RowsUntouched

LEMMA SlotsStep ==
  ASSUME TypeOK, SlotsAccounted, [Next]_vars
  PROVE  SlotsAccounted'
<1>1. IsFiniteSet(Counted)
  BY SomeWorkersFinite DEF Counted
<1>2. CASE \E w \in Workers : acceptJob(w)
  <2>1. PICK w \in Workers : acceptJob(w)
    BY <1>2
  <2>2. Cardinality(Counted') = Cardinality(Counted) + 1
    BY <1>1, <2>1, AcceptCounts, FS_AddElement
  <2>3. workers_filled' = workers_filled + 1 /\ workers_filled < WorkersNeeded
    BY <2>1 DEF acceptJob
  <2>4. QED
    BY <2>2, <2>3, WorkersNeededPositive DEF SlotsAccounted, TypeOK
<1>3. CASE \E r \in Requests : travel(r) \/ start(r) \/ complete(r)
  <2>1. Counted' = Counted
    BY <1>3, WorkStepCounts
  <2>2. workers_filled' = workers_filled
    BY <1>3 DEF travel, start, complete
  <2>3. QED
    BY <2>1, <2>2 DEF SlotsAccounted
<1>4. CASE \E r \in Requests : cancelAssignment(r)
  <2>1. PICK r \in Requests : cancelAssignment(r)
    BY <1>4
  <2>2. Cardinality(Counted') = Cardinality(Counted) - 1
    BY <1>1, <2>1, CancelAssignmentCounts, FS_RemoveElement
  <2>3. workers_filled' = workers_filled - 1
    BY <2>1 DEF cancelAssignment
  <2>4. QED
    BY <2>2, <2>3, WorkersNeededPositive DEF SlotsAccounted, TypeOK
<1>5. CASE cancelJob
  <2>1. workers_filled' = workers_filled
    BY <1>5 DEF cancelJob
  <2>2. QED
    BY <1>5, <2>1, CancelJobCounts DEF SlotsAccounted
<1>6. CASE RowsUntouched
  BY <1>6 DEF RowsUntouched, SlotsAccounted, Counted, Active
<1>7. QED
  BY <1>2, <1>3, <1>4, <1>5, <1>6, KindsOfSteps

-----------------------------------------------------------------------------
(* The other invariants *)

\* Before anyone has accepted, nobody is counted.
LEMMA NobodyYet ==
  ASSUME TypeOK, SlotsAccounted, workers_filled = 0
  PROVE  Counted = {}
BY SomeWorkersFinite, FS_EmptySet DEF SlotsAccounted, Counted

\* Creating, posting and reviewing happen only while nobody is counted.
LEMMA PostingUnstaffed ==
  ASSUME StateTellsStaffing, Posting
  PROVE  workers_filled = 0 /\ RowsUntouched
BY DEF StateTellsStaffing, Posting, createJob, duplicateJob, postDraft,
       reviewJob, RowsUntouched

LEMMA StaffingStep ==
  ASSUME TypeOK, SlotsAccounted, StateTellsStaffing, [Next]_vars
  PROVE  StateTellsStaffing'
<1> USE WorkersNeededPositive DEF TypeOK, NoRow
<1>1. CASE Posting
  <2>1. workers_filled' = 0
    BY <1>1, PostingUnstaffed DEF RowsUntouched
  <2>2. state' \in {"DRAFT", "PENDING_REVIEW", "MATCHING", "CANCELLED"}
    BY <1>1 DEF Posting, createJob, duplicateJob, postDraft, reviewJob,
         openMatching, transitionJob
  <2>3. QED
    BY <2>1, <2>2 DEF StateTellsStaffing
<1>2. CASE \E w \in Workers : acceptJob(w)
  <2>1. /\ workers_filled < WorkersNeeded
        /\ workers_filled' = workers_filled + 1
        /\ state' = IF workers_filled + 1 >= WorkersNeeded THEN "FILLED"
                                                         ELSE "PARTIALLY_FILLED"
    BY <1>2 DEF acceptJob, transitionJob
  <2>2. QED
    BY <2>1 DEF StateTellsStaffing
<1>3. CASE Requesting
  <2>1. PICK r \in Requests :
          \/ \E w \in Workers, to \in WORK_STEPS \cup {"CANCELLED_BY_WORKER"} :
               BeginRequest(r, w, to)
          \/ travel(r) \/ start(r) \/ complete(r) \/ cancelAssignment(r)
          \/ rollback(r)
    BY <1>3 DEF Requesting
  <2>2. CASE \/ \E w \in Workers, to \in WORK_STEPS \cup {"CANCELLED_BY_WORKER"} :
                 BeginRequest(r, w, to)
             \/ rollback(r)
    BY <2>2 DEF BeginRequest, rollback, StateTellsStaffing, ActiveWorkers,
         CompletedWorkers, Active
  <2>3. CASE travel(r) \/ start(r)
    <3>1. /\ workers_filled' = workers_filled
          /\ state' = state \/ state' = "IN_PROGRESS"
      BY <2>3 DEF travel, start, transitionJob
    <3>2. Active(request[r].worker) /\ request[r].worker \in Workers
      BY <2>3, RequestMoves DEF travel, start, Request
    <3>3. state \notin {"COMPLETION_PENDING", "COMPLETED"}
      BY <3>2 DEF StateTellsStaffing, ActiveWorkers
    <3>4. QED
      BY <3>1, <3>3 DEF StateTellsStaffing
  <2>4. CASE complete(r)
    <3>1. /\ Active(request[r].worker) /\ request[r].worker \in Workers
          /\ assignment' = [assignment EXCEPT ![request[r].worker] = "COMPLETED"]
      BY <2>4, RequestMoves DEF complete, Request
    <3>2. state \notin {"COMPLETION_PENDING", "COMPLETED"}
      BY <3>1 DEF StateTellsStaffing, ActiveWorkers
    <3>3. workers_filled' = workers_filled
      BY <2>4 DEF complete
    <3>4. CASE state' = state
      BY <3>2, <3>3, <3>4 DEF StateTellsStaffing
    <3>5. CASE state' = "COMPLETION_PENDING" /\ ActiveWorkers \subseteq {request[r].worker}
      BY <3>1, <3>5 DEF StateTellsStaffing, ActiveWorkers, CompletedWorkers,
           Active, ACTIVE_ASSIGNMENT_STATES
    <3>6. QED
      BY <2>4, <3>4, <3>5 DEF complete, transitionJob
  <2>5. CASE cancelAssignment(r)
    <3>1. /\ Active(request[r].worker) /\ request[r].worker \in Workers
          /\ request[r].worker \in Counted
      BY <2>5, RequestMoves, CancelAssignmentCounts DEF cancelAssignment, Request
    <3>2. state \notin {"COMPLETION_PENDING", "COMPLETED"}
      BY <3>1 DEF StateTellsStaffing, ActiveWorkers
    <3>3. workers_filled # 0
      BY <3>1, NobodyYet
    <3>4. /\ workers_filled' = workers_filled - 1
          /\ \/ state' = state /\ state \notin {"FILLED", "PARTIALLY_FILLED"}
             \/ state' = "MATCHING"
      BY <2>5 DEF cancelAssignment, transitionJob
    <3>5. QED
      BY <3>2, <3>3, <3>4 DEF StateTellsStaffing, SlotsAccounted
  <2>6. QED
    BY <2>1, <2>2, <2>3, <2>4, <2>5
<1>4. CASE Closing
  <2>1. CASE cancelJob
    BY <2>1 DEF cancelJob, transitionJob, StateTellsStaffing
  <2>2. CASE ~cancelJob
    <3>1. /\ UNCHANGED <<workers_filled, assignment>>
          /\ \/ state' \in {"PAYMENT_PENDING", "PAID", "CLOSED", "DISPUTED", state}
             \/ state = "COMPLETION_PENDING" /\ state' = "COMPLETED"
      BY <1>4, <2>2 DEF Closing, confirmCompletion, autoConfirmCompletions,
           closeSettledJobs, beginRelease, finishRelease, jobStep, openDispute,
           resolveDispute, transitionJob
    <3>2. QED
      BY <3>1 DEF StateTellsStaffing, ActiveWorkers, CompletedWorkers, Active
  <2>3. QED
    BY <2>1, <2>2
<1>5. CASE UNCHANGED vars
  BY <1>5 DEF vars, StateTellsStaffing, ActiveWorkers, CompletedWorkers, Active
<1>6. QED
  BY <1>1, <1>2, <1>3, <1>4, <1>5 DEF Next

LEMMA DisputeStep ==
  ASSUME TypeOK, DisputedIffOpen, [Next]_vars
  PROVE  DisputedIffOpen'
<1> USE DEF DisputedIffOpen, transitionJob
<1>1. CASE Posting
  BY <1>1 DEF Posting, createJob, duplicateJob, postDraft, reviewJob,
       openMatching, NoRow
<1>2. CASE \E w \in Workers : acceptJob(w)
  BY <1>2 DEF acceptJob, OPEN_STATES
<1>3. CASE Requesting
  BY <1>3 DEF Requesting, BeginRequest, rollback, travel, start, complete,
       cancelAssignment
<1>4. CASE Closing
  <2>1. CASE cancelJob
    BY <2>1 DEF cancelJob, CANCELLABLE_STATES
  <2>2. CASE openDispute \/ \E resolution \in RESOLUTIONS : resolveDispute(resolution)
    BY <2>2 DEF openDispute, resolveDispute
  <2>3. CASE \E from, to \in JOB_STATES \ {"DISPUTED"} : jobStep(from, to)
    BY <2>3 DEF jobStep
  <2>4. QED
    BY <1>4, <2>1, <2>2, <2>3 DEF Closing, confirmCompletion,
         autoConfirmCompletions, closeSettledJobs, beginRelease, finishRelease,
         JOB_STATES
<1>5. CASE UNCHANGED vars
  BY <1>5 DEF vars
<1>6. QED
  BY <1>1, <1>2, <1>3, <1>4, <1>5 DEF Next

LEMMA ReviewStep ==
  ASSUME TypeOK, SlotsAccounted, StateTellsStaffing, NoPlaceBeforeReview,
         [Next]_vars
  PROVE  NoPlaceBeforeReview'
<1>1. CASE Posting
  <2>1. Counted = {} /\ RowsUntouched
    BY <1>1, PostingUnstaffed, NobodyYet
  <2>2. QED
    BY <2>1 DEF RowsUntouched, NoPlaceBeforeReview, Counted, Active
<1>2. CASE \E w \in Workers : acceptJob(w)
  BY <1>2 DEF acceptJob, NoPlaceBeforeReview
<1>3. CASE ~Posting /\ ~\E w \in Workers : acceptJob(w)
  <2>1. UNCHANGED review_status
    BY <1>3 DEF Next, vars, Requesting, BeginRequest, rollback, travel, start,
         complete, cancelAssignment, Closing, confirmCompletion,
         autoConfirmCompletions, closeSettledJobs, beginRelease, finishRelease,
         jobStep, cancelJob, openDispute, resolveDispute
  <2>2. Counted' \subseteq Counted
    BY <1>3, KindsOfSteps, WorkStepCounts, CancelAssignmentCounts, CancelJobCounts
       DEF RowsUntouched, Counted, Active
  <2>3. QED
    BY <2>1, <2>2 DEF NoPlaceBeforeReview
<1>4. QED
  BY <1>1, <1>2, <1>3

\* What each kind of step does to the row of any worker.
LEMMA CancelledOnceStep ==
  ASSUME TypeOK, CancelledOnce, [Next]_vars
  PROVE  CancelledOnce'
<1> USE DEF CancelledOnce
<1>1. CASE \E w \in Workers : acceptJob(w)
  BY <1>1 DEF acceptJob, TypeOK, NoRow
<1>2. CASE \E r \in Requests : travel(r) \/ start(r) \/ complete(r)
  <2>1. PICK r \in Requests : travel(r) \/ start(r) \/ complete(r)
    BY <1>2
  <2>2. /\ transitionAllowed(request[r]) /\ answered(r)
        /\ request[r].to # "CANCELLED_BY_WORKER"
        /\ jobs_cancelled' = jobs_cancelled
    BY <2>1 DEF travel, start, complete
  <2>3. QED
    BY <2>2, RequestMoves DEF TypeOK, Active, ACTIVE_ASSIGNMENT_STATES
<1>3. CASE \E r \in Requests : cancelAssignment(r)
  <2>1. PICK r \in Requests : cancelAssignment(r)
    BY <1>3
  <2>2. /\ transitionAllowed(request[r]) /\ answered(r)
        /\ request[r].to = "CANCELLED_BY_WORKER"
        /\ jobs_cancelled' = [jobs_cancelled EXCEPT ![request[r].worker] = @ + 1]
    BY <2>1 DEF cancelAssignment
  <2>3. request[r].worker \in Workers /\ Active(request[r].worker)
    BY <2>2, RequestMoves DEF Request
  <2>4. QED
    BY <2>2, <2>3, RequestMoves DEF TypeOK, Active, ACTIVE_ASSIGNMENT_STATES
<1>4. CASE cancelJob
  BY <1>4 DEF cancelJob, TypeOK, Active, ACTIVE_ASSIGNMENT_STATES
<1>5. CASE RowsUntouched
  BY <1>5 DEF RowsUntouched
<1>6. QED
  BY <1>1, <1>2, <1>3, <1>4, <1>5, KindsOfSteps

\* EndedStaysEnded, of one step.
LEMMA EndedStep ==
  ASSUME TypeOK, [Next]_vars, NEW w \in Workers,
         assignment[w] \notin ACTIVE_ASSIGNMENT_STATES \cup {NoRow}
  PROVE  assignment'[w] = assignment[w]
<1>1. CASE \E v \in Workers : acceptJob(v)
  BY <1>1 DEF acceptJob, TypeOK
<1>2. CASE \E r \in Requests : travel(r) \/ start(r) \/ complete(r) \/ cancelAssignment(r)
  <2>1. PICK r \in Requests : transitionAllowed(request[r]) /\ answered(r)
    BY <1>2 DEF travel, start, complete, cancelAssignment
  <2>2. QED
    BY <2>1, RequestMoves DEF Active, TypeOK
<1>3. CASE cancelJob
  BY <1>3 DEF cancelJob, Active
<1>4. CASE RowsUntouched
  BY <1>4 DEF RowsUntouched
<1>5. QED
  BY <1>1, <1>2, <1>3, <1>4, KindsOfSteps

-----------------------------------------------------------------------------
(* The theorems *)

IInv ==
  /\ TypeOK
  /\ SlotsAccounted
  /\ StateTellsStaffing
  /\ DisputedIffOpen
  /\ NoPlaceBeforeReview
  /\ CancelledOnce

\* The six facts about the job hold together: each is kept by a step that
\* starts where all of them hold.
THEOREM Invariance == Spec => []IInv
<1>1. Init => IInv
  <2> SUFFICES ASSUME Init PROVE IInv
    OBVIOUS
  <2>1. Counted = {}
    BY DEF Init, Counted, Active, ACTIVE_ASSIGNMENT_STATES, NoRow
  <2>2. TypeOK /\ StateTellsStaffing /\ DisputedIffOpen /\ CancelledOnce
    BY WorkersNeededPositive DEF Init, TypeOK, StateTellsStaffing,
       DisputedIffOpen, CancelledOnce, JOB_STATES, REVIEW_STATUSES, NoRow
  <2>3. SlotsAccounted /\ NoPlaceBeforeReview
    BY <2>1, WorkersNeededPositive, FS_EmptySet
       DEF Init, SlotsAccounted, NoPlaceBeforeReview
  <2>4. QED
    BY <2>2, <2>3 DEF IInv
<1>2. IInv /\ [Next]_vars => IInv'
  <2> SUFFICES ASSUME IInv, [Next]_vars PROVE IInv'
    OBVIOUS
  <2>1. TypeOK'
    BY TypeStep DEF IInv, SlotsAccounted
  <2>2. QED
    BY <2>1, SlotsStep, StaffingStep, DisputeStep, ReviewStep,
       CancelledOnceStep DEF IInv
<1>3. QED
  BY <1>1, <1>2, PTL DEF Spec

\* Every variable keeps the type the schema gives it.
THEOREM TypeCorrect == Spec => []TypeOK
BY Invariance, PTL DEF IInv

\* workers_filled counts the places taken up and never exceeds
\* workers_needed, for any crew and any number of racing requests.
THEOREM Slots == Spec => []SlotsAccounted
BY Invariance, PTL DEF IInv

\* The job state says how the job is staffed.
THEOREM Staffing == Spec => []StateTellsStaffing
BY Invariance, PTL DEF IInv

\* DISPUTED and an open dispute come and go together.
THEOREM Disputes == Spec => []DisputedIffOpen
BY Invariance, PTL DEF IInv

\* Nobody is on a job whose text waits for review.
THEOREM Reviews == Spec => []NoPlaceBeforeReview
BY Invariance, PTL DEF IInv

\* A departure is charged to the worker exactly once.
THEOREM CancelledOnlyOnce == Spec => []CancelledOnce
BY Invariance, PTL DEF IInv

\* No step brings back or rewrites a row that has ended.
THEOREM Ended == Spec => EndedStaysEnded
<1>1. IInv /\ [Next]_vars =>
        [\A w \in Workers :
           assignment[w] \notin ACTIVE_ASSIGNMENT_STATES \cup {NoRow}
             => assignment'[w] = assignment[w]]_vars
  BY EndedStep DEF IInv
<1>2. QED
  BY <1>1, Invariance, PTL DEF Spec, EndedStaysEnded

-----------------------------------------------------------------------------
(* The refinement: JobLifecycle implements GigContract *)

LEMMA PeopleUntouched ==
  ASSUME RowsUntouched
  PROVE  UNCHANGED <<OnJob, CompletedWorkers, Gone>>
BY DEF RowsUntouched, OnJob, CompletedWorkers, Gone, Active

LEMMA AcceptJoins ==
  ASSUME IInv, NEW w \in Workers, acceptJob(w)
  PROVE  Contract!Join(w)
<1> USE DEF IInv
<1>1. Phase = "Staffing" /\ Phase' = "Staffing"
  BY DEF Phase, acceptJob, OPEN_STATES, transitionJob, NoRow
<1>2. w \notin OnJob \cup Gone
  BY DEF acceptJob, OnJob, Gone, Active, ACTIVE_ASSIGNMENT_STATES, NoRow
<1>3. Cardinality(OnJob) < WorkersNeeded
  <2>1. OnJob \subseteq Counted /\ IsFiniteSet(Counted)
    BY SomeWorkersFinite DEF OnJob, Counted
  <2>2. Cardinality(OnJob) <= Cardinality(Counted)
    BY <2>1, FS_Subset
  <2>3. Cardinality(OnJob) \in Nat /\ Cardinality(Counted) < WorkersNeeded
    BY SomeWorkersFinite DEF OnJob, SlotsAccounted, acceptJob
  <2>4. QED
    BY <2>2, <2>3, WorkersNeededPositive DEF SlotsAccounted, TypeOK
<1>4. /\ OnJob' = OnJob \cup {w}
      /\ CompletedWorkers' = CompletedWorkers /\ Gone' = Gone
  <2>1. /\ assignment \in [Workers -> ASSIGNMENT_STATES \cup {NoRow}]
        /\ assignment[w] = NoRow
        /\ assignment' = [assignment EXCEPT ![w] = "ACCEPTED"]
    BY DEF TypeOK, acceptJob
  <2>2. QED
    BY <2>1 DEF OnJob, CompletedWorkers, Gone, Active,
         ACTIVE_ASSIGNMENT_STATES, NoRow
<1>5. Contract!Cardinality(OnJob) = Cardinality(OnJob)
  BY DEF Contract!Cardinality, Cardinality
<1>6. QED
  BY <1>1, <1>2, <1>3, <1>4, <1>5 DEF Contract!Join

LEMMA RequestKept ==
  ASSUME IInv, NEW r \in Requests,
         travel(r) \/ start(r) \/ complete(r) \/ cancelAssignment(r)
  PROVE  Contract!Next \/ UNCHANGED Contract!contract
<1> USE DEF IInv
<1> DEFINE w == request[r].worker
<1>1. transitionAllowed(request[r]) /\ answered(r)
  BY DEF travel, start, complete, cancelAssignment
<1>2. /\ w \in Workers /\ Active(w)
      /\ assignment \in [Workers -> ASSIGNMENT_STATES \cup {NoRow}]
      /\ assignment' = [assignment EXCEPT ![w] = request[r].to]
  BY <1>1, RequestMoves DEF Request, TypeOK
<1>3. w \in OnJob \ CompletedWorkers
  BY <1>2 DEF OnJob, CompletedWorkers, Active, ACTIVE_ASSIGNMENT_STATES
<1> HIDE DEF w
<1>4. CASE travel(r) \/ start(r)
  <2>1. UNCHANGED <<OnJob, CompletedWorkers, Gone>>
    <3>1. request[r].to \in {"EN_ROUTE", "ARRIVED", "STARTED"}
      BY <1>4 DEF travel, start
    <3>2. QED
      BY <1>2, <3>1 DEF OnJob, CompletedWorkers, Gone, Active, ACTIVE_ASSIGNMENT_STATES
  <2>2. Phase' = Phase \/ (Phase = "Staffing" /\ Phase' = "Working")
    BY <1>4 DEF travel, start, transitionJob, Phase, NoRow
  <2>3. QED
    BY <1>3, <2>1, <2>2
       DEF Contract!Next, Contract!Begin, Contract!MovePhase, Contract!contract
<1>5. CASE complete(r)
  <2>1. /\ CompletedWorkers' = CompletedWorkers \cup {w}
        /\ OnJob' = OnJob /\ Gone' = Gone
    <3>1. request[r].to = "COMPLETED"
      BY <1>5 DEF complete
    <3>2. QED
      BY <1>2, <3>1 DEF OnJob, CompletedWorkers, Gone, Active, ACTIVE_ASSIGNMENT_STATES
  <2>2. ActiveWorkers \subseteq {w} <=> CompletedWorkers' = OnJob
    BY <1>2, <2>1 DEF ActiveWorkers, CompletedWorkers, OnJob, Active,
         ACTIVE_ASSIGNMENT_STATES
  <2>3. Phase = "Working" <=> state = "IN_PROGRESS"
    BY DEF Phase, TypeOK, JOB_STATES, NoRow
  <2>4. state' = IF Phase = "Working" /\ CompletedWorkers' = OnJob
                   THEN "COMPLETION_PENDING" ELSE state
    BY <1>5, <2>2, <2>3 DEF complete, transitionJob, w
  <2>5. Phase' = IF Phase = "Working" /\ CompletedWorkers' = OnJob
                   THEN "Confirming" ELSE Phase
    <3>1. state' = state => Phase' = Phase
      BY DEF Phase
    <3>2. state' = "COMPLETION_PENDING" => Phase' = "Confirming"
      BY DEF Phase, NoRow
    <3>3. QED
      BY <2>4, <3>1, <3>2
  <2>6. Contract!Finish(w)
    BY <1>3, <2>1, <2>5 DEF Contract!Finish
  <2>7. QED
    BY <1>2, <2>6 DEF Contract!Next
<1>6. CASE cancelAssignment(r)
  <2>1. /\ OnJob' = OnJob \ {w} /\ Gone' = Gone \cup {w}
        /\ CompletedWorkers' = CompletedWorkers
    <3>1. request[r].to = "CANCELLED_BY_WORKER"
      BY <1>6 DEF cancelAssignment
    <3>2. QED
      BY <1>2, <3>1 DEF OnJob, CompletedWorkers, Gone, Active, ACTIVE_ASSIGNMENT_STATES
  <2>2. Phase' = Phase
    BY <1>6 DEF cancelAssignment, transitionJob, Phase, NoRow
  <2>3. Contract!Leave(w)
    BY <1>3, <2>1, <2>2 DEF Contract!Leave
  <2>4. QED
    BY <1>2, <2>3 DEF Contract!Next
<1>7. QED
  BY <1>4, <1>5, <1>6

LEMMA CancelJobCallsOff ==
  ASSUME IInv, cancelJob
  PROVE  Contract!CallOff
<1> USE DEF IInv
<1>1. Phase \in {"Unlisted", "Staffing", "Working"} /\ Phase' = "CalledOff"
  BY DEF cancelJob, transitionJob, CANCELLABLE_STATES, Phase, NoRow
<1>2. /\ assignment \in [Workers -> ASSIGNMENT_STATES \cup {NoRow}]
      /\ assignment' = [v \in Workers |->
                          IF Active(v) THEN "CANCELLED_BY_CUSTOMER"
                                       ELSE assignment[v]]
  BY DEF cancelJob, TypeOK
<1>3. CompletedWorkers' = CompletedWorkers /\ OnJob' = CompletedWorkers
  BY <1>2 DEF CompletedWorkers, OnJob, Active, ACTIVE_ASSIGNMENT_STATES
<1>4. Gone' = Gone \cup (OnJob \ CompletedWorkers)
  BY <1>2 DEF CompletedWorkers, OnJob, Gone, Active, ACTIVE_ASSIGNMENT_STATES
<1>5. QED
  BY <1>1, <1>3, <1>4 DEF Contract!CallOff

LEMMA PostingKept ==
  ASSUME IInv, Posting
  PROVE  Contract!Next \/ UNCHANGED Contract!contract
<1> USE DEF IInv
<1>1. RowsUntouched /\ OnJob = {}
  <2>1. RowsUntouched /\ Counted = {}
    BY PostingUnstaffed, NobodyYet
  <2>2. OnJob \subseteq Counted
    BY DEF OnJob, Counted
  <2>3. QED
    BY <2>1, <2>2
<1>2. /\ UNCHANGED <<OnJob, CompletedWorkers, Gone>>
      /\ CompletedWorkers = {}
  BY <1>1, PeopleUntouched DEF OnJob, CompletedWorkers
<1>3. /\ state \in {NoRow, "DRAFT", "PENDING_REVIEW"}
      /\ state' \in {"DRAFT", "PENDING_REVIEW", "MATCHING", "CANCELLED"}
  BY DEF Posting, createJob, duplicateJob, postDraft, reviewJob, openMatching,
       transitionJob
<1>4. Phase = "Unlisted" /\ Phase' \in {"Unlisted", "Staffing", "CalledOff"}
  BY <1>3 DEF Phase, NoRow
<1>5. QED
  BY <1>1, <1>2, <1>4 DEF Contract!Next, Contract!List, Contract!CallOff,
       Contract!MovePhase, Contract!contract

LEMMA ClosingKept ==
  ASSUME IInv, Closing, ~cancelJob
  PROVE  Contract!Next \/ UNCHANGED Contract!contract
<1>1. UNCHANGED <<OnJob, CompletedWorkers, Gone>>
  <2>1. RowsUntouched
    BY DEF Closing, confirmCompletion, autoConfirmCompletions,
         closeSettledJobs, beginRelease, finishRelease, jobStep, openDispute,
         resolveDispute, RowsUntouched
  <2>2. QED
    BY <2>1, PeopleUntouched
<1>2. CASE openDispute
  <2>1. Phase \in {"Working", "Confirming", "Settling", "CalledOff"} /\ Phase' = "Settling"
    BY <1>2 DEF openDispute, DISPUTABLE_JOB_STATES, transitionJob, Phase, NoRow
  <2>2. QED
    BY <1>1, <2>1 DEF Contract!Next, Contract!Settle, Contract!MovePhase,
         Contract!contract
<1>3. CASE \E resolution \in RESOLUTIONS : resolveDispute(resolution)
  <2>1. \/ state = "DISPUTED" /\ state' \in {"PAYMENT_PENDING", "CLOSED"}
        \/ state' = state
    BY <1>3 DEF resolveDispute, transitionJob
  <2>2. Phase' = Phase \/ (Phase = "Settling" /\ Phase' = "Over")
    BY <2>1 DEF Phase, NoRow
  <2>3. QED
    BY <1>1, <2>2 DEF Contract!Next, Contract!CloseOut, Contract!MovePhase,
         Contract!contract
<1>4. CASE confirmCompletion \/ autoConfirmCompletions
  <2>1. Phase = "Confirming" /\ Phase' = "Settling"
    BY <1>4 DEF confirmCompletion, autoConfirmCompletions, jobStep,
         transitionJob, Phase, NoRow
  <2>2. QED
    BY <1>1, <2>1 DEF Contract!Next, Contract!Settle, Contract!MovePhase
<1>5. CASE closeSettledJobs \/ beginRelease \/ finishRelease
  <2>1. Phase = "Settling" /\ Phase' \in {"Settling", "Over"}
    BY <1>5 DEF closeSettledJobs, beginRelease, finishRelease, jobStep,
         transitionJob, Phase, NoRow
  <2>2. QED
    BY <1>1, <2>1 DEF Contract!Next, Contract!CloseOut, Contract!MovePhase,
         Contract!contract
<1>6. QED
  BY <1>2, <1>3, <1>4, <1>5 DEF Closing

\* The handlers, with their early reads and late commits, implement the
\* contract in which joining, leaving and finishing are indivisible.
THEOREM Refinement == Spec => ContractKept
<1>1. Init => Contract!Init
  BY DEF Init, Contract!Init, Phase, OnJob, CompletedWorkers, Gone, Active,
       ACTIVE_ASSIGNMENT_STATES, NoRow
<1>2. IInv /\ IInv' /\ [Next]_vars => [Contract!Next]_(Contract!contract)
  <2> SUFFICES ASSUME IInv, IInv', [Next]_vars
               PROVE  Contract!Next \/ UNCHANGED Contract!contract
    OBVIOUS
  <2>1. CASE Posting
    BY <2>1, PostingKept
  <2>2. CASE \E w \in Workers : acceptJob(w)
    BY <2>2, AcceptJoins DEF IInv, Contract!Next
  <2>3. CASE Requesting
    <3>1. CASE \E r \in Requests : \/ travel(r) \/ start(r) \/ complete(r)
                                  \/ cancelAssignment(r)
      BY <3>1, RequestKept DEF IInv
    <3>2. CASE UNCHANGED <<state, assignment>>
      BY <3>2 DEF Contract!contract, Phase, OnJob, CompletedWorkers, Gone, Active
    <3>3. QED
      BY <2>3, <3>1, <3>2 DEF Requesting, BeginRequest, rollback
  <2>4. CASE Closing
    BY <2>4, ClosingKept, CancelJobCallsOff DEF IInv, Contract!Next
  <2>5. CASE UNCHANGED vars
    BY <2>5 DEF vars, Contract!contract, Phase, OnJob, CompletedWorkers, Gone, Active
  <2>6. QED
    BY <2>1, <2>2, <2>3, <2>4, <2>5 DEF Next
<1>3. QED
  BY <1>1, <1>2, Invariance, PTL DEF Spec, ContractKept, Contract!Spec
=============================================================================
