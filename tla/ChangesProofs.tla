---------------------------- MODULE ChangesProofs ----------------------------
(***************************************************************************)
(* What holds of JobChanges and JobFunds for any crew, any terms, and any  *)
(* number of proposals and of requests in flight.  The job's own life is   *)
(* that of JobLifecycle, step by step, so its invariants are taken from    *)
(* JobLifecycleProofs.                                                     *)
(***************************************************************************)
EXTENDS JobFunds, JobLifecycleProofs

-----------------------------------------------------------------------------
(* The job underneath *)

LEMMA LifeGoesOn ==
  ASSUME [ChangesNext]_allVars
  PROVE  [Next]_vars
BY DEF ChangesNext, liveOn, propose, takeChange, decide, dropDecision, allVars, vars

LEMMA LifeStep ==
  ASSUME IInv, [Next]_vars
  PROVE  IInv'
<1>1. TypeOK'
  BY TypeStep DEF IInv, SlotsAccounted
<1>2. QED
  BY <1>1, SlotsStep, StaffingStep, DisputeStep, ReviewStep, CancelledOnceStep
     DEF IInv

LEMMA LifeBegins ==
  ASSUME Init
  PROVE  IInv
<1>1. Counted = {}
  BY DEF Init, Counted, Active, ACTIVE_ASSIGNMENT_STATES, NoRow
<1>2. TypeOK /\ StateTellsStaffing /\ DisputedIffOpen /\ CancelledOnce
  BY WorkersNeededPositive DEF Init, TypeOK, StateTellsStaffing,
     DisputedIffOpen, CancelledOnce, JOB_STATES, REVIEW_STATUSES, NoRow
<1>3. SlotsAccounted /\ NoPlaceBeforeReview
  BY <1>1, WorkersNeededPositive, FS_EmptySet
     DEF Init, SlotsAccounted, NoPlaceBeforeReview
<1>4. QED
  BY <1>2, <1>3 DEF IInv

-----------------------------------------------------------------------------
(* Proposals and answers *)

ProposalTypes ==
  /\ terms \in Terms
  /\ change \in [Changes -> Change \cup {NoChange}]
  /\ approval \in [Changes -> [Workers -> {NoRow, "ASKED", "APPROVED", "DECLINED"}]]
  /\ deciding \in [Workers -> Decision \cup {NoDecision}]

OneOpen == \A c, d \in Changes : Open(c) /\ Open(d) => c = d

\* Whoever decides holds the open proposal, alone, with what was read of it.
HeldAlone ==
  /\ \A w \in Workers : deciding[w] # NoDecision =>
       /\ deciding[w] \in Decision
       /\ Open(deciding[w].change)
       /\ w \in Asked(deciding[w].change)
       /\ deciding[w].last = (Asked(deciding[w].change) = {w})
  /\ \A v, w \in Workers :
       deciding[v] # NoDecision /\ deciding[w] # NoDecision => v = w

\* Nobody has declined what is still open.
NoneDeclined ==
  \A c \in Changes : Open(c) =>
    \A w \in Workers : approval[c][w] \in {NoRow, "ASKED", "APPROVED"}

ProposalInv ==
  ProposalTypes /\ OneOpen /\ HeldAlone /\ NoneDeclined /\ DiffStillTrue /\ AnswersDecide

LEMMA ProposeKeeps ==
  ASSUME ProposalInv, NEW c \in Changes, NEW new \in Terms, propose(c, new)
  PROVE  ProposalInv'
<1> USE DEF ProposalInv
<1> DEFINE row == [status |-> "PROPOSED", old |-> terms, new |-> new]
           done == [status |-> "APPROVED", old |-> terms, new |-> new]
           ask == [w \in Workers |-> IF Active(w) THEN "ASKED" ELSE NoRow]
<1>1. /\ change[c] = NoChange /\ \A d \in Changes : ~Open(d)
      /\ approval' = [approval EXCEPT ![c] = ask]
      /\ deciding' = deciding
      /\ \/ ActiveWorkers = {} /\ terms' = new /\ change' = [change EXCEPT ![c] = done]
         \/ ActiveWorkers # {} /\ terms' = terms /\ change' = [change EXCEPT ![c] = row]
  BY DEF propose, apply
<1>2. row \in Change /\ done \in Change
  BY DEF ProposalTypes, Change
<1>3. ask \in [Workers -> {NoRow, "ASKED", "APPROVED", "DECLINED"}]
  OBVIOUS
<1> HIDE DEF row, done
<1>4. ProposalTypes'
  BY <1>1, <1>2, <1>3 DEF ProposalTypes
<1>5. \A w \in Workers : deciding[w] = NoDecision
  BY <1>1 DEF HeldAlone, Decision
<1>6. HeldAlone'
  BY <1>1, <1>5 DEF HeldAlone
<1>7. \A d \in Changes : d # c => change'[d] = change[d] /\ approval'[d] = approval[d]
  BY <1>1 DEF ProposalTypes
<1>8. approval'[c] = ask
  BY <1>1 DEF ProposalTypes
<1>9. \A w \in Workers : ask[w] \in {NoRow, "ASKED"}
  OBVIOUS
<1>10. \A d \in Changes : d # c => ~Open(d)'
  BY <1>1, <1>7 DEF Open
<1>11. CASE ActiveWorkers = {}
  <2>1. change'[c] = done /\ ~Open(c)'
    BY <1>1, <1>11 DEF ProposalTypes, Open, done
  <2>2. OneOpen' /\ NoneDeclined' /\ DiffStillTrue'
    BY <1>10, <2>1 DEF OneOpen, NoneDeclined, DiffStillTrue
  <2>3. \A w \in Workers : ask[w] = NoRow
    BY <1>11 DEF ActiveWorkers
  <2>4. AnswersDecide'
    BY <1>7, <1>8, <1>10, <2>1, <2>3 DEF AnswersDecide, done
  <2>5. QED
    BY <1>4, <1>6, <2>2, <2>4
<1>12. CASE ActiveWorkers # {}
  <2>1. change'[c] = row /\ terms' = terms
    BY <1>1, <1>12 DEF ProposalTypes
  <2>2. OneOpen' /\ NoneDeclined' /\ DiffStillTrue'
    BY <1>8, <1>9, <1>10, <2>1 DEF OneOpen, NoneDeclined, DiffStillTrue, row
  <2>3. Asked(c)' # {}
    BY <1>8, <1>12 DEF Asked, ActiveWorkers
  <2>4. AnswersDecide'
    BY <1>7, <1>10, <2>1, <2>3 DEF AnswersDecide, row
  <2>5. QED
    BY <1>4, <1>6, <2>2, <2>4
<1>13. QED
  BY <1>11, <1>12

LEMMA TakeKeeps ==
  ASSUME ProposalInv, NEW w \in Workers, NEW c \in Changes, NEW approve \in BOOLEAN,
         takeChange(w, c, approve)
  PROVE  ProposalInv'
<1> USE DEF ProposalInv
<1> DEFINE d == [change |-> c, approve |-> approve, last |-> Asked(c) = {w}]
<1>1. /\ Unlocked(c) /\ Open(c) /\ w \in Asked(c)
      /\ deciding' = [deciding EXCEPT ![w] = d]
      /\ UNCHANGED <<terms, change, approval>>
  BY DEF takeChange
<1>2. d \in Decision /\ d.change = c /\ d.last = (Asked(c) = {w})
  BY DEF Decision
<1> HIDE DEF d
<1>3. ProposalTypes'
  BY <1>1, <1>2 DEF ProposalTypes
<1>4. UNCHANGED <<OneOpen, NoneDeclined, DiffStillTrue, AnswersDecide>>
  BY <1>1 DEF OneOpen, NoneDeclined, DiffStillTrue, AnswersDecide, Open, Asked
<1>5. \A v \in Workers : deciding[v] = NoDecision
  <2> SUFFICES ASSUME NEW v \in Workers, deciding[v] # NoDecision PROVE FALSE
    OBVIOUS
  <2>1. deciding[v].change \in Changes /\ Open(deciding[v].change)
    BY DEF HeldAlone, Decision
  <2>2. QED
    BY <1>1, <2>1 DEF OneOpen, Unlocked
<1>6. deciding'[w] = d /\ \A v \in Workers : v # w => deciding'[v] = NoDecision
  BY <1>1, <1>5 DEF ProposalTypes
<1>7. Asked(c)' = Asked(c) /\ Open(c)' = Open(c)
  BY <1>1 DEF Asked, Open
<1>8. HeldAlone'
  BY <1>1, <1>2, <1>6, <1>7 DEF HeldAlone
<1>9. QED
  BY <1>3, <1>4, <1>8

\* What decide does, in terms of the proposal it holds.
LEMMA DecideDoes ==
  ASSUME ProposalInv, NEW w \in Workers, decide(w)
  PROVE  \E c \in Changes, answer \in {"APPROVED", "DECLINED"} :
           /\ Open(c) /\ w \in Asked(c)
           /\ approval' = [approval EXCEPT ![c][w] = answer]
           /\ deciding' = [deciding EXCEPT ![w] = NoDecision]
           /\ \/ /\ answer = "DECLINED" /\ terms' = terms
                 /\ change' = [change EXCEPT ![c].status = "DECLINED"]
              \/ /\ answer = "APPROVED" /\ Asked(c) # {w}
                 /\ terms' = terms /\ change' = change
              \/ /\ answer = "APPROVED" /\ Asked(c) = {w}
                 /\ terms' = change[c].new
                 /\ change' = [change EXCEPT ![c] =
                      [status |-> "APPROVED", old |-> change[c].old, new |-> change[c].new]]
<1> USE DEF ProposalInv
<1> DEFINE c == deciding[w].change
<1>1. deciding[w] # NoDecision
  BY DEF decide
<1>2. /\ c \in Changes /\ Open(c) /\ w \in Asked(c)
      /\ deciding[w].last = (Asked(c) = {w})
  BY <1>1 DEF HeldAlone, Decision
<1>3. QED
  BY <1>2 DEF decide, apply

LEMMA DecideKeeps ==
  ASSUME ProposalInv, NEW w \in Workers, decide(w)
  PROVE  ProposalInv'
<1> USE DEF ProposalInv
<1>1. PICK c \in Changes, answer \in {"APPROVED", "DECLINED"} :
           /\ Open(c) /\ w \in Asked(c)
           /\ approval' = [approval EXCEPT ![c][w] = answer]
           /\ deciding' = [deciding EXCEPT ![w] = NoDecision]
           /\ \/ /\ answer = "DECLINED" /\ terms' = terms
                 /\ change' = [change EXCEPT ![c].status = "DECLINED"]
              \/ /\ answer = "APPROVED" /\ Asked(c) # {w}
                 /\ terms' = terms /\ change' = change
              \/ /\ answer = "APPROVED" /\ Asked(c) = {w}
                 /\ terms' = change[c].new
                 /\ change' = [change EXCEPT ![c] =
                      [status |-> "APPROVED", old |-> change[c].old, new |-> change[c].new]]
  BY DecideDoes
<1>2. change[c] \in Change /\ change[c].status = "PROPOSED"
  BY <1>1 DEF ProposalTypes, Open, NoChange, NoRow
<1>3. deciding[w] # NoDecision
  BY DEF decide
<1>4. \A v \in Workers : deciding'[v] = NoDecision
  BY <1>1, <1>3 DEF HeldAlone, ProposalTypes
<1>5. HeldAlone'
  BY <1>4 DEF HeldAlone
<1>6. /\ \A d \in Changes : d # c => change'[d] = change[d] /\ approval'[d] = approval[d]
      /\ approval'[c][w] = answer
      /\ \A v \in Workers : v # w => approval'[c][v] = approval[c][v]
  BY <1>1 DEF ProposalTypes
<1>7. ProposalTypes'
  <2>1. terms' \in Terms
    BY <1>1, <1>2 DEF ProposalTypes, Change
  <2>2. change' \in [Changes -> Change \cup {NoChange}]
    BY <1>1, <1>2 DEF ProposalTypes, Change
  <2>3. /\ approval' \in [Changes -> [Workers -> {NoRow, "ASKED", "APPROVED", "DECLINED"}]]
        /\ deciding' \in [Workers -> Decision \cup {NoDecision}]
    BY <1>1 DEF ProposalTypes
  <2>4. QED
    BY <2>1, <2>2, <2>3 DEF ProposalTypes
<1>8. \A d \in Changes : d # c => ~Open(d)'
  BY <1>1, <1>6 DEF OneOpen, Open
<1>9. CASE answer = "DECLINED"
  <2>1. change'[c].status = "DECLINED" /\ ~Open(c)'
    BY <1>1, <1>2, <1>9 DEF ProposalTypes, Change, Open
  <2>2. OneOpen' /\ NoneDeclined' /\ DiffStillTrue'
    BY <1>8, <2>1 DEF OneOpen, NoneDeclined, DiffStillTrue
  <2>3. AnswersDecide'
    BY <1>6, <1>8, <1>9, <2>1 DEF AnswersDecide
  <2>4. QED
    BY <1>5, <1>7, <2>2, <2>3
<1>10. CASE answer = "APPROVED" /\ Asked(c) # {w}
  <2>1. change' = change /\ terms' = terms
    BY <1>1, <1>10
  <2>2. OneOpen' /\ DiffStillTrue'
    BY <2>1 DEF OneOpen, DiffStillTrue, Open
  <2>3. NoneDeclined'
    BY <1>6, <1>8, <1>10, <2>1 DEF NoneDeclined, Open
  <2>4. PICK v \in Asked(c) : v # w
    BY <1>1, <1>10
  <2>5. v \in Asked(c)'
    BY <1>6, <2>4 DEF Asked
  <2>6. AnswersDecide'
    BY <1>2, <1>6, <1>8, <2>1, <2>5 DEF AnswersDecide
  <2>7. QED
    BY <1>5, <1>7, <2>2, <2>3, <2>6
<1>11. CASE answer = "APPROVED" /\ Asked(c) = {w}
  <2>1. change'[c].status = "APPROVED" /\ ~Open(c)'
    BY <1>1, <1>11 DEF ProposalTypes, Open
  <2>2. OneOpen' /\ NoneDeclined' /\ DiffStillTrue'
    BY <1>8, <2>1 DEF OneOpen, NoneDeclined, DiffStillTrue
  <2>3. \A v \in Workers : approval'[c][v] \in {NoRow, "APPROVED"}
    BY <1>1, <1>6, <1>11 DEF NoneDeclined, Asked
  <2>4. AnswersDecide'
    BY <1>6, <1>8, <2>1, <2>3 DEF AnswersDecide
  <2>5. QED
    BY <1>5, <1>7, <2>2, <2>4
<1>12. QED
  BY <1>9, <1>10, <1>11

LEMMA DropKeeps ==
  ASSUME ProposalInv, NEW w \in Workers, dropDecision(w)
  PROVE  ProposalInv'
<1> USE DEF ProposalInv
<1>1. /\ deciding[w] # NoDecision
      /\ deciding' = [deciding EXCEPT ![w] = NoDecision]
      /\ UNCHANGED <<terms, change, approval>>
  BY DEF dropDecision
<1>2. ProposalTypes'
  BY <1>1 DEF ProposalTypes
<1>3. UNCHANGED <<OneOpen, NoneDeclined, DiffStillTrue, AnswersDecide>>
  BY <1>1 DEF OneOpen, NoneDeclined, DiffStillTrue, AnswersDecide, Open, Asked
<1>4. \A v \in Workers : deciding'[v] = NoDecision
  BY <1>1 DEF HeldAlone, ProposalTypes
<1>5. HeldAlone'
  BY <1>4 DEF HeldAlone
<1>6. QED
  BY <1>2, <1>3, <1>5

LEMMA ProposalStep ==
  ASSUME ProposalInv, [ChangesNext]_allVars
  PROVE  ProposalInv'
<1>1. CASE UNCHANGED changeVars
  BY <1>1 DEF changeVars, ProposalInv, ProposalTypes, OneOpen, HeldAlone,
     NoneDeclined, DiffStillTrue, AnswersDecide, Open, Asked
<1>2. CASE \E c \in Changes, new \in Terms : propose(c, new)
  BY <1>2, ProposeKeeps
<1>3. CASE \E w \in Workers, c \in Changes, approve \in BOOLEAN : takeChange(w, c, approve)
  BY <1>3, TakeKeeps
<1>4. CASE \E w \in Workers : decide(w) \/ dropDecision(w)
  BY <1>4, DecideKeeps, DropKeeps
<1>5. QED
  BY <1>1, <1>2, <1>3, <1>4 DEF ChangesNext, liveOn, allVars

LEMMA ProposalsBegin ==
  ASSUME ChangesInit
  PROVE  ProposalInv
<1> USE FirstTermsIsTerms DEF ChangesInit
<1>1. \A c \in Changes : change[c].status = NoRow
  BY DEF NoChange
<1>2. \A w \in Workers : deciding[w] = NoDecision
  OBVIOUS
<1>3. ProposalTypes
  BY DEF ProposalTypes
<1>4. OneOpen /\ HeldAlone /\ NoneDeclined /\ DiffStillTrue /\ AnswersDecide
  BY <1>1, <1>2 DEF OneOpen, HeldAlone, NoneDeclined, DiffStillTrue,
     AnswersDecide, Open, NoRow
<1>5. QED
  BY <1>3, <1>4 DEF ProposalInv

\* The proposals' invariant needs nothing of the job but who is on it.
THEOREM ChangesInvariance == ChangesSpec => [](IInv /\ ProposalInv)
<1>1. ChangesInit => IInv /\ ProposalInv
  BY LifeBegins, ProposalsBegin DEF ChangesInit
<1>2. IInv /\ ProposalInv /\ [ChangesNext]_allVars => (IInv /\ ProposalInv)'
  BY LifeGoesOn, LifeStep, ProposalStep
<1>3. QED
  BY <1>1, <1>2, PTL DEF ChangesSpec

\* For any crew and any number of proposals: while one is open, the terms it
\* starts from are those of the job (the diff shown is the diff applied).
THEOREM Diffs == ChangesSpec => []DiffStillTrue
BY ChangesInvariance, PTL DEF ProposalInv

\* For any crew answering in any order, with transactions that fail and are
\* repeated: a proposal becomes what its answers make it.
THEOREM Answers == ChangesSpec => []AnswersDecide
BY ChangesInvariance, PTL DEF ProposalInv

\* The scope changes do not touch the job's life: it is JobLifecycle's, and
\* every theorem of JobLifecycleProofs holds of it.
THEOREM ChangesImplementLife == ChangesSpec => Spec
<1>1. ChangesInit => Init
  BY DEF ChangesInit
<1>2. [ChangesNext]_allVars => [Next]_vars
  BY LifeGoesOn
<1>3. QED
  BY <1>1, <1>2, PTL DEF ChangesSpec, Spec

-----------------------------------------------------------------------------
(* The charge *)

\* No worker joins the job after these states.
Begun == JOB_STATES \ {"DRAFT", "PENDING_REVIEW", "POSTED", "MATCHING",
                       "PARTIALLY_FILLED", "FILLED"}

\* Everybody who ever had a place.
Had == {w \in Workers : assignment[w] # NoRow}

FundsTypes ==
  /\ charge \in Charge \cup {NoCharge}
  /\ earned \in [Workers -> Terms \cup {NoRow}]

\* Who joins after the charge has read the job takes the place of another.
NobodyNew ==
  charge.at # "none" => state \in Begun \/ Cardinality(Had) >= WorkersNeeded

Covered ==
  charge.at = "charged" =>
    (Cardinality(Had) <= WorkersNeeded => Cardinality(committed) <= charge.crew)

\* How the terms of the charge, of the earnings and of today hang together.
TermsLinked ==
  /\ charge.at # "none" => LedTo(charge.terms, terms)
  /\ \A w \in CompletedWorkers : earned[w] \in Terms /\ LedTo(earned[w], terms)
  /\ charge.at # "none" => \A w \in CompletedWorkers :
       LedTo(earned[w], charge.terms) \/ LedTo(charge.terms, earned[w])

FundsInv == FundsTypes /\ NobodyNew /\ Covered /\ TermsLinked

LEMMA BegunStays ==
  ASSUME TypeOK, [Next]_vars, state \in Begun
  PROVE  state' \in Begun
<1> USE DEF Begun, JOB_STATES, NoRow
<1>1. CASE Posting
  BY <1>1 DEF Posting, createJob, duplicateJob, postDraft, reviewJob
<1>2. CASE \E w \in Workers : acceptJob(w)
  BY <1>2 DEF acceptJob, OPEN_STATES
<1>3. CASE Requesting
  <2>1. state' = state \/ state' \in {"IN_PROGRESS", "COMPLETION_PENDING"}
    BY <1>3 DEF Requesting, BeginRequest, travel, start, complete,
       cancelAssignment, rollback, transitionJob
  <2>2. QED
    BY <2>1
<1>4. CASE Closing
  <2>1. state' = state \/ state' \in {"COMPLETED", "CLOSED", "CANCELLED",
                            "DISPUTED", "PAYMENT_PENDING", "PAID"}
    BY <1>4 DEF Closing, confirmCompletion, autoConfirmCompletions,
       closeSettledJobs, cancelJob, openDispute, resolveDispute, beginRelease,
       finishRelease, jobStep, transitionJob
  <2>2. QED
    BY <2>1
<1>5. QED
  BY <1>1, <1>2, <1>3, <1>4 DEF Next, vars

\* Nobody but one who accepts comes to have a place, or to be counted.
LEMMA NobodyElseJoins ==
  ASSUME TypeOK, [Next]_vars, ~ \E w \in Workers : acceptJob(w)
  PROVE  Had' = Had /\ committed' \subseteq committed
<1>1. CASE \E r \in Requests : travel(r) \/ start(r) \/ complete(r) \/ cancelAssignment(r)
  <2>1. PICK r \in Requests :
          travel(r) \/ start(r) \/ complete(r) \/ cancelAssignment(r)
    BY <1>1
  <2>2. /\ transitionAllowed(request[r]) /\ answered(r)
        /\ request[r].to \in WORK_STEPS \cup {"CANCELLED_BY_WORKER"}
    BY <2>1 DEF travel, start, complete, cancelAssignment, WORK_STEPS
  <2>3. PICK v \in Workers, to \in WORK_STEPS \cup {"CANCELLED_BY_WORKER"} :
          Active(v) /\ assignment' = [assignment EXCEPT ![v] = to]
    BY <2>2, RequestMoves DEF Request
  <2>4. \A w \in Workers :
          /\ assignment'[w] # NoRow <=> assignment[w] # NoRow
          /\ Active(w)' \/ assignment'[w] = "COMPLETED" =>
               Active(w) \/ assignment[w] = "COMPLETED"
    BY <2>3 DEF TypeOK, Active, ACTIVE_ASSIGNMENT_STATES, WORK_STEPS, NoRow
  <2>5. QED
    BY <2>4 DEF Had, committed, ActiveWorkers, CompletedWorkers
<1>2. CASE cancelJob
  <2>1. \A w \in Workers :
          /\ assignment'[w] # NoRow <=> assignment[w] # NoRow
          /\ Active(w)' \/ assignment'[w] = "COMPLETED" =>
               Active(w) \/ assignment[w] = "COMPLETED"
    BY <1>2 DEF cancelJob, TypeOK, Active, ACTIVE_ASSIGNMENT_STATES, NoRow
  <2>2. QED
    BY <2>1 DEF Had, committed, ActiveWorkers, CompletedWorkers
<1>3. CASE RowsUntouched
  BY <1>3 DEF RowsUntouched, Had, committed, ActiveWorkers, CompletedWorkers, Active
<1>4. QED
  BY <1>1, <1>2, <1>3, KindsOfSteps

LEMMA CommittedCount ==
  ASSUME IInv
  PROVE  /\ IsFiniteSet(committed) /\ IsFiniteSet(Had)
         /\ Cardinality(committed) \in 0 .. WorkersNeeded
         /\ Cardinality(Had) \in Nat
         /\ workers_filled <= Cardinality(Had)
<1> USE DEF IInv
<1>1. IsFiniteSet(committed) /\ IsFiniteSet(Had) /\ IsFiniteSet(Counted)
  BY SomeWorkersFinite DEF committed, ActiveWorkers, CompletedWorkers, Had, Counted
<1>2. committed \subseteq Counted /\ Counted \subseteq Had
  BY DEF committed, ActiveWorkers, CompletedWorkers, Had, Counted, Active,
     ACTIVE_ASSIGNMENT_STATES, NoRow
<1>3. /\ Cardinality(committed) \in Nat /\ Cardinality(Had) \in Nat
      /\ Cardinality(Counted) \in Nat
  BY <1>1, FS_CardinalityType
<1>4. /\ Cardinality(committed) <= Cardinality(Counted)
      /\ Cardinality(Counted) <= Cardinality(Had)
  BY <1>1, <1>2, FS_Subset
<1>5. QED
  BY <1>1, <1>3, <1>4, WorkersNeededPositive DEF SlotsAccounted, TypeOK


\* What is approved stays, and the terms only move along an approved change.
LEMMA TermsMove ==
  ASSUME ProposalInv, [ChangesNext]_allVars
  PROVE  /\ \A c \in Approved : c \in Approved' /\ change'[c] = change[c]
         /\ \/ terms' = terms
            \/ \E c \in Approved' : change'[c].old = terms /\ change'[c].new = terms'
<1> USE DEF ProposalInv
<1>1. CASE UNCHANGED changeVars
  BY <1>1 DEF changeVars, Approved
<1>2. CASE \E c \in Changes, new \in Terms : propose(c, new)
  <2>1. PICK c \in Changes, new \in Terms : propose(c, new)
    BY <1>2
  <2>2. c \notin Approved
    BY <2>1 DEF propose, Approved, NoChange, NoRow
  <2>3. CASE ActiveWorkers = {}
    <3>1. /\ terms' = new
          /\ change' = [change EXCEPT ![c] =
                          [status |-> "APPROVED", old |-> terms, new |-> new]]
      BY <2>1, <2>3 DEF propose, apply
    <3>2. QED
      BY <2>2, <3>1 DEF ProposalTypes, Approved
  <2>4. CASE ActiveWorkers # {}
    <3>1. terms' = terms /\ \A d \in Changes : d # c => change'[d] = change[d]
      BY <2>1, <2>4 DEF propose, ProposalTypes
    <3>2. QED
      BY <2>2, <3>1 DEF Approved
  <2>5. QED
    BY <2>3, <2>4
<1>3. CASE \E w \in Workers, c \in Changes, approve \in BOOLEAN : takeChange(w, c, approve)
  BY <1>3 DEF takeChange, Approved
<1>4. CASE \E w \in Workers : decide(w)
  <2>1. PICK c \in Changes :
          /\ Open(c)
          /\ \/ terms' = terms /\ change' = [change EXCEPT ![c].status = "DECLINED"]
             \/ terms' = terms /\ change' = change
             \/ /\ terms' = change[c].new
                /\ change' = [change EXCEPT ![c] =
                     [status |-> "APPROVED", old |-> change[c].old, new |-> change[c].new]]
    BY <1>4, DecideDoes
  <2>2. c \notin Approved /\ change[c].old = terms
    BY <2>1 DEF Approved, Open, DiffStillTrue
  <2>3. \A d \in Changes : d # c => change'[d] = change[d]
    BY <2>1 DEF ProposalTypes
  <2>4. \A d \in Approved : d \in Approved' /\ change'[d] = change[d]
    BY <2>2, <2>3 DEF Approved
  <2>5. terms' = terms \/
          (c \in Approved' /\ change'[c].old = terms /\ change'[c].new = terms')
    BY <2>1, <2>2 DEF ProposalTypes, Approved
  <2>6. QED
    BY <2>4, <2>5
<1>5. CASE \E w \in Workers : dropDecision(w)
  BY <1>5 DEF dropDecision, Approved
<1>6. QED
  BY <1>1, <1>2, <1>3, <1>4, <1>5 DEF ChangesNext, liveOn, allVars

LEMMA LinksStay ==
  ASSUME ProposalInv, [ChangesNext]_allVars, NEW x, NEW y, LedTo(x, y)
  PROVE  LedTo(x, y)'
BY TermsMove DEF LedTo

\* An approved change leads on from wherever the terms had come from.
LEMMA LinksLeadOn ==
  ASSUME ProposalInv, [ChangesNext]_allVars, NEW x, NEW y, NEW z,
         LedTo(x, y), y = terms, z = terms'
  PROVE  LedTo(x, z)'
<1>1. CASE z = y
  BY <1>1, LinksStay
<1>2. CASE \E c \in Approved' : change'[c].old = y /\ change'[c].new = z
  BY <1>2, TermsMove DEF LedTo
<1>3. QED
  BY <1>1, <1>2, TermsMove

-----------------------------------------------------------------------------
\* The two reads of the charge.
LEMMA ChargeReads ==
  ASSUME IInv, ProposalInv, FundsInv, readForCharge
  PROVE  FundsInv'
<1> USE DEF FundsInv
<1>1. /\ charge = NoCharge /\ state \in {"FILLED", "IN_PROGRESS"}
      /\ charge' = [at |-> "reading", terms |-> terms, crew |-> 0]
      /\ UNCHANGED <<allVars, earned>>
  BY DEF readForCharge
<1>2. /\ UNCHANGED <<state, assignment, change, terms, earned>>
      /\ charge'.at = "reading" /\ charge'.terms = terms
  BY <1>1 DEF allVars, vars, changeVars
<1>3. FundsTypes'
  BY <1>1, <1>2, WorkersNeededPositive
     DEF FundsTypes, Charge, IInv, ProposalInv, ProposalTypes
<1>4. state \in Begun \/ Cardinality(Had) >= WorkersNeeded
  BY <1>1, CommittedCount, WorkersNeededPositive
     DEF Begun, JOB_STATES, IInv, StateTellsStaffing, TypeOK
<1>5. NobodyNew' /\ Covered'
  BY <1>2, <1>4 DEF NobodyNew, Covered, Had
<1>6. TermsLinked'
  BY <1>2 DEF TermsLinked, LedTo, Approved, CompletedWorkers
<1>7. QED
  BY <1>3, <1>5, <1>6

LEMMA ChargeCounts ==
  ASSUME IInv, FundsInv, countCommitted
  PROVE  FundsInv'
<1> USE DEF FundsInv
<1>1. UNCHANGED <<state, assignment, change, terms, earned>>
  BY DEF countCommitted, allVars, vars, changeVars
<1>2. CASE committed = {}
  <2>1. charge' = NoCharge /\ charge'.at = "none"
    BY <1>2 DEF countCommitted, NoCharge
  <2>2. QED
    BY <1>1, <2>1 DEF FundsTypes, NobodyNew, Covered, TermsLinked, LedTo,
       Approved, CompletedWorkers
<1>3. CASE committed # {}
  <2>1. charge \in Charge /\ charge.at = "reading"
    BY DEF countCommitted, FundsTypes, NoCharge
  <2>2. charge' = [charge EXCEPT !.at = "charged", !.crew = Cardinality(committed)]
    BY <1>3 DEF countCommitted
  <2>3. Cardinality(committed) \in 0 .. WorkersNeeded
    BY CommittedCount
  <2>4. /\ charge' \in Charge /\ charge'.at = "charged" /\ charge'.terms = charge.terms
        /\ charge'.crew = Cardinality(committed)
    BY <2>1, <2>2, <2>3 DEF Charge
  <2>5. Covered'
    <3>1. committed' = committed
      BY <1>1 DEF committed, ActiveWorkers, CompletedWorkers, Active
    <3>2. QED
      BY <2>3, <2>4, <3>1 DEF Covered
  <2>6. FundsTypes' /\ NobodyNew' /\ TermsLinked'
    BY <1>1, <2>1, <2>4 DEF FundsTypes, NobodyNew, TermsLinked, Had, LedTo,
       Approved, CompletedWorkers
  <2>7. QED
    BY <2>5, <2>6
<1>4. QED
  BY <1>2, <1>3

\* The job goes on between and after the reads.
LEMMA JobGoesOnCovered ==
  ASSUME IInv, FundsInv, [Next]_vars, charge' = charge
  PROVE  NobodyNew' /\ Covered'
<1> USE DEF FundsInv
<1>1. CASE ~ \E w \in Workers : acceptJob(w)
  <2>1. Had' = Had /\ committed' \subseteq committed
    BY <1>1, NobodyElseJoins DEF IInv
  <2>2. NobodyNew'
    BY <2>1, BegunStays DEF NobodyNew, IInv
  <2>3. Cardinality(committed') <= Cardinality(committed)
    BY <2>1, CommittedCount, FS_Subset
  <2>4. charge.at = "charged" => charge.crew \in Nat
    BY WorkersNeededPositive DEF FundsTypes, Charge, NoCharge
  <2>5. IInv' => Cardinality(committed') \in Nat
    BY CommittedCount, FS_Subset, FS_CardinalityType, <2>1
  <2>6. Cardinality(committed') \in Nat
    BY <2>5, LifeStep
  <2>7. Covered'
    BY <2>1, <2>3, <2>4, <2>6, CommittedCount, WorkersNeededPositive DEF Covered
  <2>8. QED
    BY <2>2, <2>7
<1>2. CASE \E w \in Workers : acceptJob(w)
  <2>1. PICK w \in Workers : acceptJob(w)
    BY <1>2
  <2>2. w \notin Had /\ Had' = Had \cup {w}
    <3>1. assignment[w] = NoRow /\ assignment' = [assignment EXCEPT ![w] = "ACCEPTED"]
      BY <2>1 DEF acceptJob
    <3>2. QED
      BY <3>1 DEF Had, IInv, TypeOK, NoRow
  <2>3. Cardinality(Had') = Cardinality(Had) + 1
    BY <2>2, CommittedCount, FS_AddElement
  <2>4. state \notin Begun
    BY <2>1 DEF acceptJob, OPEN_STATES, Begun
  <2>5. charge.at # "none" => Cardinality(Had') > WorkersNeeded
    BY <2>3, <2>4, CommittedCount, WorkersNeededPositive DEF NobodyNew
  <2>6. Cardinality(Had') \in Nat
    BY <2>3, CommittedCount
  <2>7. QED
    BY <2>5, <2>6, WorkersNeededPositive DEF NobodyNew, Covered
<1>3. QED
  BY <1>1, <1>2

LEMMA JobGoesOnLinked ==
  ASSUME IInv, ProposalInv, FundsInv, [ChangesNext]_allVars, [Next]_vars,
         charge' = charge,
         earned' = [w \in Workers |->
                      IF assignment[w] # "COMPLETED" /\ assignment'[w] = "COMPLETED"
                        THEN terms ELSE earned[w]]
  PROVE  FundsTypes' /\ TermsLinked'
<1> USE DEF FundsInv
<1>1. FundsTypes'
  BY DEF FundsTypes, ProposalInv, ProposalTypes
<1>2. PICK t, u, ct, at : t = terms /\ u = terms' /\ ct = charge.terms /\ at = charge.at
  OBVIOUS
<1>3. at # "none" => LedTo(ct, t) /\ LedTo(ct, u)'
  BY <1>2, LinksLeadOn DEF TermsLinked
<1>4. ASSUME NEW w \in Workers, assignment'[w] = "COMPLETED"
      PROVE  \E e \in Terms :
               /\ e = earned'[w] /\ LedTo(e, u)'
               /\ at # "none" => LedTo(e, ct)' \/ LedTo(ct, e)'
  <2>1. CASE assignment[w] = "COMPLETED"
    <3>1. PICK e : e = earned[w]
      OBVIOUS
    <3>2. w \in CompletedWorkers /\ earned'[w] = e
      BY <2>1, <3>1 DEF CompletedWorkers
    <3>3. /\ e \in Terms /\ LedTo(e, t)
          /\ at # "none" => LedTo(e, ct) \/ LedTo(ct, e)
      BY <1>2, <3>1, <3>2 DEF TermsLinked
    <3>4. LedTo(e, u)'
      BY <1>2, <3>3, LinksLeadOn
    <3>5. at # "none" => LedTo(e, ct)' \/ LedTo(ct, e)'
      BY <3>3, LinksStay
    <3>6. QED
      BY <3>2, <3>3, <3>4, <3>5
  <2>2. CASE assignment[w] # "COMPLETED"
    <3>1. earned'[w] = t /\ t \in Terms
      BY <1>2, <1>4, <2>2 DEF ProposalInv, ProposalTypes
    <3>2. LedTo(t, t)
      BY DEF LedTo
    <3>3. LedTo(t, u)'
      BY <1>2, <3>2, LinksLeadOn
    <3>4. at # "none" => LedTo(ct, t)'
      BY <1>3, LinksStay
    <3>5. QED
      BY <3>1, <3>3, <3>4
  <2>3. QED
    BY <2>1, <2>2
<1>5. \A w \in CompletedWorkers' :
        /\ earned'[w] \in Terms /\ LedTo(earned[w], terms)'
        /\ (charge.at # "none")' =>
             LedTo(earned[w], charge.terms)' \/ LedTo(charge.terms, earned[w])'
  <2> SUFFICES ASSUME NEW w \in Workers, assignment'[w] = "COMPLETED"
               PROVE  /\ earned'[w] \in Terms /\ LedTo(earned[w], terms)'
                      /\ (charge.at # "none")' =>
                           LedTo(earned[w], charge.terms)' \/ LedTo(charge.terms, earned[w])'
    BY DEF CompletedWorkers
  <2>1. PICK e \in Terms :
               /\ e = earned'[w] /\ LedTo(e, u)'
               /\ at # "none" => LedTo(e, ct)' \/ LedTo(ct, e)'
    BY <1>4
  <2>2. QED
    BY <1>2, <2>1 DEF LedTo
<1>6. (charge.at # "none")' => LedTo(charge.terms, terms)'
  BY <1>2, <1>3 DEF LedTo
<1>7. TermsLinked'
  BY <1>5, <1>6 DEF TermsLinked
<1>8. QED
  BY <1>1, <1>7

LEMMA FundsStep ==
  ASSUME IInv, ProposalInv, FundsInv, [FundsNext]_<<allVars, fundsVars>>
  PROVE  (IInv /\ ProposalInv /\ FundsInv)'
<1>1. [ChangesNext]_allVars
  BY DEF FundsNext, readForCharge, countCommitted, jobGoesOn
<1>2. (IInv /\ ProposalInv)'
  BY <1>1, LifeGoesOn, LifeStep, ProposalStep
<1>3. CASE readForCharge
  BY <1>2, <1>3, ChargeReads
<1>4. CASE countCommitted
  BY <1>2, <1>4, ChargeCounts
<1>5. CASE jobGoesOn
  BY <1>1, <1>2, <1>5, LifeGoesOn, JobGoesOnCovered, JobGoesOnLinked
     DEF jobGoesOn, FundsInv
<1>6. CASE UNCHANGED <<allVars, fundsVars>>
  BY <1>2, <1>6 DEF allVars, vars, changeVars, fundsVars, FundsInv, FundsTypes,
     NobodyNew, Had, Covered, committed, ActiveWorkers, CompletedWorkers,
     Active, TermsLinked, LedTo, Approved
<1>7. QED
  BY <1>3, <1>4, <1>5, <1>6 DEF FundsNext

\* The job, the proposals and the charge keep their invariants together.
THEOREM FundsInvariance == FundsSpec => [](IInv /\ ProposalInv /\ FundsInv)
<1>1. FundsInit => IInv /\ ProposalInv /\ FundsInv
  <2> SUFFICES ASSUME FundsInit PROVE IInv /\ ProposalInv /\ FundsInv
    OBVIOUS
  <2>1. IInv /\ ProposalInv
    BY LifeBegins, ProposalsBegin DEF FundsInit, ChangesInit
  <2>2. /\ charge = NoCharge /\ charge.at = "none"
        /\ earned = [w \in Workers |-> NoRow]
        /\ CompletedWorkers = {}
    BY DEF FundsInit, ChangesInit, Init, NoCharge, CompletedWorkers, NoRow
  <2>3. FundsInv
    BY <2>2 DEF FundsInv, FundsTypes, NobodyNew, Covered, TermsLinked
  <2>4. QED
    BY <2>1, <2>3
<1>2. IInv /\ ProposalInv /\ FundsInv /\ [FundsNext]_<<allVars, fundsVars>>
        => (IInv /\ ProposalInv /\ FundsInv)'
  BY FundsStep
<1>3. QED
  BY <1>1, <1>2, PTL DEF FundsSpec

\* Every column of the job, its proposals, its charge and its earnings keeps
\* its type; the charge never counts more workers than there are places.
THEOREM FundsTypeCorrect == FundsSpec => []FundsTypeOK
<1>1. IInv /\ ProposalInv /\ FundsInv => FundsTypeOK
  BY DEF IInv, ProposalInv, ProposalTypes, FundsInv, FundsTypes, FundsTypeOK,
     ChangesTypeOK
<1>2. QED
  BY <1>1, FundsInvariance, PTL

\* For any crew, any terms and any number of changes: unless a place changed
\* hands the charge counts everybody who completes, and what each earns is at
\* the terms charged, or approved changes lead from the ones to the others.
THEOREM Funds == FundsSpec => []FundsCoverWork
<1>1. IInv /\ ProposalInv /\ FundsInv => FundsCoverWork
  <2> SUFFICES ASSUME IInv, FundsInv, charge.at = "charged" PROVE FundsCoverWork
    BY DEF FundsCoverWork
  <2> USE DEF FundsInv
  <2>1. Had = {w \in Workers : assignment[w] # NoRow}
    BY DEF Had
  <2>2. /\ CompletedWorkers \subseteq committed /\ IsFiniteSet(committed)
        /\ Cardinality(committed) \in Nat
    BY CommittedCount DEF committed
  <2>3. /\ Cardinality(CompletedWorkers) <= Cardinality(committed)
        /\ Cardinality(CompletedWorkers) \in Nat
    BY <2>2, FS_Subset, FS_CardinalityType
  <2>4. charge.crew \in Nat
    BY WorkersNeededPositive DEF FundsTypes, Charge, NoCharge
  <2>5. Cardinality(Had) <= WorkersNeeded => Cardinality(CompletedWorkers) <= charge.crew
    BY <2>2, <2>3, <2>4 DEF Covered
  <2>6. \A w \in CompletedWorkers :
          LedTo(earned[w], charge.terms) \/ LedTo(charge.terms, earned[w])
    BY DEF TermsLinked
  <2>7. QED
    BY <2>1, <2>5, <2>6 DEF FundsCoverWork
<1>2. QED
  BY <1>1, FundsInvariance, PTL
=============================================================================
