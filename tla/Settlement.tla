----------------------------- MODULE Settlement -----------------------------
(***************************************************************************)
(* The money of one job: payments.service.ts and payments.listeners.ts on  *)
(* top of JobLifecycle.  A job event starts a money handler after the      *)
(* transaction has committed; a handler is a sequence of separate          *)
(* statements and calls of the payment gateway, and several of them run at *)
(* once.  The gateway (Stripe) is outside the repository: it answers a key *)
(* it has seen with what it did the first time, its answer may be lost     *)
(* after it has acted (LostAnswers), and its webhooks arrive late.  A      *)
(* crash of the server (Crashes) forgets the handlers and their events; a  *)
(* failing statement (FailedStatements) ends its handler or is caught.     *)
(*                                                                         *)
(* Left out: tips, reversed transfers, the fee (payouts are counted gross) *)
(* and money that no job step moves.  Reviews and drafts come before any   *)
(* money, so the job starts posted; requests on an assignment are served   *)
(* one at a time (JobLifecycle looks at their interleavings).              *)
(***************************************************************************)
EXTENDS JobLifecycle

CONSTANTS
  Handlers,        \* slots for money handlers in flight
  Charges,         \* ids of the JOB_PAYMENT rows: bounds the retries
  Pay,             \* gross earnings of one worker, in cents
  LateRefundBps,   \* what a late cancellation leaves to the customer
  PartialAmount,   \* what an admin enters for a partial refund, in cents
  Crashes,         \* whether the server may crash
  LostAnswers,     \* whether an answer of the gateway may be lost
  FailedStatements \* whether a statement of the database may fail

\* The whole of a sum, in basis points.
ALL_BPS == 10000

ASSUME AmountsNat ==
  /\ Pay \in Nat \ {0} /\ LateRefundBps \in 0..ALL_BPS /\ PartialAmount \in Nat \ {0}
  /\ IsFiniteSet(Charges)

VARIABLES
  payment,    \* payments, kind JOB_PAYMENT: the row of each charge
  refund,     \* payments, kind REFUND: a row for each charge and reason
  payout,     \* payouts.status, for each worker and kind
  captured,   \* gateway: what became of each charge
  refundedAt, \* gateway: cents it gave back, for each charge and reason
  transfers,  \* gateway: the transfers it made, each under its key
  hooks,      \* gateway: webhooks not delivered yet
  handler     \* the money handlers in flight

books   == <<payment, refund, payout>>
gateway == <<captured, refundedAt, transfers, hooks>>
money   == <<books, gateway, handler>>

NoPayment == [status |-> NoRow, cents |-> 0, refunded |-> 0,
              live |-> FALSE, intent |-> FALSE]
\* live: the row holds the key job:<id>:charge:v1; intent: it has the id of
\* its payment intent.
Payment == [status   : {"REQUIRES_PAYMENT", "PROCESSING", "SUCCEEDED", "FAILED",
                        "REFUNDED", "PARTIALLY_REFUNDED", "CANCELLED"},
            cents : Nat, refunded : Nat, live : BOOLEAN, intent : BOOLEAN]

NoRefund == [status |-> NoRow, cents |-> 0]
Refund == [status : {"PROCESSING", "SUCCEEDED", "FAILED"}, cents : Nat]
REFUND_REASONS == {"cancel", "dispute"}

GIVEN_UP == {"CANCELLED", "REFUNDED", "PARTIALLY_REFUNDED"}

PAYOUT_KINDS == {"JOB_EARNINGS", "CANCELLATION_COMPENSATION"}
PAYOUT_STATES == {"PENDING", "IN_TRANSIT", "FAILED"}

\* A handler in flight: its next statement, and its local variables.
NoHandler == [at |-> "idle", row |-> NoRow, todo |-> {}, worker |-> NoRow,
              kind |-> NoRow, cents |-> 0, bps |-> 0, answer |-> NoRow]
Starting(at) == [NoHandler EXCEPT !.at = at]

STEPS == {"charge", "insert", "call", "record", "note", "cancel row", "supersede",
          "auto confirm", "release", "pay", "transfer", "transferred",
          "outcome", "compensate", "fixed refund", "insert refund", "refund",
          "refunded", "total"}

PayTypeOK ==
  /\ payment \in [Charges -> Payment \cup {NoPayment}]
  /\ refund \in [Charges \X REFUND_REASONS -> Refund \cup {NoRefund}]
  /\ payout \in [Workers \X PAYOUT_KINDS -> PAYOUT_STATES \cup {NoRow}]
  /\ captured \in [Charges -> {NoRow, "PROCESSING", "CAPTURED", "DECLINED"}]
  /\ refundedAt \in [Charges \X REFUND_REASONS -> Nat]
  /\ \A h \in Handlers : handler[h] = NoHandler \/ handler[h].at \in STEPS

PayInit ==
  /\ Init
  /\ payment = [p \in Charges |-> NoPayment]
  /\ refund = [k \in Charges \X REFUND_REASONS |-> NoRefund]
  /\ payout = [k \in Workers \X PAYOUT_KINDS |-> NoRow]
  /\ captured = [p \in Charges |-> NoRow]
  /\ refundedAt = [k \in Charges \X REFUND_REASONS |-> 0]
  /\ transfers = {} /\ hooks = {}
  /\ handler = [h \in Handlers |-> NoHandler]

-----------------------------------------------------------------------------
(* Handlers *)

\* An event of the job is taken up by its listener.
launch(h, new) ==
  /\ handler[h] = NoHandler
  /\ handler' = [handler EXCEPT ![h] = new]

at(h, step) == handler[h].at = step
goto(h, step) == handler' = [handler EXCEPT ![h].at = step]
finish(h) == handler' = [handler EXCEPT ![h] = NoHandler]

Rows == {p \in Charges : payment[p] # NoPayment}
RowsIn(statuses) == {p \in Rows : payment[p].status \in statuses}

-----------------------------------------------------------------------------
(* chargeForJob, on job.filled and job.started *)

\* The job's state is read first, ...
readJob(h) ==
  /\ at(h, "charge")
  /\ IF state \in {"FILLED", "IN_PROGRESS"} THEN goto(h, "insert") ELSE finish(h)
  /\ UNCHANGED <<vars, books, gateway>>

\* (A fault: the insert does not look for a row with the key.)
Fault_keyFree == FALSE

\* A row holds job:<id>:charge:v1, which is UNIQUE.
keyTaken == \E p \in Rows : payment[p].live

\* ... then the workers are counted, and the row is inserted unless a row holds
\* the key.  (Nothing but another charge can tell count and insert apart.)
insertCharge(h) ==
  /\ at(h, "insert")
  /\ IF OnJob = {} \/ keyTaken
       THEN finish(h) /\ UNCHANGED payment
       ELSE \E p \in Charges \ Rows :
              /\ payment' = [payment EXCEPT ![p] =
                   [status |-> "REQUIRES_PAYMENT", cents |-> Pay * Cardinality(OnJob),
                    refunded |-> 0, live |-> TRUE, intent |-> FALSE]]
              /\ handler' = [handler EXCEPT ![h].at = "call", ![h].row = p]
  /\ UNCHANGED <<vars, refund, payout, gateway>>

\* What the gateway tells by webhook once a charge has ended.
hooksFor(p, outcome) ==
  IF outcome \in {"CAPTURED", "DECLINED"} THEN hooks \cup {<<p, outcome>>} ELSE hooks

\* What the gateway did stays unknown to the handler: its answer is lost, or
\* the statement that records it fails, and the same catch follows.
Unknown == LostAnswers \/ FailedStatements

\* The call may fail before the gateway acts (or there is no card), and its
\* answer may be lost afterwards; either way it throws.
callCharge(h) ==
  /\ at(h, "call")
  /\ LET p == handler[h].row IN
     \E answer \in {"PROCESSING", "CAPTURED", "DECLINED", "error"} :
       /\ handler' = [handler EXCEPT ![h].at = "record", ![h].answer = answer]
       /\ \/ answer = "error" /\ UNCHANGED <<captured, hooks>>
          \/ \E outcome \in {"PROCESSING", "CAPTURED", "DECLINED"} :
               /\ outcome = answer \/ (Unknown /\ answer = "error")
               /\ captured' = [captured EXCEPT ![p] = outcome]
               /\ hooks' = hooksFor(p, outcome)
  /\ UNCHANGED <<vars, books, refundedAt, transfers>>

\* (A fault: what is not declined is taken to be paid.)
Fault_recordOptimistic(h) ==
  /\ at(h, "record")
  /\ payment' = [payment EXCEPT
       ![handler[h].row].status =
          IF handler[h].answer = "DECLINED" THEN "FAILED" ELSE "SUCCEEDED",
       ![handler[h].row].intent = handler[h].answer # "error"]
  /\ finish(h)
  /\ UNCHANGED <<vars, refund, payout, gateway>>

\* (A fault: the gateway's word for the outcome goes into the row.)
Fault_recordVerbatim(h) ==
  /\ at(h, "record")
  /\ payment' = [payment EXCEPT ![handler[h].row].status = handler[h].answer,
                                ![handler[h].row].intent = handler[h].answer # "error"]
  /\ finish(h)
  /\ UNCHANGED <<vars, refund, payout, gateway>>

recordCharge(h) ==
  /\ at(h, "record")
  /\ payment' = [payment EXCEPT
       ![handler[h].row].status =
          CASE handler[h].answer = "CAPTURED" -> "SUCCEEDED"
            [] handler[h].answer = "PROCESSING" -> "PROCESSING"
            [] OTHER -> "FAILED",
       ![handler[h].row].intent = handler[h].answer # "error"]
  /\ IF handler[h].answer = "CAPTURED" THEN goto(h, "note") ELSE finish(h)
  /\ UNCHANGED <<vars, refund, payout, gateway>>

\* The success is noted in job_events.  If that fails, the catch of the charge
\* marks the row FAILED.
noteCharge(h) ==
  /\ at(h, "note")
  /\ finish(h)
  /\ \/ UNCHANGED payment
     \/ /\ FailedStatements
        /\ payment' = [payment EXCEPT ![handler[h].row].status = "FAILED"]
  /\ UNCHANGED <<vars, refund, payout, gateway>>

-----------------------------------------------------------------------------
(* retryCharge, on the customer's request *)

retryCharge(h) ==
  /\ \E p \in RowsIn({"FAILED"}) :
       launch(h, [Starting("cancel row") EXCEPT !.row = p])
  /\ Charges # Rows
  /\ UNCHANGED <<vars, books, gateway>>

cancelFailed(h) ==
  /\ at(h, "cancel row")
  /\ payment' = [payment EXCEPT ![handler[h].row].status = "CANCELLED"]
  /\ goto(h, "supersede")
  /\ UNCHANGED <<vars, refund, payout, gateway>>

\* The row gives up its key; then chargeForJob.
supersede(h) ==
  /\ at(h, "supersede")
  /\ payment' = [payment EXCEPT ![handler[h].row].live = FALSE]
  /\ handler' = [handler EXCEPT ![h] = Starting("charge")]
  /\ UNCHANGED <<vars, refund, payout, gateway>>

-----------------------------------------------------------------------------
(* Transfers, of earnings and of compensations *)

\* (A fault: a key of the attempt.)
Fault_keyOfAttempt(h, w, kind) == <<w, kind, h>>

\* The idempotency key a transfer is made under: of the assignment and kind.
transferKey(h, w, kind) == <<w, kind>>

\* The account of the worker may not be ready, the call may fail before the
\* gateway acts, and its answer may be lost afterwards.
callTransfer(h) ==
  /\ at(h, "transfer")
  /\ LET w == handler[h].worker
         kind == handler[h].kind
         made == [worker |-> w, kind |-> kind, key |-> transferKey(h, w, kind)]
     IN  \E answer \in {"ok", "error"} :
           /\ handler' = [handler EXCEPT ![h].at = "transferred", ![h].answer = answer]
           /\ \/ answer = "error" /\ UNCHANGED transfers
              \/ /\ answer = "ok" \/ Unknown
                 /\ transfers' = transfers \cup {made}
  /\ UNCHANGED <<vars, books, captured, refundedAt, hooks>>

\* (A fault: the failure is recorded whatever the row holds by now.)
Fault_recordAnyTransfer(h) ==
  /\ at(h, "transferred")
  /\ LET k == <<handler[h].worker, handler[h].kind>> IN
     payout' = [payout EXCEPT ![k] =
                  IF handler[h].answer = "ok" THEN "IN_TRANSIT" ELSE "FAILED"]
  /\ handler' = [handler EXCEPT ![h].at = IF handler[h].kind = "JOB_EARNINGS"
                                            THEN "pay" ELSE "compensate",
                                ![h].todo = @ \ {handler[h].worker}]
  /\ UNCHANGED <<vars, payment, refund, gateway>>

\* UPDATE ... WHERE stripe_transfer_id IS NULL; for a compensation by the row's
\* id, which no other handler knows.
recordTransfer(h) ==
  /\ at(h, "transferred")
  /\ LET k == <<handler[h].worker, handler[h].kind>> IN
     payout' = [payout EXCEPT ![k] =
                  IF @ = "IN_TRANSIT" \/ handler[h].answer = "ok"
                    THEN "IN_TRANSIT" ELSE "FAILED"]
  /\ handler' = [handler EXCEPT ![h].at = IF handler[h].kind = "JOB_EARNINGS"
                                            THEN "pay" ELSE "compensate",
                                ![h].todo = @ \ {handler[h].worker}]
  /\ UNCHANGED <<vars, payment, refund, gateway>>

-----------------------------------------------------------------------------
(* releasePayouts, on job.completion_confirmed and on a RELEASE *)

Funded == RowsIn({"SUCCEEDED"}) # {}
Transferred(w) == payout[<<w, "JOB_EARNINGS">>] = "IN_TRANSIT"

\* The first transaction: a COMPLETED job needs a successful charge, a job
\* that is PAYMENT_PENDING already does not.  A payout row is inserted for
\* each completed worker without one; those without a transfer are to be paid.
prepareRelease(h) ==
  /\ at(h, "release")
  /\ IF state = "PAYMENT_PENDING" \/ (state = "COMPLETED" /\ Funded)
       THEN /\ handler' = [handler EXCEPT ![h].at = "pay",
                             ![h].todo = {w \in CompletedWorkers : ~Transferred(w)}]
            /\ payout' = [k \in DOMAIN payout |->
                 IF k \in CompletedWorkers \X {"JOB_EARNINGS"} /\ payout[k] = NoRow
                   THEN "PENDING" ELSE payout[k]]
       ELSE finish(h) /\ UNCHANGED payout
  /\ IF state = "COMPLETED" /\ Funded THEN beginRelease ELSE UNCHANGED vars
  /\ UNCHANGED <<payment, refund, gateway>>

payNext(h) ==
  /\ at(h, "pay")
  /\ \E w \in handler[h].todo :
       handler' = [handler EXCEPT ![h].at = "transfer", ![h].worker = w,
                                  ![h].kind = "JOB_EARNINGS"]
  /\ UNCHANGED <<vars, books, gateway>>

\* (Two faults: nobody asks whether every transfer was made, ...
Fault_closeUnchecked(h) ==
  /\ at(h, "pay") /\ handler[h].todo = {}
  /\ finish(h)
  /\ IF state = "PAYMENT_PENDING" THEN finishRelease ELSE UNCHANGED vars
  /\ UNCHANGED <<books, gateway>>

\* ... and nobody looks at the state again.)
Fault_closeAnyState(h) ==
  /\ at(h, "pay") /\ handler[h].todo = {}
  /\ finish(h)
  /\ state' = "PAID"
  /\ UNCHANGED <<review_status, workers_filled, assignment, jobs_cancelled,
                 dispute, request, books, gateway>>

\* The last transaction: the job is PAID once every completed worker is.
closeRelease(h) ==
  /\ at(h, "pay") /\ handler[h].todo = {}
  /\ finish(h)
  /\ IF state = "PAYMENT_PENDING" /\ \A w \in CompletedWorkers : Transferred(w)
       THEN finishRelease ELSE UNCHANGED vars
  /\ UNCHANGED <<books, gateway>>

-----------------------------------------------------------------------------
(* Refunds: executeCancellationOutcome and refundFixedAmount *)

\* todo holds the workers who had set out when the job was cancelled; cents
\* adds up what they are promised.
readOutcome(h) ==
  /\ at(h, "outcome")
  /\ \/ /\ RowsIn({"SUCCEEDED"}) = {}
        /\ finish(h)
     \/ \E p \in RowsIn({"SUCCEEDED"}) :
          handler' = [handler EXCEPT ![h].at = "compensate", ![h].row = p]
  /\ UNCHANGED <<vars, books, gateway>>

Compensation == (Pay + 2) \div 4

\* A worker who has the row already is passed over.
compensateNext(h) ==
  /\ at(h, "compensate")
  /\ \E w \in handler[h].todo :
       LET k == <<w, "CANCELLATION_COMPENSATION">> IN
       IF payout[k] # NoRow
         THEN /\ handler' = [handler EXCEPT ![h].todo = @ \ {w}]
              /\ UNCHANGED payout
         ELSE /\ payout' = [payout EXCEPT ![k] = "PENDING"]
              /\ handler' = [handler EXCEPT ![h].at = "transfer", ![h].worker = w,
                               ![h].kind = "CANCELLATION_COMPENSATION",
                               ![h].cents = @ + Compensation]
  /\ UNCHANGED <<vars, payment, refund, gateway>>

Least(a, b) == IF a < b THEN a ELSE b

\* The customer's part of the charge, at most what the promises leave of it.
CustomerPart(h) ==
  LET amount == payment[handler[h].row].cents
  IN  Least(amount - handler[h].cents, (amount * handler[h].bps + ALL_BPS \div 2) \div ALL_BPS)

compensated(h) ==
  /\ at(h, "compensate") /\ handler[h].todo = {}
  /\ IF CustomerPart(h) > 0
       THEN handler' = [handler EXCEPT ![h].at = "insert refund",
                          ![h].kind = "cancel", ![h].cents = CustomerPart(h)]
       ELSE finish(h)
  /\ UNCHANGED <<vars, books, gateway>>

\* The admin's amount, at most what is not refunded yet.
readFixed(h) ==
  /\ at(h, "fixed refund")
  /\ \/ /\ RowsIn({"SUCCEEDED", "PARTIALLY_REFUNDED"}) = {}
        /\ finish(h)
     \/ \E p \in RowsIn({"SUCCEEDED", "PARTIALLY_REFUNDED"}) :
          LET cents == Least(handler[h].cents, payment[p].cents - payment[p].refunded)
          IN  IF cents > 0
                THEN handler' = [handler EXCEPT ![h].at = "insert refund",
                                   ![h].row = p, ![h].kind = "dispute", ![h].cents = cents]
                ELSE finish(h)
  /\ UNCHANGED <<vars, books, gateway>>

\* The key of the row: one refund for each charge and reason.
refundKey(h) == <<handler[h].row, handler[h].kind>>

insertRefund(h) ==
  /\ at(h, "insert refund")
  /\ IF refund[refundKey(h)] # NoRefund
       THEN finish(h) /\ UNCHANGED refund
       ELSE /\ refund' = [refund EXCEPT ![refundKey(h)] =
                            [status |-> "PROCESSING", cents |-> handler[h].cents]]
            /\ goto(h, "refund")
  /\ UNCHANGED <<vars, payment, payout, gateway>>

\* The cents the gateway gave back of a charge.
GivenBack(p) == refundedAt[<<p, "cancel">>] + refundedAt[<<p, "dispute">>]

\* The gateway gives back no more than it captured.
callRefund(h) ==
  /\ at(h, "refund")
  /\ LET p == handler[h].row IN
     \E answer \in {"ok", "error"} :
       /\ handler' = [handler EXCEPT ![h].at = "refunded", ![h].answer = answer]
       /\ \/ answer = "error" /\ UNCHANGED refundedAt
          \/ /\ answer = "ok" \/ Unknown
             /\ GivenBack(p) + handler[h].cents <= payment[p].cents
             /\ refundedAt' = [refundedAt EXCEPT ![refundKey(h)] = handler[h].cents]
  /\ UNCHANGED <<vars, books, captured, transfers, hooks>>

recordRefund(h) ==
  /\ at(h, "refunded")
  /\ LET ok == handler[h].answer = "ok" IN
     /\ refund' = [refund EXCEPT ![refundKey(h)].status =
                     IF ok THEN "SUCCEEDED" ELSE "FAILED"]
     /\ IF ok THEN goto(h, "total") ELSE finish(h)
  /\ UNCHANGED <<vars, payment, payout, gateway>>

\* (A fault: the total is written from the amount, not added to.)
Fault_setTotal(h) ==
  /\ at(h, "total")
  /\ LET p == handler[h].row IN
     payment' = [payment EXCEPT ![p].refunded = handler[h].cents,
                                ![p].status = "PARTIALLY_REFUNDED"]
  /\ finish(h)
  /\ UNCHANGED <<vars, refund, payout, gateway>>

\* The charge's total grows, and that is noted in job_events.  If either fails
\* the catch marks the refund FAILED, whether or not the total has grown.
addToTotal(h) ==
  /\ at(h, "total")
  /\ finish(h)
  /\ LET p == handler[h].row
         total == payment[p].refunded + handler[h].cents
         added == [payment EXCEPT ![p].refunded = total,
                     ![p].status = IF total >= payment[p].cents
                                     THEN "REFUNDED" ELSE "PARTIALLY_REFUNDED"]
     IN  \/ payment' = added /\ UNCHANGED refund
         \/ /\ FailedStatements
            /\ payment' \in {payment, added}
            /\ refund' = [refund EXCEPT ![refundKey(h)].status = "FAILED"]
  /\ UNCHANGED <<vars, payout, gateway>>

-----------------------------------------------------------------------------
(* Webhooks, and the server's crash *)

\* A charge that was PROCESSING ends at the gateway.
gatewaySettles ==
  \E p \in Charges, outcome \in {"CAPTURED", "DECLINED"} :
    /\ captured[p] = "PROCESSING"
    /\ captured' = [captured EXCEPT ![p] = outcome]
    /\ hooks' = hooksFor(p, outcome)
    /\ UNCHANGED <<vars, books, refundedAt, transfers, handler>>

\* processWebhook: the event is inserted, so that it is never handled again,
\* and then handled: it finds the row by its payment intent, if that is
\* recorded yet, and only while the row awaits an outcome.
processWebhook ==
  \E event \in hooks :
    LET p == event[1] IN
    /\ hooks' = hooks \ {event}
    /\ payment' = IF /\ payment[p].intent
                     /\ payment[p].status \in {"REQUIRES_PAYMENT", "PROCESSING"}
                    THEN [payment EXCEPT ![p].status =
                            IF event[2] = "CAPTURED" THEN "SUCCEEDED" ELSE "FAILED"]
                    ELSE payment
    /\ UNCHANGED <<vars, refund, payout, captured, refundedAt, transfers, handler>>

\* A webhook that was inserted and not handled: a later delivery finds it there.
webhookLost ==
  /\ Crashes
  /\ \E event \in hooks : hooks' = hooks \ {event}
  /\ UNCHANGED <<vars, books, captured, refundedAt, transfers, handler>>

\* The handlers live in the memory of the server.
crash ==
  /\ Crashes
  /\ handler' = [h \in Handlers |-> NoHandler]
  /\ handler # handler'
  /\ UNCHANGED <<vars, books, gateway>>

\* A statement fails that nothing but the listener catches, or the statement in
\* a catch fails too.
abandon(h) ==
  /\ FailedStatements
  /\ handler[h] # NoHandler /\ ~at(h, "refund")
  /\ at(h, "transfer") => handler[h].kind = "JOB_EARNINGS"
  /\ finish(h)
  /\ UNCHANGED <<vars, books, gateway>>

-----------------------------------------------------------------------------
(* The job's steps, with the events they emit after the commit *)

nothingEmitted == UNCHANGED money
emit(new) == (\E h \in Handlers : launch(h, new)) /\ UNCHANGED <<books, gateway>>

post == createJob(FALSE, FALSE) /\ nothingEmitted

accept(w) ==
  /\ acceptJob(w)
  /\ IF state' = "FILLED" THEN emit(Starting("charge")) ELSE nothingEmitted

\* A request the table allows, or a repeated start.
ask(r, w, to) ==
  /\ BeginRequest(r, w, to)
  /\ \/ isValidAssignmentTransition(assignment[w], to)
     \/ assignment[w] = "STARTED" /\ to = "STARTED"
  /\ nothingEmitted

\* job.started is emitted for every answer that says STARTED, the repeated
\* ones included.
serve(r) ==
  \/ (travel(r) \/ complete(r) \/ cancelAssignment(r)) /\ nothingEmitted
  \/ start(r) /\ emit(Starting("charge"))
  \/ /\ request[r].seen = "STARTED" /\ request[r].to = "STARTED"
     /\ rollback(r) /\ emit(Starting("charge"))

\* The policy: full refund, less the compensation of those who had set out;
\* if nobody had, a late cancellation costs the customer a part.
SetOut == {w \in ActiveWorkers : assignment[w] \in {"EN_ROUTE", "ARRIVED", "STARTED"}}
callOff ==
  /\ cancelJob
  /\ \E bps \in {ALL_BPS, LateRefundBps} :
       /\ ActiveWorkers = {} \/ SetOut # {} => bps = ALL_BPS
       /\ emit([Starting("outcome") EXCEPT !.bps = bps, !.todo = SetOut])

confirm == confirmCompletion /\ emit(Starting("release"))

\* autoConfirmCompletions selects the jobs first and locks each one later; it
\* emits the event even if the job was not COMPLETION_PENDING any more.
scanCompletions == state = "COMPLETION_PENDING" /\ UNCHANGED vars /\ emit(Starting("auto confirm"))

\* (A fault: the cron's confirmation emits nothing.)
Fault_confirmSilently(h) ==
  /\ at(h, "auto confirm")
  /\ IF state = "COMPLETION_PENDING" THEN autoConfirmCompletions ELSE UNCHANGED vars
  /\ finish(h)
  /\ UNCHANGED <<books, gateway>>

confirmScanned(h) ==
  /\ at(h, "auto confirm")
  /\ IF state = "COMPLETION_PENDING" THEN autoConfirmCompletions ELSE UNCHANGED vars
  /\ goto(h, "release")
  /\ UNCHANGED <<books, gateway>>

resolve(resolution) ==
  /\ resolveDispute(resolution)
  /\ CASE resolution = "RELEASE" -> emit(Starting("release"))
       [] resolution = "REFUND_FULL" ->
            emit([Starting("outcome") EXCEPT !.bps = ALL_BPS])
       [] resolution = "REFUND_PARTIAL" ->
            emit([Starting("fixed refund") EXCEPT !.cents = PartialAmount])
       [] resolution = "OTHER" -> nothingEmitted

-----------------------------------------------------------------------------
handle(h) ==
  \/ readJob(h) \/ insertCharge(h) \/ callCharge(h) \/ recordCharge(h)
  \/ noteCharge(h) \/ cancelFailed(h) \/ supersede(h)
  \/ prepareRelease(h) \/ payNext(h) \/ callTransfer(h) \/ recordTransfer(h)
  \/ closeRelease(h) \/ confirmScanned(h)
  \/ readOutcome(h) \/ compensateNext(h) \/ compensated(h) \/ readFixed(h)
  \/ insertRefund(h) \/ callRefund(h) \/ recordRefund(h) \/ addToTotal(h)

Calm == \A r \in Requests : request[r] = NoRequest

jobStepTaken ==
  \/ post
  \/ \E w \in Workers : accept(w)
  \/ \E r \in Requests, w \in Workers, to \in WORK_STEPS \cup {"CANCELLED_BY_WORKER"} :
       ask(r, w, to)
  \/ callOff \/ confirm \/ scanCompletions
  \/ (closeSettledJobs \/ openDispute) /\ nothingEmitted
  \/ \E resolution \in RESOLUTIONS : resolve(resolution)

PayNext ==
  \/ \E r \in Requests : serve(r)
  \/ /\ Calm
     /\ \/ jobStepTaken
        \/ \E h \in Handlers : retryCharge(h) \/ handle(h) \/ abandon(h)
        \/ gatewaySettles \/ processWebhook \/ webhookLost \/ crash

payVars == <<vars, money>>

\* Handlers run on, the cron scans, and requests that were sent are served.
PayFairness ==
  /\ \A h \in Handlers : WF_payVars(Calm /\ handle(h))
  /\ WF_payVars(Calm /\ scanCompletions)
  /\ WF_payVars(\E r \in Requests : serve(r))

PaySpec == PayInit /\ [][PayNext]_payVars
PayFairSpec == PaySpec /\ PayFairness

-----------------------------------------------------------------------------
(* What must hold *)

\* The ledger never claims more than the gateway did, crash or not: a paid
\* charge was captured, what is refunded was given back, and an earning in
\* transit was transferred; a charge is never refunded beyond its amount.
LedgerBacked ==
  /\ \A p \in RowsIn({"SUCCEEDED", "REFUNDED", "PARTIALLY_REFUNDED"}) :
       captured[p] = "CAPTURED"
  /\ \A p \in Rows : payment[p].refunded <= GivenBack(p)
                   /\ payment[p].refunded <= payment[p].cents
  /\ \A k \in Charges \X REFUND_REASONS :
       refund[k].status = "SUCCEEDED" => refundedAt[k] = refund[k].cents
  /\ \A w \in Workers, kind \in PAYOUT_KINDS :
       payout[<<w, kind>>] = "IN_TRANSIT" =>
         \E made \in transfers : made.worker = w /\ made.kind = kind

\* "unique constraints make duplicate ... payouts structurally impossible":
\* however many releases run at once, are retried or die, the gateway pays a
\* worker's earnings, and a compensation, once.
PaidOutOnce ==
  \A one, other \in transfers :
    one.worker = other.worker /\ one.kind = other.kind => one = other

\* At most one charge is to be paid or kept, whatever retries run at once and
\* die: any other was given up for it, or given back.
OneLiveCharge ==
  \A p, q \in Rows :
    payment[p].status \notin GIVEN_UP /\ payment[q].status \notin GIVEN_UP => p = q

\* What the ledger has settled it does not take back, as long as no statement
\* fails: a slower handler or a late webhook never overwrites a success.
SettledStays ==
  [][/\ \A p \in RowsIn({"SUCCEEDED", "PARTIALLY_REFUNDED", "REFUNDED"}) :
          /\ payment'[p].status \in {"SUCCEEDED", "PARTIALLY_REFUNDED", "REFUNDED"}
          /\ payment'[p].refunded >= payment[p].refunded
     /\ \A k \in DOMAIN payout : payout[k] = "IN_TRANSIT" => payout'[k] = "IN_TRANSIT"]_payVars

\* As long as no server crashes, no statement fails and no answer is lost, ledger
\* and gateway agree whenever no handler runs: on refunds, on transfers, and on what was captured
\* (charges the gateway left PROCESSING apart).
Quiet == \A h \in Handlers : handler[h] = NoHandler
LedgerAgrees ==
  Quiet =>
    /\ \A p \in Rows :
         /\ payment[p].refunded = GivenBack(p)
         /\ captured[p] = "CAPTURED" <=> payment[p].status \in
              {"SUCCEEDED", "PARTIALLY_REFUNDED", "REFUNDED"}
            \/ (captured[p] = "CAPTURED" /\ payment[p].status = "PROCESSING")
    /\ \A w \in Workers, kind \in PAYOUT_KINDS :
         (\E made \in transfers : made.worker = w /\ made.kind = kind) <=>
           payout[<<w, kind>>] = "IN_TRANSIT"

\* A job becomes PAID only when the gateway has made a transfer to every worker
\* who has completed, whichever of several releases gets there.
PaidWithEveryone ==
  [][state # "PAID" /\ state' = "PAID" =>
       \A w \in CompletedWorkers : \E made \in transfers :
         made.worker = w /\ made.kind = "JOB_EARNINGS"]_payVars

\* As long as no server crashes, a job that was charged and whose work waits for
\* confirmation comes to be paid out, unless someone disputes it.
FundedIsReleased ==
  state = "COMPLETION_PENDING" /\ Funded ~> state \in {"PAYMENT_PENDING", "PAID", "DISPUTED"}

\* The job of this module is a JobLifecycle job.
LifecycleKept == Spec

\* Doc: "unique constraints make duplicate charges ... structurally impossible"
\* (payments.service.ts): the customer pays for a job once.
ChargedOnce ==
  \A p, q \in Charges : captured[p] = "CAPTURED" /\ captured[q] = "CAPTURED" => p = q

\* Doc: "Dispute pending: Transfers paused ... until resolution"
\* (PAYMENT_MODEL.md): no earnings are transferred while the job is DISPUTED.
PausedWhileDisputed ==
  [][state = "DISPUTED" =>
       \A made \in transfers' \ transfers : made.kind # "JOB_EARNINGS"]_payVars

\* Doc: "failed charges ... are retriable" (PAYMENT_MODEL.md): a job whose work
\* is done has a charge that was not given up, once one was tried.
ChargeRetriable ==
  Quiet /\ state \in {"COMPLETION_PENDING", "COMPLETED"} /\ Rows # {} =>
    \E p \in Rows : payment[p].status # "CANCELLED"
=============================================================================
