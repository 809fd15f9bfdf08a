-------------------------- MODULE SettlementProofs --------------------------
(***************************************************************************)
(* What holds of Settlement for any crew, any number of handlers at once,  *)
(* any number of retries, with crashes and lost answers.                   *)
(***************************************************************************)
EXTENDS TransferProofs, JobLifecycleProofs

-----------------------------------------------------------------------------
(* The job of Settlement is a JobLifecycle job *)

\* The steps of a handler that read the job at most.
moneyStep(h) ==
  \/ readJob(h) \/ insertCharge(h) \/ callCharge(h) \/ recordCharge(h) \/ noteCharge(h)
  \/ retryCharge(h) \/ cancelFailed(h) \/ supersede(h) \/ abandon(h)
  \/ payNext(h) \/ callTransfer(h) \/ recordTransfer(h)
  \/ readOutcome(h) \/ compensateNext(h) \/ compensated(h) \/ readFixed(h)
  \/ insertRefund(h) \/ callRefund(h) \/ recordRefund(h) \/ addToTotal(h)

LEMMA MoneyKeepsJob ==
  ASSUME NEW h, moneyStep(h)
  PROVE  UNCHANGED vars
<1>1. CASE readJob(h)
  BY <1>1 DEF readJob
<1>2. CASE insertCharge(h)
  BY <1>2 DEF insertCharge
<1>3. CASE callCharge(h)
  BY <1>3 DEF callCharge
<1>4. CASE recordCharge(h)
  BY <1>4 DEF recordCharge
<1>5. CASE noteCharge(h)
  BY <1>5 DEF noteCharge
<1>6. CASE retryCharge(h)
  BY <1>6 DEF retryCharge
<1>7. CASE cancelFailed(h)
  BY <1>7 DEF cancelFailed
<1>8. CASE supersede(h)
  BY <1>8 DEF supersede
<1>9. CASE abandon(h)
  BY <1>9 DEF abandon
<1>10. CASE payNext(h)
  BY <1>10 DEF payNext
<1>11. CASE callTransfer(h)
  BY <1>11 DEF callTransfer
<1>12. CASE recordTransfer(h)
  BY <1>12 DEF recordTransfer
<1>13. CASE readOutcome(h)
  BY <1>13 DEF readOutcome
<1>14. CASE compensateNext(h)
  BY <1>14 DEF compensateNext
<1>15. CASE compensated(h)
  BY <1>15 DEF compensated
<1>16. CASE readFixed(h)
  BY <1>16 DEF readFixed
<1>17. CASE insertRefund(h)
  BY <1>17 DEF insertRefund
<1>18. CASE callRefund(h)
  BY <1>18 DEF callRefund
<1>19. CASE recordRefund(h)
  BY <1>19 DEF recordRefund
<1>20. CASE addToTotal(h)
  BY <1>20 DEF addToTotal
<1>21. QED
  BY <1>1, <1>2, <1>3, <1>4, <1>5, <1>6, <1>7, <1>8, <1>9, <1>10,
     <1>11, <1>12, <1>13, <1>14, <1>15, <1>16, <1>17, <1>18, <1>19, <1>20 DEF moneyStep

LEMMA JobStepKept ==
  ASSUME PayNext
  PROVE  [Next]_vars
<1>1. CASE \E r \in Requests : serve(r)
  BY <1>1 DEF serve, Next, Requesting
<1>2. CASE jobStepTaken
  <2>1. CASE post
    BY <2>1 DEF post, Next, Posting
  <2>2. CASE \E w \in Workers : accept(w)
    BY <2>2 DEF accept, Next
  <2>3. CASE \E r \in Requests, w \in Workers, to \in WORK_STEPS \cup {"CANCELLED_BY_WORKER"} :
               ask(r, w, to)
    BY <2>3 DEF ask, Next, Requesting
  <2>4. CASE callOff \/ confirm \/ closeSettledJobs \/ openDispute
    BY <2>4 DEF callOff, confirm, Next, Closing
  <2>5. CASE scanCompletions
    BY <2>5 DEF scanCompletions
  <2>6. CASE \E resolution \in RESOLUTIONS : resolve(resolution)
    BY <2>6 DEF resolve, Next, Closing
  <2>7. QED
    BY <1>2, <2>1, <2>2, <2>3, <2>4, <2>5, <2>6 DEF jobStepTaken
<1>3. CASE \E h \in Handlers : prepareRelease(h) \/ closeRelease(h) \/ confirmScanned(h)
  BY <1>3 DEF prepareRelease, closeRelease, confirmScanned, Next, Closing
<1>4. CASE \E h \in Handlers : retryCharge(h) \/ handle(h) \/ abandon(h)
  <2>1. PICK h \in Handlers : retryCharge(h) \/ handle(h) \/ abandon(h)
    BY <1>4
  <2>2. prepareRelease(h) \/ closeRelease(h) \/ confirmScanned(h) \/ moneyStep(h)
    BY <2>1 DEF handle, moneyStep
  <2>3. QED
    BY <1>3, <2>2, MoneyKeepsJob
<1>5. CASE gatewaySettles \/ processWebhook \/ webhookLost \/ crash
  BY <1>5 DEF gatewaySettles, processWebhook, webhookLost, crash
<1>6. QED
  BY <1>1, <1>2, <1>4, <1>5 DEF PayNext

\* The money handlers move the job only along JobLifecycle's own steps.
THEOREM PayRefines == PaySpec => LifecycleKept
<1>1. PayInit => Init
  BY DEF PayInit
<1>2. [PayNext]_payVars => [Next]_vars
  BY JobStepKept DEF payVars
<1>3. QED
  BY <1>1, <1>2, PTL DEF PaySpec, LifecycleKept, Spec

\* So what JobLifecycle proves of the job holds with the money on top.
THEOREM PayKeepsJob == PaySpec => []IInv
BY PayRefines, Invariance, PTL DEF LifecycleKept

-----------------------------------------------------------------------------
(* PAID means paid *)

\* No handler but the last transaction of a release makes a job PAID.
LEMMA PaidByRelease ==
  ASSUME PayNext, state # "PAID", state' = "PAID"
  PROVE  \E h \in Handlers : closeRelease(h)
<1>1. CASE \E r \in Requests : serve(r)
  BY <1>1 DEF serve, travel, complete, cancelAssignment, start, rollback, transitionJob
<1>2. CASE jobStepTaken
  <2>1. CASE post \/ callOff \/ confirm \/ scanCompletions
    BY <2>1 DEF post, createJob, openMatching, callOff, cancelJob, confirm,
                confirmCompletion, scanCompletions, jobStep, transitionJob, vars
  <2>2. CASE \E w \in Workers : accept(w)
    BY <2>2 DEF accept, acceptJob, transitionJob
  <2>3. CASE \E r \in Requests, w \in Workers, to \in WORK_STEPS \cup {"CANCELLED_BY_WORKER"} :
               ask(r, w, to)
    BY <2>3 DEF ask, BeginRequest
  <2>4. CASE closeSettledJobs \/ openDispute
    BY <2>4 DEF closeSettledJobs, openDispute, jobStep, transitionJob
  <2>5. CASE \E resolution \in RESOLUTIONS : resolve(resolution)
    BY <2>5 DEF resolve, resolveDispute, transitionJob
  <2>6. QED
    BY <1>2, <2>1, <2>2, <2>3, <2>4, <2>5 DEF jobStepTaken
<1>3. CASE \E h \in Handlers : prepareRelease(h) \/ confirmScanned(h)
  BY <1>3 DEF prepareRelease, beginRelease, confirmScanned, autoConfirmCompletions,
              jobStep, transitionJob, vars
<1>4. CASE \E h \in Handlers : moneyStep(h)
  BY <1>4, MoneyKeepsJob DEF vars
<1>5. CASE gatewaySettles \/ processWebhook \/ webhookLost \/ crash
  BY <1>5 DEF gatewaySettles, processWebhook, webhookLost, crash, vars
<1>6. QED
  BY <1>1, <1>2, <1>3, <1>4, <1>5 DEF PayNext, handle, moneyStep

\* A job becomes PAID only when the gateway has made a transfer to every worker
\* who has completed (the last transaction of releasePayouts, whichever of
\* several releases gets there, after crashes and lost answers too).
THEOREM PaidIsPaid == PaySpec => PaidWithEveryone
<1>1. ASSUME TInv, [PayNext]_payVars, state # "PAID", state' = "PAID",
             NEW w \in CompletedWorkers
      PROVE  \E made \in transfers : made.worker = w /\ made.kind = "JOB_EARNINGS"
  <2>1. PayNext
    BY <1>1 DEF payVars, vars
  <2>2. PICK h \in Handlers : closeRelease(h)
    BY <1>1, <2>1, PaidByRelease
  <2>3. Transferred(w)
    BY <1>1, <2>2 DEF closeRelease, vars
  <2>4. w \in Workers /\ "JOB_EARNINGS" \in PAYOUT_KINDS
    BY <1>1 DEF CompletedWorkers, PAYOUT_KINDS
  <2>5. QED
    BY <1>1, <2>3, <2>4 DEF Transferred, TInv, PayoutsMade, Made
<1>2. TInv /\ [PayNext]_payVars =>
        [state # "PAID" /\ state' = "PAID" =>
           \A w \in CompletedWorkers : \E made \in transfers :
             made.worker = w /\ made.kind = "JOB_EARNINGS"]_payVars
  BY <1>1
<1>3. QED
  BY <1>2, TransfersInvariance, PTL DEF PaySpec, PaidWithEveryone

-----------------------------------------------------------------------------
(* What is settled stays, as long as no statement fails *)

\* A row that was paid stays paid, one that failed is never paid later.
rowsStay ==
  \A p \in Rows :
    /\ payment[p].status \in Kept =>
         payment'[p].status \in Kept /\ payment'[p].refunded >= payment[p].refunded
    /\ payment[p].status \in {"FAILED", "CANCELLED"} =>
         payment'[p].status \in {"FAILED", "CANCELLED"}

\* Retries and refunds stay apart: without a failing statement a row that was
\* paid is never FAILED, so no retry takes it up.
Claiming(r) == r.at = "cancel row" \/ Refunding(r)
ClaimInv(r) ==
  /\ r.at = "cancel row" => payment[r.row].status \in {"FAILED", "CANCELLED"}
  /\ Refunding(r) => payment[r.row].status \in Kept
SInv == \A h \in Handlers : ClaimInv(handler[h])

\* A step of h after which it claims no row, ...
unclaimed(h) ==
  /\ \A g \in Handlers \ {h} : handler'[g] = handler[g]
  /\ ~Claiming(handler'[h])

\* ... or the one it was refunding already.
reclaimed(h) ==
  /\ \A g \in Handlers \ {h} : handler'[g] = handler[g]
  /\ Claiming(handler'[h]) =>
       /\ Refunding(handler[h]) /\ Refunding(handler'[h])
       /\ handler'[h].at # "cancel row"
       /\ handler'[h].row = handler[h].row

\* Charges and releases claim nothing.
LEMMA Unclaimed ==
  ASSUME LInv, NEW h \in Handlers,
         \/ readJob(h)
         \/ insertCharge(h)
         \/ callCharge(h)
         \/ recordCharge(h)
         \/ noteCharge(h)
         \/ cancelFailed(h)
         \/ supersede(h)
         \/ prepareRelease(h)
         \/ payNext(h)
         \/ closeRelease(h)
         \/ confirmScanned(h)
         \/ addToTotal(h)
         \/ abandon(h)
  PROVE  unclaimed(h)
<1> USE DEF LInv, HandlersTyped, Handler, unclaimed, Claiming, Refunding
<1>0. ASSUME finish(h) PROVE unclaimed(h)
  BY <1>0 DEF finish, NoHandler
<1>1. CASE readJob(h)
  BY <1>0, <1>1 DEF readJob, goto
<1>2. CASE insertCharge(h)
  <2>1. ASSUME NEW p, handler' = [handler EXCEPT ![h].at = "call", ![h].row = p]
        PROVE  unclaimed(h)
    BY <2>1
  <2>2. QED
    BY <1>0, <1>2, <2>1 DEF insertCharge
<1>3. CASE callCharge(h)
  BY <1>3 DEF callCharge
<1>4. CASE recordCharge(h)
  BY <1>0, <1>4 DEF recordCharge, goto
<1>5. CASE cancelFailed(h)
  BY <1>5 DEF cancelFailed, goto
<1>6. CASE supersede(h)
  BY <1>6 DEF supersede, Starting, NoHandler
<1>7. CASE prepareRelease(h)
  BY <1>0, <1>7 DEF prepareRelease
<1>8. CASE payNext(h)
  <2>1. ASSUME NEW w, handler' = [handler EXCEPT ![h].at = "transfer", ![h].worker = w,
                                              ![h].kind = "JOB_EARNINGS"]
        PROVE  unclaimed(h)
    BY <2>1
  <2>2. QED
    BY <1>8, <2>1 DEF payNext
<1>9. CASE confirmScanned(h)
  BY <1>9 DEF confirmScanned, goto
<1>10. CASE noteCharge(h) \/ closeRelease(h) \/ addToTotal(h) \/ abandon(h)
  BY <1>0, <1>10 DEF noteCharge, closeRelease, addToTotal, abandon
<1>11. QED
  BY <1>1, <1>2, <1>3, <1>4, <1>5, <1>6, <1>7, <1>8, <1>9, <1>10

\* A refund in progress goes on with its charge.
LEMMA Reclaimed ==
  ASSUME LInv, NEW h \in Handlers,
         \/ callTransfer(h)
         \/ recordTransfer(h)
         \/ compensateNext(h)
         \/ compensated(h)
         \/ insertRefund(h)
         \/ callRefund(h)
         \/ recordRefund(h)
  PROVE  reclaimed(h)
<1> USE DEF LInv, HandlersTyped, Handler, reclaimed, Claiming, Refunding
<1>0. ASSUME finish(h) PROVE reclaimed(h)
  BY <1>0 DEF finish, NoHandler
<1>1. CASE callTransfer(h)
  BY <1>1 DEF callTransfer, at
<1>2. CASE recordTransfer(h)
  <2>1. handler[h].kind \in PAYOUT_KINDS /\ handler[h].at = "transferred"
    BY <1>2 DEF recordTransfer, at, HandlersInv, HandlerInv
  <2>2. QED
    BY <1>2, <2>1 DEF recordTransfer, PAYOUT_KINDS
<1>3. CASE compensateNext(h)
  <2>1. PICK w \in handler[h].todo :
          \/ handler' = [handler EXCEPT ![h].todo = @ \ {w}]
          \/ handler' = [handler EXCEPT ![h].at = "transfer", ![h].worker = w,
                                        ![h].kind = "CANCELLATION_COMPENSATION",
                                        ![h].cents = @ + Compensation]
    BY <1>3 DEF compensateNext
  <2>2. handler[h].at = "compensate"
    BY <1>3 DEF compensateNext, at
  <2>3. CASE handler' = [handler EXCEPT ![h].todo = @ \ {w}]
    BY <2>2, <2>3
  <2>4. CASE handler' = [handler EXCEPT ![h].at = "transfer", ![h].worker = w,
                                        ![h].kind = "CANCELLATION_COMPENSATION",
                                        ![h].cents = @ + Compensation]
    <3>1. PICK cents : cents = handler[h].cents + Compensation
      OBVIOUS
    <3>2. handler' = [handler EXCEPT ![h].at = "transfer", ![h].worker = w,
                                     ![h].kind = "CANCELLATION_COMPENSATION",
                                     ![h].cents = cents]
      BY <2>4, <3>1
    <3>3. QED
      BY <2>2, <3>2
  <2>5. QED
    BY <2>1, <2>3, <2>4
<1>4. CASE compensated(h)
  <2>1. handler[h].at = "compensate"
    BY <1>4 DEF compensated, at
  <2>2. \/ finish(h)
        \/ \E cents : handler' = [handler EXCEPT ![h].at = "insert refund",
                                     ![h].kind = "cancel", ![h].cents = cents]
    BY <1>4 DEF compensated
  <2>3. ASSUME NEW cents, handler' = [handler EXCEPT ![h].at = "insert refund",
                                        ![h].kind = "cancel", ![h].cents = cents]
        PROVE  reclaimed(h)
    BY <2>1, <2>3
  <2>4. QED
    BY <1>0, <2>2, <2>3
<1>5. CASE insertRefund(h)
  BY <1>0, <1>5 DEF insertRefund, goto, at
<1>6. CASE callRefund(h)
  BY <1>6 DEF callRefund, at
<1>7. CASE recordRefund(h)
  BY <1>0, <1>7 DEF recordRefund, goto, at
<1>8. QED
  BY <1>1, <1>2, <1>3, <1>4, <1>5, <1>6, <1>7

\* A handler that keeps its record keeps what it knows.
LEMMA ClaimStays ==
  ASSUME LInv, SInv, rowsStay, NEW g \in Handlers, handler'[g] = handler[g]
  PROVE  ClaimInv(handler[g])'
<1>1. PICK r : r = handler[g]
  OBVIOUS
<1>2. ClaimInv(r) /\ HandlerInv(r)
  BY <1>1 DEF SInv, LInv, HandlersInv
<1>3. Claiming(r) => r.row \in Rows
  BY <1>2 DEF Claiming, HandlerInv, Retrying
<1>4. ClaimInv(r)'
  BY <1>2, <1>3 DEF ClaimInv, Claiming, rowsStay
<1>5. QED
  BY <1>1, <1>4 DEF ClaimInv, Refunding

\* A step that moves no handler but h, which claims no new row.
LEMMA ClaimsStay ==
  ASSUME LInv, SInv, rowsStay, NEW h \in Handlers, unclaimed(h) \/ reclaimed(h)
  PROVE  SInv'
<1>1. \A g \in Handlers \ {h} : ClaimInv(handler[g])'
  BY ClaimStays DEF unclaimed, reclaimed
<1>2. ClaimInv(handler[h])'
  <2>1. CASE ~Claiming(handler'[h])
    BY <2>1 DEF ClaimInv, Claiming, Refunding
  <2>2. CASE reclaimed(h) /\ Claiming(handler'[h])
    <3>1. PICK r : r = handler[h]
      OBVIOUS
    <3>2. Refunding(r) /\ ClaimInv(r) /\ HandlerInv(r)
      BY <2>2, <3>1 DEF reclaimed, SInv, LInv, HandlersInv
    <3>3. r.row \in Rows /\ payment[r.row].status \in Kept
      BY <3>2 DEF ClaimInv, HandlerInv
    <3>4. payment'[r.row].status \in Kept
      BY <3>3 DEF rowsStay
    <3>5. handler'[h].row = r.row /\ handler'[h].at # "cancel row"
      BY <2>2, <3>1 DEF reclaimed
    <3>6. QED
      BY <3>4, <3>5 DEF ClaimInv
  <2>3. QED
    BY <2>1, <2>2 DEF unclaimed
<1>3. QED
  BY <1>1, <1>2 DEF SInv

\* A step that writes no row of a charge.
LEMMA NoRowWritten ==
  ASSUME LInv, UNCHANGED payment
  PROVE  rowsStay
<1>1. \A p \in Rows : payment[p].refunded \in Nat
  BY DEF LInv, ChargesTyped, Payment, NoPayment, Rows
<1>2. QED
  BY <1>1 DEF rowsStay

\* A step that writes the status of a row that had not ended.
LEMMA RowWritten ==
  ASSUME LInv, NEW p \in Rows, NEW row, payment' = [payment EXCEPT ![p] = row],
         payment[p].status \notin Kept,
         payment[p].status \in {"FAILED", "CANCELLED"} => row.status \in {"FAILED", "CANCELLED"}
  PROVE  rowsStay
<1>1. \A q \in Rows : payment[q].refunded \in Nat
  BY DEF LInv, ChargesTyped, Payment, NoPayment, Rows
<1>2. p \in Charges /\ payment'[p] = row
  BY DEF LInv, ChargesTyped, Rows
<1>3. \A q \in Rows \ {p} : payment'[q] = payment[q]
  BY DEF LInv, ChargesTyped, Rows
<1>4. QED
  BY <1>1, <1>2, <1>3 DEF rowsStay

\* The statements of a charge and of a retry, ...
LEMMA ChargeRowsStay ==
  ASSUME ~FailedStatements, LInv, SInv, NEW h \in Handlers,
         \/ insertCharge(h)
         \/ recordCharge(h)
         \/ noteCharge(h)
         \/ cancelFailed(h)
         \/ supersede(h)
  PROVE  rowsStay
<1>1. CASE insertCharge(h)
  <2>1. \A p \in Rows : payment'[p] = payment[p]
    BY <1>1 DEF insertCharge, LInv, ChargesTyped, Rows
  <2>2. \A p \in Rows : payment[p].refunded \in Nat
    BY DEF LInv, ChargesTyped, Payment, NoPayment, Rows
  <2>3. QED
    BY <2>1, <2>2 DEF rowsStay
<1>2. CASE noteCharge(h)
  BY <1>2, NoRowWritten DEF noteCharge
<1>3. PICK p : p = handler[h].row
  OBVIOUS
<1>4. CASE recordCharge(h)
  <2>1. p \in Rows /\ payment[p].status = "REQUIRES_PAYMENT"
    BY <1>3, <1>4 DEF recordCharge, at, LInv, HandlersInv, HandlerInv, Charging
  <2>2. PICK status, intent :
          payment' = [payment EXCEPT ![p].status = status, ![p].intent = intent]
    BY <1>3, <1>4 DEF recordCharge
  <2>3. PICK row : row = [payment[p] EXCEPT !.status = status, !.intent = intent]
    OBVIOUS
  <2>4. payment' = [payment EXCEPT ![p] = row]
    BY <2>2, <2>3
  <2>5. QED
    BY <2>1, <2>4, RowWritten DEF Kept
<1>5. CASE cancelFailed(h)
  <2>1. p \in Rows /\ payment[p].status \in {"FAILED", "CANCELLED"}
    BY <1>3, <1>5 DEF cancelFailed, at, SInv, ClaimInv, LInv, HandlersInv, HandlerInv, Retrying
  <2>2. PICK row : row = [payment[p] EXCEPT !.status = "CANCELLED"]
    OBVIOUS
  <2>3. payment[p] \in Payment
    BY <2>1 DEF LInv, ChargesTyped, Rows
  <2>4. payment' = [payment EXCEPT ![p] = row] /\ row.status = "CANCELLED"
    BY <1>3, <1>5, <2>2, <2>3 DEF cancelFailed, Payment
  <2>5. QED
    BY <2>1, <2>4, RowWritten DEF Kept
<1>6. CASE supersede(h)
  <2>1. payment' = [payment EXCEPT ![p].live = FALSE]
    BY <1>3, <1>6 DEF supersede
  <2>2. \A q \in Rows : payment[q] \in Payment
    BY DEF LInv, ChargesTyped, Rows
  <2>3. \A q \in Rows : /\ payment'[q].status = payment[q].status
                        /\ payment'[q].refunded = payment[q].refunded
    BY <2>1, <2>2 DEF Rows, LInv, ChargesTyped, Payment
  <2>4. \A q \in Rows : payment[q].refunded \in Nat
    BY <2>2 DEF Payment
  <2>5. QED
    BY <2>3, <2>4 DEF rowsStay
<1>7. QED
  BY <1>1, <1>2, <1>4, <1>5, <1>6

\* ... that of a refund, ...
LEMMA TotalRowsStay ==
  ASSUME ~FailedStatements, LInv, SInv, NEW h \in Handlers, addToTotal(h)
  PROVE  rowsStay
<1>1. PICK p, cents, total :
        p = handler[h].row /\ cents = handler[h].cents /\ total = payment[p].refunded + cents
  OBVIOUS
<1>2. handler[h] \in Handler /\ handler[h].at = "total"
  BY DEF LInv, HandlersTyped, addToTotal, at
<1>3. p \in Rows /\ cents \in Nat
  BY <1>1, <1>2 DEF LInv, HandlersInv, HandlerInv, Refunding, Handler
<1>4. \A q \in Rows : payment[q].refunded \in Nat
  BY DEF LInv, ChargesTyped, Payment, NoPayment, Rows
<1>5. total >= payment[p].refunded
  BY <1>1, <1>3, <1>4
<1>6. PICK status \in Kept :
        payment' = [payment EXCEPT ![p].refunded = total, ![p].status = status]
  BY <1>1 DEF addToTotal, Kept
<1>7. payment[p].status \in Kept
  BY <1>1, <1>2 DEF SInv, ClaimInv, Refunding
<1>8. payment \in [Charges -> Payment \cup {NoPayment}] /\ p \in Charges
  BY <1>3 DEF LInv, ChargesTyped, Rows
<1>9. payment'[p].refunded = total /\ payment'[p].status \in Kept
  BY <1>6, <1>8 DEF Payment, NoPayment
<1>10. \A q \in Rows \ {p} : payment'[q] = payment[q]
  BY <1>6, <1>8 DEF Rows
<1>11. \A q \in Rows : q # p \/ payment[q].status \notin {"FAILED", "CANCELLED"}
  BY <1>7 DEF Kept
<1>12. QED
  BY <1>4, <1>5, <1>9, <1>10, <1>11 DEF rowsStay

\* ... and a webhook.
LEMMA WebhookRowsStay ==
  ASSUME LInv, processWebhook
  PROVE  rowsStay
<1>1. CASE UNCHANGED payment
  BY <1>1, NoRowWritten
<1>2. CASE payment' # payment
  <2>1. PICK p, status :
          /\ payment[p].intent /\ payment[p].status \in {"REQUIRES_PAYMENT", "PROCESSING"}
          /\ payment' = [payment EXCEPT ![p].status = status]
          /\ p \in Charges
    BY <1>2 DEF processWebhook, LInv, ChargesTyped
  <2>2. p \in Rows
    BY <2>1 DEF Rows, NoPayment, NoRow
  <2>3. PICK row : row = [payment[p] EXCEPT !.status = status]
    OBVIOUS
  <2>4. payment' = [payment EXCEPT ![p] = row]
    BY <2>1, <2>3
  <2>5. QED
    BY <2>1, <2>2, <2>4, RowWritten DEF Kept
<1>3. QED
  BY <1>1, <1>2

\* Three steps claim a row, each in the status it needs.
LEMMA ClaimStep ==
  ASSUME LInv, SInv, NEW h \in Handlers, retryCharge(h) \/ readOutcome(h) \/ readFixed(h)
  PROVE  rowsStay /\ SInv'
<1>1. UNCHANGED payment
  BY DEF retryCharge, readOutcome, readFixed, books
<1>2. rowsStay
  BY <1>1, NoRowWritten
<1>3. PICK old : old = handler[h]
  OBVIOUS
<1>4. old \in Handler /\ handler \in [Handlers -> Handler]
  BY <1>3 DEF LInv, HandlersTyped
<1>5. ASSUME NEW new, handler' = [handler EXCEPT ![h] = new], ClaimInv(new)
      PROVE  SInv'
  <2>1. handler'[h] = new /\ \A g \in Handlers \ {h} : handler'[g] = handler[g]
    BY <1>4, <1>5
  <2>2. \A g \in Handlers \ {h} : ClaimInv(handler[g])'
    BY <1>2, <2>1, ClaimStays
  <2>3. ClaimInv(handler[h])'
    BY <1>1, <1>5, <2>1 DEF ClaimInv, Refunding
  <2>4. QED
    BY <2>2, <2>3 DEF SInv
<1>6. CASE finish(h)
  <2>1. ClaimInv(NoHandler)
    BY DEF ClaimInv, Refunding, NoHandler
  <2>2. QED
    BY <1>2, <1>5, <1>6, <2>1 DEF finish
<1>7. CASE retryCharge(h)
  <2>1. PICK p \in RowsIn({"FAILED"}) : launch(h, [Starting("cancel row") EXCEPT !.row = p])
    BY <1>7 DEF retryCharge
  <2>2. PICK new : new = [Starting("cancel row") EXCEPT !.row = p]
    OBVIOUS
  <2>3. new.at = "cancel row" /\ new.row = p
    BY <2>2 DEF Starting, NoHandler
  <2>4. ClaimInv(new)
    BY <2>1, <2>3 DEF ClaimInv, Refunding, RowsIn
  <2>5. QED
    BY <1>2, <1>5, <2>1, <2>2, <2>4 DEF launch
<1>8. CASE readOutcome(h)
  <2>1. ASSUME NEW p \in RowsIn({"SUCCEEDED"}),
               handler' = [handler EXCEPT ![h].at = "compensate", ![h].row = p]
        PROVE  SInv'
    <3>1. PICK new : new = [old EXCEPT !.at = "compensate", !.row = p]
      OBVIOUS
    <3>2. new.at = "compensate" /\ new.row = p
      BY <1>4, <3>1 DEF Handler
    <3>3. handler' = [handler EXCEPT ![h] = new]
      BY <1>3, <2>1, <3>1
    <3>4. QED
      BY <1>5, <3>2, <3>3 DEF ClaimInv, Refunding, RowsIn, Kept
  <2>2. QED
    BY <1>2, <1>6, <1>8, <2>1 DEF readOutcome
<1>9. CASE readFixed(h)
  <2>1. ASSUME NEW p \in RowsIn({"SUCCEEDED", "PARTIALLY_REFUNDED"}), NEW cents,
               handler' = [handler EXCEPT ![h].at = "insert refund", ![h].row = p,
                                          ![h].kind = "dispute", ![h].cents = cents]
        PROVE  SInv'
    <3>1. PICK new : new = [old EXCEPT !.at = "insert refund", !.row = p,
                                       !.kind = "dispute", !.cents = cents]
      OBVIOUS
    <3>2. new.at = "insert refund" /\ new.row = p
      BY <1>4, <3>1 DEF Handler
    <3>3. handler' = [handler EXCEPT ![h] = new]
      BY <1>3, <2>1, <3>1
    <3>4. QED
      BY <1>5, <3>2, <3>3 DEF ClaimInv, Refunding, RowsIn, Kept
  <2>2. QED
    BY <1>2, <1>6, <1>9, <2>1 DEF readFixed
<1>10. QED
  BY <1>2, <1>7, <1>8, <1>9

\* Every step of a handler.
LEMMA HandlerSettled ==
  ASSUME ~FailedStatements, LInv, SInv, NEW h \in Handlers,
         retryCharge(h) \/ handle(h) \/ abandon(h)
  PROVE  rowsStay /\ SInv'
<1>1. CASE retryCharge(h) \/ readOutcome(h) \/ readFixed(h)
  BY <1>1, ClaimStep
<1>2. CASE insertCharge(h) \/ recordCharge(h) \/ noteCharge(h) \/ cancelFailed(h) \/ supersede(h)
  BY <1>2, ChargeRowsStay, Unclaimed, ClaimsStay
<1>3. CASE addToTotal(h)
  BY <1>3, TotalRowsStay, Unclaimed, ClaimsStay
<1>4. CASE readJob(h) \/ callCharge(h) \/ prepareRelease(h) \/ payNext(h)
           \/ closeRelease(h) \/ confirmScanned(h) \/ abandon(h)
  <2>1. UNCHANGED payment
    BY <1>4 DEF readJob, callCharge, prepareRelease, payNext, closeRelease, confirmScanned,
                abandon, books
  <2>2. QED
    BY <1>4, <2>1, NoRowWritten, Unclaimed, ClaimsStay
<1>5. CASE callTransfer(h) \/ recordTransfer(h) \/ compensateNext(h) \/ compensated(h)
           \/ insertRefund(h) \/ callRefund(h) \/ recordRefund(h)
  <2>1. UNCHANGED payment
    BY <1>5 DEF callTransfer, recordTransfer, compensateNext, compensated, insertRefund,
                callRefund, recordRefund, books
  <2>2. QED
    BY <1>5, <2>1, NoRowWritten, Reclaimed, ClaimsStay
<1>6. QED
  BY <1>1, <1>2, <1>3, <1>4, <1>5 DEF handle

\* Every step of the system.
LEMMA SettledStep ==
  ASSUME ~FailedStatements, LInv, SInv, [PayNext]_payVars
  PROVE  rowsStay /\ SInv'
<1>1. ASSUME rowsStay, UNCHANGED handler PROVE SInv'
  BY <1>1, ClaimStays DEF SInv
<1>2. CASE UNCHANGED <<payment, handler>>
  BY <1>1, <1>2, NoRowWritten
<1>3. CASE jobStepTaken \/ \E r \in Requests : serve(r)
  <2>1. CASE UNCHANGED money
    BY <1>2, <2>1 DEF money, books
  <2>2. CASE \E new \in Handler : new.at \in FIRST_STEPS /\ emit(new)
    <3>1. PICK new \in Handler, h \in Handlers : new.at \in FIRST_STEPS /\ launch(h, new)
      BY <2>2 DEF emit
    <3>2. rowsStay
      BY <2>2, NoRowWritten DEF emit, books
    <3>3. handler'[h] = new /\ \A g \in Handlers \ {h} : handler'[g] = handler[g]
      BY <3>1 DEF launch, LInv, HandlersTyped
    <3>4. unclaimed(h)
      BY <3>1, <3>3 DEF unclaimed, Claiming, Refunding, FIRST_STEPS
    <3>5. QED
      BY <3>2, <3>4, ClaimsStay
  <2>3. QED
    BY <1>3, <2>1, <2>2, JobEvents
<1>4. CASE \E h \in Handlers : retryCharge(h) \/ handle(h) \/ abandon(h)
  BY <1>4, HandlerSettled
<1>5. CASE gatewaySettles \/ webhookLost
  BY <1>2, <1>5 DEF gatewaySettles, webhookLost, books
<1>6. CASE processWebhook
  BY <1>1, <1>6, WebhookRowsStay DEF processWebhook
<1>7. CASE crash
  <2>1. rowsStay
    BY <1>7, NoRowWritten DEF crash, books
  <2>2. \A h \in Handlers : ClaimInv(handler[h])'
    BY <1>7 DEF crash, ClaimInv, Refunding, NoHandler
  <2>3. QED
    BY <2>1, <2>2 DEF SInv
<1>8. QED
  BY <1>2, <1>3, <1>4, <1>5, <1>6, <1>7 DEF PayNext, payVars, money, books

\* A transfer on its way stays so: the insert of a payout leaves the rows there
\* alone, and recordTransfer does not overwrite it.
LEMMA TransitStays ==
  ASSUME TInv, [PayNext]_payVars
  PROVE  \A k \in DOMAIN payout : payout[k] = "IN_TRANSIT" => payout'[k] = "IN_TRANSIT"
<1>1. CASE UNCHANGED payout
  BY <1>1
<1>2. ASSUME NEW h \in Handlers, prepareRelease(h)
      PROVE  \A k \in DOMAIN payout : payout[k] = "IN_TRANSIT" => payout'[k] = "IN_TRANSIT"
  BY <1>2 DEF prepareRelease, NoRow
<1>3. ASSUME NEW h \in Handlers, compensateNext(h)
      PROVE  \A k \in DOMAIN payout : payout[k] = "IN_TRANSIT" => payout'[k] = "IN_TRANSIT"
  <2>1. \/ UNCHANGED payout
        \/ \E k : payout[k] = NoRow /\ payout' = [payout EXCEPT ![k] = "PENDING"]
    BY <1>3 DEF compensateNext
  <2>2. QED
    BY <2>1 DEF NoRow
<1>4. ASSUME NEW h \in Handlers, recordTransfer(h)
      PROVE  \A k \in DOMAIN payout : payout[k] = "IN_TRANSIT" => payout'[k] = "IN_TRANSIT"
  BY <1>4 DEF recordTransfer, TInv, PayoutsTyped
<1>5. CASE jobStepTaken \/ \E r \in Requests : serve(r)
  BY <1>1, <1>5, JobEvents DEF money, books, emit
<1>6. ASSUME NEW h \in Handlers,
             \/ readJob(h) \/ insertCharge(h) \/ callCharge(h) \/ recordCharge(h)
             \/ noteCharge(h) \/ cancelFailed(h) \/ supersede(h) \/ retryCharge(h)
             \/ payNext(h) \/ callTransfer(h) \/ closeRelease(h) \/ confirmScanned(h)
             \/ readOutcome(h) \/ compensated(h) \/ readFixed(h) \/ insertRefund(h)
             \/ callRefund(h) \/ recordRefund(h) \/ addToTotal(h) \/ abandon(h)
      PROVE  UNCHANGED payout
  BY <1>6 DEF readJob, insertCharge, callCharge, recordCharge, noteCharge, cancelFailed,
              supersede, retryCharge, payNext, callTransfer, closeRelease, confirmScanned,
              readOutcome, compensated, readFixed, insertRefund, callRefund, recordRefund,
              addToTotal, abandon, books
<1>7. CASE gatewaySettles \/ processWebhook \/ webhookLost \/ crash
  BY <1>1, <1>7 DEF gatewaySettles, processWebhook, webhookLost, crash, books
<1>8. CASE UNCHANGED payVars
  BY <1>1, <1>8 DEF payVars, money, books
<1>9. QED
  BY <1>1, <1>2, <1>3, <1>4, <1>5, <1>6, <1>7, <1>8 DEF PayNext, handle

\* As long as no statement fails, a slower handler or a late webhook never takes
\* back a success (recordCharge, retryCharge, handleEvent, releasePayouts), also
\* when answers are lost and servers crash.
THEOREM SettledForGood ==
  ASSUME ~FailedStatements
  PROVE  PaySpec => SettledStays
<1>1. PayInit => SInv
  <2>1. ClaimInv(NoHandler)
    BY DEF ClaimInv, Refunding, NoHandler
  <2>2. QED
    BY <2>1 DEF PayInit, SInv
<1>2. LInv /\ SInv /\ [PayNext]_payVars => SInv'
  BY SettledStep
<1>3. LInv /\ TInv /\ SInv /\ [PayNext]_payVars =>
        [/\ \A p \in RowsIn({"SUCCEEDED", "PARTIALLY_REFUNDED", "REFUNDED"}) :
              /\ payment'[p].status \in {"SUCCEEDED", "PARTIALLY_REFUNDED", "REFUNDED"}
              /\ payment'[p].refunded >= payment[p].refunded
         /\ \A k \in DOMAIN payout :
              payout[k] = "IN_TRANSIT" => payout'[k] = "IN_TRANSIT"]_payVars
  <2> SUFFICES ASSUME LInv, TInv, SInv, [PayNext]_payVars
               PROVE  /\ \A p \in RowsIn(Kept) : /\ payment'[p].status \in Kept
                                                 /\ payment'[p].refunded >= payment[p].refunded
                      /\ \A k \in DOMAIN payout :
                           payout[k] = "IN_TRANSIT" => payout'[k] = "IN_TRANSIT"
    BY DEF Kept
  <2>1. rowsStay
    BY SettledStep
  <2>2. QED
    BY <2>1, TransitStays DEF rowsStay, RowsIn
<1>4. QED
  BY <1>1, <1>2, <1>3, LedgerInvariance, TransfersInvariance, PTL DEF PaySpec, SettledStays

-----------------------------------------------------------------------------
(* Ledger and gateway agree, as long as nothing fails *)

\* No crash, no lost answer, no failing statement: every handler gets to its end.
Faultless == ~Crashes /\ ~LostAnswers /\ ~FailedStatements

\* What the gateway was never paid for, and never will be.
Unpaid == {NoRow, "DECLINED"}

\* A handler that charges the row is on its way.
Awaited(p) ==
  \E h \in Handlers : handler[h].at \in {"call", "record"} /\ handler[h].row = p

\* A charge that was not reported as paid or pending was not paid.
AnswerInv(r) ==
  r.at = "record" /\ r.answer \notin {"PROCESSING", "CAPTURED"} => captured[r.row] \in Unpaid

\* The ledger calls nothing failed that was captured, and a row without an outcome
\* has a handler that will record one.
ChargesAgree ==
  /\ \A p \in Rows : payment[p].status \in {"FAILED", "CANCELLED"} => captured[p] \in Unpaid
  /\ \A p \in Rows : payment[p].status = "REQUIRES_PAYMENT" => Awaited(p)
  /\ \A h \in Handlers : AnswerInv(handler[h])
  /\ \A event \in hooks : event[2] = "DECLINED" => captured[event[1]] = "DECLINED"

\* A refund that was refused gave nothing back, ...
RefusedInv(r) == r.at = "refunded" /\ r.answer # "ok" => refundedAt[KeyOf(r)] = 0
\* ... so a charge's total counts all the cents that may be counted (in RInv it
\* counts no more than those).
TotalsAgree ==
  /\ \A p \in Charges :
       payment[p].refunded = Credited(<<p, "cancel">>) + Credited(<<p, "dispute">>)
  /\ \A h \in Handlers : RefusedInv(handler[h])

\* A transfer that was made is in the ledger, or its handler is about to record it.
Recorded(w, kind) ==
  \/ payout[<<w, kind>>] = "IN_TRANSIT"
  \/ \E h \in Handlers :
       Answered(handler[h]) /\ handler[h].worker = w /\ handler[h].kind = kind
TransfersAgree ==
  \A w \in Workers, kind \in PAYOUT_KINDS : Made(w, kind) => Recorded(w, kind)

\* Handlers between a call of the gateway and the ledger, ...
Busy(r) == r.at \in {"call", "record", "transferred", "refund", "refunded", "total"}
\* ... and how a step leaves them alone.
busyKept ==
  \A g \in Handlers :
    \/ handler'[g] = handler[g]
    \/ ~Busy(handler[g]) /\ ~GivingBack(handler'[g]) /\ handler'[g].at # "record"
uncalled == UNCHANGED <<captured, hooks, refundedAt, transfers>> /\ busyKept

\* Only the call of a charge leads to "record".
LEMMA NotRecording ==
  ASSUME LInv, NEW h \in Handlers,
         \/ readJob(h)
         \/ insertCharge(h)
         \/ noteCharge(h)
         \/ retryCharge(h)
         \/ cancelFailed(h)
         \/ supersede(h)
         \/ prepareRelease(h)
         \/ payNext(h)
         \/ closeRelease(h)
         \/ confirmScanned(h)
         \/ readOutcome(h)
         \/ compensateNext(h)
         \/ compensated(h)
         \/ readFixed(h)
  PROVE  handler'[h].at # "record"
<1> USE DEF LInv, HandlersTyped, Handler
<1>0. ASSUME finish(h) PROVE handler'[h].at # "record"
  BY <1>0 DEF finish, NoHandler
<1>1. CASE readJob(h)
  BY <1>0, <1>1 DEF readJob, goto
<1>2. CASE insertCharge(h)
  <2>1. ASSUME NEW p, handler' = [handler EXCEPT ![h].at = "call", ![h].row = p]
        PROVE  handler'[h].at # "record"
    BY <2>1
  <2>2. QED
    BY <1>0, <1>2, <2>1 DEF insertCharge
<1>3. CASE retryCharge(h)
  BY <1>3 DEF retryCharge, launch, Starting, NoHandler
<1>4. CASE cancelFailed(h)
  BY <1>4 DEF cancelFailed, goto
<1>5. CASE supersede(h)
  BY <1>5 DEF supersede, Starting, NoHandler
<1>6. CASE prepareRelease(h)
  BY <1>0, <1>6 DEF prepareRelease
<1>7. CASE payNext(h)
  <2>1. ASSUME NEW w, handler' = [handler EXCEPT ![h].at = "transfer", ![h].worker = w,
                                              ![h].kind = "JOB_EARNINGS"]
        PROVE  handler'[h].at # "record"
    BY <2>1
  <2>2. QED
    BY <1>7, <2>1 DEF payNext
<1>8. CASE confirmScanned(h)
  BY <1>8 DEF confirmScanned, goto
<1>9. CASE readOutcome(h)
  BY <1>0, <1>9 DEF readOutcome
<1>10. CASE compensateNext(h)
  <2>1. PICK w \in handler[h].todo :
          \/ handler' = [handler EXCEPT ![h].todo = @ \ {w}]
          \/ handler' = [handler EXCEPT ![h].at = "transfer", ![h].worker = w,
                                        ![h].kind = "CANCELLATION_COMPENSATION",
                                        ![h].cents = @ + Compensation]
    BY <1>10 DEF compensateNext
  <2>2. handler[h].at = "compensate"
    BY <1>10 DEF compensateNext, at
  <2>3. QED
    BY <2>1, <2>2
<1>11. CASE compensated(h)
  <2>1. \/ finish(h)
        \/ \E cents : handler' = [handler EXCEPT ![h].at = "insert refund",
                                     ![h].kind = "cancel", ![h].cents = cents]
    BY <1>11 DEF compensated
  <2>2. ASSUME NEW cents, handler' = [handler EXCEPT ![h].at = "insert refund",
                                        ![h].kind = "cancel", ![h].cents = cents]
        PROVE  handler'[h].at # "record"
    BY <2>2
  <2>3. QED
    BY <1>0, <2>1, <2>2
<1>12. CASE readFixed(h)
  <2>1. \/ finish(h)
        \/ \E p, cents : handler' = [handler EXCEPT ![h].at = "insert refund",
                             ![h].row = p, ![h].kind = "dispute", ![h].cents = cents]
    BY <1>12 DEF readFixed
  <2>2. ASSUME NEW p, NEW cents,
               handler' = [handler EXCEPT ![h].at = "insert refund",
                             ![h].row = p, ![h].kind = "dispute", ![h].cents = cents]
        PROVE  handler'[h].at # "record"
    BY <2>2
  <2>3. QED
    BY <1>0, <2>1, <2>2
<1>13. CASE noteCharge(h) \/ closeRelease(h)
  BY <1>0, <1>13 DEF noteCharge, closeRelease
<1>14. QED
  BY <1>1, <1>2, <1>3, <1>4, <1>5, <1>6, <1>7, <1>8, <1>9, <1>10, <1>11, <1>12, <1>13

\* Most steps of a handler call nobody and leave those that do alone.
LEMMA UncalledSteps ==
  ASSUME LInv, NEW h \in Handlers,
         \/ readJob(h)
         \/ insertCharge(h)
         \/ noteCharge(h)
         \/ retryCharge(h)
         \/ cancelFailed(h)
         \/ supersede(h)
         \/ prepareRelease(h)
         \/ payNext(h)
         \/ closeRelease(h)
         \/ confirmScanned(h)
         \/ readOutcome(h)
         \/ compensateNext(h)
         \/ compensated(h)
         \/ readFixed(h)
  PROVE  uncalled
<1>1. ~Busy(handler[h])
  <2>1. CASE retryCharge(h)
    <3>1. handler[h] = NoHandler
      BY <2>1 DEF retryCharge, launch
    <3>2. QED
      BY <3>1 DEF NoHandler, Busy
  <2>2. CASE ~retryCharge(h)
    <3>1. \/ at(h, "charge") \/ at(h, "insert") \/ at(h, "note") \/ at(h, "cancel row")
          \/ at(h, "supersede") \/ at(h, "release") \/ at(h, "pay") \/ at(h, "auto confirm")
          \/ at(h, "outcome") \/ at(h, "compensate") \/ at(h, "fixed refund")
      BY <2>2 DEF readJob, insertCharge, noteCharge, cancelFailed, supersede, prepareRelease,
         payNext, closeRelease, confirmScanned, readOutcome, compensateNext, compensated,
         readFixed
    <3>2. QED
      BY <3>1 DEF at, Busy
  <2>3. QED
    BY <2>1, <2>2
<1>2. elsewhere(h)
  BY Elsewhere
<1>3. handler'[h].at # "record"
  BY NotRecording
<1>4. UNCHANGED <<captured, hooks, refundedAt, transfers>>
  BY DEF readJob, insertCharge, noteCharge, retryCharge, cancelFailed, supersede,
         prepareRelease, payNext, closeRelease, confirmScanned, readOutcome,
         compensateNext, compensated, readFixed, gateway
<1>5. QED
  BY <1>1, <1>2, <1>3, <1>4 DEF uncalled, busyKept, elsewhere

\* The steps that write the row of a charge and call nobody.
rowStep(h) == insertCharge(h) \/ cancelFailed(h) \/ supersede(h)

\* The steps that call the gateway, or record its answer.
callStep(h) ==
  \/ callCharge(h) \/ recordCharge(h) \/ callTransfer(h) \/ recordTransfer(h)
  \/ insertRefund(h) \/ callRefund(h) \/ recordRefund(h) \/ addToTotal(h)

\* Every step is one of few kinds.
LEMMA StepKinds ==
  ASSUME Faultless, LInv, [PayNext]_payVars
  PROVE  \/ uncalled /\ UNCHANGED payment
         \/ uncalled /\ \E h \in Handlers : rowStep(h)
         \/ \E h \in Handlers : callStep(h)
         \/ gatewaySettles \/ processWebhook
<1>1. CASE UNCHANGED money
  BY <1>1 DEF money, books, gateway, uncalled, busyKept
<1>2. ASSUME NEW new \in Handler, new.at \in FIRST_STEPS, emit(new)
      PROVE  uncalled /\ UNCHANGED payment
  <2>1. PICK h \in Handlers : launch(h, new)
    BY <1>2 DEF emit
  <2>2. /\ handler'[h] = new /\ \A g \in Handlers \ {h} : handler'[g] = handler[g]
        /\ handler[h].at = "idle"
    BY <2>1 DEF launch, LInv, HandlersTyped, NoHandler
  <2>3. busyKept
    BY <1>2, <2>2 DEF busyKept, Busy, GivingBack, FIRST_STEPS
  <2>4. QED
    BY <1>2, <2>3 DEF uncalled, emit, books, gateway
<1>3. CASE jobStepTaken \/ \E r \in Requests : serve(r)
  BY <1>1, <1>2, <1>3, JobEvents
<1>4. ASSUME NEW h \in Handlers, retryCharge(h) \/ handle(h)
      PROVE  \/ uncalled /\ UNCHANGED payment
             \/ uncalled /\ rowStep(h)
             \/ callStep(h)
  <2>1. CASE rowStep(h)
    BY <1>4, <2>1, UncalledSteps DEF rowStep
  <2>2. CASE callStep(h)
    BY <2>2
  <2>3. CASE readJob(h) \/ noteCharge(h) \/ retryCharge(h) \/ prepareRelease(h) \/ payNext(h)
             \/ closeRelease(h) \/ confirmScanned(h) \/ readOutcome(h)
             \/ compensateNext(h) \/ compensated(h) \/ readFixed(h)
    <3>1. UNCHANGED payment
      BY <2>3 DEF Faultless, readJob, noteCharge, retryCharge, prepareRelease, payNext,
             closeRelease, confirmScanned, readOutcome, compensateNext, compensated,
             readFixed, books
    <3>2. QED
      BY <1>4, <2>3, <3>1, UncalledSteps
  <2>4. QED
    BY <1>4, <2>1, <2>2, <2>3 DEF handle, rowStep, callStep
<1>5. ASSUME NEW h \in Handlers PROVE ~abandon(h)
  BY DEF abandon, Faultless
<1>6. ~webhookLost /\ ~crash
  BY DEF webhookLost, crash, Faultless
<1>7. QED
  BY <1>1, <1>3, <1>4, <1>5, <1>6 DEF PayNext, payVars

\* A handler that calls moves itself only.
LEMMA CallsAlone ==
  ASSUME LInv, NEW h \in Handlers, callStep(h)
  PROVE  \A g \in Handlers \ {h} : handler'[g] = handler[g]
<1>1. CASE callCharge(h) \/ recordCharge(h) \/ recordTransfer(h)
  BY <1>1, Elsewhere DEF elsewhere
<1>2. CASE callTransfer(h)
  BY <1>2, TransferElsewhere DEF elsewhere
<1>3. CASE insertRefund(h) \/ callRefund(h) \/ recordRefund(h)
  BY <1>3, Reclaimed DEF reclaimed
<1>4. CASE addToTotal(h)
  BY <1>4, Unclaimed DEF unclaimed
<1>5. QED
  BY <1>1, <1>2, <1>3, <1>4 DEF callStep

-----------------------------------------------------------------------------
(* Transfers *)

\* What is recorded stays recorded, unless its handler moves.
LEMMA RecordedKept ==
  ASSUME TInv, [PayNext]_payVars, NEW w \in Workers, NEW kind \in PAYOUT_KINDS,
         Recorded(w, kind),
         \A g \in Handlers : Answered(handler[g]) => handler'[g] = handler[g]
  PROVE  Recorded(w, kind)'
<1>1. <<w, kind>> \in DOMAIN payout
  BY DEF TInv, PayoutsTyped
<1>2. payout[<<w, kind>>] = "IN_TRANSIT" => payout'[<<w, kind>>] = "IN_TRANSIT"
  BY <1>1, TransitStays
<1>3. QED
  BY <1>2 DEF Recorded, Answered

\* The call: the handler holds the answer of the transfer it made.
LEMMA CallTransferAgrees ==
  ASSUME Faultless, LInv, TInv, TransfersAgree, NEW h \in Handlers, callTransfer(h),
         [PayNext]_payVars
  PROVE  TransfersAgree'
<1>1. PICK worker, what : worker = handler[h].worker /\ what = handler[h].kind
  OBVIOUS
<1>2. handler[h].at = "transfer" /\ handler[h] \in Handler
  BY DEF callTransfer, at, LInv, HandlersTyped
<1>3. PICK answer \in {"ok", "error"} :
        /\ handler' = [handler EXCEPT ![h].at = "transferred", ![h].answer = answer]
        /\ \/ answer = "error" /\ UNCHANGED transfers
           \/ /\ answer = "ok"
              /\ transfers' = transfers \cup
                   {[worker |-> worker, kind |-> what, key |-> <<worker, what>>]}
  BY <1>1 DEF callTransfer, transferKey, Faultless, Unknown
<1>4. PICK new : new = [handler[h] EXCEPT !.at = "transferred", !.answer = answer]
  OBVIOUS
<1>5. new.at = "transferred" /\ new.answer = answer /\ new.worker = worker /\ new.kind = what
  BY <1>1, <1>2, <1>4 DEF Handler
<1>6. handler'[h] = new /\ \A g \in Handlers \ {h} : handler'[g] = handler[g]
  BY <1>3, <1>4 DEF LInv, HandlersTyped
<1>7. \A g \in Handlers : Answered(handler[g]) => handler'[g] = handler[g]
  BY <1>2, <1>6 DEF Answered
<1>8. ASSUME NEW w \in Workers, NEW kind \in PAYOUT_KINDS, Made(w, kind)'
      PROVE  Recorded(w, kind)'
  <2>1. CASE Made(w, kind)
    BY <1>7, <1>8, <2>1, RecordedKept DEF TransfersAgree
  <2>2. CASE ~Made(w, kind)
    <3>1. answer = "ok" /\ w = worker /\ kind = what
      BY <1>3, <1>8, <2>2 DEF Made
    <3>2. Answered(new) /\ new.worker = w /\ new.kind = kind
      BY <1>5, <3>1 DEF Answered
    <3>3. QED
      BY <1>6, <3>2 DEF Recorded, Answered
  <2>3. QED
    BY <2>1, <2>2
<1>9. QED
  BY <1>8 DEF TransfersAgree

\* The record: what the handler was told of is in the ledger.
LEMMA RecordTransferAgrees ==
  ASSUME LInv, TInv, TransfersAgree, NEW h \in Handlers, recordTransfer(h),
         [PayNext]_payVars
  PROVE  TransfersAgree'
<1>1. UNCHANGED transfers
  BY DEF recordTransfer, gateway
<1>2. \A g \in Handlers \ {h} : handler'[g] = handler[g]
  BY Elsewhere DEF elsewhere
<1>3. ASSUME NEW w \in Workers, NEW kind \in PAYOUT_KINDS, Recorded(w, kind)
      PROVE  Recorded(w, kind)'
  <2>1. <<w, kind>> \in DOMAIN payout
    BY DEF TInv, PayoutsTyped
  <2>2. CASE payout[<<w, kind>>] = "IN_TRANSIT"
    <3>1. payout'[<<w, kind>>] = "IN_TRANSIT"
      BY <2>1, <2>2, TransitStays
    <3>2. QED
      BY <3>1 DEF Recorded
  <2>3. CASE /\ Answered(handler[h])
             /\ handler[h].worker = w /\ handler[h].kind = kind
    <3>1. payout'[<<w, kind>>] = "IN_TRANSIT"
      BY <2>1, <2>3 DEF recordTransfer, Answered
    <3>2. QED
      BY <3>1 DEF Recorded
  <2>4. ASSUME NEW g \in Handlers \ {h}, Answered(handler[g]),
               handler[g].worker = w, handler[g].kind = kind
        PROVE  Recorded(w, kind)'
    <3>1. handler'[g] = handler[g]
      BY <1>2, <2>4
    <3>2. Answered(handler[g])' /\ handler'[g].worker = w /\ handler'[g].kind = kind
      BY <2>4, <3>1 DEF Answered
    <3>3. g \in Handlers
      BY <2>4
    <3>4. QED
      BY <3>2, <3>3 DEF Recorded
  <2>5. QED
    BY <1>3, <2>2, <2>3, <2>4 DEF Recorded
<1>4. \A w \in Workers, kind \in PAYOUT_KINDS : Made(w, kind)' => Made(w, kind)
  BY <1>1 DEF Made
<1>5. QED
  BY <1>3, <1>4 DEF TransfersAgree

\* Every step.
LEMMA TransfersAgreeStep ==
  ASSUME Faultless, LInv, TInv, TransfersAgree, [PayNext]_payVars
  PROVE  TransfersAgree'
<1>1. ASSUME UNCHANGED transfers,
             \A g \in Handlers : Answered(handler[g]) => handler'[g] = handler[g]
      PROVE  TransfersAgree'
  <2>1. \A w \in Workers, kind \in PAYOUT_KINDS : Made(w, kind)' => Made(w, kind)
    BY <1>1 DEF Made
  <2>2. QED
    BY <1>1, <2>1, RecordedKept DEF TransfersAgree
<1>2. CASE uncalled
  BY <1>1, <1>2 DEF uncalled, busyKept, Busy, Answered
<1>3. ASSUME NEW h \in Handlers, callStep(h)
      PROVE  TransfersAgree'
  <2>1. CASE callTransfer(h)
    BY <1>3, <2>1, CallTransferAgrees
  <2>2. CASE recordTransfer(h)
    BY <1>3, <2>2, RecordTransferAgrees
  <2>3. CASE callCharge(h) \/ recordCharge(h) \/ insertRefund(h) \/ callRefund(h)
             \/ recordRefund(h) \/ addToTotal(h)
    <3>1. UNCHANGED transfers /\ handler[h].at # "transferred"
      BY <2>3 DEF callCharge, recordCharge, insertRefund, callRefund, recordRefund, addToTotal,
             gateway, at
    <3>2. \A g \in Handlers : Answered(handler[g]) => handler'[g] = handler[g]
      BY <1>3, <3>1, CallsAlone DEF Answered
    <3>3. QED
      BY <1>1, <3>1, <3>2
  <2>4. QED
    BY <1>3, <2>1, <2>2, <2>3 DEF callStep
<1>4. CASE gatewaySettles \/ processWebhook
  BY <1>1, <1>4 DEF gatewaySettles, processWebhook
<1>5. QED
  BY <1>2, <1>3, <1>4, StepKinds

-----------------------------------------------------------------------------
(* Totals *)

\* A step that moves no refund and writes no total.
LEMMA TotalsKept ==
  ASSUME LInv, TotalsAgree, UNCHANGED refundedAt,
         \A p \in Charges : payment'[p].refunded = payment[p].refunded,
         \A g \in Handlers : GivingBack(handler[g]) \/ GivingBack(handler'[g])
                               => handler'[g] = handler[g]
  PROVE  TotalsAgree'
<1>1. \A k : Pending(k)' <=> Pending(k)
  BY DEF Pending, GivingBack, KeyOf
<1>2. ASSUME NEW k \in RefundKeys PROVE Credited(k)' = Credited(k)
  BY <1>1 DEF Credited
<1>3. \A p \in Charges : <<p, "cancel">> \in RefundKeys /\ <<p, "dispute">> \in RefundKeys
  BY DEF RefundKeys, REFUND_REASONS
<1>4. \A p \in Charges :
        payment'[p].refunded = Credited(<<p, "cancel">>)' + Credited(<<p, "dispute">>)'
  BY <1>2, <1>3 DEF TotalsAgree
<1>5. \A h \in Handlers : RefusedInv(handler[h])'
  BY DEF TotalsAgree, RefusedInv, GivingBack, KeyOf
<1>6. QED
  BY <1>4, <1>5 DEF TotalsAgree

\* The one handler that has refund k moves: what it adds to the total is what
\* may be counted of the refund from now on.
LEMMA TotalsMove ==
  ASSUME LInv, RInv, TotalsAgree, NEW h \in Handlers, NEW k \in RefundKeys, NEW new,
         aside(h, k, new),
         \A j \in RefundKeys \ {k} : refundedAt'[j] = refundedAt[j],
         NEW p \in Charges, OfCharge(k, p),
         \A q \in Charges \ {p} : payment'[q].refunded = payment[q].refunded,
         Credited(k) \in Nat, Credited(k)' \in Nat,
         payment'[p].refunded = payment[p].refunded + (Credited(k)' - Credited(k)),
         RefusedInv(new)'
  PROVE  TotalsAgree'
<1>1. \A j \in RefundKeys \ {k} : Credited(j)' = Credited(j)
  BY AsideCredited DEF Credited
<1>2. PICK one, other \in REFUND_REASONS :
        /\ k = <<p, one>> /\ one # other
        /\ {one, other} = {"cancel", "dispute"}
  BY DEF OfCharge, REFUND_REASONS
<1>3. <<p, other>> \in RefundKeys \ {k}
  BY <1>2 DEF RefundKeys
<1>4. payment[p].refunded \in Nat /\ Credited(<<p, other>>) \in Nat
  BY CreditsTyped
<1>5. Credited(<<p, other>>)' = Credited(<<p, other>>)
  BY <1>1, <1>3
<1>6. payment'[p].refunded = Credited(<<p, "cancel">>)' + Credited(<<p, "dispute">>)'
  <2>1. payment[p].refunded = Credited(k) + Credited(<<p, other>>)
    BY <1>2, <1>4 DEF TotalsAgree, REFUND_REASONS
  <2>2. payment'[p].refunded = Credited(k)' + Credited(<<p, other>>)'
    BY <1>4, <1>5, <2>1
  <2>3. QED
    BY <1>2, <1>4, <1>5, <2>2 DEF REFUND_REASONS
<1>7. ASSUME NEW q \in Charges \ {p}
      PROVE  payment'[q].refunded = Credited(<<q, "cancel">>)' + Credited(<<q, "dispute">>)'
  <2>1. <<q, "cancel">> \in RefundKeys \ {k} /\ <<q, "dispute">> \in RefundKeys \ {k}
    BY <1>2 DEF RefundKeys, REFUND_REASONS
  <2>2. /\ Credited(<<q, "cancel">>)' = Credited(<<q, "cancel">>)
        /\ Credited(<<q, "dispute">>)' = Credited(<<q, "dispute">>)
    BY <1>1, <2>1
  <2>3. QED
    BY <2>2 DEF TotalsAgree
<1>8. ASSUME NEW g \in Handlers PROVE RefusedInv(handler[g])'
  <2>1. CASE g = h
    BY <2>1 DEF aside, RefusedInv, KeyOf
  <2>2. CASE g # h /\ handler[g].at = "refunded"
    <3>1. KeyOf(handler[g]) \in RefundKeys \ {k}
      BY <2>2, GiverKey DEF aside, GivingBack
    <3>2. RefusedInv(handler[g]) /\ handler'[g] = handler[g]
      BY <2>2 DEF TotalsAgree, aside
    <3>3. KeyOf(handler[g])' = KeyOf(handler[g])
      BY <3>2 DEF KeyOf
    <3>4. QED
      BY <3>1, <3>2, <3>3 DEF RefusedInv
  <2>3. CASE g # h /\ handler[g].at # "refunded"
    BY <2>3 DEF aside, RefusedInv
  <2>4. QED
    BY <2>1, <2>2, <2>3
<1>9. QED
  BY <1>6, <1>7, <1>8 DEF TotalsAgree

\* The insert: the gateway has not been asked.
LEMMA InsertRefundAgrees ==
  ASSUME LInv, RInv, TotalsAgree, NEW h \in Handlers, insertRefund(h)
  PROVE  TotalsAgree'
<1>0. PICK k, p : k = KeyOf(handler[h]) /\ p = handler[h].row
  OBVIOUS
<1>1. handler[h].at = "insert refund" /\ UNCHANGED <<payment, refundedAt>>
  BY DEF insertRefund, at, gateway
<1>2. CASE finish(h)
  <2>1. \A g \in Handlers : GivingBack(handler[g]) \/ GivingBack(handler'[g])
                              => handler'[g] = handler[g]
    BY <1>1, <1>2 DEF LInv, HandlersTyped, finish, GivingBack, NoHandler
  <2>2. QED
    BY <1>1, <2>1, TotalsKept
<1>3. CASE refund[k] = NoRefund /\ goto(h, "refund")
  <2>1. /\ handler[h] \in Handler /\ p \in Charges /\ k \in RefundKeys /\ OfCharge(k, p)
        /\ payment[p].refunded \in Nat
    BY <1>0, <1>1, CreditsOf
  <2>2. PICK new : new = [handler[h] EXCEPT !.at = "refund"]
    OBVIOUS
  <2>3. new.at = "refund" /\ KeyOf(new) = k
    BY <1>0, <2>1, <2>2 DEF Handler, KeyOf
  <2>4. aside(h, k, new)
    <3>1. handler'[h] = new /\ \A g \in Handlers \ {h} : handler'[g] = handler[g]
      BY <1>3, <2>2 DEF goto, LInv, HandlersTyped
    <3>2. \A g \in Handlers \ {h} : GivingBack(handler[g]) => KeyOf(handler[g]) # k
      BY <1>0, <1>3 DEF RInv, GivingInv
    <3>3. QED
      BY <1>0, <1>1, <2>3, <3>1, <3>2 DEF aside, GivingBack
  <2>5. refundedAt[k] = 0
    BY <1>3, <2>1 DEF RInv, RefundInv
  <2>6. Credited(k) = 0 /\ Credited(k)' = 0
    BY <1>1, <2>5 DEF Credited
  <2>7. payment'[p].refunded = payment[p].refunded + (Credited(k)' - Credited(k))
    <3>1. payment'[p].refunded = payment[p].refunded /\ payment[p].refunded \in Nat
      BY <1>1, <2>1
    <3>2. QED
      BY <2>6, <3>1
  <2>8. RefusedInv(new)'
    BY <2>3 DEF RefusedInv
  <2>9. Credited(k) \in Nat /\ Credited(k)' \in Nat
    BY <2>6
  <2>10. /\ \A j \in RefundKeys \ {k} : refundedAt'[j] = refundedAt[j]
         /\ \A q \in Charges \ {p} : payment'[q].refunded = payment[q].refunded
    BY <1>1
  <2>11. QED
    BY <2>1, <2>4, <2>7, <2>8, <2>9, <2>10, TotalsMove
<1>4. QED
  BY <1>0, <1>2, <1>3 DEF insertRefund, refundKey, KeyOf

\* The call: nothing is counted yet, and nothing was given if it is refused.
LEMMA CallRefundAgrees ==
  ASSUME Faultless, LInv, RInv, TotalsAgree, NEW h \in Handlers, callRefund(h)
  PROVE  TotalsAgree'
<1>0. PICK k, p : k = KeyOf(handler[h]) /\ p = handler[h].row
  OBVIOUS
<1>1. handler[h].at = "refund" /\ UNCHANGED payment
  BY DEF callRefund, at, books
<1>2. /\ handler[h] \in Handler /\ p \in Charges /\ k \in RefundKeys /\ OfCharge(k, p)
      /\ payment[p].refunded \in Nat
  BY <1>0, <1>1, CreditsOf
<1>3. PICK answer \in {"ok", "error"} :
        /\ handler' = [handler EXCEPT ![h].at = "refunded", ![h].answer = answer]
        /\ \/ answer = "error" /\ UNCHANGED refundedAt
           \/ answer = "ok" /\ refundedAt' = [refundedAt EXCEPT ![k] = handler[h].cents]
  BY <1>0 DEF callRefund, refundKey, KeyOf, Faultless, Unknown
<1>4. PICK new : new = [handler[h] EXCEPT !.at = "refunded", !.answer = answer]
  OBVIOUS
<1>5. new.at = "refunded" /\ KeyOf(new) = k /\ new.answer = answer
  BY <1>0, <1>2, <1>4 DEF Handler, KeyOf
<1>6. aside(h, k, new)
  <2>1. handler'[h] = new /\ \A g \in Handlers \ {h} : handler'[g] = handler[g]
    BY <1>3, <1>4 DEF LInv, HandlersTyped
  <2>2. QED
    BY <1>0, <1>1, <1>5, <2>1 DEF aside, GivingBack, RInv, OneGiver
<1>7. refundedAt[k] = 0
  <2>1. GivingInv(handler[h])
    BY DEF RInv
  <2>2. QED
    BY <1>0, <1>1, <2>1 DEF GivingInv, GivingBack
<1>8. Credited(k) = 0 /\ Credited(k)' = 0
  BY <1>0, <1>1, <1>5, <1>6, AsideCredited DEF Credited, GivingBack
<1>9. RefusedInv(new)'
  BY <1>3, <1>5, <1>7 DEF RefusedInv
<1>10. \A j \in RefundKeys \ {k} : refundedAt'[j] = refundedAt[j]
  BY <1>3 DEF RInv, RefundsTyped
<1>11. payment'[p].refunded = payment[p].refunded + (Credited(k)' - Credited(k))
  BY <1>1, <1>2, <1>8
<1>12. /\ Credited(k) \in Nat /\ Credited(k)' \in Nat
       /\ \A q \in Charges \ {p} : payment'[q].refunded = payment[q].refunded
  BY <1>1, <1>8
<1>13. QED
  BY <1>2, <1>6, <1>9, <1>10, <1>11, <1>12, TotalsMove

\* The record: a refund that was refused may be counted, being nothing.
LEMMA RecordRefundAgrees ==
  ASSUME LInv, RInv, TotalsAgree, NEW h \in Handlers, recordRefund(h)
  PROVE  TotalsAgree'
<1>0. PICK k, p, ok : /\ k = KeyOf(handler[h]) /\ p = handler[h].row
                      /\ ok = (handler[h].answer = "ok")
  OBVIOUS
<1>1. handler[h].at = "refunded" /\ UNCHANGED <<payment, refundedAt>>
  BY DEF recordRefund, at, gateway
<1>2. /\ handler[h] \in Handler /\ p \in Charges /\ k \in RefundKeys /\ OfCharge(k, p)
      /\ payment[p].refunded \in Nat
  BY <1>0, <1>1, CreditsOf
<1>3. IF ok THEN goto(h, "total") ELSE finish(h)
  BY <1>0 DEF recordRefund
<1>4. PICK new : new = IF ok THEN [handler[h] EXCEPT !.at = "total"] ELSE NoHandler
  OBVIOUS
<1>5. /\ ok => new.at = "total" /\ KeyOf(new) = k
      /\ ~ok => new.at = "idle"
  BY <1>0, <1>2, <1>4 DEF Handler, KeyOf, NoHandler
<1>6. aside(h, k, new)
  <2>1. handler'[h] = new /\ \A g \in Handlers \ {h} : handler'[g] = handler[g]
    BY <1>3, <1>4 DEF LInv, HandlersTyped, goto, finish
  <2>2. QED
    BY <1>0, <1>1, <1>5, <2>1 DEF aside, GivingBack, RInv, OneGiver
<1>7. ~ok => refundedAt[k] = 0
  <2>1. RefusedInv(handler[h])
    BY DEF TotalsAgree
  <2>2. QED
    BY <1>0, <1>1, <2>1 DEF RefusedInv
<1>8. Credited(k) = 0
  BY <1>0, <1>1, CreditsOf DEF GivingBack
<1>9. Credited(k)' = 0
  <2>1. CASE ok
    <3>1. GivingBack(new)
      BY <1>5, <2>1 DEF GivingBack
    <3>2. Pending(k)'
      BY <1>6, <3>1, AsideCredited
    <3>3. QED
      BY <3>2 DEF Credited
  <2>2. CASE ~ok
    BY <1>1, <1>7, <2>2 DEF Credited
  <2>3. QED
    BY <2>1, <2>2
<1>10. RefusedInv(new)'
  BY <1>5 DEF RefusedInv
<1>11. payment'[p].refunded = payment[p].refunded + (Credited(k)' - Credited(k))
  BY <1>1, <1>2, <1>8, <1>9
<1>12. /\ Credited(k) \in Nat /\ Credited(k)' \in Nat
       /\ \A j \in RefundKeys \ {k} : refundedAt'[j] = refundedAt[j]
       /\ \A q \in Charges \ {p} : payment'[q].refunded = payment[q].refunded
  BY <1>1, <1>8, <1>9
<1>13. QED
  BY <1>2, <1>6, <1>10, <1>11, <1>12, TotalsMove

\* The total: it grows by what is counted from now on.
LEMMA TotalAgrees ==
  ASSUME Faultless, LInv, RInv, TotalsAgree, NEW h \in Handlers, addToTotal(h)
  PROVE  TotalsAgree'
<1>0. PICK k, p, cents : /\ k = KeyOf(handler[h]) /\ p = handler[h].row
                         /\ cents = handler[h].cents
  OBVIOUS
<1>1. handler[h].at = "total" /\ UNCHANGED refundedAt /\ finish(h)
  BY DEF addToTotal, at, gateway
<1>2. /\ p \in Charges /\ k \in RefundKeys /\ cents \in Nat /\ OfCharge(k, p)
      /\ payment[p] \in Payment /\ payment[p].refunded \in Nat
  BY <1>0, <1>1, CreditsOf
<1>3. Credited(k) = 0
  BY <1>0, <1>1, CreditsOf DEF GivingBack
<1>4. refundedAt[k] = cents
  <2>1. GivingInv(handler[h])
    BY DEF RInv
  <2>2. QED
    BY <1>0, <1>1, <2>1 DEF GivingInv, GivingBack
<1>5. aside(h, k, NoHandler)
  <2>1. handler'[h] = NoHandler /\ \A g \in Handlers \ {h} : handler'[g] = handler[g]
    BY <1>1 DEF LInv, HandlersTyped, finish
  <2>2. QED
    BY <1>0, <1>1, <2>1 DEF aside, GivingBack, RInv, OneGiver, NoHandler
<1>6. Credited(k)' = cents
  <2>1. ~GivingBack(NoHandler)
    BY DEF GivingBack, NoHandler
  <2>2. ~Pending(k)'
    BY <1>5, <2>1, AsideCredited
  <2>3. QED
    BY <1>1, <1>4, <2>2 DEF Credited
<1>7. /\ payment'[p].refunded = payment[p].refunded + cents
      /\ \A q \in Charges \ {p} : payment'[q].refunded = payment[q].refunded
  <2>1. PICK status :
          payment' = [payment EXCEPT ![p].refunded = payment[p].refunded + cents,
                                     ![p].status = status]
    BY <1>0 DEF addToTotal, Faultless
  <2>2. PICK row : row = [payment[p] EXCEPT !.refunded = payment[p].refunded + cents,
                                            !.status = status]
    OBVIOUS
  <2>3. row.refunded = payment[p].refunded + cents
    BY <1>2, <2>2 DEF Payment
  <2>4. payment' = [payment EXCEPT ![p] = row]
    BY <2>1, <2>2
  <2>5. QED
    BY <1>2, <2>3, <2>4 DEF LInv, ChargesTyped
<1>8. RefusedInv(NoHandler)'
  BY DEF RefusedInv, NoHandler
<1>9. payment'[p].refunded = payment[p].refunded + (Credited(k)' - Credited(k))
  BY <1>2, <1>3, <1>6, <1>7
<1>10. QED
  BY <1>1, <1>2, <1>3, <1>5, <1>6, <1>7, <1>8, <1>9, TotalsMove

\* Only the total's own statement writes a total.
LEMMA TotalsWritten ==
  ASSUME LInv, NEW p \in Rows, NEW row, payment' = [payment EXCEPT ![p] = row],
         row.refunded = payment[p].refunded
  PROVE  \A q \in Charges : payment'[q].refunded = payment[q].refunded
BY DEF LInv, ChargesTyped, Rows

\* Every step.
LEMMA TotalsAgreeStep ==
  ASSUME Faultless, LInv, RInv, TotalsAgree, [PayNext]_payVars
  PROVE  TotalsAgree'
<1>1. CASE uncalled /\ \A p \in Charges : payment'[p].refunded = payment[p].refunded
  <2>1. \A g \in Handlers : GivingBack(handler[g]) \/ GivingBack(handler'[g])
                              => handler'[g] = handler[g]
    BY <1>1 DEF uncalled, busyKept, Busy, GivingBack
  <2>2. QED
    BY <1>1, <2>1, TotalsKept DEF uncalled
<1>2. ASSUME NEW h \in Handlers, rowStep(h) \/ recordCharge(h)
      PROVE  \A p \in Charges : payment'[p].refunded = payment[p].refunded
  <2>1. CASE insertCharge(h)
    BY <2>1, AmountsInserted DEF amountsKept
  <2>2. CASE cancelFailed(h) \/ supersede(h) \/ recordCharge(h)
    BY <1>2, <2>2, AmountsRewritten DEF amountsKept
  <2>3. QED
    BY <1>2, <2>1, <2>2 DEF rowStep
<1>3. ASSUME NEW h \in Handlers, callStep(h)
      PROVE  TotalsAgree'
  <2>1. CASE insertRefund(h) \/ callRefund(h) \/ recordRefund(h) \/ addToTotal(h)
    BY <1>3, <2>1, InsertRefundAgrees, CallRefundAgrees, RecordRefundAgrees, TotalAgrees
  <2>2. CASE callCharge(h) \/ recordCharge(h) \/ callTransfer(h) \/ recordTransfer(h)
    <3>1. UNCHANGED refundedAt /\ ~GivingBack(handler[h])
      BY <2>2 DEF callCharge, recordCharge, callTransfer, recordTransfer, gateway, at, GivingBack
    <3>2. elsewhere(h)
      BY <1>3, <2>2, Elsewhere, TransferElsewhere
    <3>3. \A p \in Charges : payment'[p].refunded = payment[p].refunded
      <4>1. CASE recordCharge(h)
        BY <1>2, <1>3, <4>1
      <4>2. CASE ~recordCharge(h)
        BY <2>2, <4>2 DEF callCharge, callTransfer, recordTransfer, books
      <4>3. QED
        BY <4>1, <4>2
    <3>4. QED
      BY <3>1, <3>2, <3>3, TotalsKept DEF elsewhere
  <2>3. QED
    BY <1>3, <2>1, <2>2 DEF callStep
<1>4. CASE gatewaySettles
  BY <1>4, TotalsKept DEF gatewaySettles, books
<1>5. CASE processWebhook
  BY <1>5, AmountsByWebhook, TotalsKept DEF processWebhook, amountsKept
<1>6. QED
  BY <1>1, <1>2, <1>3, <1>4, <1>5, StepKinds

-----------------------------------------------------------------------------
(* Charges *)

\* What a charge's own row has to say, given what the gateway did.
RowAgrees(p) ==
  /\ payment[p].status \in {"FAILED", "CANCELLED"} => captured[p] \in Unpaid
  /\ payment[p].status = "REQUIRES_PAYMENT" => Awaited(p)

\* A step that writes no row but p's, and asks the gateway for nothing.
LEMMA RowWrittenAgrees ==
  ASSUME LInv, ChargesAgree, UNCHANGED captured, hooks' \subseteq hooks, NEW p \in Charges,
         \A q \in Charges \ {p} : payment'[q] = payment[q],
         RowAgrees(p)',
         \A g \in Handlers : handler[g].at \in {"call", "record"} /\ handler[g].row # p
                               => handler'[g] = handler[g],
         \A g \in Handlers : handler'[g].at = "record" => handler'[g] = handler[g]
  PROVE  ChargesAgree'
<1>1. ASSUME NEW q \in Charges \ {p}, q \in Rows' PROVE RowAgrees(q)'
  <2>1. payment'[q] = payment[q] /\ q \in Rows
    BY <1>1 DEF Rows
  <2>2. Awaited(q) => Awaited(q)'
    BY <1>1 DEF Awaited
  <2>3. QED
    BY <2>1, <2>2 DEF RowAgrees, ChargesAgree
<1>2. \A q \in Rows' : RowAgrees(q)'
  BY <1>1 DEF Rows
<1>3. \A h \in Handlers : AnswerInv(handler[h])'
  BY DEF ChargesAgree, AnswerInv
<1>4. \A event \in hooks' : event[2] = "DECLINED" => captured'[event[1]] = "DECLINED"
  BY DEF ChargesAgree
<1>5. QED
  BY <1>2, <1>3, <1>4 DEF ChargesAgree, RowAgrees

\* A step that writes none.
LEMMA NoRowWrittenAgrees ==
  ASSUME LInv, ChargesAgree, UNCHANGED <<payment, captured>>, hooks' \subseteq hooks,
         \A g \in Handlers : handler[g].at \in {"call", "record"} => handler'[g] = handler[g],
         \A g \in Handlers : handler'[g].at = "record" => handler'[g] = handler[g]
  PROVE  ChargesAgree'
<1>1. ASSUME NEW q \in Rows' PROVE RowAgrees(q)'
  <2>1. payment'[q] = payment[q] /\ q \in Rows
    BY <1>1 DEF Rows
  <2>2. Awaited(q) => Awaited(q)'
    BY DEF Awaited
  <2>3. QED
    BY <2>1, <2>2 DEF RowAgrees, ChargesAgree
<1>2. \A h \in Handlers : AnswerInv(handler[h])'
  BY DEF ChargesAgree, AnswerInv
<1>3. \A event \in hooks' : event[2] = "DECLINED" => captured'[event[1]] = "DECLINED"
  BY DEF ChargesAgree
<1>4. QED
  BY <1>1, <1>2, <1>3 DEF ChargesAgree, RowAgrees

\* The rows a charge handler writes without a call.
LEMMA RowStepAgrees ==
  ASSUME LInv, SInv, ChargesAgree, uncalled, NEW h \in Handlers, rowStep(h)
  PROVE  ChargesAgree'
<1>0. /\ \A g \in Handlers : handler[g].at \in {"call", "record"} => handler'[g] = handler[g]
      /\ \A g \in Handlers : handler'[g].at = "record" => handler'[g] = handler[g]
      /\ UNCHANGED <<captured, hooks>>
  BY DEF uncalled, busyKept, Busy
<1>1. ASSUME NEW p \in Charges, NEW row, payment' = [payment EXCEPT ![p] = row], RowAgrees(p)'
      PROVE  ChargesAgree'
  <2>1. \A q \in Charges \ {p} : payment'[q] = payment[q]
    BY <1>1 DEF LInv, ChargesTyped
  <2>2. QED
    BY <1>0, <1>1, <2>1, RowWrittenAgrees
<1>2. PICK p : p = handler[h].row
  OBVIOUS
<1>3. CASE insertCharge(h)
  <2>1. CASE UNCHANGED payment
    BY <1>0, <2>1, NoRowWrittenAgrees
  <2>2. ASSUME NEW q \in Charges \ Rows,
               payment' = [payment EXCEPT ![q] =
                   [status |-> "REQUIRES_PAYMENT", cents |-> Pay * Cardinality(OnJob),
                    refunded |-> 0, live |-> TRUE, intent |-> FALSE]],
               handler' = [handler EXCEPT ![h].at = "call", ![h].row = q]
        PROVE  ChargesAgree'
    <3>1. PICK row : row = [status |-> "REQUIRES_PAYMENT", cents |-> Pay * Cardinality(OnJob),
                            refunded |-> 0, live |-> TRUE, intent |-> FALSE]
      OBVIOUS
    <3>2. payment' = [payment EXCEPT ![q] = row] /\ row.status = "REQUIRES_PAYMENT"
      BY <2>2, <3>1
    <3>3. payment'[q].status = "REQUIRES_PAYMENT"
      BY <2>2, <3>2 DEF LInv, ChargesTyped
    <3>4. handler'[h].at = "call" /\ handler'[h].row = q
      BY <2>2 DEF LInv, HandlersTyped, Handler
    <3>5. Awaited(q)'
      BY <3>4 DEF Awaited
    <3>6. RowAgrees(q)'
      BY <3>3, <3>5 DEF RowAgrees
    <3>7. QED
      BY <1>1, <2>2, <3>2, <3>6
  <2>3. QED
    BY <1>3, <2>1, <2>2 DEF insertCharge
<1>4. CASE cancelFailed(h)
  <2>1. p \in Rows /\ payment[p].status \in {"FAILED", "CANCELLED"}
    BY <1>2, <1>4 DEF cancelFailed, at, SInv, ClaimInv, LInv, HandlersInv, HandlerInv, Retrying
  <2>2. payment[p] \in Payment /\ p \in Charges
    BY <2>1 DEF LInv, ChargesTyped, Rows
  <2>3. PICK row : row = [payment[p] EXCEPT !.status = "CANCELLED"]
    OBVIOUS
  <2>4. payment' = [payment EXCEPT ![p] = row] /\ row.status = "CANCELLED"
    BY <1>2, <1>4, <2>2, <2>3 DEF cancelFailed, Payment
  <2>5. payment'[p].status = "CANCELLED"
    BY <2>2, <2>4 DEF LInv, ChargesTyped
  <2>6. captured[p] \in Unpaid
    BY <2>1 DEF ChargesAgree
  <2>7. RowAgrees(p)'
    BY <1>0, <2>5, <2>6 DEF RowAgrees, Unpaid
  <2>8. QED
    BY <1>1, <2>2, <2>4, <2>7
<1>5. CASE supersede(h)
  <2>1. p \in Rows
    BY <1>2, <1>5 DEF supersede, at, LInv, HandlersInv, HandlerInv, Retrying
  <2>2. payment[p] \in Payment /\ p \in Charges
    BY <2>1 DEF LInv, ChargesTyped, Rows
  <2>3. PICK row : row = [payment[p] EXCEPT !.live = FALSE]
    OBVIOUS
  <2>4. payment' = [payment EXCEPT ![p] = row] /\ row.status = payment[p].status
    BY <1>2, <1>5, <2>2, <2>3 DEF supersede, Payment
  <2>5. payment'[p].status = payment[p].status
    BY <2>2, <2>4 DEF LInv, ChargesTyped
  <2>6. Awaited(p) => Awaited(p)'
    BY <1>0 DEF Awaited
  <2>7. RowAgrees(p)
    BY <2>1 DEF ChargesAgree, RowAgrees
  <2>8. RowAgrees(p)'
    BY <1>0, <2>5, <2>6, <2>7 DEF RowAgrees, Unpaid
  <2>9. QED
    BY <1>1, <2>2, <2>4, <2>8
<1>6. QED
  BY <1>3, <1>4, <1>5 DEF rowStep

\* The call: what it answers is what the gateway did, and no other handler
\* waits for an answer about the row.
LEMMA CallChargeAgrees ==
  ASSUME Faultless, LInv, ChargesAgree, NEW h \in Handlers, callCharge(h)
  PROVE  ChargesAgree'
<1>0. PICK p : p = handler[h].row
  OBVIOUS
<1>1. /\ handler[h].at = "call" /\ handler[h] \in Handler /\ UNCHANGED payment
      /\ p \in Rows /\ payment[p].status = "REQUIRES_PAYMENT" /\ captured[p] = NoRow
  BY <1>0 DEF callCharge, at, books, LInv, HandlersTyped, HandlersInv, HandlerInv, Charging
<1>2. p \in Charges
  BY <1>1 DEF Rows
<1>3. PICK answer \in {"PROCESSING", "CAPTURED", "DECLINED", "error"} :
        /\ handler' = [handler EXCEPT ![h].at = "record", ![h].answer = answer]
        /\ \/ answer = "error" /\ UNCHANGED <<captured, hooks>>
           \/ /\ answer # "error"
              /\ captured' = [captured EXCEPT ![p] = answer]
              /\ hooks' \subseteq hooks \cup {<<p, answer>>}
  BY <1>0 DEF callCharge, Faultless, Unknown, hooksFor
<1>4. PICK new : new = [handler[h] EXCEPT !.at = "record", !.answer = answer]
  OBVIOUS
<1>5. new.at = "record" /\ new.answer = answer /\ new.row = p
  BY <1>0, <1>1, <1>4 DEF Handler
<1>6. handler'[h] = new /\ \A g \in Handlers \ {h} : handler'[g] = handler[g]
  BY <1>3, <1>4 DEF LInv, HandlersTyped
<1>7. /\ \A q \in Charges \ {p} : captured'[q] = captured[q]
      /\ captured'[p] = IF answer = "error" THEN NoRow ELSE answer
  BY <1>1, <1>2, <1>3 DEF LInv, ChargesTyped
<1>8. ASSUME NEW q \in Rows' PROVE RowAgrees(q)'
  <2>1. q \in Rows /\ q \in Charges /\ payment'[q] = payment[q]
    BY <1>1, <1>8 DEF Rows
  <2>2. RowAgrees(q)
    BY <2>1 DEF ChargesAgree, RowAgrees
  <2>3. Awaited(q) => Awaited(q)'
    <3>1. ASSUME NEW g \in Handlers, handler[g].at \in {"call", "record"}, handler[g].row = q
          PROVE  handler'[g].at \in {"call", "record"} /\ handler'[g].row = q
      BY <1>0, <1>5, <1>6, <3>1
    <3>2. QED
      BY <3>1 DEF Awaited
  <2>4. CASE q = p
    BY <1>1, <2>1, <2>2, <2>3, <2>4 DEF RowAgrees
  <2>5. CASE q # p
    BY <1>7, <2>1, <2>2, <2>3, <2>5 DEF RowAgrees, Unpaid
  <2>6. QED
    BY <2>4, <2>5
<1>9. ASSUME NEW g \in Handlers PROVE AnswerInv(handler[g])'
  <2>1. CASE g = h
    BY <1>5, <1>6, <1>7, <2>1 DEF AnswerInv, Unpaid
  <2>2. CASE g # h /\ handler[g].at = "record"
    <3>1. handler[g].row \in Rows /\ handler[g].row # p
      BY <1>0, <1>1, <2>2 DEF LInv, HandlersInv, HandlerInv, Charging, OneEach
    <3>2. handler'[g] = handler[g] /\ AnswerInv(handler[g])
      BY <1>6, <2>2 DEF ChargesAgree
    <3>3. captured'[handler[g].row] = captured[handler[g].row]
      BY <1>7, <3>1 DEF Rows
    <3>4. QED
      BY <3>2, <3>3 DEF AnswerInv, Unpaid
  <2>3. CASE g # h /\ handler[g].at # "record"
    BY <1>6, <2>3 DEF AnswerInv
  <2>4. QED
    BY <2>1, <2>2, <2>3
<1>10. ASSUME NEW event \in hooks', event[2] = "DECLINED"
       PROVE  captured'[event[1]] = "DECLINED"
  <2>1. CASE event \in hooks
    <3>1. captured[event[1]] = "DECLINED" /\ event[1] \in Charges
      BY <1>10, <2>1 DEF ChargesAgree, LInv, ChargesTyped
    <3>2. event[1] # p
      BY <1>1, <3>1 DEF NoRow
    <3>3. QED
      BY <1>7, <3>1, <3>2
  <2>2. CASE event \notin hooks
    BY <1>3, <1>7, <1>10, <2>2
  <2>3. QED
    BY <2>1, <2>2
<1>11. QED
  BY <1>8, <1>9, <1>10 DEF ChargesAgree, RowAgrees

\* The record: it says FAILED of nothing that was captured.
LEMMA RecordChargeAgrees ==
  ASSUME LInv, ChargesAgree, NEW h \in Handlers, recordCharge(h)
  PROVE  ChargesAgree'
<1>0. PICK p, answer : p = handler[h].row /\ answer = handler[h].answer
  OBVIOUS
<1>1. handler[h].at = "record" /\ p \in Rows /\ UNCHANGED <<captured, hooks>>
  BY <1>0 DEF recordCharge, at, gateway, LInv, HandlersInv, HandlerInv, Charging
<1>2. payment[p] \in Payment /\ p \in Charges
  BY <1>1 DEF LInv, ChargesTyped, Rows
<1>3. PICK status, intent :
        /\ payment' = [payment EXCEPT ![p].status = status, ![p].intent = intent]
        /\ status = CASE answer = "CAPTURED" -> "SUCCEEDED"
                      [] answer = "PROCESSING" -> "PROCESSING"
                      [] OTHER -> "FAILED"
  BY <1>0 DEF recordCharge
<1>4. PICK row : row = [payment[p] EXCEPT !.status = status, !.intent = intent]
  OBVIOUS
<1>5. payment' = [payment EXCEPT ![p] = row] /\ row.status = status
  BY <1>2, <1>3, <1>4 DEF Payment
<1>6. /\ payment'[p].status = status
      /\ \A q \in Charges \ {p} : payment'[q] = payment[q]
  BY <1>2, <1>5 DEF LInv, ChargesTyped
<1>7. AnswerInv(handler[h])
  BY DEF ChargesAgree
<1>8. status = "FAILED" => captured[p] \in Unpaid
  BY <1>0, <1>1, <1>3, <1>7 DEF AnswerInv
<1>9. status \notin {"CANCELLED", "REQUIRES_PAYMENT"}
  BY <1>3
<1>10. RowAgrees(p)'
  BY <1>1, <1>6, <1>8, <1>9 DEF RowAgrees, Unpaid
<1>11. \A g \in Handlers \ {h} : handler'[g] = handler[g]
  BY Elsewhere DEF elsewhere
<1>12. handler'[h].at # "record"
  BY DEF recordCharge, goto, finish, NoHandler, LInv, HandlersTyped, Handler
<1>13. /\ \A g \in Handlers : handler[g].at \in {"call", "record"} /\ handler[g].row # p
                                => handler'[g] = handler[g]
       /\ \A g \in Handlers : handler'[g].at = "record" => handler'[g] = handler[g]
       /\ hooks' \subseteq hooks
  BY <1>0, <1>1, <1>11, <1>12
<1>14. QED
  BY <1>1, <1>2, <1>6, <1>10, <1>13, RowWrittenAgrees

\* The total: the row was paid, and stays so.
LEMMA TotalRowAgrees ==
  ASSUME Faultless, LInv, SInv, ChargesAgree, NEW h \in Handlers, addToTotal(h)
  PROVE  ChargesAgree'
<1>1. PICK p, total : p = handler[h].row /\ total = payment[p].refunded + handler[h].cents
  OBVIOUS
<1>2. handler[h].at = "total" /\ UNCHANGED <<captured, hooks>>
  BY DEF addToTotal, at, gateway
<1>3. p \in Rows
  BY <1>1, <1>2 DEF LInv, HandlersInv, HandlerInv, Refunding
<1>4. payment[p] \in Payment /\ p \in Charges
  BY <1>3 DEF LInv, ChargesTyped, Rows
<1>5. PICK status \in Kept :
        payment' = [payment EXCEPT ![p].refunded = total, ![p].status = status]
  BY <1>1 DEF addToTotal, Kept, Faultless
<1>6. PICK row : row = [payment[p] EXCEPT !.refunded = total, !.status = status]
  OBVIOUS
<1>7. payment' = [payment EXCEPT ![p] = row] /\ row.status = status
  BY <1>4, <1>5, <1>6 DEF Payment
<1>8. /\ payment'[p].status = status
      /\ \A q \in Charges \ {p} : payment'[q] = payment[q]
  BY <1>4, <1>7 DEF LInv, ChargesTyped
<1>9. RowAgrees(p)'
  BY <1>5, <1>8 DEF RowAgrees, Kept
<1>10. /\ \A g \in Handlers \ {h} : handler'[g] = handler[g]
       /\ handler'[h] = NoHandler
  BY DEF addToTotal, finish, LInv, HandlersTyped
<1>11. /\ \A g \in Handlers : handler[g].at \in {"call", "record"} /\ handler[g].row # p
                                => handler'[g] = handler[g]
       /\ \A g \in Handlers : handler'[g].at = "record" => handler'[g] = handler[g]
       /\ hooks' \subseteq hooks
  BY <1>2, <1>10 DEF NoHandler
<1>12. QED
  BY <1>2, <1>4, <1>8, <1>9, <1>11, RowWrittenAgrees

\* A charge that was pending ends: the ledger has not called it failed.
LEMMA SettlesAgrees ==
  ASSUME LInv, ChargesAgree, gatewaySettles
  PROVE  ChargesAgree'
<1>1. PICK p \in Charges, outcome \in {"CAPTURED", "DECLINED"} :
        /\ captured[p] = "PROCESSING"
        /\ captured' = [captured EXCEPT ![p] = outcome]
        /\ hooks' = hooks \cup {<<p, outcome>>}
        /\ UNCHANGED <<payment, handler>>
  BY DEF gatewaySettles, hooksFor, books
<1>2. \A q \in Charges : captured[q] \in Unpaid => captured'[q] = captured[q]
  BY <1>1 DEF LInv, ChargesTyped, Unpaid, NoRow
<1>3. captured'[p] = outcome
  BY <1>1 DEF LInv, ChargesTyped
<1>4. ASSUME NEW q \in Rows' PROVE RowAgrees(q)'
  <2>1. q \in Rows /\ q \in Charges /\ payment'[q] = payment[q]
    BY <1>1, <1>4 DEF Rows
  <2>2. RowAgrees(q)
    BY <2>1 DEF ChargesAgree, RowAgrees
  <2>3. Awaited(q) <=> Awaited(q)'
    BY <1>1 DEF Awaited
  <2>4. QED
    BY <1>2, <2>1, <2>2, <2>3 DEF RowAgrees, Unpaid
<1>5. ASSUME NEW g \in Handlers PROVE AnswerInv(handler[g])'
  <2>1. AnswerInv(handler[g]) /\ handler'[g] = handler[g]
    BY <1>1 DEF ChargesAgree
  <2>2. handler[g].at = "record" => handler[g].row \in Charges
    BY DEF LInv, HandlersInv, HandlerInv, Charging, Rows
  <2>3. QED
    BY <1>2, <2>1, <2>2 DEF AnswerInv, Unpaid
<1>6. ASSUME NEW event \in hooks', event[2] = "DECLINED"
      PROVE  captured'[event[1]] = "DECLINED"
  <2>1. CASE event \in hooks
    <3>1. captured[event[1]] = "DECLINED" /\ event[1] \in Charges
      BY <1>6, <2>1 DEF ChargesAgree, LInv, ChargesTyped
    <3>2. QED
      BY <1>2, <3>1 DEF Unpaid
  <2>2. CASE event = <<p, outcome>>
    BY <1>3, <1>6, <2>2
  <2>3. QED
    BY <1>1, <1>6, <2>1, <2>2
<1>7. QED
  BY <1>4, <1>5, <1>6 DEF ChargesAgree, RowAgrees

\* A webhook: it says FAILED only of what was declined.
LEMMA WebhookAgrees ==
  ASSUME LInv, ChargesAgree, processWebhook
  PROVE  ChargesAgree'
<1>1. PICK event \in hooks :
        /\ hooks' = hooks \ {event}
        /\ payment' = IF /\ payment[event[1]].intent
                         /\ payment[event[1]].status \in {"REQUIRES_PAYMENT", "PROCESSING"}
                        THEN [payment EXCEPT ![event[1]].status =
                                IF event[2] = "CAPTURED" THEN "SUCCEEDED" ELSE "FAILED"]
                        ELSE payment
        /\ UNCHANGED <<captured, handler>>
  BY DEF processWebhook
<1>2. CASE UNCHANGED payment
  BY <1>1, <1>2, NoRowWrittenAgrees
<1>3. CASE payment' # payment
  <2>1. PICK p, status : p = event[1]
                      /\ status = IF event[2] = "CAPTURED" THEN "SUCCEEDED" ELSE "FAILED"
    OBVIOUS
  <2>2. p \in Charges /\ event[2] \in {"CAPTURED", "DECLINED"}
    BY <1>1, <2>1 DEF LInv, ChargesTyped
  <2>3. payment[p].intent /\ payment' = [payment EXCEPT ![p].status = status]
    BY <1>1, <1>3, <2>1
  <2>4. payment[p] \in Payment
    BY <2>2, <2>3 DEF LInv, ChargesTyped, NoPayment
  <2>5. PICK row : row = [payment[p] EXCEPT !.status = status]
    OBVIOUS
  <2>6. payment' = [payment EXCEPT ![p] = row] /\ row.status = status
    BY <2>3, <2>4, <2>5 DEF Payment
  <2>7. /\ payment'[p].status = status
        /\ \A q \in Charges \ {p} : payment'[q] = payment[q]
    BY <2>2, <2>6 DEF LInv, ChargesTyped
  <2>8. status = "FAILED" => captured[p] = "DECLINED"
    BY <2>1, <2>2 DEF ChargesAgree
  <2>9. RowAgrees(p)'
    BY <1>1, <2>1, <2>7, <2>8 DEF RowAgrees, Unpaid
  <2>10. /\ \A g \in Handlers : handler[g].at \in {"call", "record"} /\ handler[g].row # p
                                  => handler'[g] = handler[g]
         /\ \A g \in Handlers : handler'[g].at = "record" => handler'[g] = handler[g]
         /\ hooks' \subseteq hooks
    BY <1>1
  <2>11. QED
    BY <1>1, <2>2, <2>7, <2>9, <2>10, RowWrittenAgrees
<1>4. QED
  BY <1>2, <1>3

\* Transfers and refunds touch no charge.
LEMMA OtherCallsAgree ==
  ASSUME LInv, ChargesAgree, NEW h \in Handlers,
         \/ callTransfer(h)
         \/ recordTransfer(h)
         \/ insertRefund(h)
         \/ callRefund(h)
         \/ recordRefund(h)
  PROVE  ChargesAgree'
<1>1. UNCHANGED <<payment, captured, hooks>> /\ handler[h].at \notin {"call", "record"}
  BY DEF callTransfer, recordTransfer, insertRefund, callRefund, recordRefund, books, gateway, at
<1>2. \A g \in Handlers \ {h} : handler'[g] = handler[g]
  BY CallsAlone DEF callStep
<1>3. handler'[h].at # "record"
  <2> USE DEF LInv, HandlersTyped, Handler
  <2>1. CASE callTransfer(h) \/ callRefund(h)
    <3>1. ASSUME NEW answer, NEW step \in {"transferred", "refunded"},
                 handler' = [handler EXCEPT ![h].at = step, ![h].answer = answer]
          PROVE  handler'[h].at # "record"
      BY <3>1
    <3>2. QED
      BY <2>1, <3>1 DEF callTransfer, callRefund
  <2>2. CASE recordTransfer(h)
    BY <2>2 DEF recordTransfer
  <2>3. CASE insertRefund(h) \/ recordRefund(h)
    <3>1. finish(h) \/ goto(h, "refund") \/ goto(h, "total")
      BY <2>3 DEF insertRefund, recordRefund
    <3>2. QED
      BY <3>1 DEF goto, finish, NoHandler
  <2>4. QED
    BY <2>1, <2>2, <2>3
<1>4. /\ \A g \in Handlers : handler[g].at \in {"call", "record"} => handler'[g] = handler[g]
      /\ \A g \in Handlers : handler'[g].at = "record" => handler'[g] = handler[g]
  BY <1>1, <1>2, <1>3
<1>5. QED
  BY <1>1, <1>4, NoRowWrittenAgrees

\* Every step.
LEMMA ChargesAgreeStep ==
  ASSUME Faultless, LInv, SInv, ChargesAgree, [PayNext]_payVars
  PROVE  ChargesAgree'
<1>1. CASE uncalled /\ UNCHANGED payment
  <2>1. /\ \A g \in Handlers : handler[g].at \in {"call", "record"} => handler'[g] = handler[g]
        /\ \A g \in Handlers : handler'[g].at = "record" => handler'[g] = handler[g]
        /\ UNCHANGED <<captured, hooks>>
    BY <1>1 DEF uncalled, busyKept, Busy
  <2>2. QED
    BY <1>1, <2>1, NoRowWrittenAgrees
<1>2. CASE uncalled /\ \E h \in Handlers : rowStep(h)
  BY <1>2, RowStepAgrees
<1>3. CASE \E h \in Handlers : callStep(h)
  BY <1>3, CallChargeAgrees, RecordChargeAgrees, TotalRowAgrees, OtherCallsAgree DEF callStep
<1>4. CASE gatewaySettles \/ processWebhook
  BY <1>4, SettlesAgrees, WebhookAgrees
<1>5. QED
  BY <1>1, <1>2, <1>3, <1>4, StepKinds

-----------------------------------------------------------------------------
(* Together *)

\* The invariant.
AInv == ChargesAgree /\ TotalsAgree /\ TransfersAgree

\* When no handler runs, nothing is in between.
LEMMA AgreeWhenQuiet ==
  ASSUME LInv, RInv, TInv, AInv
  PROVE  LedgerAgrees
<1> SUFFICES ASSUME Quiet
             PROVE  /\ \A p \in Rows :
                         /\ payment[p].refunded = GivenBack(p)
                         /\ captured[p] = "CAPTURED" <=>
                              \/ payment[p].status \in Kept
                              \/ captured[p] = "CAPTURED" /\ payment[p].status = "PROCESSING"
                    /\ \A w \in Workers, kind \in PAYOUT_KINDS :
                         Made(w, kind) <=> payout[<<w, kind>>] = "IN_TRANSIT"
  BY DEF LedgerAgrees, Made, Kept
<1>1. \A h \in Handlers : handler[h].at = "idle"
  BY DEF Quiet, NoHandler
<1>2. ASSUME NEW p \in Rows
      PROVE  /\ payment[p].refunded = GivenBack(p)
             /\ captured[p] = "CAPTURED" <=>
                  \/ payment[p].status \in Kept
                  \/ captured[p] = "CAPTURED" /\ payment[p].status = "PROCESSING"
  <2>1. p \in Charges /\ payment[p] \in Payment
    BY DEF Rows, LInv, ChargesTyped
  <2>2. payment[p].refunded = GivenBack(p)
    BY <1>1, <2>1 DEF AInv, TotalsAgree, Credited, Pending, GivingBack, GivenBack
  <2>3. ~Awaited(p)
    BY <1>1 DEF Awaited
  <2>4. payment[p].status \in {"FAILED", "CANCELLED"} => captured[p] # "CAPTURED"
    BY DEF AInv, ChargesAgree, Unpaid, NoRow
  <2>5. payment[p].status # "REQUIRES_PAYMENT"
    BY <2>3 DEF AInv, ChargesAgree
  <2>6. payment[p].status \in Kept => captured[p] = "CAPTURED"
    BY DEF LInv, ChargesInv, RowInv
  <2>7. payment[p].status \in Kept \cup {"FAILED", "CANCELLED", "PROCESSING"}
    BY <2>1, <2>5 DEF Payment, Kept
  <2>8. QED
    BY <2>2, <2>4, <2>6, <2>7
<1>3. ASSUME NEW w \in Workers, NEW kind \in PAYOUT_KINDS
      PROVE  Made(w, kind) <=> payout[<<w, kind>>] = "IN_TRANSIT"
  <2>1. Recorded(w, kind) => payout[<<w, kind>>] = "IN_TRANSIT"
    BY <1>1 DEF Recorded, Answered
  <2>2. QED
    BY <2>1 DEF AInv, TransfersAgree, TInv, PayoutsMade
<1>4. QED
  BY <1>2, <1>3

\* It holds at the start.
LEMMA AgreeInit ==
  ASSUME PayInit
  PROVE  AInv
<1>1. /\ payment = [p \in Charges |-> NoPayment]
      /\ refundedAt = [k \in RefundKeys |-> 0]
      /\ handler = [h \in Handlers |-> NoHandler]
      /\ transfers = {} /\ hooks = {}
  BY DEF PayInit, RefundKeys
<1>2. \A h \in Handlers : handler[h].at = "idle"
  BY <1>1 DEF NoHandler
<1>3. ChargesAgree
  BY <1>1, <1>2 DEF ChargesAgree, Rows, AnswerInv
<1>4. TotalsAgree
  <2>1. \A p \in Charges : <<p, "cancel">> \in RefundKeys /\ <<p, "dispute">> \in RefundKeys
    BY DEF RefundKeys, REFUND_REASONS
  <2>2. \A k \in RefundKeys : Credited(k) = 0
    BY <1>1 DEF Credited
  <2>3. \A p \in Charges : payment[p].refunded = 0
    BY <1>1 DEF NoPayment
  <2>4. ASSUME NEW p \in Charges
        PROVE  payment[p].refunded = Credited(<<p, "cancel">>) + Credited(<<p, "dispute">>)
    <3>1. Credited(<<p, "cancel">>) = 0 /\ Credited(<<p, "dispute">>) = 0
      BY <2>1, <2>2
    <3>2. payment[p].refunded = 0
      BY <2>3
    <3>3. QED
      BY <3>1, <3>2
  <2>5. \A h \in Handlers : RefusedInv(handler[h])
    BY <1>2 DEF RefusedInv
  <2>6. QED
    BY <2>4, <2>5 DEF TotalsAgree
<1>5. TransfersAgree
  BY <1>1 DEF TransfersAgree, Made
<1>6. QED
  BY <1>3, <1>4, <1>5 DEF AInv

\* As long as no server crashes, no answer is lost and no statement fails, every
\* handler leaves ledger and gateway in agreement, whatever the others did between
\* its statements: on refunds, on transfers and on what was captured.
THEOREM Agreed ==
  ASSUME Faultless
  PROVE  PaySpec => []LedgerAgrees
<1>1. PayInit => AInv /\ SInv
  <2>1. ClaimInv(NoHandler)
    BY DEF ClaimInv, Refunding, NoHandler
  <2>2. QED
    BY <2>1, AgreeInit DEF PayInit, SInv
<1>2. LInv /\ RInv /\ TInv /\ SInv /\ AInv /\ [PayNext]_payVars => AInv' /\ SInv'
  BY ChargesAgreeStep, TotalsAgreeStep, TransfersAgreeStep, SettledStep DEF AInv, Faultless
<1>3. LInv /\ RInv /\ TInv /\ AInv => LedgerAgrees
  BY AgreeWhenQuiet
<1>4. QED
  BY <1>1, <1>2, <1>3, LedgerInvariance, RefundsInvariance, TransfersInvariance, PTL DEF PaySpec
=============================================================================
