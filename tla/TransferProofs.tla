--------------------------- MODULE TransferProofs ---------------------------
(***************************************************************************)
(* The transfers of Settlement, and what follows from the three invariants *)
(* together: the ledger claims no more than the gateway did, and the       *)
(* gateway pays nobody twice, however many releases run at once or die.    *)
(***************************************************************************)
EXTENDS RefundProofs

\* The gateway has made a transfer of the kind to the worker.
Made(w, kind) == \E made \in transfers : made.worker = w /\ made.kind = kind

\* A transfer under the key of its worker and kind: the key tells nothing of
\* the attempt that made it.
Keyed(made) ==
  \E w \in Workers, kind \in PAYOUT_KINDS :
    made = [worker |-> w, kind |-> kind, key |-> <<w, kind>>]

\* A handler that was told of a transfer and has not recorded it.
Answered(r) == r.at = "transferred" /\ r.answer = "ok"

\* The type of the payouts.
PayoutsTyped == payout \in [Workers \X PAYOUT_KINDS -> PAYOUT_STATES \cup {NoRow}]
\* What the gateway made, what the handlers were told, and what the ledger says.
TransfersKeyed == \A made \in transfers : Keyed(made)
AnswersMade ==
  \A h \in Handlers :
    Answered(handler[h]) => Made(handler[h].worker, handler[h].kind)
PayoutsMade ==
  \A w \in Workers, kind \in PAYOUT_KINDS :
    payout[<<w, kind>>] = "IN_TRANSIT" => Made(w, kind)

\* An idle slot holds nothing.
IdleEmpty == \A h \in Handlers : handler[h].at = "idle" => handler[h] = NoHandler

\* The invariant.
TInv == PayoutsTyped /\ TransfersKeyed /\ AnswersMade /\ PayoutsMade /\ IdleEmpty

-----------------------------------------------------------------------------
(* Steps that make no transfer *)

\* No handler comes to hold a new answer, and no payout comes to be in transit.
noneMade ==
  /\ UNCHANGED transfers
  /\ \A g \in Handlers : Answered(handler'[g]) => handler'[g] = handler[g]
  /\ IdleEmpty'
  /\ PayoutsTyped'
  /\ \A k \in Workers \X PAYOUT_KINDS :
       payout'[k] = "IN_TRANSIT" => payout[k] = "IN_TRANSIT"

\* Such a step keeps the invariant.
LEMMA NoneMadeKept ==
  ASSUME TInv, noneMade
  PROVE  TInv'
<1>1. \A w, kind : Made(w, kind)' <=> Made(w, kind)
  BY DEF noneMade, Made
<1>2. TransfersKeyed'
  BY DEF TInv, noneMade, TransfersKeyed, Keyed
<1>3. AnswersMade'
  <2>1. ASSUME NEW h \in Handlers, Answered(handler'[h])
        PROVE  Made(handler[h].worker, handler[h].kind)'
    <3>1. handler'[h] = handler[h] /\ Answered(handler[h])
      BY <2>1 DEF noneMade
    <3>2. PICK v, what : v = handler[h].worker /\ what = handler[h].kind
      OBVIOUS
    <3>3. Made(v, what)
      BY <3>1, <3>2 DEF TInv, AnswersMade
    <3>4. Made(v, what)'
      BY <1>1, <3>3
    <3>5. QED
      BY <3>1, <3>2, <3>4 DEF Made
  <2>2. QED
    BY <2>1 DEF AnswersMade, Answered
<1>4. PayoutsMade'
  <2>1. ASSUME NEW w \in Workers, NEW kind \in PAYOUT_KINDS,
               payout'[<<w, kind>>] = "IN_TRANSIT"
        PROVE  Made(w, kind)'
    <3>1. payout[<<w, kind>>] = "IN_TRANSIT"
      BY <2>1 DEF noneMade
    <3>2. QED
      BY <1>1, <3>1 DEF TInv, PayoutsMade
  <2>2. QED
    BY <2>1 DEF PayoutsMade
<1>5. QED
  BY <1>2, <1>3, <1>4 DEF TInv, noneMade

\* It need only show the handlers when it writes no payout.
LEMMA PayoutsKeptNoneMade ==
  ASSUME TInv, UNCHANGED <<transfers, payout>>, IdleEmpty',
         \A g \in Handlers : Answered(handler'[g]) => handler'[g] = handler[g]
  PROVE  noneMade
BY DEF noneMade, TInv, PayoutsTyped

\* A step of one handler leaves the idle ones empty.
LEMMA ElsewhereIdle ==
  ASSUME TInv, NEW h \in Handlers, elsewhere(h),
         handler'[h].at = "idle" => handler'[h] = NoHandler
  PROVE  IdleEmpty'
BY DEF TInv, IdleEmpty, elsewhere

\* Handlers that neither transfer nor refund nor insert a payout.
LEMMA OtherNoneMade ==
  ASSUME LInv, TInv, NEW h \in Handlers,
         \/ readJob(h)
         \/ insertCharge(h)
         \/ callCharge(h)
         \/ recordCharge(h)
         \/ noteCharge(h)
         \/ retryCharge(h)
         \/ cancelFailed(h)
         \/ supersede(h)
         \/ payNext(h)
         \/ closeRelease(h)
         \/ confirmScanned(h)
         \/ readOutcome(h)
         \/ compensated(h)
         \/ readFixed(h)
         \/ abandon(h)
  PROVE  noneMade
<1>1. elsewhere(h) /\ unanswered(handler'[h])
  BY Elsewhere
<1>2. UNCHANGED <<transfers, payout>>
  BY DEF readJob, insertCharge, callCharge, recordCharge, noteCharge, retryCharge,
         cancelFailed, supersede, payNext, closeRelease, confirmScanned, readOutcome,
         compensated, readFixed, abandon, books, gateway
<1>3. \A g \in Handlers : Answered(handler'[g]) => handler'[g] = handler[g]
  BY <1>1 DEF elsewhere, unanswered, Answered
<1>4. IdleEmpty'
  BY <1>1, ElsewhereIdle DEF unanswered
<1>5. QED
  BY <1>2, <1>3, <1>4, PayoutsKeptNoneMade

\* Handlers that refund.
LEMMA RefundNoneMade ==
  ASSUME LInv, TInv, NEW h \in Handlers,
         insertRefund(h) \/ callRefund(h) \/ recordRefund(h) \/ addToTotal(h)
  PROVE  noneMade
<1> USE DEF LInv, HandlersTyped, Handler, TInv, IdleEmpty, Answered
<1>1. UNCHANGED <<transfers, payout>>
  BY DEF insertRefund, callRefund, recordRefund, addToTotal, books, gateway
<1>2. /\ \A g \in Handlers : Answered(handler'[g]) => handler'[g] = handler[g]
      /\ IdleEmpty'
  <2>0. ASSUME finish(h)
        PROVE  /\ \A g \in Handlers : Answered(handler'[g]) => handler'[g] = handler[g]
               /\ IdleEmpty'
    BY <2>0 DEF finish, NoHandler
  <2>1. CASE insertRefund(h)
    <3>1. goto(h, "refund") \/ finish(h)
      BY <2>1 DEF insertRefund
    <3>2. QED
      BY <2>0, <3>1 DEF goto
  <2>2. CASE callRefund(h)
    BY <2>2 DEF callRefund
  <2>3. CASE recordRefund(h)
    BY <2>0, <2>3 DEF recordRefund, goto
  <2>4. CASE addToTotal(h)
    BY <2>0, <2>4 DEF addToTotal
  <2>5. QED
    BY <2>1, <2>2, <2>3, <2>4
<1>3. QED
  BY <1>1, <1>2, PayoutsKeptNoneMade

\* prepareRelease and compensateNext insert payouts, PENDING.
LEMMA InsertNoneMade ==
  ASSUME LInv, TInv, NEW h \in Handlers, prepareRelease(h) \/ compensateNext(h)
  PROVE  noneMade
<1>1. elsewhere(h) /\ unanswered(handler'[h])
  BY Elsewhere
<1>2. UNCHANGED transfers
  BY DEF prepareRelease, compensateNext, gateway
<1>3. \A g \in Handlers : Answered(handler'[g]) => handler'[g] = handler[g]
  BY <1>1 DEF elsewhere, unanswered, Answered
<1>4. payout \in [Workers \X PAYOUT_KINDS -> PAYOUT_STATES \cup {NoRow}]
  BY DEF TInv, PayoutsTyped
<1>5. /\ payout' \in [Workers \X PAYOUT_KINDS -> PAYOUT_STATES \cup {NoRow}]
      /\ \A k \in Workers \X PAYOUT_KINDS :
           payout'[k] = "IN_TRANSIT" => payout[k] = "IN_TRANSIT"
  <2>1. CASE UNCHANGED payout
    BY <1>4, <2>1
  <2>2. CASE payout' = [k \in DOMAIN payout |->
                 IF k \in CompletedWorkers \X {"JOB_EARNINGS"} /\ payout[k] = NoRow
                   THEN "PENDING" ELSE payout[k]]
    BY <1>4, <2>2 DEF PAYOUT_STATES
  <2>3. CASE \E k : payout' = [payout EXCEPT ![k] = "PENDING"]
    BY <1>4, <2>3 DEF PAYOUT_STATES
  <2>4. QED
    BY <2>1, <2>2, <2>3 DEF prepareRelease, compensateNext
<1>6. IdleEmpty'
  BY <1>1, ElsewhereIdle DEF unanswered
<1>7. QED
  BY <1>2, <1>3, <1>5, <1>6 DEF noneMade, PayoutsTyped

-----------------------------------------------------------------------------
(* The call, and the statement that records it *)

\* The call: an answer that says ok comes with the transfer.
LEMMA CallTransferStep ==
  ASSUME LInv, TInv, NEW h \in Handlers, callTransfer(h)
  PROVE  TInv'
<1>1. PICK w, kind : w = handler[h].worker /\ kind = handler[h].kind
  OBVIOUS
<1>2. w \in Workers /\ kind \in PAYOUT_KINDS
  BY <1>1 DEF LInv, HandlersInv, HandlerInv, callTransfer, at
<1>3. PICK made : made = [worker |-> w, kind |-> kind, key |-> <<w, kind>>]
  OBVIOUS
<1>4. PICK answer \in {"ok", "error"} :
        /\ handler' = [handler EXCEPT ![h].at = "transferred", ![h].answer = answer]
        /\ \/ answer = "error" /\ UNCHANGED transfers
           \/ transfers' = transfers \cup {made}
  BY <1>1, <1>3 DEF callTransfer, transferKey
<1>5. UNCHANGED payout /\ transfers \subseteq transfers'
  BY <1>4 DEF callTransfer, books
<1>6. ASSUME NEW v, NEW what, Made(v, what)
      PROVE  Made(v, what)'
  BY <1>5, <1>6 DEF Made
<1>7. TransfersKeyed'
  BY <1>2, <1>3, <1>4 DEF TInv, TransfersKeyed, Keyed
<1>8. AnswersMade'
  <2>1. handler[h] \in Handler /\ handler \in [Handlers -> Handler]
    BY DEF LInv, HandlersTyped
  <2>2. ASSUME NEW g \in Handlers, g # h, Answered(handler'[g])
        PROVE  Made(handler[g].worker, handler[g].kind)'
    <3>1. handler'[g] = handler[g] /\ Answered(handler[g])
      BY <1>4, <2>1, <2>2
    <3>2. PICK v, what : v = handler[g].worker /\ what = handler[g].kind
      OBVIOUS
    <3>3. Made(v, what)
      BY <3>1, <3>2 DEF TInv, AnswersMade
    <3>4. Made(v, what)'
      BY <1>6, <3>3
    <3>5. QED
      BY <3>1, <3>2, <3>4 DEF Made
  <2>3. ASSUME Answered(handler'[h])
        PROVE  Made(handler[h].worker, handler[h].kind)'
    <3>1. answer = "ok" /\ handler'[h].worker = w /\ handler'[h].kind = kind
      BY <1>1, <1>4, <2>1, <2>3 DEF Answered, Handler
    <3>2. made \in transfers'
      BY <1>4, <3>1
    <3>3. QED
      BY <1>3, <3>1, <3>2 DEF Made
  <2>4. QED
    BY <2>2, <2>3 DEF AnswersMade, Answered
<1>9. PayoutsMade' /\ PayoutsTyped'
  BY <1>5, <1>6 DEF TInv, PayoutsMade, PayoutsTyped
<1>10. IdleEmpty'
  BY <1>4 DEF TInv, IdleEmpty, LInv, HandlersTyped, Handler
<1>11. QED
  BY <1>7, <1>8, <1>9, <1>10 DEF TInv

\* The record: in transit only on such an answer, or if it was before.
LEMMA RecordTransferStep ==
  ASSUME LInv, TInv, NEW h \in Handlers, recordTransfer(h)
  PROVE  TInv'
<1>1. PICK w, kind : w = handler[h].worker /\ kind = handler[h].kind
  OBVIOUS
<1>2. w \in Workers /\ kind \in PAYOUT_KINDS /\ handler[h].at = "transferred"
  BY <1>1 DEF LInv, HandlersInv, HandlerInv, recordTransfer, at
<1>3. payout' = [payout EXCEPT ![<<w, kind>>] =
                   IF payout[<<w, kind>>] = "IN_TRANSIT" \/ handler[h].answer = "ok"
                     THEN "IN_TRANSIT" ELSE "FAILED"]
  BY <1>1 DEF recordTransfer
<1>4. elsewhere(h) /\ unanswered(handler'[h])
  BY Elsewhere
<1>5. UNCHANGED transfers
  BY DEF recordTransfer, gateway
<1>6. \A v, what : Made(v, what)' <=> Made(v, what)
  BY <1>5 DEF Made
<1>7. PayoutsTyped'
  BY <1>3 DEF TInv, PayoutsTyped, PAYOUT_STATES
<1>8. TransfersKeyed'
  BY <1>5 DEF TInv, TransfersKeyed, Keyed
<1>9. AnswersMade'
  <2>1. ASSUME NEW g \in Handlers, Answered(handler'[g])
        PROVE  Made(handler[g].worker, handler[g].kind)'
    <3>1. handler'[g] = handler[g] /\ Answered(handler[g])
      BY <1>4, <2>1 DEF elsewhere, unanswered, Answered
    <3>2. PICK v, what : v = handler[g].worker /\ what = handler[g].kind
      OBVIOUS
    <3>3. Made(v, what)
      BY <3>1, <3>2 DEF TInv, AnswersMade
    <3>4. Made(v, what)'
      BY <1>6, <3>3
    <3>5. QED
      BY <3>1, <3>2, <3>4 DEF Made
  <2>2. QED
    BY <2>1 DEF AnswersMade, Answered
<1>10. PayoutsMade'
  <2>1. ASSUME NEW v \in Workers, NEW what \in PAYOUT_KINDS,
               payout'[<<v, what>>] = "IN_TRANSIT"
        PROVE  Made(v, what)
    <3>1. CASE payout[<<v, what>>] = "IN_TRANSIT"
      BY <3>1 DEF TInv, PayoutsMade
    <3>2. CASE payout[<<v, what>>] # "IN_TRANSIT"
      <4>1. <<v, what>> = <<w, kind>> /\ handler[h].answer = "ok"
        BY <1>2, <1>3, <2>1, <3>2 DEF TInv, PayoutsTyped
      <4>2. Answered(handler[h])
        BY <1>2, <4>1 DEF Answered
      <4>3. Made(w, kind)
        BY <1>1, <4>2 DEF TInv, AnswersMade
      <4>4. QED
        BY <4>1, <4>3
    <3>3. QED
      BY <3>1, <3>2
  <2>2. QED
    BY <1>6, <2>1 DEF PayoutsMade
<1>11. IdleEmpty'
  BY <1>4, ElsewhereIdle DEF unanswered
<1>12. QED
  BY <1>7, <1>8, <1>9, <1>10, <1>11 DEF TInv

-----------------------------------------------------------------------------
(* Every step *)

\* Every step keeps the invariant.
LEMMA TransfersStep ==
  ASSUME LInv, TInv, [PayNext]_payVars
  PROVE  TInv'
<1>1. ASSUME UNCHANGED <<transfers, payout>>, IdleEmpty',
             \A g \in Handlers : Answered(handler'[g]) => handler'[g] = handler[g]
      PROVE  TInv'
  BY <1>1, PayoutsKeptNoneMade, NoneMadeKept
<1>2. CASE UNCHANGED payVars
  BY <1>1, <1>2 DEF payVars, money, books, gateway, TInv, IdleEmpty
<1>3. CASE jobStepTaken \/ \E r \in Requests : serve(r)
  <2>1. CASE UNCHANGED money
    BY <1>1, <2>1 DEF money, books, gateway, TInv, IdleEmpty
  <2>2. CASE \E new \in Handler : new.at \in FIRST_STEPS /\ emit(new)
    <3>1. PICK new \in Handler, h \in Handlers : new.at \in FIRST_STEPS /\ launch(h, new)
      BY <2>2 DEF emit
    <3>2. UNCHANGED <<transfers, payout>>
      BY <2>2 DEF emit, books, gateway
    <3>3. /\ \A g \in Handlers : Answered(handler'[g]) => handler'[g] = handler[g]
          /\ IdleEmpty'
      BY <3>1 DEF launch, LInv, HandlersTyped, Answered, FIRST_STEPS, TInv, IdleEmpty
    <3>4. QED
      BY <1>1, <3>2, <3>3
  <2>3. QED
    BY <1>3, <2>1, <2>2, JobEvents
<1>4. CASE \E h \in Handlers : retryCharge(h) \/ handle(h) \/ abandon(h)
  <2>1. PICK h \in Handlers : retryCharge(h) \/ handle(h) \/ abandon(h)
    BY <1>4
  <2>2. CASE callTransfer(h) \/ recordTransfer(h)
    BY <2>2, CallTransferStep, RecordTransferStep
  <2>3. CASE insertRefund(h) \/ callRefund(h) \/ recordRefund(h) \/ addToTotal(h)
    BY <2>3, RefundNoneMade, NoneMadeKept
  <2>4. CASE prepareRelease(h) \/ compensateNext(h)
    BY <2>4, InsertNoneMade, NoneMadeKept
  <2>5. QED
    BY <2>1, <2>2, <2>3, <2>4, OtherNoneMade, NoneMadeKept DEF handle
<1>5. CASE gatewaySettles \/ webhookLost \/ processWebhook
  BY <1>1, <1>5 DEF gatewaySettles, webhookLost, processWebhook, books, TInv, IdleEmpty
<1>6. CASE crash
  BY <1>1, <1>6 DEF crash, books, gateway, Answered, NoHandler, IdleEmpty
<1>7. QED
  BY <1>2, <1>3, <1>4, <1>5, <1>6 DEF PayNext

\* It holds at the start.
LEMMA TransfersInit ==
  ASSUME PayInit
  PROVE  TInv
<1>1. PayoutsTyped /\ PayoutsMade
  BY DEF PayInit, PayoutsTyped, PayoutsMade, PAYOUT_STATES, NoRow
<1>2. TransfersKeyed
  BY DEF PayInit, TransfersKeyed
<1>3. AnswersMade /\ IdleEmpty
  BY DEF PayInit, AnswersMade, IdleEmpty, Answered, NoHandler
<1>4. QED
  BY <1>1, <1>2, <1>3 DEF TInv

\* Ledger, handlers and gateway agree on transfers as TInv says, throughout
\* (releasePayouts, executeCancellationOutcome).
THEOREM TransfersInvariance == PaySpec => []TInv
BY LedgerInvariance, TransfersInit, TransfersStep, PTL DEF PaySpec

\* The gateway makes one transfer for a worker's earnings and one for a
\* compensation, whatever attempts there were: the idempotency key is that of
\* assignment and kind (releasePayouts, executeCancellationOutcome).
THEOREM PaidOnce == PaySpec => []PaidOutOnce
<1>1. TInv => PaidOutOnce
  BY DEF TInv, TransfersKeyed, Keyed, PaidOutOnce
<1>2. QED
  BY <1>1, TransfersInvariance, PTL

\* Every variable of the ledger, the gateway and the handlers keeps its type.
THEOREM PayTypes == PaySpec => []PayTypeOK
<1>1. LInv /\ RInv /\ TInv => PayTypeOK
  <2> SUFFICES ASSUME LInv, RInv, TInv PROVE PayTypeOK
    OBVIOUS
  <2>1. \A h \in Handlers : handler[h] = NoHandler \/ handler[h].at \in STEPS
    BY DEF LInv, HandlersTyped, Handler, TInv, IdleEmpty
  <2>2. QED
    BY <2>1
    DEF PayTypeOK, LInv, ChargesTyped, RInv, RefundsTyped, RefundKeys, TInv, PayoutsTyped
<1>2. QED
  BY <1>1, LedgerInvariance, RefundsInvariance, TransfersInvariance, PTL

\* The total counts at most what is credited, which is at most what was given.
LEMMA BackedByInvariants == LInv /\ RInv /\ TInv => LedgerBacked
<1> SUFFICES ASSUME LInv, RInv, TInv PROVE LedgerBacked
  OBVIOUS
<1>1. \A p \in RowsIn({"SUCCEEDED", "REFUNDED", "PARTIALLY_REFUNDED"}) :
        captured[p] = "CAPTURED"
  BY DEF RowsIn, LInv, ChargesInv, RowInv, Kept
<1>2. ASSUME NEW p \in Rows
      PROVE  payment[p].refunded <= GivenBack(p) /\ payment[p].refunded <= payment[p].cents
  <2>1. p \in Charges
    BY DEF Rows
  <2>2. <<p, "cancel">> \in RefundKeys /\ <<p, "dispute">> \in RefundKeys
    BY <2>1 DEF RefundKeys, REFUND_REASONS
  <2>3. ASSUME NEW k \in RefundKeys
        PROVE  refundedAt[k] \in Nat /\ Credited(k) \in Nat /\ Credited(k) <= refundedAt[k]
    <3>1. refundedAt[k] \in Nat
      BY KeyTyped
    <3>2. Credited(k) = 0 \/ Credited(k) = refundedAt[k]
      BY DEF Credited
    <3>3. QED
      BY <3>1, <3>2
  <2>4. /\ payment[p].cents \in Nat /\ payment[p].refunded \in Nat
    BY <2>1, CreditsTyped
  <2>5. /\ GivenBack(p) <= payment[p].cents
        /\ payment[p].refunded <= Credited(<<p, "cancel">>) + Credited(<<p, "dispute">>)
    BY <2>1 DEF RInv, Credits
  <2>6. /\ GivenBack(p) \in Nat
        /\ Credited(<<p, "cancel">>) + Credited(<<p, "dispute">>) <= GivenBack(p)
        /\ Credited(<<p, "cancel">>) + Credited(<<p, "dispute">>) \in Nat
    BY <2>2, <2>3 DEF GivenBack
  <2>7. QED
    BY <2>4, <2>5, <2>6
<1>3. ASSUME NEW k \in Charges \X REFUND_REASONS, refund[k].status = "SUCCEEDED"
      PROVE  refundedAt[k] = refund[k].cents
  BY <1>3 DEF RInv, RefundInv, RefundKeys
<1>4. ASSUME NEW w \in Workers, NEW kind \in PAYOUT_KINDS,
             payout[<<w, kind>>] = "IN_TRANSIT"
      PROVE  \E made \in transfers : made.worker = w /\ made.kind = kind
  BY <1>4 DEF TInv, PayoutsMade, Made
<1>5. QED
  BY <1>1, <1>2, <1>3, <1>4 DEF LedgerBacked

\* The ledger never claims more than the gateway did: paid charges were captured,
\* refunds given back within the charge, payouts transferred (chargeForJob, the
\* refunds, releasePayouts, with their catches, after a crash too).
THEOREM Backed == PaySpec => []LedgerBacked
BY BackedByInvariants, LedgerInvariance, RefundsInvariance, TransfersInvariance, PTL
=============================================================================
