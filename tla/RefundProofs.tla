---------------------------- MODULE RefundProofs ----------------------------
(***************************************************************************)
(* The refunds of Settlement, for any number of handlers.  The gateway     *)
(* gives back before the ledger writes down what it gave, in two           *)
(* statements: the status of the refund's row, and the charge's total.     *)
(* The invariant says what is true in between: a refund in flight is held  *)
(* by one handler (OneGiver), and is not counted in the total before that  *)
(* handler is done (Credits).                                              *)
(***************************************************************************)
EXTENDS LedgerProofs

\* A handler that has inserted the row of a refund and has not ended it, ...
GivingBack(r) == r.at \in {"refund", "refunded", "total"}
\* ... and the refund it works on.
KeyOf(r) == <<r.row, r.kind>>
RefundKeys == Charges \X REFUND_REASONS
\* A refund of charge p.
OfCharge(k, p) == \E reason \in REFUND_REASONS : k = <<p, reason>>

\* The types of what the refunds are made of.
RefundsTyped ==
  /\ refund \in [RefundKeys -> Refund \cup {NoRefund}]
  /\ refundedAt \in [RefundKeys -> Nat]

\* A refund that was never inserted was never given; one the ledger calls a
\* success was given in full.
RefundInv(k) ==
  /\ refund[k] = NoRefund => refundedAt[k] = 0
  /\ refund[k].status = "SUCCEEDED" => refundedAt[k] = refund[k].cents

\* What a handler knows of its refund between its statements.
GivingInv(r) ==
  GivingBack(r) =>
    /\ refund[KeyOf(r)] # NoRefund
    /\ refund[KeyOf(r)].cents = r.cents
    /\ r.at = "refund" => refundedAt[KeyOf(r)] = 0
    /\ r.at \in {"refund", "refunded"} => refund[KeyOf(r)].status = "PROCESSING"
    /\ r.at = "total" \/ (r.at = "refunded" /\ r.answer = "ok") =>
         refundedAt[KeyOf(r)] = r.cents

\* The unique key of the row lets one handler through.
OneGiver ==
  \A h, g \in Handlers :
    GivingBack(handler[h]) /\ GivingBack(handler[g]) /\ KeyOf(handler[h]) = KeyOf(handler[g])
    => g = h

\* A refund in flight, ...
Pending(k) == \E h \in Handlers : GivingBack(handler[h]) /\ KeyOf(handler[h]) = k
\* ... and what the total may count of a refund: nothing while it is in flight,
\* otherwise what the gateway gave.
Credited(k) == IF Pending(k) THEN 0 ELSE refundedAt[k]

\* The gateway gave no more than the charge, the total counts no more than what
\* may be counted.  Counting what the gateway gave would not be inductive: the
\* handler still has to add its own cents.
Credits ==
  \A p \in Charges :
    /\ GivenBack(p) <= payment[p].cents
    /\ payment[p].refunded <= Credited(<<p, "cancel">>) + Credited(<<p, "dispute">>)

\* The invariant.
RInv ==
  /\ RefundsTyped /\ OneGiver /\ Credits
  /\ \A k \in RefundKeys : RefundInv(k)
  /\ \A h \in Handlers : GivingInv(handler[h])

\* A step of h that leaves it without a refund.
elsewhere(h) ==
  /\ \A g \in Handlers \ {h} : handler'[g] = handler[g]
  /\ ~GivingBack(handler'[h])

\* A record without an answer of a transfer, and empty if it is idle.
unanswered(r) == r.at # "transferred" /\ (r.at = "idle" => r = NoHandler)

\* The steps of handlers that hold no refund afterwards, ...
LEMMA Elsewhere ==
  ASSUME LInv, NEW h \in Handlers,
         \/ readJob(h)
         \/ insertCharge(h)
         \/ callCharge(h)
         \/ recordCharge(h)
         \/ noteCharge(h)
         \/ retryCharge(h)
         \/ cancelFailed(h)
         \/ supersede(h)
         \/ prepareRelease(h)
         \/ payNext(h)
         \/ recordTransfer(h)
         \/ closeRelease(h)
         \/ confirmScanned(h)
         \/ readOutcome(h)
         \/ compensateNext(h)
         \/ compensated(h)
         \/ readFixed(h)
         \/ abandon(h)
  PROVE  elsewhere(h) /\ unanswered(handler'[h])
<1> USE DEF LInv, HandlersTyped, Handler, elsewhere, unanswered, GivingBack, NoHandler
<1>0. ASSUME finish(h) PROVE elsewhere(h) /\ unanswered(handler'[h])
  BY <1>0 DEF finish
<1>1. CASE readJob(h)
  BY <1>1 DEF readJob, goto, finish
<1>2. CASE insertCharge(h)
  BY <1>0, <1>2 DEF insertCharge
<1>3. CASE callCharge(h)
  BY <1>3 DEF callCharge
<1>4. CASE recordCharge(h)
  BY <1>0, <1>4 DEF recordCharge, goto
<1>5. CASE noteCharge(h)
  BY <1>5 DEF noteCharge, finish
<1>6. CASE retryCharge(h)
  BY <1>6 DEF retryCharge, launch, Starting
<1>7. CASE cancelFailed(h)
  BY <1>7 DEF cancelFailed, goto
<1>8. CASE supersede(h)
  BY <1>8 DEF supersede, Starting
<1>9. CASE prepareRelease(h)
  BY <1>0, <1>9 DEF prepareRelease
<1>10. CASE payNext(h)
  <2>1. PICK w \in handler[h].todo :
          handler' = [handler EXCEPT ![h].at = "transfer", ![h].worker = w,
                                     ![h].kind = "JOB_EARNINGS"]
    BY <1>10 DEF payNext
  <2>2. QED
    BY <2>1
<1>12. CASE recordTransfer(h)
  BY <1>12 DEF recordTransfer
<1>13. CASE closeRelease(h)
  BY <1>13 DEF closeRelease, finish
<1>14. CASE confirmScanned(h)
  BY <1>14 DEF confirmScanned, goto
<1>15. CASE readOutcome(h)
  BY <1>0, <1>15 DEF readOutcome
<1>16. CASE compensateNext(h)
  <2>1. PICK w \in handler[h].todo :
          \/ handler' = [handler EXCEPT ![h].todo = @ \ {w}]
          \/ handler' = [handler EXCEPT ![h].at = "transfer", ![h].worker = w,
                                        ![h].kind = "CANCELLATION_COMPENSATION",
                                        ![h].cents = @ + Compensation]
    BY <1>16 DEF compensateNext
  <2>2. handler[h].at = "compensate"
    BY <1>16 DEF compensateNext, at
  <2>3. QED
    BY <2>1, <2>2
<1>17. CASE compensated(h)
  <2>1. \/ finish(h)
        \/ \E cents : handler' = [handler EXCEPT ![h].at = "insert refund",
                                     ![h].kind = "cancel", ![h].cents = cents]
    BY <1>17 DEF compensated
  <2>2. CASE finish(h)
    BY <2>2 DEF finish
  <2>3. ASSUME NEW cents, handler' = [handler EXCEPT ![h].at = "insert refund",
                                        ![h].kind = "cancel", ![h].cents = cents]
        PROVE  elsewhere(h) /\ unanswered(handler'[h])
    BY <2>3
  <2>4. QED
    BY <2>1, <2>2, <2>3
<1>18. CASE readFixed(h)
  <2>1. \/ finish(h)
        \/ \E p, cents : handler' = [handler EXCEPT ![h].at = "insert refund",
                             ![h].row = p, ![h].kind = "dispute", ![h].cents = cents]
    BY <1>18 DEF readFixed
  <2>2. CASE finish(h)
    BY <2>2 DEF finish
  <2>3. ASSUME NEW p, NEW cents,
               handler' = [handler EXCEPT ![h].at = "insert refund",
                             ![h].row = p, ![h].kind = "dispute", ![h].cents = cents]
        PROVE  elsewhere(h) /\ unanswered(handler'[h])
    BY <2>3
  <2>4. QED
    BY <2>1, <2>2, <2>3
<1>19. CASE abandon(h)
  BY <1>19 DEF abandon, finish
<1>20. QED
  BY <1>1, <1>2, <1>3, <1>4, <1>5, <1>6, <1>7, <1>8, <1>9,
     <1>10, <1>12, <1>13, <1>14, <1>15, <1>16, <1>17, <1>18, <1>19

\* ... the call of a transfer included.
LEMMA TransferElsewhere ==
  ASSUME LInv, NEW h \in Handlers, callTransfer(h)
  PROVE  elsewhere(h)
BY DEF callTransfer, LInv, HandlersTyped, Handler, elsewhere, GivingBack

\* All sums are numbers, ...
LEMMA CreditsTyped ==
  ASSUME LInv, RInv, NEW p \in Charges
  PROVE  /\ payment[p].cents \in Nat /\ payment[p].refunded \in Nat
         /\ \A reason \in REFUND_REASONS :
              refundedAt[<<p, reason>>] \in Nat /\ Credited(<<p, reason>>) \in Nat
         /\ GivenBack(p) \in Nat
<1>1. payment[p] \in Payment \cup {NoPayment}
  BY DEF LInv, ChargesTyped
<1>2. payment[p].cents \in Nat /\ payment[p].refunded \in Nat
  BY <1>1 DEF Payment, NoPayment
<1>3. \A reason \in REFUND_REASONS :
        refundedAt[<<p, reason>>] \in Nat /\ Credited(<<p, reason>>) \in Nat
  BY DEF RInv, RefundsTyped, RefundKeys, Credited
<1>4. refundedAt[<<p, "cancel">>] \in Nat /\ refundedAt[<<p, "dispute">>] \in Nat
  BY <1>3 DEF REFUND_REASONS
<1>5. GivenBack(p) \in Nat
  BY <1>4 DEF GivenBack
<1>6. QED
  BY <1>2, <1>3, <1>5

\* ... for each refund as well.
LEMMA KeyTyped ==
  ASSUME RInv, NEW k \in RefundKeys
  PROVE  refundedAt[k] \in Nat /\ Credited(k) \in Nat
BY DEF RInv, RefundsTyped, Credited

\* A step that touches no refund keeps the invariant, if no total changes and no
\* charge shrinks (a handler in flight may end: its refund counts then).
LEMMA RefundsKept ==
  ASSUME LInv, LInv', RInv, UNCHANGED <<refund, refundedAt>>,
         \A g \in Handlers : GivingBack(handler'[g]) => handler'[g] = handler[g],
         \A p \in Charges : /\ payment'[p].cents >= payment[p].cents
                            /\ payment'[p].refunded = payment[p].refunded
  PROVE  RInv'
<1>1. RefundsTyped' /\ \A k \in RefundKeys : RefundInv(k)'
  BY DEF RInv, RefundsTyped, RefundInv
<1>2. \A h \in Handlers : GivingInv(handler[h])'
  BY DEF RInv, GivingInv, GivingBack, KeyOf
<1>3. OneGiver'
  BY DEF RInv, OneGiver, GivingBack, KeyOf
<1>4. Credits'
  <2>1. ASSUME NEW p \in Charges
        PROVE  /\ GivenBack(p)' <= payment'[p].cents
               /\ payment'[p].refunded <=
                    Credited(<<p, "cancel">>)' + Credited(<<p, "dispute">>)'
    <3>1. GivenBack(p)' = GivenBack(p)
      BY DEF GivenBack
    <3>2. /\ payment[p].cents \in Nat /\ payment[p].refunded \in Nat
          /\ refundedAt[<<p, "cancel">>] \in Nat /\ refundedAt[<<p, "dispute">>] \in Nat
          /\ Credited(<<p, "cancel">>) \in Nat /\ Credited(<<p, "dispute">>) \in Nat
      BY CreditsTyped DEF REFUND_REASONS
    <3>3. payment'[p] \in Payment \cup {NoPayment}
      BY DEF LInv, ChargesTyped
    <3>4. payment'[p].cents \in Nat
      BY <3>3 DEF Payment, NoPayment
    <3>5. ASSUME NEW k \in RefundKeys, refundedAt[k] \in Nat
          PROVE  Credited(k)' \in Nat /\ Credited(k)' >= Credited(k)
      <4>1. Pending(k)' => Pending(k)
        BY DEF Pending, GivingBack, KeyOf
      <4>2. QED
        BY <3>5, <4>1 DEF Credited
    <3>6. <<p, "cancel">> \in RefundKeys /\ <<p, "dispute">> \in RefundKeys
      BY DEF RefundKeys, REFUND_REASONS
    <3>7. GivenBack(p) \in Nat
      BY <3>2 DEF GivenBack
    <3>8. /\ GivenBack(p) <= payment[p].cents
          /\ payment[p].refunded <= Credited(<<p, "cancel">>) + Credited(<<p, "dispute">>)
      BY DEF RInv, Credits
    <3>9. /\ Credited(<<p, "cancel">>)' \in Nat /\ Credited(<<p, "dispute">>)' \in Nat
          /\ Credited(<<p, "cancel">>)' >= Credited(<<p, "cancel">>)
          /\ Credited(<<p, "dispute">>)' >= Credited(<<p, "dispute">>)
      BY <3>2, <3>5, <3>6
    <3>10. QED
      BY <3>1, <3>2, <3>4, <3>7, <3>8, <3>9
  <2>2. QED
    BY <2>1 DEF Credits
<1>5. QED
  BY <1>1, <1>2, <1>3, <1>4 DEF RInv

\* No total changes and no charge shrinks.
amountsKept ==
  \A p \in Charges : /\ payment'[p].cents >= payment[p].cents
                     /\ payment'[p].refunded = payment[p].refunded

\* That holds when no row is written, ...
LEMMA SameAmounts ==
  ASSUME LInv, UNCHANGED payment
  PROVE  amountsKept
<1>1. \A p \in Charges : payment[p].cents \in Nat
  BY DEF LInv, ChargesTyped, Payment, NoPayment
<1>2. QED
  BY <1>1 DEF amountsKept

\* ... when a row is rewritten with its amounts, ...
LEMMA RowAmounts ==
  ASSUME LInv, NEW p \in Rows, NEW row,
         payment' = [payment EXCEPT ![p] = row],
         row.cents = payment[p].cents, row.refunded = payment[p].refunded
  PROVE  amountsKept
<1>1. \A q \in Charges : payment[q].cents \in Nat
  BY DEF LInv, ChargesTyped, Payment, NoPayment
<1>2. QED
  BY <1>1 DEF amountsKept, LInv, ChargesTyped, Rows

\* ... when one is inserted, ...
LEMMA AmountsInserted ==
  ASSUME LInv, NEW h \in Handlers, insertCharge(h)
  PROVE  amountsKept
<1>1. CASE UNCHANGED payment
  BY <1>1, SameAmounts
<1>2. ASSUME NEW p \in Charges \ Rows, NEW row, row.cents = Pay * Cardinality(OnJob),
             row.refunded = 0, payment' = [payment EXCEPT ![p] = row]
      PROVE  amountsKept
  <2>1. row.cents \in Nat
    <3>1. OnJob \subseteq Workers
      BY DEF OnJob, ActiveWorkers, CompletedWorkers
    <3>2. Cardinality(OnJob) \in Nat
      BY <3>1, WorkersFinite, FS_Subset, FS_CardinalityType
    <3>3. Pay \in Nat
      BY AmountsNat
    <3>4. QED
      BY <1>2, <3>2, <3>3
  <2>2. payment[p].cents = 0 /\ payment[p].refunded = 0
    BY DEF Rows, NoPayment
  <2>3. \A q \in Charges : payment[q].cents \in Nat
    BY DEF LInv, ChargesTyped, Payment, NoPayment
  <2>4. QED
    BY <1>2, <2>1, <2>2, <2>3 DEF amountsKept, LInv, ChargesTyped
<1>3. CASE \E p \in Charges \ Rows :
             payment' = [payment EXCEPT ![p] =
                   [status |-> "REQUIRES_PAYMENT", cents |-> Pay * Cardinality(OnJob),
                    refunded |-> 0, live |-> TRUE, intent |-> FALSE]]
  <2>1. PICK p \in Charges \ Rows :
             payment' = [payment EXCEPT ![p] =
                   [status |-> "REQUIRES_PAYMENT", cents |-> Pay * Cardinality(OnJob),
                    refunded |-> 0, live |-> TRUE, intent |-> FALSE]]
    BY <1>3
  <2>2. PICK row : row = [status |-> "REQUIRES_PAYMENT", cents |-> Pay * Cardinality(OnJob),
                          refunded |-> 0, live |-> TRUE, intent |-> FALSE]
    OBVIOUS
  <2>3. row.cents = Pay * Cardinality(OnJob) /\ row.refunded = 0
    BY <2>2
  <2>4. payment' = [payment EXCEPT ![p] = row]
    BY <2>1, <2>2
  <2>5. QED
    BY <1>2, <2>3, <2>4
<1>4. QED
  BY <1>1, <1>3 DEF insertCharge

\* ... for every statement of a charge, ...
LEMMA AmountsRewritten ==
  ASSUME LInv, NEW h \in Handlers,
         recordCharge(h) \/ noteCharge(h) \/ cancelFailed(h) \/ supersede(h)
  PROVE  amountsKept
<1> DEFINE p == handler[h].row
<1>1. CASE UNCHANGED payment
  BY <1>1, SameAmounts
<1>2. /\ p \in Rows
      /\ \/ UNCHANGED payment
         \/ \E status, intent : payment' = [payment EXCEPT ![p].status = status,
                                                           ![p].intent = intent]
         \/ \E status : payment' = [payment EXCEPT ![p].status = status]
         \/ \E live : payment' = [payment EXCEPT ![p].live = live]
  <2>1. HandlerInv(handler[h])
    BY DEF LInv, HandlersInv
  <2>2. p \in Rows
    BY <2>1 DEF HandlerInv, Charging, Retrying, recordCharge, noteCharge,
                cancelFailed, supersede, at
  <2>3. QED
    BY <2>2 DEF recordCharge, noteCharge, cancelFailed, supersede
<1>3. payment[p] \in Payment
  BY <1>2 DEF Rows, LInv, ChargesTyped
<1>4. ASSUME NEW status, NEW intent,
             payment' = [payment EXCEPT ![p].status = status, ![p].intent = intent]
      PROVE  amountsKept
  <2>1. PICK row : row = [payment[p] EXCEPT !.status = status, !.intent = intent]
    OBVIOUS
  <2>2. row.cents = payment[p].cents /\ row.refunded = payment[p].refunded
    BY <1>3, <2>1 DEF Payment
  <2>3. payment' = [payment EXCEPT ![p] = row]
    BY <1>4, <2>1
  <2>4. QED
    BY <1>2, <2>2, <2>3, RowAmounts
<1>5. ASSUME NEW status, payment' = [payment EXCEPT ![p].status = status]
      PROVE  amountsKept
  <2>1. PICK row : row = [payment[p] EXCEPT !.status = status]
    OBVIOUS
  <2>2. row.cents = payment[p].cents /\ row.refunded = payment[p].refunded
    BY <1>3, <2>1 DEF Payment
  <2>3. payment' = [payment EXCEPT ![p] = row]
    BY <1>5, <2>1
  <2>4. QED
    BY <1>2, <2>2, <2>3, RowAmounts
<1>6. ASSUME NEW live, payment' = [payment EXCEPT ![p].live = live]
      PROVE  amountsKept
  <2>1. PICK row : row = [payment[p] EXCEPT !.live = live]
    OBVIOUS
  <2>2. row.cents = payment[p].cents /\ row.refunded = payment[p].refunded
    BY <1>3, <2>1 DEF Payment
  <2>3. payment' = [payment EXCEPT ![p] = row]
    BY <1>6, <2>1
  <2>4. QED
    BY <1>2, <2>2, <2>3, RowAmounts
<1>7. QED
  BY <1>1, <1>2, <1>4, <1>5, <1>6

\* ... and for a webhook.
LEMMA AmountsByWebhook ==
  ASSUME LInv, processWebhook
  PROVE  amountsKept
<1>1. CASE UNCHANGED payment
  BY <1>1, SameAmounts
<1>2. ASSUME payment' # payment PROVE amountsKept
  <2>1. PICK event \in hooks :
          LET p == event[1] IN
          /\ payment[p].intent
          /\ payment' = [payment EXCEPT ![p].status =
                           IF event[2] = "CAPTURED" THEN "SUCCEEDED" ELSE "FAILED"]
    BY <1>2 DEF processWebhook
  <2>2. PICK p, status : /\ p = event[1]
                         /\ status = IF event[2] = "CAPTURED" THEN "SUCCEEDED" ELSE "FAILED"
    OBVIOUS
  <2>3. p \in Charges /\ payment[p].intent
    BY <2>1, <2>2 DEF LInv, ChargesTyped
  <2>4. p \in Rows /\ payment[p] \in Payment
    BY <2>3 DEF Rows, LInv, ChargesTyped, NoPayment
  <2>5. PICK row : row = [payment[p] EXCEPT !.status = status]
    OBVIOUS
  <2>6. row.cents = payment[p].cents /\ row.refunded = payment[p].refunded
    BY <2>4, <2>5 DEF Payment
  <2>7. payment' = [payment EXCEPT ![p] = row]
    BY <2>1, <2>2, <2>5
  <2>8. QED
    BY <2>4, <2>6, <2>7, RowAmounts
<1>3. QED
  BY <1>1, <1>2

-----------------------------------------------------------------------------
(* The steps of a refund *)

\* The refund a handler works on is one of a charge.
LEMMA GiverKey ==
  ASSUME LInv, NEW h \in Handlers,
         handler[h].at \in {"insert refund", "refund", "refunded", "total"}
  PROVE  /\ handler[h] \in Handler
         /\ handler[h].row \in Rows /\ handler[h].row \in Charges
         /\ payment[handler[h].row] \in Payment
         /\ handler[h].kind \in REFUND_REASONS
         /\ KeyOf(handler[h]) \in RefundKeys
         /\ handler[h].cents \in Nat
<1>1. handler[h] \in Handler /\ HandlerInv(handler[h])
  BY DEF LInv, HandlersTyped, HandlersInv
<1>2. handler[h].row \in Rows /\ handler[h].kind \in REFUND_REASONS
  BY <1>1 DEF HandlerInv, Refunding
<1>3. handler[h].row \in Charges /\ payment[handler[h].row] \in Payment
  BY <1>2 DEF Rows, LInv, ChargesTyped
<1>4. QED
  BY <1>1, <1>2, <1>3 DEF KeyOf, RefundKeys, Handler

\* Handler h moves on with its refund k; no other handler has k, or touches it.
aside(h, k, new) ==
  /\ handler'[h] = new
  /\ GivingBack(new) => KeyOf(new) = k
  /\ \A g \in Handlers \ {h} :
       /\ handler'[g] = handler[g]
       /\ GivingBack(handler[g]) => KeyOf(handler[g]) # k
  /\ GivingBack(handler[h]) => KeyOf(handler[h]) = k

\* A step of the one handler that has refund k.
LEMMA GiverStep ==
  ASSUME LInv, RInv, NEW h \in Handlers, NEW k \in RefundKeys, NEW new, aside(h, k, new),
         RefundsTyped', Credits', RefundInv(k)', GivingInv(new)',
         \A j \in RefundKeys \ {k} : refund'[j] = refund[j] /\ refundedAt'[j] = refundedAt[j]
  PROVE  RInv'
<1>1. \A j \in RefundKeys : RefundInv(j)'
  BY DEF RInv, RefundInv
<1>2. ASSUME NEW g \in Handlers PROVE GivingInv(handler[g])'
  <2>1. CASE g = h
    BY <2>1 DEF aside, GivingInv, GivingBack, KeyOf
  <2>2. CASE g # h /\ GivingBack(handler[g])
    <3>1. KeyOf(handler[g]) \in RefundKeys \ {k}
      BY <2>2, GiverKey DEF aside, GivingBack
    <3>2. GivingInv(handler[g]) /\ handler'[g] = handler[g]
      BY <2>2 DEF RInv, aside
    <3>3. KeyOf(handler[g])' = KeyOf(handler[g])
      BY <3>2 DEF KeyOf
    <3>4. QED
      BY <3>1, <3>2, <3>3 DEF GivingInv, GivingBack
  <2>3. CASE g # h /\ ~GivingBack(handler[g])
    BY <2>3 DEF aside, GivingInv, GivingBack
  <2>4. QED
    BY <2>1, <2>2, <2>3
<1>3. OneGiver'
  <2>1. ASSUME NEW a \in Handlers, NEW b \in Handlers,
               GivingBack(handler'[a]), GivingBack(handler'[b]),
               KeyOf(handler'[a]) = KeyOf(handler'[b])
        PROVE  b = a
    BY <2>1 DEF aside, RInv, OneGiver
  <2>2. QED
    BY <2>1 DEF OneGiver, GivingBack, KeyOf
<1>4. QED
  BY <1>1, <1>2, <1>3 DEF RInv

\* Only k may change whether it is in flight.
LEMMA AsideCredited ==
  ASSUME NEW h \in Handlers, NEW k, NEW new, aside(h, k, new)
  PROVE  /\ \A j : j # k => (Pending(j)' <=> Pending(j))
         /\ Pending(k)' <=> GivingBack(new)
         /\ Pending(k) <=> GivingBack(handler[h])
<1>1. ASSUME NEW j, j # k PROVE Pending(j)' <=> Pending(j)
  BY <1>1 DEF aside, Pending, GivingBack, KeyOf
<1>2. Pending(k)' <=> GivingBack(new)
  BY DEF aside, Pending, GivingBack, KeyOf
<1>3. Pending(k) <=> GivingBack(handler[h])
  BY DEF aside, Pending, GivingBack, KeyOf
<1>4. QED
  BY <1>1, <1>2, <1>3

\* The sums of the other charges, and of the other reason, stay.
LEMMA CreditsStep ==
  ASSUME LInv, RInv, NEW h \in Handlers, NEW k \in RefundKeys, NEW new, aside(h, k, new),
         \A j \in RefundKeys \ {k} : refundedAt'[j] = refundedAt[j],
         NEW p \in Charges, OfCharge(k, p),
         \A q \in Charges \ {p} : payment'[q] = payment[q],
         Credited(k) \in Nat, Credited(k)' \in Nat,
         refundedAt[k] \in Nat, refundedAt'[k] \in Nat,
         payment'[p].cents = payment[p].cents,
         payment'[p].refunded \in Nat,
         payment'[p].refunded - payment[p].refunded <= Credited(k)' - Credited(k),
         GivenBack(p) + refundedAt'[k] - refundedAt[k] <= payment[p].cents
  PROVE  Credits'
<1>1. \A j \in RefundKeys \ {k} : Credited(j)' = Credited(j)
  BY AsideCredited DEF Credited
<1>2. PICK one, other \in REFUND_REASONS :
        /\ k = <<p, one>> /\ one # other
        /\ {one, other} = {"cancel", "dispute"}
  BY DEF OfCharge, REFUND_REASONS
<1>3. <<p, other>> \in RefundKeys \ {k}
  BY <1>2 DEF RefundKeys
<1>4. /\ payment[p].cents \in Nat /\ payment[p].refunded \in Nat
      /\ refundedAt[<<p, other>>] \in Nat /\ Credited(<<p, other>>) \in Nat
  BY CreditsTyped
<1>5. /\ Credited(<<p, other>>)' = Credited(<<p, other>>)
      /\ refundedAt'[<<p, other>>] = refundedAt[<<p, other>>]
  BY <1>1, <1>3
<1>6. GivenBack(p)' <= payment'[p].cents
  <2>1. GivenBack(p) = refundedAt[k] + refundedAt[<<p, other>>]
    BY <1>2, <1>4 DEF GivenBack, REFUND_REASONS
  <2>2. GivenBack(p)' = refundedAt'[k] + refundedAt'[<<p, other>>]
    BY <1>2, <1>4, <1>5 DEF GivenBack, REFUND_REASONS
  <2>3. QED
    BY <1>4, <1>5, <2>1, <2>2
<1>7. payment'[p].refunded <= Credited(<<p, "cancel">>)' + Credited(<<p, "dispute">>)'
  <2>1. payment[p].refunded <= Credited(k) + Credited(<<p, other>>)
    BY <1>2, <1>4 DEF RInv, Credits, REFUND_REASONS
  <2>2. payment'[p].refunded <= Credited(k)' + Credited(<<p, other>>)'
    BY <1>4, <1>5, <2>1
  <2>3. QED
    BY <1>2, <1>4, <1>5, <2>2 DEF REFUND_REASONS
<1>8. ASSUME NEW q \in Charges \ {p}
      PROVE  /\ GivenBack(q)' <= payment'[q].cents
             /\ payment'[q].refunded <=
                  Credited(<<q, "cancel">>)' + Credited(<<q, "dispute">>)'
  <2>1. <<q, "cancel">> \in RefundKeys \ {k} /\ <<q, "dispute">> \in RefundKeys \ {k}
    BY <1>2 DEF RefundKeys, REFUND_REASONS
  <2>2. GivenBack(q)' = GivenBack(q) /\ payment'[q] = payment[q]
    BY <2>1 DEF GivenBack
  <2>3. /\ Credited(<<q, "cancel">>)' = Credited(<<q, "cancel">>)
        /\ Credited(<<q, "dispute">>)' = Credited(<<q, "dispute">>)
    BY <1>1, <2>1
  <2>4. QED
    BY <2>2, <2>3 DEF RInv, Credits
<1>9. QED
  BY <1>6, <1>7, <1>8 DEF Credits

\* A handler that ends and writes nothing.
LEMMA FinishKept ==
  ASSUME LInv, LInv', RInv, NEW h \in Handlers, finish(h),
         UNCHANGED <<payment, refund, refundedAt>>
  PROVE  RInv'
<1>1. \A g \in Handlers : GivingBack(handler'[g]) => handler'[g] = handler[g]
  BY DEF LInv, HandlersTyped, finish, GivingBack, NoHandler
<1>2. QED
  BY <1>1, SameAmounts, RefundsKept DEF amountsKept

\* The charge p and the refund k of handler h, and their sums.
LEMMA CreditsOf ==
  ASSUME LInv, RInv, NEW h \in Handlers,
         handler[h].at \in {"insert refund", "refund", "refunded", "total"},
         NEW k, k = KeyOf(handler[h]), NEW p, p = handler[h].row
  PROVE  /\ handler[h] \in Handler /\ handler[h].cents \in Nat
         /\ p \in Rows /\ p \in Charges /\ payment[p] \in Payment
         /\ k \in RefundKeys /\ OfCharge(k, p)
         /\ refundedAt[k] \in Nat /\ Credited(k) \in Nat
         /\ payment[p].cents \in Nat /\ payment[p].refunded \in Nat
         /\ GivenBack(p) \in Nat /\ GivenBack(p) <= payment[p].cents
         /\ GivingBack(handler[h]) => Credited(k) = 0
<1>1. /\ handler[h] \in Handler /\ handler[h].cents \in Nat
      /\ p \in Rows /\ p \in Charges /\ payment[p] \in Payment
      /\ handler[h].kind \in REFUND_REASONS /\ k = <<p, handler[h].kind>> /\ k \in RefundKeys
  BY GiverKey DEF KeyOf
<1>2. /\ payment[p].cents \in Nat /\ payment[p].refunded \in Nat /\ GivenBack(p) \in Nat
  BY <1>1, CreditsTyped
<1>3. GivenBack(p) <= payment[p].cents
  BY <1>1 DEF RInv, Credits
<1>4. GivingBack(handler[h]) => Credited(k) = 0
  BY DEF Credited, Pending
<1>5. refundedAt[k] \in Nat /\ Credited(k) \in Nat
  BY <1>1, KeyTyped
<1>6. OfCharge(k, p)
  BY <1>1 DEF OfCharge
<1>7. QED
  BY <1>1, <1>2, <1>3, <1>4, <1>5, <1>6

\* The insert: no row with the key is there, so nobody holds it.
LEMMA InsertRefundStep ==
  ASSUME LInv, LInv', RInv, NEW h \in Handlers, insertRefund(h)
  PROVE  RInv'
<1>0. PICK k, p : k = KeyOf(handler[h]) /\ p = handler[h].row
  OBVIOUS
<1>1. handler[h].at = "insert refund" /\ UNCHANGED <<payment, refundedAt>>
  BY DEF insertRefund, at, gateway
<1>2. CASE finish(h) /\ UNCHANGED refund
  BY <1>0, <1>1, <1>2, FinishKept
<1>3. CASE /\ refund[k] = NoRefund /\ goto(h, "refund")
           /\ refund' = [refund EXCEPT ![k] =
                           [status |-> "PROCESSING", cents |-> handler[h].cents]]
  <2>1. /\ handler[h] \in Handler /\ p \in Charges /\ k \in RefundKeys
        /\ handler[h].cents \in Nat
    BY <1>0, <1>1, CreditsOf
  <2>2. PICK new : new = [handler[h] EXCEPT !.at = "refund"]
    OBVIOUS
  <2>3. /\ new.at = "refund" /\ KeyOf(new) = k /\ new.cents = handler[h].cents
    BY <1>0, <2>1, <2>2 DEF Handler, KeyOf
  <2>4. aside(h, k, new)
    <3>1. handler'[h] = new /\ \A g \in Handlers \ {h} : handler'[g] = handler[g]
      BY <1>3, <2>2 DEF goto, LInv, HandlersTyped
    <3>2. \A g \in Handlers \ {h} : GivingBack(handler[g]) => KeyOf(handler[g]) # k
      BY <1>0, <1>3 DEF RInv, GivingInv
    <3>3. QED
      BY <1>0, <1>1, <2>3, <3>1, <3>2 DEF aside, GivingBack
  <2>5. /\ refund'[k].status = "PROCESSING" /\ refund'[k].cents = handler[h].cents
        /\ refund'[k] # NoRefund
        /\ \A j \in RefundKeys \ {k} : refund'[j] = refund[j]
        /\ RefundsTyped'
    <3>1. PICK row : row = [status |-> "PROCESSING", cents |-> handler[h].cents]
      OBVIOUS
    <3>2. /\ row \in Refund /\ row # NoRefund
          /\ row.status = "PROCESSING" /\ row.cents = handler[h].cents
      BY <2>1, <3>1 DEF Refund, NoRefund, NoRow
    <3>3. refund' = [refund EXCEPT ![k] = row]
      BY <1>3, <3>1
    <3>4. QED
      BY <1>1, <2>1, <3>2, <3>3 DEF RInv, RefundsTyped
  <2>6. refundedAt[k] = 0
    BY <1>0, <1>3, <2>1 DEF RInv, RefundInv
  <2>7. RefundInv(k)' /\ GivingInv(new)'
    BY <1>0, <1>1, <2>3, <2>5, <2>6 DEF RefundInv, GivingInv, GivingBack
  <2>8. Credits'
    <3>1. Credited(k) = 0 /\ Credited(k)' = 0
      BY <1>0, <1>1, <2>6 DEF Credited
    <3>2. /\ OfCharge(k, p) /\ payment[p].cents \in Nat /\ payment[p].refunded \in Nat
          /\ GivenBack(p) \in Nat /\ GivenBack(p) <= payment[p].cents
      BY <1>0, <1>1, CreditsOf
    <3>3. refundedAt'[k] = 0 /\ payment'[p] = payment[p]
      BY <1>1, <2>6
    <3>4. /\ payment'[p].refunded - payment[p].refunded <= Credited(k)' - Credited(k)
          /\ GivenBack(p) + refundedAt'[k] - refundedAt[k] <= payment[p].cents
      BY <2>6, <3>1, <3>2, <3>3
    <3>5. /\ Credited(k) \in Nat /\ Credited(k)' \in Nat
          /\ refundedAt[k] \in Nat /\ refundedAt'[k] \in Nat
          /\ payment'[p].refunded \in Nat /\ payment'[p].cents = payment[p].cents
      BY <2>6, <3>1, <3>2, <3>3
    <3>6. QED
      BY <1>1, <2>1, <2>4, <3>2, <3>4, <3>5, CreditsStep
  <2>9. QED
    BY <1>0, <1>1, <2>1, <2>4, <2>5, <2>7, <2>8, GiverStep
<1>4. QED
  BY <1>0, <1>2, <1>3 DEF insertRefund, refundKey, KeyOf

\* The call: the gateway keeps its total within the charge.
LEMMA CallRefundStep ==
  ASSUME LInv, LInv', RInv, NEW h \in Handlers, callRefund(h)
  PROVE  RInv'
<1>0. PICK k, p : k = KeyOf(handler[h]) /\ p = handler[h].row
  OBVIOUS
<1>1. handler[h].at = "refund" /\ UNCHANGED <<payment, refund>>
  BY DEF callRefund, at, books
<1>2. /\ handler[h] \in Handler /\ p \in Charges /\ k \in RefundKeys
      /\ handler[h].cents \in Nat
  BY <1>0, <1>1, CreditsOf
<1>3. PICK answer \in {"ok", "error"} :
        /\ handler' = [handler EXCEPT ![h].at = "refunded", ![h].answer = answer]
        /\ \/ answer = "error" /\ UNCHANGED refundedAt
           \/ /\ GivenBack(p) + handler[h].cents <= payment[p].cents
              /\ refundedAt' = [refundedAt EXCEPT ![k] = handler[h].cents]
  BY <1>0 DEF callRefund, refundKey, KeyOf
<1>4. PICK new : new = [handler[h] EXCEPT !.at = "refunded", !.answer = answer]
  OBVIOUS
<1>5. /\ new.at = "refunded" /\ KeyOf(new) = k /\ new.cents = handler[h].cents
      /\ new.answer = answer
  BY <1>0, <1>2, <1>4 DEF Handler, KeyOf
<1>6. aside(h, k, new)
  <2>1. handler'[h] = new /\ \A g \in Handlers \ {h} : handler'[g] = handler[g]
    BY <1>3, <1>4 DEF LInv, HandlersTyped
  <2>2. QED
    BY <1>0, <1>1, <1>5, <2>1 DEF aside, GivingBack, RInv, OneGiver
<1>7. GivingInv(handler[h])
  BY DEF RInv
<1>8. /\ refund[k] # NoRefund /\ refund[k].cents = handler[h].cents
      /\ refundedAt[k] = 0 /\ refund[k].status = "PROCESSING"
  BY <1>0, <1>1, <1>7 DEF GivingInv, GivingBack
<1>9. Credited(k) = 0 /\ Credited(k)' = 0
  BY <1>0, <1>1, <1>5, <1>6, AsideCredited DEF Credited, GivingBack
<1>10. /\ OfCharge(k, p) /\ payment[p].cents \in Nat /\ payment[p].refunded \in Nat
       /\ GivenBack(p) \in Nat /\ GivenBack(p) <= payment[p].cents
  BY <1>0, <1>1, CreditsOf
<1>11. /\ refundedAt'[k] \in {0, handler[h].cents}
       /\ GivenBack(p) + refundedAt'[k] <= payment[p].cents
       /\ answer = "ok" => refundedAt'[k] = handler[h].cents
       /\ \A j \in RefundKeys \ {k} : refundedAt'[j] = refundedAt[j]
       /\ RefundsTyped'
  BY <1>0, <1>1, <1>2, <1>3, <1>8, <1>10 DEF RInv, RefundsTyped
<1>12. RefundInv(k)' /\ GivingInv(new)'
  BY <1>0, <1>1, <1>5, <1>8, <1>11 DEF RefundInv, GivingInv, GivingBack
<1>13. Credits'
  BY <1>0, <1>1, <1>2, <1>6, <1>8, <1>9, <1>10, <1>11, CreditsStep
<1>14. QED
  BY <1>0, <1>1, <1>2, <1>6, <1>11, <1>12, <1>13, GiverStep

\* The status: a success is what the gateway answered.
LEMMA RecordRefundStep ==
  ASSUME LInv, LInv', RInv, NEW h \in Handlers, recordRefund(h)
  PROVE  RInv'
<1>0. PICK k, p, ok : /\ k = KeyOf(handler[h]) /\ p = handler[h].row
                      /\ ok = (handler[h].answer = "ok")
  OBVIOUS
<1>1. handler[h].at = "refunded" /\ UNCHANGED <<payment, refundedAt>>
  BY DEF recordRefund, at, gateway
<1>2. /\ handler[h] \in Handler /\ p \in Charges /\ k \in RefundKeys
      /\ handler[h].cents \in Nat
  BY <1>0, <1>1, CreditsOf
<1>3. /\ refund' = [refund EXCEPT ![k].status = IF ok THEN "SUCCEEDED" ELSE "FAILED"]
      /\ IF ok THEN goto(h, "total") ELSE finish(h)
  BY <1>0 DEF recordRefund, refundKey, KeyOf
<1>4. PICK new : new = IF ok THEN [handler[h] EXCEPT !.at = "total"] ELSE NoHandler
  OBVIOUS
<1>5. /\ ok => new.at = "total" /\ KeyOf(new) = k /\ new.cents = handler[h].cents
      /\ ~ok => new.at = "idle"
  BY <1>0, <1>2, <1>4 DEF Handler, KeyOf, NoHandler
<1>6. aside(h, k, new)
  <2>1. handler'[h] = new /\ \A g \in Handlers \ {h} : handler'[g] = handler[g]
    BY <1>3, <1>4 DEF LInv, HandlersTyped, goto, finish
  <2>2. QED
    BY <1>0, <1>1, <1>5, <2>1 DEF aside, GivingBack, RInv, OneGiver
<1>7. GivingInv(handler[h])
  BY DEF RInv
<1>8. /\ refund[k] # NoRefund /\ refund[k].cents = handler[h].cents
      /\ ok => refundedAt[k] = handler[h].cents
  BY <1>0, <1>1, <1>7 DEF GivingInv, GivingBack
<1>9. refund[k] \in Refund
  BY <1>2, <1>8 DEF RInv, RefundsTyped
<1>10. /\ refund'[k].status = (IF ok THEN "SUCCEEDED" ELSE "FAILED")
       /\ refund'[k].cents = handler[h].cents /\ refund'[k] # NoRefund
       /\ \A j \in RefundKeys \ {k} : refund'[j] = refund[j]
       /\ RefundsTyped'
  BY <1>0, <1>1, <1>2, <1>3, <1>8, <1>9 DEF RInv, RefundsTyped, Refund, NoRefund, NoRow
<1>11. RefundInv(k)' /\ GivingInv(new)'
  BY <1>0, <1>1, <1>5, <1>8, <1>10 DEF RefundInv, GivingInv, GivingBack
<1>12. /\ OfCharge(k, p) /\ payment[p].cents \in Nat /\ payment[p].refunded \in Nat
       /\ GivenBack(p) \in Nat /\ GivenBack(p) <= payment[p].cents
       /\ refundedAt[k] \in Nat /\ Credited(k) = 0
  BY <1>0, <1>1, CreditsOf DEF GivingBack
<1>13. Credited(k)' \in Nat
  BY <1>0, <1>1, <1>12 DEF Credited
<1>14. Credits'
  BY <1>0, <1>1, <1>2, <1>6, <1>12, <1>13, CreditsStep
<1>15. QED
  BY <1>0, <1>1, <1>2, <1>6, <1>10, <1>11, <1>14, GiverStep

\* The total: the handler's cents are counted as the refund leaves its hands,
\* also when the catch marks the refund FAILED.
LEMMA TotalKept ==
  ASSUME LInv, LInv', RInv, NEW h \in Handlers, addToTotal(h)
  PROVE  RInv'
<1>0. PICK k, p, cents : /\ k = KeyOf(handler[h]) /\ p = handler[h].row
                         /\ cents = handler[h].cents
  OBVIOUS
<1>1. handler[h].at = "total" /\ UNCHANGED refundedAt /\ finish(h)
  BY DEF addToTotal, at, gateway
<1>2. /\ p \in Charges /\ k \in RefundKeys /\ cents \in Nat
      /\ payment[p] \in Payment
      /\ OfCharge(k, p) /\ payment[p].cents \in Nat /\ payment[p].refunded \in Nat
      /\ GivenBack(p) \in Nat /\ GivenBack(p) <= payment[p].cents
  BY <1>0, <1>1, CreditsOf
<1>3. Credited(k) = 0
  BY <1>0, <1>1, CreditsOf DEF GivingBack
<1>4. GivingInv(handler[h])
  BY DEF RInv
<1>5. refund[k] # NoRefund /\ refund[k].cents = cents /\ refundedAt[k] = cents
  BY <1>0, <1>1, <1>4 DEF GivingInv, GivingBack
<1>6. aside(h, k, NoHandler)
  <2>1. handler'[h] = NoHandler /\ \A g \in Handlers \ {h} : handler'[g] = handler[g]
    BY <1>1 DEF LInv, HandlersTyped, finish
  <2>2. QED
    BY <1>0, <1>1, <2>1 DEF aside, GivingBack, RInv, OneGiver, NoHandler
<1>7. Credited(k)' = cents
  <2>1. ~GivingBack(NoHandler)
    BY DEF GivingBack, NoHandler
  <2>2. ~Pending(k)'
    BY <1>6, <2>1, AsideCredited
  <2>3. QED
    BY <1>1, <1>5, <2>2 DEF Credited
<1>8. /\ payment'[p].refunded \in {payment[p].refunded, payment[p].refunded + cents}
      /\ payment'[p].cents = payment[p].cents
      /\ \A q \in Charges \ {p} : payment'[q] = payment[q]
  <2>1. CASE UNCHANGED payment
    BY <2>1
  <2>2. ASSUME NEW status,
               payment' = [payment EXCEPT ![p].refunded = payment[p].refunded + cents,
                                          ![p].status = status]
        PROVE  <1>8
    <3>1. PICK row : row = [payment[p] EXCEPT !.refunded = payment[p].refunded + cents,
                                              !.status = status]
      OBVIOUS
    <3>2. row.refunded = payment[p].refunded + cents /\ row.cents = payment[p].cents
      BY <1>2, <3>1 DEF Payment
    <3>3. payment' = [payment EXCEPT ![p] = row]
      BY <2>2, <3>1
    <3>4. QED
      BY <1>2, <3>2, <3>3 DEF LInv, ChargesTyped
  <2>3. QED
    BY <1>0, <2>1, <2>2 DEF addToTotal
<1>9. /\ RefundsTyped'
      /\ refund'[k] # NoRefund
      /\ refund'[k].status = "SUCCEEDED" => refund'[k] = refund[k]
      /\ \A j \in RefundKeys \ {k} : refund'[j] = refund[j]
  <2>1. CASE UNCHANGED refund
    BY <1>1, <1>5, <2>1 DEF RInv, RefundsTyped
  <2>2. CASE refund' = [refund EXCEPT ![k].status = "FAILED"]
    <3>1. refund[k] \in Refund
      BY <1>2, <1>5 DEF RInv, RefundsTyped
    <3>2. PICK row : row = [refund[k] EXCEPT !.status = "FAILED"]
      OBVIOUS
    <3>3. row \in Refund /\ row # NoRefund /\ row.status = "FAILED"
      BY <3>1, <3>2 DEF Refund, NoRefund, NoRow
    <3>4. refund' = [refund EXCEPT ![k] = row]
      BY <2>2, <3>2
    <3>5. QED
      BY <1>1, <1>2, <3>3, <3>4 DEF RInv, RefundsTyped
  <2>3. QED
    BY <1>0, <2>1, <2>2 DEF addToTotal, refundKey, KeyOf
<1>10. RefundInv(k)' /\ GivingInv(NoHandler)'
  BY <1>1, <1>5, <1>9 DEF RefundInv, GivingInv, GivingBack, NoHandler
<1>11. Credits'
  <2>1. refundedAt'[k] = cents /\ refundedAt[k] = cents
    BY <1>1, <1>5
  <2>2. /\ payment'[p].refunded \in Nat
        /\ payment'[p].refunded - payment[p].refunded <= Credited(k)' - Credited(k)
        /\ GivenBack(p) + refundedAt'[k] - refundedAt[k] <= payment[p].cents
    BY <1>2, <1>3, <1>7, <1>8, <2>1
  <2>3. Credited(k) \in Nat /\ Credited(k)' \in Nat
        /\ refundedAt[k] \in Nat /\ refundedAt'[k] \in Nat
    BY <1>2, <1>3, <1>7, <2>1
  <2>4. QED
    BY <1>1, <1>2, <1>6, <1>8, <2>2, <2>3, CreditsStep
<1>12. QED
  BY <1>1, <1>2, <1>6, <1>9, <1>10, <1>11, GiverStep

-----------------------------------------------------------------------------
(* Every step *)

\* A handler's step that is not about refunds.
LEMMA OtherStepKept ==
  ASSUME LInv, LInv', RInv, NEW h \in Handlers, elsewhere(h), amountsKept,
         UNCHANGED <<refund, refundedAt>>
  PROVE  RInv'
<1>1. \A g \in Handlers : GivingBack(handler'[g]) => handler'[g] = handler[g]
  BY DEF elsewhere
<1>2. QED
  BY <1>1, RefundsKept DEF amountsKept

\* Every step of a handler keeps the invariant.
LEMMA HandlerKept ==
  ASSUME LInv, LInv', RInv, NEW h \in Handlers, retryCharge(h) \/ handle(h) \/ abandon(h)
  PROVE  RInv'
<1>1. CASE insertRefund(h) \/ callRefund(h) \/ recordRefund(h) \/ addToTotal(h)
  BY <1>1, InsertRefundStep, CallRefundStep, RecordRefundStep, TotalKept
<1>2. CASE insertCharge(h)
  BY <1>2, Elsewhere, AmountsInserted, OtherStepKept DEF insertCharge, gateway
<1>3. CASE recordCharge(h) \/ noteCharge(h) \/ cancelFailed(h) \/ supersede(h)
  <2>1. UNCHANGED <<refund, refundedAt>>
    BY <1>3 DEF recordCharge, noteCharge, cancelFailed, supersede, gateway
  <2>2. QED
    BY <1>3, <2>1, Elsewhere, AmountsRewritten, OtherStepKept
<1>4. CASE readJob(h) \/ callCharge(h) \/ retryCharge(h) \/ abandon(h)
  <2>1. UNCHANGED <<payment, refund, refundedAt>>
    BY <1>4 DEF readJob, callCharge, retryCharge, abandon, books, gateway
  <2>2. QED
    BY <1>4, <2>1, Elsewhere, SameAmounts, OtherStepKept
<1>5. CASE prepareRelease(h) \/ payNext(h) \/ callTransfer(h) \/ recordTransfer(h)
           \/ closeRelease(h) \/ confirmScanned(h)
  <2>1. UNCHANGED <<payment, refund, refundedAt>>
    BY <1>5 DEF prepareRelease, payNext, callTransfer, recordTransfer, closeRelease,
                confirmScanned, books, gateway
  <2>2. QED
    BY <1>5, <2>1, Elsewhere, TransferElsewhere, SameAmounts, OtherStepKept
<1>6. CASE readOutcome(h) \/ compensateNext(h) \/ compensated(h) \/ readFixed(h)
  <2>1. UNCHANGED <<payment, refund, refundedAt>>
    BY <1>6 DEF readOutcome, compensateNext, compensated, readFixed, books, gateway
  <2>2. QED
    BY <1>6, <2>1, Elsewhere, SameAmounts, OtherStepKept
<1>7. QED
  BY <1>1, <1>2, <1>3, <1>4, <1>5, <1>6 DEF handle

\* Every step of the system does.
LEMMA RefundsStep ==
  ASSUME LInv, LInv', RInv, [PayNext]_payVars
  PROVE  RInv'
<1>1. ASSUME UNCHANGED <<payment, refund, refundedAt>>,
             \A g \in Handlers : GivingBack(handler'[g]) => handler'[g] = handler[g]
      PROVE  RInv'
  BY <1>1, SameAmounts, RefundsKept DEF amountsKept
<1>2. CASE UNCHANGED payVars
  BY <1>1, <1>2 DEF payVars, money, books, gateway
<1>3. CASE jobStepTaken \/ \E r \in Requests : serve(r)
  <2>1. CASE UNCHANGED money
    BY <1>1, <2>1 DEF money, books, gateway
  <2>2. CASE \E new \in Handler : new.at \in FIRST_STEPS /\ emit(new)
    <3>1. PICK new \in Handler, h \in Handlers : new.at \in FIRST_STEPS /\ launch(h, new)
      BY <2>2 DEF emit
    <3>2. UNCHANGED <<payment, refund, refundedAt>>
      BY <2>2 DEF emit, books, gateway
    <3>3. \A g \in Handlers : GivingBack(handler'[g]) => handler'[g] = handler[g]
      BY <3>1 DEF launch, LInv, HandlersTyped, GivingBack, FIRST_STEPS
    <3>4. QED
      BY <1>1, <3>2, <3>3
  <2>3. QED
    BY <1>3, <2>1, <2>2, JobEvents
<1>4. CASE \E h \in Handlers : retryCharge(h) \/ handle(h) \/ abandon(h)
  BY <1>4, HandlerKept
<1>5. CASE gatewaySettles \/ webhookLost
  BY <1>1, <1>5 DEF gatewaySettles, webhookLost, books
<1>6. CASE processWebhook
  <2>1. UNCHANGED <<refund, refundedAt, handler>>
    BY <1>6 DEF processWebhook
  <2>2. QED
    BY <1>6, <2>1, AmountsByWebhook, RefundsKept DEF amountsKept
<1>7. CASE crash
  BY <1>1, <1>7 DEF crash, books, gateway, GivingBack, NoHandler
<1>8. QED
  BY <1>2, <1>3, <1>4, <1>5, <1>6, <1>7 DEF PayNext

\* It holds at the start.
LEMMA RefundsInit ==
  ASSUME PayInit
  PROVE  RInv
<1>1. /\ refund = [k \in RefundKeys |-> NoRefund]
      /\ refundedAt = [k \in RefundKeys |-> 0]
      /\ payment = [p \in Charges |-> NoPayment]
      /\ handler = [h \in Handlers |-> NoHandler]
  BY DEF PayInit, RefundKeys
<1>2. RefundsTyped /\ \A k \in RefundKeys : RefundInv(k)
  BY <1>1 DEF RefundsTyped, RefundInv, NoRefund, NoRow
<1>3. OneGiver /\ \A h \in Handlers : GivingInv(handler[h])
  BY <1>1 DEF OneGiver, GivingInv, GivingBack, NoHandler
<1>4. Credits
  <2>1. \A p \in Charges : <<p, "cancel">> \in RefundKeys /\ <<p, "dispute">> \in RefundKeys
    BY DEF RefundKeys, REFUND_REASONS
  <2>2. \A k \in RefundKeys : refundedAt[k] = 0 /\ Credited(k) = 0
    BY <1>1 DEF Credited
  <2>3. ASSUME NEW p \in Charges
        PROVE  /\ GivenBack(p) <= payment[p].cents
               /\ payment[p].refunded <= Credited(<<p, "cancel">>) + Credited(<<p, "dispute">>)
    <3>1. payment[p].cents = 0 /\ payment[p].refunded = 0
      BY <1>1 DEF NoPayment
    <3>2. GivenBack(p) = 0
      BY <2>1, <2>2 DEF GivenBack
    <3>3. Credited(<<p, "cancel">>) = 0 /\ Credited(<<p, "dispute">>) = 0
      BY <2>1, <2>2
    <3>4. QED
      BY <3>1, <3>2, <3>3
  <2>4. QED
    BY <2>3 DEF Credits
<1>5. QED
  BY <1>2, <1>3, <1>4 DEF RInv

\* Ledger and gateway agree on refunds as RInv says, throughout (the refund of
\* executeCancellationOutcome and refundFixedAmount, and their catches).
THEOREM RefundsInvariance == PaySpec => []RInv
BY LedgerInvariance, RefundsInit, RefundsStep, PTL DEF PaySpec
=============================================================================
