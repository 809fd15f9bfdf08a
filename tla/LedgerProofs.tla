---------------------------- MODULE LedgerProofs ----------------------------
(***************************************************************************)
(* The charges of Settlement: what the ledger's rows, the gateway and the  *)
(* charge handlers know of each other, for any number of handlers, retries *)
(* and workers, with crashes, lost answers and failing statements.         *)
(*                                                                         *)
(* The unique key job:<id>:charge:v1 leaves one live row at a time; what   *)
(* makes that enough is that no two handlers ever hold the same row to be  *)
(* charged (OneEach), so that the answer a handler records is the one the  *)
(* gateway gave to its own call.                                           *)
(***************************************************************************)
EXTENDS Settlement, Integers, FiniteSetTheorems, TLAPS

-----------------------------------------------------------------------------
(* The handlers in flight *)

\* A record of a handler, idle or not.
Handler == [at : STEPS \cup {"idle"}, row : Charges \cup {NoRow},
            todo : SUBSET Workers, worker : Workers \cup {NoRow},
            kind : PAYOUT_KINDS \cup REFUND_REASONS \cup {NoRow},
            cents : Nat, bps : Nat,
            answer : {NoRow, "PROCESSING", "CAPTURED", "DECLINED", "error", "ok"}]

HandlersTyped == handler \in [Handlers -> Handler]

\* A handler with a row it charges, gives up, or refunds.
Charging(r) == r.at \in {"call", "record", "note"}
Retrying(r) == r.at \in {"cancel row", "supersede"}
Refunding(r) ==
  \/ r.at \in {"compensate", "insert refund", "refund", "refunded", "total"}
  \/ r.at \in {"transfer", "transferred"} /\ r.kind = "CANCELLATION_COMPENSATION"

\* The statuses of a row that was paid.
Kept == {"SUCCEEDED", "PARTIALLY_REFUNDED", "REFUNDED"}

\* The types of what the charges are made of.
ChargesTyped ==
  /\ payment \in [Charges -> Payment \cup {NoPayment}]
  /\ captured \in [Charges -> {NoRow, "PROCESSING", "CAPTURED", "DECLINED"}]
  /\ hooks \subseteq Charges \X {"CAPTURED", "DECLINED"}

\* A row that was paid was captured; one that waits for the call has no intent;
\* one without the key was given up (or supersede would not have taken it).
RowInv(p) ==
  /\ payment[p].status \in Kept => captured[p] = "CAPTURED"
  /\ payment[p].status = "REQUIRES_PAYMENT" => ~payment[p].intent
  /\ ~payment[p].live => payment[p].status \in GIVEN_UP

\* A row that is not inserted is unknown to the gateway, so that a new row starts
\* unpaid; a webhook says what the gateway did.
ChargesInv ==
  /\ \A p \in Charges \ Rows : captured[p] = NoRow
  /\ \A p \in Rows : RowInv(p)
  /\ \A p, q \in Rows : payment[p].live /\ payment[q].live => p = q
  /\ \A event \in hooks : event[2] = "CAPTURED" => captured[event[1]] = "CAPTURED"

\* What a handler knows between two of its statements, whatever the others did
\* meanwhile.  Before the call nothing is captured: recordCharge may then write
\* the answer over the status without losing a payment.
HandlerInv(r) ==
  /\ Charging(r) \/ Retrying(r) \/ Refunding(r) => r.row \in Rows
  /\ Charging(r) => payment[r.row].live
  /\ r.at \in {"call", "record"} => payment[r.row].status = "REQUIRES_PAYMENT"
  /\ r.at = "call" => captured[r.row] = NoRow
  /\ r.at = "record" /\ r.answer = "CAPTURED" => captured[r.row] = "CAPTURED"
  /\ r.at = "note" => payment[r.row].status \in Kept
  /\ r.at = "cancel row" => payment[r.row].status \in GIVEN_UP \cup {"FAILED"}
  /\ r.at = "supersede" => payment[r.row].status \in GIVEN_UP
  /\ Refunding(r) => /\ captured[r.row] = "CAPTURED"
                     /\ payment[r.row].status \in Kept \cup {"FAILED", "CANCELLED"}
  /\ r.at \in {"transfer", "transferred"} =>
       r.worker \in Workers /\ r.kind \in PAYOUT_KINDS
  /\ r.at \in {"insert refund", "refund", "refunded", "total"} =>
       r.kind \in REFUND_REASONS

\* ... for each of them.
HandlersInv == \A h \in Handlers : HandlerInv(handler[h])

\* A row is charged by one handler, and given up by none meanwhile.  Without
\* this cancelFailed could free the key under a charge in flight.
OneEach ==
  \A h, g \in Handlers :
    /\ Charging(handler[h])
    /\ Charging(handler[g]) \/ Retrying(handler[g])
    /\ handler[g].row = handler[h].row
    => g = h

\* The invariant: none of its parts is inductive without the others.
LInv == HandlersTyped /\ ChargesTyped /\ ChargesInv /\ HandlersInv /\ OneEach

\* The names of the steps.
LEMMA StepsNamed ==
  /\ \A s \in {"insert", "call", "record", "note", "supersede", "charge", "pay",
               "transfer", "transferred", "release", "compensate", "insert refund",
               "refund", "refunded", "total", "cancel row", "auto confirm",
               "outcome", "fixed refund"} : s \in STEPS
  /\ "idle" \notin STEPS
BY DEF STEPS

\* Basis points are numbers.
LEMMA BpsNat == ALL_BPS \in Nat \ {0} /\ LateRefundBps \in Nat
<1>1. ALL_BPS \in Nat \ {0}
  BY DEF ALL_BPS
<1>2. QED
  BY <1>1, AmountsNat

\* An idle slot is a handler record, ...
LEMMA IdleTyped == NoHandler \in Handler
BY DEF NoHandler, Handler, NoRow

\* ... and so is a handler that starts.
LEMMA StartingTyped ==
  ASSUME NEW s \in STEPS
  PROVE  Starting(s) \in Handler /\ Starting(s).at = s
BY DEF NoHandler, Handler, NoRow, Starting

\* What handler h does next to handlers: only its own record changes.
moves(h, new) == new \in Handler /\ handler' = [handler EXCEPT ![h] = new]

\* The rest of the handlers stay.
LEMMA Moved ==
  ASSUME HandlersTyped, NEW h \in Handlers, NEW new, moves(h, new)
  PROVE  /\ HandlersTyped'
         /\ handler'[h] = new
         /\ \A g \in Handlers \ {h} : handler'[g] = handler[g]
BY DEF HandlersTyped, moves

\* A record that claims no row to charge and knows what it has to know.
idleLike(new) == ~Charging(new) /\ ~Retrying(new) /\ HandlerInv(new)

\* A step to such a record, with charges and gateway untouched, keeps it all.
LEMMA QuietStep ==
  ASSUME LInv, NEW h \in Handlers, NEW new, moves(h, new), idleLike(new),
         UNCHANGED <<payment, captured, hooks>>
  PROVE  LInv'
<1>1. /\ HandlersTyped' /\ handler'[h] = new
      /\ \A g \in Handlers \ {h} : handler'[g] = handler[g]
  BY Moved DEF LInv
<1>2. ChargesTyped' /\ ChargesInv'
  BY DEF LInv, ChargesTyped, ChargesInv, RowInv, Rows
<1>3. HandlersInv'
  <2>1. ASSUME NEW g \in Handlers PROVE HandlerInv(handler[g])'
    <3>1. HandlerInv(handler'[g])
      BY <1>1 DEF idleLike, LInv, HandlersInv
    <3>2. QED
      BY <3>1 DEF HandlerInv, Rows, Charging, Retrying, Refunding
  <2>2. QED
    BY <2>1 DEF HandlersInv
<1>4. OneEach'
  BY <1>1 DEF OneEach, LInv, idleLike, Charging, Retrying
<1>5. QED
  BY <1>1, <1>2, <1>3, <1>4 DEF LInv

\* Such a step of handler h.
quiet(h) ==
  /\ \E new : moves(h, new) /\ idleLike(new)
  /\ UNCHANGED <<payment, captured, hooks>>

\* A handler that ends, ...
LEMMA FinishQuiet ==
  ASSUME LInv, NEW h \in Handlers, finish(h), UNCHANGED <<payment, captured, hooks>>
  PROVE  quiet(h)
<1>1. moves(h, NoHandler)
  BY IdleTyped DEF finish, moves
<1>2. idleLike(NoHandler)
  BY DEF NoHandler, idleLike, Charging, Retrying, Refunding, HandlerInv
<1>3. QED
  BY <1>1, <1>2 DEF quiet

\* ... one that starts, ...
LEMMA StartQuiet ==
  ASSUME LInv, NEW h \in Handlers, UNCHANGED <<payment, captured, hooks>>,
         NEW new \in Handler, launch(h, new),
         new.at \in {"charge", "release", "outcome", "auto confirm", "fixed refund"}
  PROVE  quiet(h)
BY DEF quiet, moves, launch, idleLike, Charging, Retrying, Refunding, HandlerInv

\* ... and one that only goes on.
LEMMA GotoQuiet ==
  ASSUME LInv, NEW h \in Handlers, NEW s \in STEPS, goto(h, s),
         UNCHANGED <<payment, captured, hooks>>,
         s \notin {"call", "record", "note", "cancel row", "supersede"},
         s \in {"insert", "release"} \/
           (s \in {"refund", "total"} /\ Refunding(handler[h])
            /\ handler[h].kind \in REFUND_REASONS)
  PROVE  quiet(h)
<1>1. handler[h] \in Handler
  BY DEF LInv, HandlersTyped
<1>2. PICK new : new = [handler[h] EXCEPT !.at = s]
  OBVIOUS
<1>3. /\ new \in Handler /\ new.at = s
      /\ new.row = handler[h].row /\ new.kind = handler[h].kind
      /\ new.worker = handler[h].worker
  BY <1>1, <1>2 DEF Handler
<1>4. moves(h, new)
  BY <1>2, <1>3 DEF goto, moves
<1>5. HandlerInv(handler[h])
  BY DEF LInv, HandlersInv
<1>6. idleLike(new)
  BY <1>3, <1>5 DEF idleLike, Charging, Retrying, Refunding, HandlerInv
<1>7. QED
  BY <1>4, <1>6 DEF quiet

\* The call of a transfer.
LEMMA TransferQuiet ==
  ASSUME LInv, NEW h \in Handlers, callTransfer(h)
  PROVE  quiet(h)
<1>1. PICK answer \in {"ok", "error"} :
        handler' = [handler EXCEPT ![h].at = "transferred", ![h].answer = answer]
  BY DEF callTransfer
<1>2. handler[h] \in Handler
  BY DEF LInv, HandlersTyped
<1>3. PICK new : new = [handler[h] EXCEPT !.at = "transferred", !.answer = answer]
  OBVIOUS
<1>4. /\ new \in Handler /\ new.at = "transferred"
      /\ new.row = handler[h].row /\ new.kind = handler[h].kind
      /\ new.worker = handler[h].worker
  BY <1>2, <1>3, StepsNamed DEF Handler
<1>5. moves(h, new)
  BY <1>1, <1>3, <1>4 DEF moves
<1>6. HandlerInv(handler[h]) /\ handler[h].at = "transfer"
  BY DEF LInv, HandlersInv, callTransfer, at
<1>7. idleLike(new)
  BY <1>4, <1>6 DEF idleLike, Charging, Retrying, Refunding, HandlerInv
<1>8. UNCHANGED <<payment, captured, hooks>>
  BY DEF callTransfer, books
<1>9. QED
  BY <1>5, <1>7, <1>8 DEF quiet

\* Its record; a compensation goes back to its loop with its row.
LEMMA RecordTransferQuiet ==
  ASSUME LInv, NEW h \in Handlers, recordTransfer(h)
  PROVE  quiet(h)
<1>2. handler[h] \in Handler
  BY DEF LInv, HandlersTyped
<1>3. PICK new : new = [handler[h] EXCEPT !.at = IF handler[h].kind = "JOB_EARNINGS"
                                            THEN "pay" ELSE "compensate",
                                !.todo = @ \ {handler[h].worker}]
  OBVIOUS
<1>4. /\ new \in Handler
      /\ new.at = IF handler[h].kind = "JOB_EARNINGS" THEN "pay" ELSE "compensate"
      /\ new.row = handler[h].row /\ new.kind = handler[h].kind
      /\ new.worker = handler[h].worker
  BY <1>2, <1>3, StepsNamed DEF Handler
<1>5. moves(h, new)
  BY <1>3, <1>4 DEF recordTransfer, moves
<1>6. HandlerInv(handler[h]) /\ handler[h].at = "transferred"
  BY DEF LInv, HandlersInv, recordTransfer, at
<1>7. idleLike(new)
  BY <1>4, <1>6 DEF idleLike, Charging, Retrying, Refunding, HandlerInv, PAYOUT_KINDS
<1>8. UNCHANGED <<payment, captured, hooks>>
  BY DEF recordTransfer, gateway
<1>9. QED
  BY <1>5, <1>7, <1>8 DEF quiet

\* The loop over the compensations.
LEMMA CompensateQuiet ==
  ASSUME LInv, NEW h \in Handlers, compensateNext(h)
  PROVE  quiet(h)
<1>1. handler[h] \in Handler /\ HandlerInv(handler[h]) /\ handler[h].at = "compensate"
  BY DEF LInv, HandlersTyped, HandlersInv, compensateNext, at
<1>2. UNCHANGED <<payment, captured, hooks>>
  BY DEF compensateNext, gateway
<1>3. PICK w \in handler[h].todo :
        \/ handler' = [handler EXCEPT ![h].todo = @ \ {w}]
        \/ handler' = [handler EXCEPT ![h].at = "transfer", ![h].worker = w,
                               ![h].kind = "CANCELLATION_COMPENSATION",
                               ![h].cents = @ + Compensation]
  BY DEF compensateNext
<1>4. w \in Workers
  BY <1>1, <1>3 DEF Handler
<1>5. CASE handler' = [handler EXCEPT ![h].todo = @ \ {w}]
  <2>1. PICK new : new = [handler[h] EXCEPT !.todo = @ \ {w}]
    OBVIOUS
  <2>2. /\ new \in Handler /\ new.at = "compensate" /\ new.row = handler[h].row
    BY <1>1, <2>1 DEF Handler
  <2>3. moves(h, new)
    BY <1>5, <2>1, <2>2 DEF moves
  <2>4. idleLike(new)
    BY <1>1, <2>2 DEF idleLike, Charging, Retrying, Refunding, HandlerInv
  <2>5. QED
    BY <1>2, <2>3, <2>4 DEF quiet
<1>6. CASE handler' = [handler EXCEPT ![h].at = "transfer", ![h].worker = w,
                               ![h].kind = "CANCELLATION_COMPENSATION",
                               ![h].cents = @ + Compensation]
  <2>1. PICK cents \in Nat : cents = handler[h].cents + Compensation
    <3>1. Compensation \in Nat /\ handler[h].cents \in Nat
      BY <1>1, AmountsNat DEF Compensation, Handler
    <3>2. QED
      BY <3>1
  <2>2. PICK new : new = [handler[h] EXCEPT !.at = "transfer", !.worker = w,
                               !.kind = "CANCELLATION_COMPENSATION", !.cents = cents]
    OBVIOUS
  <2>3. /\ new \in Handler /\ new.at = "transfer" /\ new.row = handler[h].row
        /\ new.worker = w /\ new.kind = "CANCELLATION_COMPENSATION"
    BY <1>1, <1>4, <2>1, <2>2, StepsNamed DEF Handler, PAYOUT_KINDS
  <2>4. moves(h, new)
    BY <1>6, <2>1, <2>2, <2>3 DEF moves
  <2>5. idleLike(new)
    BY <1>1, <1>4, <2>3
    DEF idleLike, Charging, Retrying, Refunding, HandlerInv, PAYOUT_KINDS
  <2>6. QED
    BY <1>2, <2>4, <2>5 DEF quiet
<1>7. QED
  BY <1>3, <1>5, <1>6

\* The loop over the earnings.
LEMMA PayNextQuiet ==
  ASSUME LInv, NEW h \in Handlers, payNext(h)
  PROVE  quiet(h)
<1>1. handler[h] \in Handler
  BY DEF LInv, HandlersTyped
<1>2. UNCHANGED <<payment, captured, hooks>>
  BY DEF payNext, gateway, books
<1>3. PICK w \in handler[h].todo :
        handler' = [handler EXCEPT ![h].at = "transfer", ![h].worker = w,
                               ![h].kind = "JOB_EARNINGS"]
  BY DEF payNext
<1>4. PICK new : new = [handler[h] EXCEPT !.at = "transfer", !.worker = w,
                               !.kind = "JOB_EARNINGS"]
  OBVIOUS
<1>5. w \in Workers /\ new \in Handler /\ new.at = "transfer" /\ new.worker = w
      /\ new.kind = "JOB_EARNINGS"
  BY <1>1, <1>3, <1>4, StepsNamed DEF Handler, PAYOUT_KINDS
<1>6. moves(h, new)
  BY <1>3, <1>4, <1>5 DEF moves
<1>7. idleLike(new)
  BY <1>5 DEF idleLike, Charging, Retrying, Refunding, HandlerInv, PAYOUT_KINDS
<1>8. QED
  BY <1>2, <1>6, <1>7 DEF quiet

\* The first transaction of a release.
LEMMA ReleaseQuiet ==
  ASSUME LInv, NEW h \in Handlers, prepareRelease(h)
  PROVE  quiet(h)
<1>1. handler[h] \in Handler
  BY DEF LInv, HandlersTyped
<1>2. UNCHANGED <<payment, captured, hooks>>
  BY DEF prepareRelease, gateway
<1>3. CASE finish(h)
  BY <1>2, <1>3, FinishQuiet
<1>4. CASE handler' = [handler EXCEPT ![h].at = "pay",
                         ![h].todo = {w \in CompletedWorkers : ~Transferred(w)}]
  <2>1. PICK new : new = [handler[h] EXCEPT !.at = "pay",
                            !.todo = {w \in CompletedWorkers : ~Transferred(w)}]
    OBVIOUS
  <2>2. {w \in CompletedWorkers : ~Transferred(w)} \subseteq Workers
    BY DEF CompletedWorkers
  <2>3. new \in Handler /\ new.at = "pay"
    BY <1>1, <2>1, <2>2, StepsNamed DEF Handler
  <2>4. moves(h, new)
    BY <1>4, <2>1, <2>3 DEF moves
  <2>5. idleLike(new)
    BY <2>3 DEF idleLike, Charging, Retrying, Refunding, HandlerInv
  <2>6. QED
    BY <1>2, <2>4, <2>5 DEF quiet
<1>5. QED
  BY <1>3, <1>4 DEF prepareRelease

\* The choice of the charge that a cancellation refunds: a captured one.
LEMMA OutcomeQuiet ==
  ASSUME LInv, NEW h \in Handlers, readOutcome(h)
  PROVE  quiet(h)
<1>1. handler[h] \in Handler
  BY DEF LInv, HandlersTyped
<1>2. UNCHANGED <<payment, captured, hooks>>
  BY DEF readOutcome, gateway, books
<1>3. CASE finish(h)
  BY <1>2, <1>3, FinishQuiet
<1>4. CASE \E p \in RowsIn({"SUCCEEDED"}) :
             handler' = [handler EXCEPT ![h].at = "compensate", ![h].row = p]
  <2>1. PICK p \in RowsIn({"SUCCEEDED"}) :
             handler' = [handler EXCEPT ![h].at = "compensate", ![h].row = p]
    BY <1>4
  <2>2. p \in Rows /\ payment[p].status = "SUCCEEDED" /\ captured[p] = "CAPTURED"
    BY DEF RowsIn, LInv, ChargesInv, RowInv, Kept
  <2>3. PICK new : new = [handler[h] EXCEPT !.at = "compensate", !.row = p]
    OBVIOUS
  <2>4. new \in Handler /\ new.at = "compensate" /\ new.row = p
    BY <1>1, <2>2, <2>3, StepsNamed DEF Handler, Rows
  <2>5. moves(h, new)
    BY <2>1, <2>3, <2>4 DEF moves
  <2>6. idleLike(new)
    BY <2>2, <2>4 DEF idleLike, Charging, Retrying, Refunding, HandlerInv, Kept
  <2>7. QED
    BY <1>2, <2>5, <2>6 DEF quiet
<1>5. QED
  BY <1>3, <1>4 DEF readOutcome

\* What a customer is given back is a number once it is positive.
LEMMA CentsNat ==
  ASSUME LInv, NEW h \in Handlers, at(h, "compensate"), CustomerPart(h) > 0
  PROVE  CustomerPart(h) \in Nat
<1>1. handler[h] \in Handler /\ HandlerInv(handler[h])
  BY DEF LInv, HandlersTyped, HandlersInv
<1>2. handler[h].row \in Rows
  BY <1>1 DEF HandlerInv, Refunding, at
<1>3. payment[handler[h].row] \in Payment
  BY <1>2 DEF Rows, LInv, ChargesTyped
<1>4. payment[handler[h].row].cents \in Nat /\ handler[h].cents \in Nat /\ handler[h].bps \in Nat
  BY <1>1, <1>3 DEF Payment, Handler
<1>5. CustomerPart(h) \in Int
  BY <1>4, BpsNat DEF CustomerPart, Least
<1>6. QED
  BY <1>5

\* A cancellation's refund starts with a charge, a reason and an amount.
LEMMA CompensatedQuiet ==
  ASSUME LInv, NEW h \in Handlers, compensated(h)
  PROVE  quiet(h)
<1>1. handler[h] \in Handler /\ HandlerInv(handler[h]) /\ handler[h].at = "compensate"
  BY DEF LInv, HandlersTyped, HandlersInv, compensated, at
<1>2. UNCHANGED <<payment, captured, hooks>>
  BY DEF compensated, gateway, books
<1>3. CASE finish(h)
  BY <1>2, <1>3, FinishQuiet
<1>4. CASE /\ CustomerPart(h) > 0
           /\ handler' = [handler EXCEPT ![h].at = "insert refund",
                          ![h].kind = "cancel", ![h].cents = CustomerPart(h)]
  <2>1. PICK new : new = [handler[h] EXCEPT !.at = "insert refund",
                            !.kind = "cancel", !.cents = CustomerPart(h)]
    OBVIOUS
  <2>2. CustomerPart(h) \in Nat
    BY <1>4, CentsNat DEF compensated
  <2>3. /\ new \in Handler /\ new.at = "insert refund" /\ new.row = handler[h].row
        /\ new.kind = "cancel"
    BY <1>1, <2>1, <2>2, StepsNamed DEF Handler, REFUND_REASONS
  <2>4. moves(h, new)
    BY <1>4, <2>1, <2>3 DEF moves
  <2>5. idleLike(new)
    BY <1>1, <2>3 DEF idleLike, Charging, Retrying, Refunding, HandlerInv, REFUND_REASONS
  <2>6. QED
    BY <1>2, <2>4, <2>5 DEF quiet
<1>5. QED
  BY <1>3, <1>4 DEF compensated

\* ... and so does a partial refund.
LEMMA FixedQuiet ==
  ASSUME LInv, NEW h \in Handlers, readFixed(h)
  PROVE  quiet(h)
<1>1. handler[h] \in Handler
  BY DEF LInv, HandlersTyped
<1>2. UNCHANGED <<payment, captured, hooks>>
  BY DEF readFixed, gateway, books
<1>3. CASE finish(h)
  BY <1>2, <1>3, FinishQuiet
<1>4. ASSUME ~finish(h) PROVE quiet(h)
  <2>1. PICK p, cents :
          /\ p \in RowsIn({"SUCCEEDED", "PARTIALLY_REFUNDED"})
          /\ cents = Least(handler[h].cents, payment[p].cents - payment[p].refunded)
          /\ cents > 0
          /\ handler' = [handler EXCEPT ![h].at = "insert refund",
                           ![h].row = p, ![h].kind = "dispute", ![h].cents = cents]
    BY <1>4 DEF readFixed
  <2>2. p \in Rows /\ payment[p].status \in Kept /\ captured[p] = "CAPTURED"
    BY <2>1 DEF RowsIn, LInv, ChargesInv, RowInv, Kept
  <2>3. payment[p] \in Payment
    BY <2>2 DEF Rows, LInv, ChargesTyped
  <2>4. cents \in Nat
    <3>1. /\ payment[p].cents \in Nat /\ payment[p].refunded \in Nat
          /\ handler[h].cents \in Nat
      BY <1>1, <2>3 DEF Payment, Handler
    <3>2. cents = handler[h].cents \/ cents = payment[p].cents - payment[p].refunded
      BY <2>1 DEF Least
    <3>3. cents \in Int
      BY <3>1, <3>2
    <3>4. cents > 0
      BY <2>1
    <3>5. QED
      BY <3>3, <3>4
  <2>5. PICK new : new = [handler[h] EXCEPT !.at = "insert refund",
                            !.row = p, !.kind = "dispute", !.cents = cents]
    OBVIOUS
  <2>6. new \in Handler /\ new.at = "insert refund" /\ new.row = p /\ new.kind = "dispute"
    BY <1>1, <2>2, <2>4, <2>5, StepsNamed DEF Handler, Rows, REFUND_REASONS
  <2>7. moves(h, new)
    BY <2>1, <2>5, <2>6 DEF moves
  <2>8. idleLike(new)
    BY <2>2, <2>6 DEF idleLike, Charging, Retrying, Refunding, HandlerInv, REFUND_REASONS
  <2>9. QED
    BY <1>2, <2>7, <2>8 DEF quiet
<1>5. QED
  BY <1>3, <1>4

\* The call of a refund leaves the charges as they are.
LEMMA CallRefundQuiet ==
  ASSUME LInv, NEW h \in Handlers, callRefund(h)
  PROVE  quiet(h)
<1>1. PICK answer \in {"ok", "error"} :
        handler' = [handler EXCEPT ![h].at = "refunded", ![h].answer = answer]
  BY DEF callRefund
<1>2. handler[h] \in Handler /\ HandlerInv(handler[h]) /\ handler[h].at = "refund"
  BY DEF LInv, HandlersTyped, HandlersInv, callRefund, at
<1>3. PICK new : new = [handler[h] EXCEPT !.at = "refunded", !.answer = answer]
  OBVIOUS
<1>4. /\ new \in Handler /\ new.at = "refunded"
      /\ new.row = handler[h].row /\ new.kind = handler[h].kind
  BY <1>2, <1>3, StepsNamed DEF Handler
<1>5. moves(h, new)
  BY <1>1, <1>3, <1>4 DEF moves
<1>6. idleLike(new)
  BY <1>2, <1>4 DEF idleLike, Charging, Retrying, Refunding, HandlerInv
<1>7. UNCHANGED <<payment, captured, hooks>>
  BY DEF callRefund, books
<1>8. QED
  BY <1>5, <1>6, <1>7 DEF quiet

\* All of these together.
LEMMA QuietSteps ==
  ASSUME LInv, NEW h \in Handlers,
         \/ readJob(h) \/ abandon(h) \/ closeRelease(h) \/ confirmScanned(h)
         \/ insertRefund(h) \/ recordRefund(h)
  PROVE  quiet(h)
<1>1. HandlerInv(handler[h])
  BY DEF LInv, HandlersInv
<1>2. CASE readJob(h)
  <2>1. UNCHANGED <<payment, captured, hooks>>
    BY <1>2 DEF readJob, books, gateway
  <2>2. goto(h, "insert") \/ finish(h)
    BY <1>2 DEF readJob
  <2>3. QED
    <3>1. "insert" \in STEPS
      BY StepsNamed
    <3>2. CASE goto(h, "insert")
      BY <2>1, <3>1, <3>2, GotoQuiet
    <3>3. QED
      BY <2>1, <2>2, <3>2, FinishQuiet
<1>3. CASE abandon(h)
  BY <1>3, FinishQuiet DEF abandon, books, gateway
<1>4. CASE closeRelease(h)
  BY <1>4, FinishQuiet DEF closeRelease, books, gateway
<1>5. CASE confirmScanned(h)
  <2>1. UNCHANGED <<payment, captured, hooks>> /\ goto(h, "release")
    BY <1>5 DEF confirmScanned, books, gateway
  <2>2. "release" \in STEPS
    BY StepsNamed
  <2>3. QED
    BY <2>1, <2>2, GotoQuiet
<1>6. CASE insertRefund(h)
  <2>1. UNCHANGED <<payment, captured, hooks>> /\ (goto(h, "refund") \/ finish(h))
    BY <1>6 DEF insertRefund, gateway
  <2>2. Refunding(handler[h]) /\ handler[h].kind \in REFUND_REASONS
    BY <1>1, <1>6 DEF insertRefund, at, Refunding, HandlerInv
  <2>3. QED
    BY <2>1, <2>2, FinishQuiet, GotoQuiet, StepsNamed
<1>7. CASE recordRefund(h)
  <2>1. UNCHANGED <<payment, captured, hooks>> /\ (goto(h, "total") \/ finish(h))
    BY <1>7 DEF recordRefund, gateway
  <2>2. Refunding(handler[h]) /\ handler[h].kind \in REFUND_REASONS
    BY <1>1, <1>7 DEF recordRefund, at, Refunding, HandlerInv
  <2>3. QED
    BY <2>1, <2>2, FinishQuiet, GotoQuiet, StepsNamed
<1>8. QED
  BY <1>2, <1>3, <1>4, <1>5, <1>6, <1>7

\* The start of a handler on an event of the job.
LEMMA EventQuiet ==
  ASSUME LInv, NEW new \in Handler, emit(new),
         new.at \in {"charge", "release", "outcome", "auto confirm", "fixed refund"}
  PROVE  \E h \in Handlers : quiet(h)
<1>1. PICK h \in Handlers : launch(h, new)
  BY DEF emit
<1>2. QED
  BY <1>1, StartQuiet DEF emit, books, gateway

-----------------------------------------------------------------------------
(* Steps that write a row, or what the gateway knows of it *)

\* A handler that has a row.
rowed(r) == Charging(r) \/ Retrying(r) \/ Refunding(r)

\* What a handler knows depends on nothing but its row.
LEMMA RecordKept ==
  ASSUME NEW r, HandlerInv(r),
         rowed(r) => /\ r.row \in Rows'
                     /\ payment'[r.row] = payment[r.row]
                     /\ captured'[r.row] = captured[r.row]
  PROVE  HandlerInv(r)'
BY DEF HandlerInv, rowed, Charging, Retrying, Refunding

\* The other handlers keep what they know, h knows enough of its new record.
LEMMA HandlersStep ==
  ASSUME LInv, NEW h \in Handlers, NEW new, moves(h, new), HandlerInv(new)',
         \A g \in Handlers \ {h} : \A r : r = handler[g] => HandlerInv(r)',
         ChargesTyped', ChargesInv',
         Charging(new) =>
           \A g \in Handlers \ {h} : Charging(handler[g]) \/ Retrying(handler[g]) =>
                                       handler[g].row # new.row,
         Retrying(new) =>
           \A g \in Handlers \ {h} : Charging(handler[g]) => handler[g].row # new.row
  PROVE  LInv'
<1>1. /\ HandlersTyped' /\ handler'[h] = new
      /\ \A g \in Handlers \ {h} : handler'[g] = handler[g]
  BY Moved DEF LInv
<1>2. HandlersInv'
  <2>1. ASSUME NEW g \in Handlers PROVE HandlerInv(handler[g])'
    <3>1. PICK r : r = handler'[g]
      OBVIOUS
    <3>2. HandlerInv(r)'
      BY <1>1, <3>1
    <3>3. QED
      BY <3>1, <3>2 DEF HandlerInv
  <2>2. QED
    BY <2>1 DEF HandlersInv
<1>3. OneEach'
  <2>1. ASSUME NEW a \in Handlers, NEW b \in Handlers,
               Charging(handler'[a]), Charging(handler'[b]) \/ Retrying(handler'[b]),
               handler'[b].row = handler'[a].row
        PROVE  b = a
    <3>1. CASE a = h
      BY <1>1, <2>1, <3>1
    <3>2. CASE a # h /\ b = h
      BY <1>1, <2>1, <3>2
    <3>3. CASE a # h /\ b # h
      BY <1>1, <2>1, <3>3 DEF LInv, OneEach
    <3>4. QED
      BY <3>1, <3>2, <3>3
  <2>2. QED
    BY <2>1 DEF OneEach, Charging, Retrying
<1>4. QED
  BY <1>1, <1>2, <1>3 DEF LInv

\* A row that is rewritten in place keeps the facts of all rows if it keeps its own.
LEMMA RowStep ==
  ASSUME LInv, NEW p \in Rows, NEW row \in Payment,
         payment' = [payment EXCEPT ![p] = row], UNCHANGED captured, hooks' \subseteq hooks,
         row.live => payment[p].live,
         row.status \in Kept => captured[p] = "CAPTURED",
         row.status = "REQUIRES_PAYMENT" => ~row.intent,
         ~row.live => row.status \in GIVEN_UP
  PROVE  /\ ChargesTyped' /\ ChargesInv' /\ Rows' = Rows
         /\ payment'[p] = row
         /\ \A q \in Charges \ {p} : payment'[q] = payment[q]
<1>1. p \in Charges /\ payment \in [Charges -> Payment \cup {NoPayment}]
  BY DEF Rows, LInv, ChargesTyped
<1>2. payment'[p] = row /\ \A q \in Charges \ {p} : payment'[q] = payment[q]
  BY <1>1
<1>3. row # NoPayment
  BY DEF Payment, NoPayment, NoRow
<1>4. Rows' = Rows
  BY <1>1, <1>2, <1>3 DEF Rows
<1>5. ChargesTyped'
  BY <1>1 DEF LInv, ChargesTyped
<1>6. \A q \in Rows : RowInv(q)'
  BY <1>1, <1>2 DEF LInv, ChargesInv, RowInv, Rows
<1>7. ChargesInv'
  BY <1>1, <1>2, <1>4, <1>6 DEF LInv, ChargesInv, Rows
<1>8. QED
  BY <1>2, <1>4, <1>5, <1>7

\* A handler with another row, or with none, does not notice.
LEMMA RowElsewhere ==
  ASSUME LInv, NEW p \in Rows, NEW g \in Handlers,
         rowed(handler[g]) => handler[g].row # p,
         Rows \subseteq Rows',
         \A q \in Charges \ {p} : payment'[q] = payment[q] /\ captured'[q] = captured[q],
         NEW r, r = handler[g]
  PROVE  HandlerInv(r)'
<1>1. HandlerInv(r)
  BY DEF LInv, HandlersInv
<1>2. rowed(r) => r.row \in Rows /\ r.row # p
  BY <1>1 DEF HandlerInv, rowed
<1>3. QED
  BY <1>1, <1>2, RecordKept DEF Rows

\* The answer goes into a row that waits for it.
LEMMA RecordChargeStep ==
  ASSUME LInv, NEW h \in Handlers, recordCharge(h)
  PROVE  LInv'
<1> DEFINE p == handler[h].row
           ok == handler[h].answer = "CAPTURED"
<1>1. handler[h] \in Handler /\ HandlerInv(handler[h]) /\ handler[h].at = "record"
  BY DEF LInv, HandlersTyped, HandlersInv, recordCharge, at
<1>2. /\ p \in Rows /\ payment[p].live /\ payment[p].status = "REQUIRES_PAYMENT"
      /\ ok => captured[p] = "CAPTURED"
  BY <1>1 DEF HandlerInv, Charging
<1>3. payment[p] \in Payment
  BY <1>2 DEF Rows, LInv, ChargesTyped
<1>4. PICK row : row = [payment[p] EXCEPT
        !.status = CASE handler[h].answer = "CAPTURED" -> "SUCCEEDED"
                     [] handler[h].answer = "PROCESSING" -> "PROCESSING"
                     [] OTHER -> "FAILED",
        !.intent = handler[h].answer # "error"]
  OBVIOUS
<1>5. /\ row \in Payment /\ row.live
      /\ row.status \in {"SUCCEEDED", "PROCESSING", "FAILED"}
      /\ row.status = "SUCCEEDED" <=> ok
  BY <1>2, <1>3, <1>4 DEF Payment
<1>6. payment' = [payment EXCEPT ![p] = row] /\ UNCHANGED <<captured, hooks>>
  BY <1>4 DEF recordCharge, gateway
<1>7. /\ ChargesTyped' /\ ChargesInv' /\ Rows' = Rows /\ payment'[p] = row
      /\ \A q \in Charges \ {p} : payment'[q] = payment[q]
  BY <1>2, <1>5, <1>6, RowStep DEF Kept
<1>8. ASSUME NEW g \in Handlers \ {h}, NEW r, r = handler[g] PROVE HandlerInv(r)'
  <2>1. rowed(handler[g]) => handler[g].row # p
    BY <1>1, <1>2 DEF LInv, OneEach, HandlersInv, HandlerInv, rowed, Charging, Kept
  <2>2. QED
    BY <1>2, <1>6, <1>7, <1>8, <2>1, RowElsewhere
<1>9. PICK new : new = IF ok THEN [handler[h] EXCEPT !.at = "note"] ELSE NoHandler
  OBVIOUS
<1>10. new \in Handler /\ (ok => new.at = "note" /\ new.row = p)
  BY <1>1, <1>9, IdleTyped, StepsNamed DEF Handler
<1>11. moves(h, new)
  BY <1>9, <1>10 DEF recordCharge, moves, goto, finish
<1>12. ~ok => new.at = "idle"
  BY <1>9 DEF NoHandler
<1>13. HandlerInv(new)' /\ ~Retrying(new)
  BY <1>2, <1>5, <1>7, <1>10, <1>12
  DEF HandlerInv, Charging, Retrying, Refunding, Kept
<1>14. Charging(new) => \A g \in Handlers \ {h} :
         Charging(handler[g]) \/ Retrying(handler[g]) => handler[g].row # new.row
  BY <1>1, <1>10, <1>12 DEF LInv, OneEach, Charging
<1>15. QED
  BY <1>7, <1>8, <1>11, <1>13, <1>14, HandlersStep

\* The catch of the charge may fail a row that was paid.
LEMMA NoteStep ==
  ASSUME LInv, NEW h \in Handlers, noteCharge(h)
  PROVE  LInv'
<1> DEFINE p == handler[h].row
<1>1. handler[h] \in Handler /\ HandlerInv(handler[h]) /\ handler[h].at = "note"
  BY DEF LInv, HandlersTyped, HandlersInv, noteCharge, at
<1>2. finish(h) /\ UNCHANGED <<captured, hooks>>
  BY DEF noteCharge, gateway
<1>3. CASE UNCHANGED payment
  BY <1>2, <1>3, FinishQuiet, QuietStep DEF quiet
<1>4. CASE payment' = [payment EXCEPT ![p].status = "FAILED"]
  <2>1. p \in Rows /\ payment[p].live /\ payment[p].status \in Kept /\ payment[p] \in Payment
    BY <1>1 DEF HandlerInv, Charging, Rows, LInv, ChargesTyped
  <2>2. PICK row : row = [payment[p] EXCEPT !.status = "FAILED"]
    OBVIOUS
  <2>3. row \in Payment /\ row.live /\ row.status = "FAILED"
    BY <2>1, <2>2 DEF Payment
  <2>4. payment' = [payment EXCEPT ![p] = row]
    BY <1>4, <2>2
  <2>5. /\ ChargesTyped' /\ ChargesInv' /\ Rows' = Rows /\ payment'[p] = row
        /\ \A q \in Charges \ {p} : payment'[q] = payment[q]
    BY <1>2, <2>1, <2>3, <2>4, RowStep DEF Kept
  <2>6. ASSUME NEW g \in Handlers \ {h}, NEW r, r = handler[g] PROVE HandlerInv(r)'
    <3>1. handler[g].row = p => ~Charging(handler[g]) /\ ~Retrying(handler[g])
      BY <1>1 DEF LInv, OneEach, Charging
    <3>2. CASE rowed(r) /\ r.row = p
      <4>1. HandlerInv(r)
        BY <2>6 DEF LInv, HandlersInv
      <4>2. QED
        BY <1>2, <2>1, <2>3, <2>5, <2>6, <3>1, <3>2, <4>1
        DEF HandlerInv, rowed, Charging, Retrying, Refunding
    <3>3. CASE ~(rowed(r) /\ r.row = p)
      BY <1>2, <2>1, <2>5, <2>6, <3>3, RowElsewhere
    <3>4. QED
      BY <3>2, <3>3
  <2>7. /\ moves(h, NoHandler)
        /\ HandlerInv(NoHandler)'
        /\ ~Charging(NoHandler) /\ ~Retrying(NoHandler)
    BY <1>2, IdleTyped
    DEF finish, moves, NoHandler, HandlerInv, Charging, Retrying, Refunding
  <2>8. QED
    BY <2>5, <2>6, <2>7, HandlersStep
<1>5. QED
  BY <1>3, <1>4 DEF noteCharge

\* The row a retry gives up is not being charged: FAILED came after the call.
LEMMA CancelStep ==
  ASSUME LInv, NEW h \in Handlers, cancelFailed(h)
  PROVE  LInv'
<1> DEFINE p == handler[h].row
<1>1. handler[h] \in Handler /\ HandlerInv(handler[h]) /\ handler[h].at = "cancel row"
  BY DEF LInv, HandlersTyped, HandlersInv, cancelFailed, at
<1>2. UNCHANGED <<captured, hooks>>
  BY DEF cancelFailed, gateway
<1>3. p \in Rows /\ payment[p].status \in GIVEN_UP \cup {"FAILED"} /\ payment[p] \in Payment
  BY <1>1 DEF HandlerInv, Retrying, Rows, LInv, ChargesTyped
<1>4. PICK row : row = [payment[p] EXCEPT !.status = "CANCELLED"]
  OBVIOUS
<1>5. row \in Payment /\ row.live = payment[p].live /\ row.status = "CANCELLED"
  BY <1>3, <1>4 DEF Payment
<1>6. payment' = [payment EXCEPT ![p] = row]
  BY <1>4 DEF cancelFailed
<1>7. /\ ChargesTyped' /\ ChargesInv' /\ Rows' = Rows /\ payment'[p] = row
      /\ \A q \in Charges \ {p} : payment'[q] = payment[q]
  BY <1>2, <1>3, <1>5, <1>6, RowStep DEF Kept, GIVEN_UP
<1>8. ASSUME NEW g \in Handlers \ {h}, NEW r, r = handler[g] PROVE HandlerInv(r)'
  <2>1. handler[g].row = p => ~Charging(handler[g])
    BY <1>1 DEF LInv, OneEach, Retrying
  <2>2. CASE rowed(r) /\ r.row = p
    <3>1. HandlerInv(r)
      BY <1>8 DEF LInv, HandlersInv
    <3>2. QED
      BY <1>2, <1>3, <1>5, <1>7, <1>8, <2>1, <2>2, <3>1
      DEF HandlerInv, rowed, Charging, Retrying, Refunding, GIVEN_UP
  <2>3. CASE ~(rowed(r) /\ r.row = p)
    BY <1>2, <1>3, <1>7, <1>8, <2>3, RowElsewhere
  <2>4. QED
    BY <2>2, <2>3
<1>9. PICK new : new = [handler[h] EXCEPT !.at = "supersede"]
  OBVIOUS
<1>10. new \in Handler /\ new.at = "supersede" /\ new.row = p
  BY <1>1, <1>9, StepsNamed DEF Handler
<1>11. moves(h, new)
  BY <1>9, <1>10 DEF cancelFailed, goto, moves
<1>12. HandlerInv(new)' /\ ~Charging(new)
  BY <1>3, <1>5, <1>7, <1>10
  DEF HandlerInv, Charging, Retrying, Refunding, GIVEN_UP
<1>13. \A g \in Handlers \ {h} : Charging(handler[g]) => handler[g].row # new.row
  BY <1>1, <1>10 DEF LInv, OneEach, Retrying
<1>14. QED
  BY <1>7, <1>8, <1>11, <1>12, <1>13, HandlersStep

\* A row gives up the key once it was cancelled.
LEMMA SupersedeStep ==
  ASSUME LInv, NEW h \in Handlers, supersede(h)
  PROVE  LInv'
<1> DEFINE p == handler[h].row
<1>1. handler[h] \in Handler /\ HandlerInv(handler[h]) /\ handler[h].at = "supersede"
  BY DEF LInv, HandlersTyped, HandlersInv, supersede, at
<1>2. UNCHANGED <<captured, hooks>>
  BY DEF supersede, gateway
<1>3. p \in Rows /\ payment[p].status \in GIVEN_UP /\ payment[p] \in Payment /\ RowInv(p)
  BY <1>1 DEF HandlerInv, Retrying, Rows, LInv, ChargesTyped, ChargesInv
<1>4. PICK row : row = [payment[p] EXCEPT !.live = FALSE]
  OBVIOUS
<1>5. row \in Payment /\ ~row.live /\ row.status = payment[p].status
  BY <1>3, <1>4 DEF Payment
<1>6. payment' = [payment EXCEPT ![p] = row]
  BY <1>4 DEF supersede
<1>7. /\ ChargesTyped' /\ ChargesInv' /\ Rows' = Rows /\ payment'[p] = row
      /\ \A q \in Charges \ {p} : payment'[q] = payment[q]
  BY <1>2, <1>3, <1>5, <1>6, RowStep DEF RowInv, GIVEN_UP
<1>8. ASSUME NEW g \in Handlers \ {h}, NEW r, r = handler[g] PROVE HandlerInv(r)'
  <2>1. handler[g].row = p => ~Charging(handler[g])
    BY <1>1 DEF LInv, OneEach, Retrying
  <2>2. CASE rowed(r) /\ r.row = p
    <3>1. HandlerInv(r)
      BY <1>8 DEF LInv, HandlersInv
    <3>2. QED
      BY <1>2, <1>3, <1>5, <1>7, <1>8, <2>1, <2>2, <3>1
      DEF HandlerInv, rowed, Charging, Retrying, Refunding
  <2>3. CASE ~(rowed(r) /\ r.row = p)
    BY <1>2, <1>3, <1>7, <1>8, <2>3, RowElsewhere
  <2>4. QED
    BY <2>2, <2>3
<1>9. Starting("charge") \in Handler /\ Starting("charge").at = "charge"
  BY StartingTyped, StepsNamed
<1>10. moves(h, Starting("charge"))
  BY <1>9 DEF supersede, moves
<1>11. /\ HandlerInv(Starting("charge"))'
       /\ ~Charging(Starting("charge")) /\ ~Retrying(Starting("charge"))
  BY <1>9 DEF HandlerInv, Charging, Retrying, Refunding
<1>12. QED
  BY <1>7, <1>8, <1>10, <1>11, HandlersStep

\* A refund's total grows on a row that was paid.
LEMMA TotalStep ==
  ASSUME LInv, NEW h \in Handlers, addToTotal(h)
  PROVE  LInv'
<1> DEFINE p == handler[h].row
           total == payment[p].refunded + handler[h].cents
<1>1. handler[h] \in Handler /\ HandlerInv(handler[h]) /\ handler[h].at = "total"
  BY DEF LInv, HandlersTyped, HandlersInv, addToTotal, at
<1>2. finish(h) /\ UNCHANGED <<captured, hooks>>
  BY DEF addToTotal, gateway
<1>3. CASE UNCHANGED payment
  BY <1>2, <1>3, FinishQuiet, QuietStep DEF quiet
<1>4. CASE payment' = [payment EXCEPT ![p].refunded = total,
                         ![p].status = IF total >= payment[p].cents
                                         THEN "REFUNDED" ELSE "PARTIALLY_REFUNDED"]
  <2>1. /\ p \in Rows /\ captured[p] = "CAPTURED" /\ payment[p] \in Payment
        /\ payment[p].status \in Kept \cup {"FAILED", "CANCELLED"}
    BY <1>1 DEF HandlerInv, Refunding, Rows, LInv, ChargesTyped
  <2>2. PICK row : row = [payment[p] EXCEPT !.refunded = total,
                            !.status = IF total >= payment[p].cents
                                         THEN "REFUNDED" ELSE "PARTIALLY_REFUNDED"]
    OBVIOUS
  <2>3. total \in Nat
    <3>1. payment[p].refunded \in Nat /\ handler[h].cents \in Nat
      BY <1>1, <2>1 DEF Payment, Handler
    <3>2. QED
      BY <3>1
  <2>4. /\ row \in Payment /\ row.live = payment[p].live
        /\ row.status \in {"REFUNDED", "PARTIALLY_REFUNDED"}
    <3> HIDE DEF total
    <3>1. QED
      BY <2>1, <2>2, <2>3 DEF Payment
  <2>5. payment' = [payment EXCEPT ![p] = row]
    BY <1>4, <2>2
  <2>6. /\ ChargesTyped' /\ ChargesInv' /\ Rows' = Rows /\ payment'[p] = row
        /\ \A q \in Charges \ {p} : payment'[q] = payment[q]
    BY <1>2, <2>1, <2>4, <2>5, RowStep DEF GIVEN_UP
  <2>7. ASSUME NEW g \in Handlers \ {h}, NEW r, r = handler[g] PROVE HandlerInv(r)'
    <3>1. CASE rowed(r) /\ r.row = p
      <4>1. HandlerInv(r)
        BY <2>7 DEF LInv, HandlersInv
      <4>2. QED
        BY <1>2, <2>1, <2>4, <2>6, <2>7, <3>1, <4>1
        DEF HandlerInv, rowed, Charging, Retrying, Refunding, Kept, GIVEN_UP
    <3>2. CASE ~(rowed(r) /\ r.row = p)
      BY <1>2, <2>1, <2>6, <2>7, <3>2, RowElsewhere
    <3>3. QED
      BY <3>1, <3>2
  <2>8. /\ moves(h, NoHandler)
        /\ HandlerInv(NoHandler)'
        /\ ~Charging(NoHandler) /\ ~Retrying(NoHandler)
    BY <1>2, IdleTyped
    DEF finish, moves, NoHandler, HandlerInv, Charging, Retrying, Refunding
  <2>9. QED
    BY <2>6, <2>7, <2>8, HandlersStep
<1>5. QED
  BY <1>3, <1>4 DEF addToTotal

\* The gateway decides on a charge it had not ended.
LEMMA CapturedStep ==
  ASSUME LInv, NEW p \in Rows, NEW outcome \in {"PROCESSING", "CAPTURED", "DECLINED"},
         captured[p] # "CAPTURED", UNCHANGED payment,
         captured' = [captured EXCEPT ![p] = outcome], hooks' = hooksFor(p, outcome)
  PROVE  /\ ChargesTyped' /\ ChargesInv' /\ Rows' = Rows
         /\ captured'[p] = outcome
         /\ \A q \in Charges \ {p} : captured'[q] = captured[q]
<1>1. p \in Charges /\ Rows' = Rows
  BY DEF Rows
<1>2. captured'[p] = outcome /\ \A q \in Charges \ {p} : captured'[q] = captured[q]
  BY <1>1 DEF LInv, ChargesTyped
<1>3. ChargesTyped'
  BY <1>1 DEF LInv, ChargesTyped, hooksFor
<1>4. \A q \in Rows : RowInv(q)'
  BY <1>1, <1>2 DEF LInv, ChargesInv, RowInv, Rows
<1>5. \A event \in hooks' : event[2] = "CAPTURED" => captured'[event[1]] = "CAPTURED"
  <2>1. ASSUME NEW event \in hooks', event[2] = "CAPTURED"
        PROVE  captured'[event[1]] = "CAPTURED"
    <3>1. CASE event \in hooks
      BY <1>2, <2>1, <3>1 DEF LInv, ChargesInv, ChargesTyped
    <3>2. CASE event = <<p, outcome>>
      BY <1>2, <2>1, <3>2
    <3>3. QED
      BY <2>1, <3>1, <3>2 DEF hooksFor
  <2>2. QED
    BY <2>1
<1>6. ChargesInv'
  BY <1>1, <1>2, <1>4, <1>5 DEF LInv, ChargesInv, Rows
<1>7. QED
  BY <1>1, <1>2, <1>3, <1>6

\* The call: its answer is what the gateway did, or an error.
LEMMA CallChargeStep ==
  ASSUME LInv, NEW h \in Handlers, callCharge(h)
  PROVE  LInv'
<1> DEFINE p == handler[h].row
<1>1. handler[h] \in Handler /\ HandlerInv(handler[h]) /\ handler[h].at = "call"
  BY DEF LInv, HandlersTyped, HandlersInv, callCharge, at
<1>2. /\ p \in Rows /\ payment[p].live /\ payment[p].status = "REQUIRES_PAYMENT"
      /\ captured[p] = NoRow
  BY <1>1 DEF HandlerInv, Charging
<1>3. UNCHANGED payment
  BY DEF callCharge, books
<1>4. PICK answer \in {"PROCESSING", "CAPTURED", "DECLINED", "error"} :
        /\ handler' = [handler EXCEPT ![h].at = "record", ![h].answer = answer]
        /\ \/ answer = "error" /\ UNCHANGED <<captured, hooks>>
           \/ \E outcome \in {"PROCESSING", "CAPTURED", "DECLINED"} :
                /\ outcome = answer \/ (Unknown /\ answer = "error")
                /\ captured' = [captured EXCEPT ![p] = outcome]
                /\ hooks' = hooksFor(p, outcome)
  BY DEF callCharge
<1>5. /\ ChargesTyped' /\ ChargesInv' /\ Rows' = Rows
      /\ answer = "CAPTURED" => captured'[p] = "CAPTURED"
      /\ \A q \in Charges \ {p} : captured'[q] = captured[q]
  <2>1. CASE answer = "error" /\ UNCHANGED <<captured, hooks>>
    BY <1>3, <2>1 DEF LInv, ChargesTyped, ChargesInv, RowInv, Rows
  <2>2. ASSUME NEW outcome \in {"PROCESSING", "CAPTURED", "DECLINED"},
               outcome = answer \/ answer = "error",
               captured' = [captured EXCEPT ![p] = outcome],
               hooks' = hooksFor(p, outcome)
        PROVE  <1>5!:
    BY <1>2, <1>3, <2>2, CapturedStep DEF NoRow
  <2>3. QED
    BY <1>4, <2>1, <2>2
<1>6. ASSUME NEW g \in Handlers \ {h}, NEW r, r = handler[g] PROVE HandlerInv(r)'
  <2>1. rowed(handler[g]) => handler[g].row # p
    BY <1>1, <1>2 DEF LInv, OneEach, HandlersInv, HandlerInv, rowed, Charging, Kept
  <2>2. QED
    BY <1>2, <1>3, <1>5, <1>6, <2>1, RowElsewhere
<1>7. PICK new : new = [handler[h] EXCEPT !.at = "record", !.answer = answer]
  OBVIOUS
<1>8. new \in Handler /\ new.at = "record" /\ new.row = p /\ new.answer = answer
  BY <1>1, <1>7, StepsNamed DEF Handler
<1>9. moves(h, new)
  BY <1>4, <1>7, <1>8 DEF moves
<1>10. HandlerInv(new)' /\ ~Retrying(new)
  BY <1>2, <1>3, <1>5, <1>8 DEF HandlerInv, Charging, Retrying, Refunding
<1>11. \A g \in Handlers \ {h} :
         Charging(handler[g]) \/ Retrying(handler[g]) => handler[g].row # new.row
  BY <1>1, <1>8 DEF LInv, OneEach, Charging
<1>12. QED
  BY <1>5, <1>6, <1>9, <1>10, <1>11, HandlersStep

\* The insert: no live row is there, so the new one is the only one.
LEMMA InsertChargeStep ==
  ASSUME LInv, NEW h \in Handlers, insertCharge(h)
  PROVE  LInv'
<1>1. handler[h] \in Handler /\ UNCHANGED <<captured, hooks>>
  BY DEF LInv, HandlersTyped, insertCharge, gateway
<1>2. CASE finish(h) /\ UNCHANGED payment
  BY <1>1, <1>2, FinishQuiet, QuietStep DEF quiet
<1>3. ASSUME ~keyTaken, NEW p \in Charges \ Rows,
             payment' = [payment EXCEPT ![p] =
                   [status |-> "REQUIRES_PAYMENT", cents |-> Pay * Cardinality(OnJob),
                    refunded |-> 0, live |-> TRUE, intent |-> FALSE]],
             handler' = [handler EXCEPT ![h].at = "call", ![h].row = p]
      PROVE  LInv'
  <2>1. PICK row : row = [status |-> "REQUIRES_PAYMENT", cents |-> Pay * Cardinality(OnJob),
                          refunded |-> 0, live |-> TRUE, intent |-> FALSE]
    OBVIOUS
  <2>2. Pay * Cardinality(OnJob) \in Nat
    <3>1. OnJob \subseteq Workers
      BY DEF OnJob, ActiveWorkers, CompletedWorkers
    <3>2. Cardinality(OnJob) \in Nat
      BY <3>1, WorkersFinite, FS_Subset, FS_CardinalityType
    <3>3. Pay \in Nat
      BY AmountsNat
    <3>4. QED
      BY <3>2, <3>3
  <2>3. /\ row \in Payment /\ row.live /\ ~row.intent /\ row.status = "REQUIRES_PAYMENT"
        /\ row # NoPayment
    BY <2>1, <2>2 DEF Payment, NoPayment, NoRow
  <2>4. payment' = [payment EXCEPT ![p] = row]
    BY <1>3, <2>1
  <2>5. /\ payment'[p] = row /\ Rows' = Rows \cup {p}
        /\ \A q \in Charges \ {p} : payment'[q] = payment[q]
    BY <2>3, <2>4 DEF Rows, LInv, ChargesTyped
  <2>6. ChargesTyped'
    BY <1>1, <2>3, <2>4 DEF LInv, ChargesTyped
  <2>7. ChargesInv'
    <3>1. \A q \in Rows : ~payment[q].live /\ q # p
      BY <1>3 DEF keyTaken
    <3>2. \A q \in Rows' : RowInv(q)'
      BY <1>1, <2>3, <2>5 DEF LInv, ChargesInv, RowInv, Rows, Kept
    <3>3. QED
      BY <1>1, <2>3, <2>5, <3>1, <3>2 DEF LInv, ChargesInv, Rows
  <2>8. ASSUME NEW g \in Handlers \ {h}, NEW r, r = handler[g] PROVE HandlerInv(r)'
    <3>1. HandlerInv(r)
      BY <2>8 DEF LInv, HandlersInv
    <3>2. rowed(r) => r.row \in Rows
      BY <3>1 DEF HandlerInv, rowed
    <3>3. QED
      BY <1>1, <2>5, <3>1, <3>2, RecordKept DEF Rows
  <2>9. PICK new : new = [handler[h] EXCEPT !.at = "call", !.row = p]
    OBVIOUS
  <2>10. new \in Handler /\ new.at = "call" /\ new.row = p
    BY <1>1, <2>9, StepsNamed DEF Handler
  <2>11. moves(h, new)
    BY <1>3, <2>9, <2>10 DEF moves
  <2>12. captured[p] = NoRow
    BY DEF LInv, ChargesInv
  <2>13. HandlerInv(new)' /\ ~Retrying(new)
    BY <1>1, <2>3, <2>5, <2>10, <2>12 DEF HandlerInv, Charging, Retrying, Refunding
  <2>14. \A g \in Handlers \ {h} :
           Charging(handler[g]) \/ Retrying(handler[g]) => handler[g].row # new.row
    BY <2>10 DEF LInv, HandlersInv, HandlerInv
  <2>15. QED
    BY <2>6, <2>7, <2>8, <2>11, <2>13, <2>14, HandlersStep
<1>4. QED
  BY <1>2, <1>3 DEF insertCharge

\* A retry claims a FAILED row, which no handler is charging.
LEMMA RetryStep ==
  ASSUME LInv, NEW h \in Handlers, retryCharge(h)
  PROVE  LInv'
<1>1. PICK p \in RowsIn({"FAILED"}) :
        launch(h, [Starting("cancel row") EXCEPT !.row = p])
  BY DEF retryCharge
<1>2. UNCHANGED <<payment, captured, hooks>>
  BY DEF retryCharge, books, gateway
<1>3. p \in Rows /\ p \in Charges /\ payment[p].status = "FAILED"
  BY DEF RowsIn, Rows
<1>4. PICK new : new = [Starting("cancel row") EXCEPT !.row = p]
  OBVIOUS
<1>5. Starting("cancel row") \in Handler /\ Starting("cancel row").at = "cancel row"
  BY StartingTyped, StepsNamed
<1>6. new \in Handler /\ new.at = "cancel row" /\ new.row = p
  BY <1>3, <1>4, <1>5 DEF Handler
<1>7. moves(h, new)
  BY <1>1, <1>4, <1>6 DEF launch, moves
<1>8. ChargesTyped' /\ ChargesInv' /\ Rows' = Rows
  BY <1>2 DEF LInv, ChargesTyped, ChargesInv, RowInv, Rows
<1>9. ASSUME NEW g \in Handlers \ {h}, NEW r, r = handler[g] PROVE HandlerInv(r)'
  BY <1>2, <1>8, <1>9, RecordKept DEF LInv, HandlersInv, HandlerInv, rowed
<1>10. HandlerInv(new)' /\ ~Charging(new)
  BY <1>2, <1>3, <1>6, <1>8 DEF HandlerInv, Charging, Retrying, Refunding
<1>11. \A g \in Handlers \ {h} : Charging(handler[g]) => handler[g].row # new.row
  BY <1>3, <1>6 DEF LInv, HandlersInv, HandlerInv, Charging, Kept
<1>12. QED
  BY <1>7, <1>8, <1>9, <1>10, <1>11, HandlersStep

\* A step that moves no handler.
LEMMA ServerIdle ==
  ASSUME LInv, UNCHANGED handler, ChargesTyped', ChargesInv',
         \A g \in Handlers : \A r : r = handler[g] => HandlerInv(r)'
  PROVE  LInv'
<1>1. HandlersTyped' /\ OneEach'
  BY DEF LInv, HandlersTyped, OneEach, Charging, Retrying
<1>2. HandlersInv'
  <2>1. ASSUME NEW g \in Handlers PROVE HandlerInv(handler[g])'
    <3>1. PICK r : r = handler[g]
      OBVIOUS
    <3>2. HandlerInv(r)'
      BY <3>1
    <3>3. QED
      BY <3>1, <3>2 DEF HandlerInv
  <2>2. QED
    BY <2>1 DEF HandlersInv
<1>3. QED
  BY <1>1, <1>2 DEF LInv

\* The gateway ends a charge on its own.
LEMMA SettleStep ==
  ASSUME LInv, gatewaySettles
  PROVE  LInv'
<1>1. PICK p \in Charges, outcome \in {"CAPTURED", "DECLINED"} :
        /\ captured[p] = "PROCESSING"
        /\ captured' = [captured EXCEPT ![p] = outcome]
        /\ hooks' = hooksFor(p, outcome)
  BY DEF gatewaySettles
<1>2. UNCHANGED <<payment, handler>>
  BY DEF gatewaySettles, books
<1>3. p \in Rows
  BY <1>1 DEF LInv, ChargesInv, NoRow
<1>4. /\ ChargesTyped' /\ ChargesInv' /\ Rows' = Rows
      /\ \A q \in Charges \ {p} : captured'[q] = captured[q]
  BY <1>1, <1>2, <1>3, CapturedStep
<1>5. ASSUME NEW g \in Handlers, NEW r, r = handler[g] PROVE HandlerInv(r)'
  <2>1. HandlerInv(r)
    BY <1>5 DEF LInv, HandlersInv
  <2>2. CASE rowed(r) /\ r.row = p
    BY <1>1, <1>2, <1>4, <2>1, <2>2
    DEF HandlerInv, rowed, Charging, Retrying, Refunding, NoRow
  <2>3. CASE ~(rowed(r) /\ r.row = p)
    BY <1>2, <1>3, <1>4, <1>5, <2>3, RowElsewhere
  <2>4. QED
    BY <2>2, <2>3
<1>6. QED
  BY <1>2, <1>4, <1>5, ServerIdle

\* A webhook: only a row that awaits an outcome takes it.
LEMMA WebhookStep ==
  ASSUME LInv, processWebhook \/ webhookLost
  PROVE  LInv'
<1>1. UNCHANGED <<captured, handler>> /\ hooks' \subseteq hooks
  BY DEF processWebhook, webhookLost, books
<1>2. CASE UNCHANGED payment
  <2>1. ChargesTyped' /\ ChargesInv' /\ Rows' = Rows
    BY <1>1, <1>2 DEF LInv, ChargesTyped, ChargesInv, RowInv, Rows
  <2>2. ASSUME NEW g \in Handlers, NEW r, r = handler[g] PROVE HandlerInv(r)'
    BY <1>1, <1>2, <2>1, <2>2, RecordKept DEF LInv, HandlersInv, HandlerInv, rowed
  <2>3. QED
    BY <1>1, <2>1, <2>2, ServerIdle
<1>3. ASSUME payment' # payment PROVE LInv'
  <2>1. PICK event \in hooks :
          LET p == event[1] IN
          /\ payment[p].intent
          /\ payment[p].status \in {"REQUIRES_PAYMENT", "PROCESSING"}
          /\ payment' = [payment EXCEPT ![p].status =
                           IF event[2] = "CAPTURED" THEN "SUCCEEDED" ELSE "FAILED"]
    BY <1>3 DEF processWebhook, webhookLost, books
  <2>2. PICK p : p = event[1]
    OBVIOUS
  <2>3. p \in Charges /\ (event[2] = "CAPTURED" => captured[p] = "CAPTURED")
    BY <2>2 DEF LInv, ChargesTyped, ChargesInv
  <2>4. p \in Rows /\ payment[p] \in Payment
    BY <2>1, <2>2, <2>3 DEF Rows, LInv, ChargesTyped, NoPayment
  <2>5. payment[p].status = "PROCESSING" /\ payment[p].live
    BY <2>1, <2>2, <2>4 DEF LInv, ChargesInv, RowInv, GIVEN_UP
  <2>6. PICK row : row = [payment[p] EXCEPT !.status =
                            IF event[2] = "CAPTURED" THEN "SUCCEEDED" ELSE "FAILED"]
    OBVIOUS
  <2>7. /\ row \in Payment /\ row.live
        /\ row.status \in {"SUCCEEDED", "FAILED"}
        /\ row.status = "SUCCEEDED" => event[2] = "CAPTURED"
    BY <2>4, <2>5, <2>6 DEF Payment
  <2>8. payment' = [payment EXCEPT ![p] = row]
    BY <2>1, <2>2, <2>6
  <2>9. /\ ChargesTyped' /\ ChargesInv' /\ Rows' = Rows
        /\ \A q \in Charges \ {p} : payment'[q] = payment[q]
    BY <1>1, <2>3, <2>4, <2>5, <2>7, <2>8, RowStep DEF Kept
  <2>10. ASSUME NEW g \in Handlers, NEW r, r = handler[g] PROVE HandlerInv(r)'
    <3>1. rowed(handler[g]) => handler[g].row # p
      BY <2>5 DEF LInv, HandlersInv, HandlerInv, rowed, Charging, Retrying, Kept, GIVEN_UP
    <3>2. QED
      BY <1>1, <2>4, <2>9, <2>10, <3>1, RowElsewhere
  <2>11. QED
    BY <1>1, <2>9, <2>10, ServerIdle
<1>4. QED
  BY <1>2, <1>3

\* After a crash no handler claims anything.
LEMMA CrashStep ==
  ASSUME LInv, crash
  PROVE  LInv'
<1>1. handler' = [h \in Handlers |-> NoHandler] /\ UNCHANGED <<payment, captured, hooks>>
  BY DEF crash, books, gateway
<1>2. ChargesTyped' /\ ChargesInv'
  BY <1>1 DEF LInv, ChargesTyped, ChargesInv, RowInv, Rows
<1>3. HandlersTyped'
  BY <1>1, IdleTyped DEF HandlersTyped
<1>4. HandlersInv' /\ OneEach'
  BY <1>1 DEF HandlersInv, OneEach, HandlerInv, NoHandler, Charging, Retrying, Refunding
<1>5. QED
  BY <1>2, <1>3, <1>4 DEF LInv

-----------------------------------------------------------------------------
(* Every step *)

\* The steps handlers start at.
FIRST_STEPS == {"charge", "release", "outcome", "auto confirm", "fixed refund"}

\* A step of the job leaves the money alone, but for a handler it may start.
LEMMA JobEvents ==
  ASSUME jobStepTaken \/ \E r \in Requests : serve(r)
  PROVE  \/ UNCHANGED money
         \/ \E new \in Handler : new.at \in FIRST_STEPS /\ emit(new)
<1>1. \A s \in FIRST_STEPS : Starting(s) \in Handler /\ Starting(s).at = s
  BY StartingTyped, StepsNamed DEF FIRST_STEPS
<1>2. ASSUME NEW s \in FIRST_STEPS, emit(Starting(s))
      PROVE  \E new \in Handler : new.at \in FIRST_STEPS /\ emit(new)
  BY <1>1, <1>2
<1>3. CASE \E r \in Requests : serve(r)
  BY <1>2, <1>3 DEF serve, nothingEmitted, FIRST_STEPS
<1>4. CASE post
  BY <1>4 DEF post, nothingEmitted
<1>5. CASE \E w \in Workers : accept(w)
  BY <1>2, <1>5 DEF accept, nothingEmitted, FIRST_STEPS
<1>6. CASE \E r \in Requests, w \in Workers, to \in WORK_STEPS \cup {"CANCELLED_BY_WORKER"} :
             ask(r, w, to)
  BY <1>6 DEF ask, nothingEmitted
<1>7. CASE callOff
  <2>1. PICK bps \in {ALL_BPS, LateRefundBps} :
          emit([Starting("outcome") EXCEPT !.bps = bps, !.todo = SetOut])
    BY <1>7 DEF callOff
  <2>2. bps \in Nat
    BY BpsNat
  <2>3. SetOut \subseteq Workers
    BY DEF SetOut, ActiveWorkers
  <2>4. Starting("outcome") \in Handler /\ Starting("outcome").at = "outcome"
    BY <1>1 DEF FIRST_STEPS
  <2>5. PICK new : new = [Starting("outcome") EXCEPT !.bps = bps, !.todo = SetOut]
    OBVIOUS
  <2>6. new \in Handler /\ new.at = "outcome"
    BY <2>2, <2>3, <2>4, <2>5 DEF Handler
  <2>7. QED
    BY <2>1, <2>5, <2>6 DEF FIRST_STEPS
<1>8. CASE confirm \/ scanCompletions
  BY <1>2, <1>8 DEF confirm, scanCompletions, FIRST_STEPS
<1>9. CASE (closeSettledJobs \/ openDispute) /\ nothingEmitted
  BY <1>9 DEF nothingEmitted
<1>10. CASE \E resolution \in RESOLUTIONS : resolve(resolution)
  <2>1. PICK resolution \in RESOLUTIONS : resolve(resolution)
    BY <1>10
  <2>2. CASE resolution = "RELEASE"
    BY <1>2, <2>1, <2>2 DEF resolve, FIRST_STEPS
  <2>3. CASE resolution = "REFUND_FULL"
    <3>1. PICK new : new = [Starting("outcome") EXCEPT !.bps = ALL_BPS]
      OBVIOUS
    <3>2. new \in Handler /\ new.at = "outcome"
      BY <1>1, <3>1, BpsNat DEF Handler, FIRST_STEPS
    <3>3. QED
      BY <2>1, <2>3, <3>1, <3>2 DEF resolve, FIRST_STEPS
  <2>4. CASE resolution = "REFUND_PARTIAL"
    <3>1. PICK new : new = [Starting("fixed refund") EXCEPT !.cents = PartialAmount]
      OBVIOUS
    <3>2. new \in Handler /\ new.at = "fixed refund"
      BY <1>1, <3>1, AmountsNat DEF Handler, FIRST_STEPS
    <3>3. QED
      BY <2>1, <2>4, <3>1, <3>2 DEF resolve, FIRST_STEPS
  <2>5. CASE resolution = "OTHER"
    BY <2>1, <2>5 DEF resolve, nothingEmitted
  <2>6. QED
    BY <2>2, <2>3, <2>4, <2>5 DEF RESOLUTIONS
<1>11. QED
  BY <1>3, <1>4, <1>5, <1>6, <1>7, <1>8, <1>9, <1>10 DEF jobStepTaken

\* A step that leaves the money alone keeps the invariant.
LEMMA MoneyIdle ==
  ASSUME LInv, UNCHANGED money
  PROVE  LInv'
<1>1. UNCHANGED <<payment, captured, hooks, handler>>
  BY DEF money, books, gateway
<1>2. ChargesTyped' /\ ChargesInv' /\ Rows' = Rows
  BY <1>1 DEF LInv, ChargesTyped, ChargesInv, RowInv, Rows
<1>3. ASSUME NEW g \in Handlers, NEW r, r = handler[g] PROVE HandlerInv(r)'
  BY <1>1, <1>2, <1>3, RecordKept DEF LInv, HandlersInv, HandlerInv, rowed
<1>4. QED
  BY <1>1, <1>2, <1>3, ServerIdle

\* Every step of a handler does.
LEMMA HandlerStep ==
  ASSUME LInv, NEW h \in Handlers, retryCharge(h) \/ handle(h) \/ abandon(h)
  PROVE  LInv'
<1>1. ASSUME quiet(h) PROVE LInv'
  BY <1>1, QuietStep DEF quiet
<1>2. CASE retryCharge(h)
  BY <1>2, RetryStep
<1>3. CASE \/ readJob(h) \/ abandon(h) \/ closeRelease(h) \/ confirmScanned(h)
           \/ insertRefund(h) \/ recordRefund(h)
  BY <1>1, <1>3, QuietSteps
<1>4. CASE insertCharge(h) \/ callCharge(h) \/ recordCharge(h) \/ noteCharge(h)
  BY <1>4, InsertChargeStep, CallChargeStep, RecordChargeStep, NoteStep
<1>5. CASE cancelFailed(h) \/ supersede(h) \/ addToTotal(h)
  BY <1>5, CancelStep, SupersedeStep, TotalStep
<1>6. CASE prepareRelease(h) \/ payNext(h) \/ callTransfer(h) \/ recordTransfer(h)
  BY <1>1, <1>6, ReleaseQuiet, PayNextQuiet, TransferQuiet, RecordTransferQuiet
<1>7. CASE readOutcome(h) \/ compensateNext(h) \/ compensated(h)
  BY <1>1, <1>7, OutcomeQuiet, CompensateQuiet, CompensatedQuiet
<1>8. CASE readFixed(h) \/ callRefund(h)
  BY <1>1, <1>8, FixedQuiet, CallRefundQuiet
<1>9. QED
  BY <1>2, <1>3, <1>4, <1>5, <1>6, <1>7, <1>8 DEF handle

\* Every step of the system does.
LEMMA LedgerStep ==
  ASSUME LInv, [PayNext]_payVars
  PROVE  LInv'
<1>1. CASE UNCHANGED payVars
  BY <1>1, MoneyIdle DEF payVars
<1>2. CASE jobStepTaken \/ \E r \in Requests : serve(r)
  <2>1. CASE UNCHANGED money
    BY <2>1, MoneyIdle
  <2>2. CASE \E new \in Handler : new.at \in FIRST_STEPS /\ emit(new)
    <3>1. PICK h \in Handlers : quiet(h)
      BY <2>2, EventQuiet DEF FIRST_STEPS
    <3>2. QED
      BY <3>1, QuietStep DEF quiet
  <2>3. QED
    BY <1>2, <2>1, <2>2, JobEvents
<1>3. CASE \E h \in Handlers : retryCharge(h) \/ handle(h) \/ abandon(h)
  BY <1>3, HandlerStep
<1>4. CASE gatewaySettles \/ processWebhook \/ webhookLost \/ crash
  BY <1>4, SettleStep, WebhookStep, CrashStep
<1>5. QED
  BY <1>1, <1>2, <1>3, <1>4 DEF PayNext

\* It holds at the start.
LEMMA LedgerInit ==
  ASSUME PayInit
  PROVE  LInv
<1>1. Rows = {}
  BY DEF PayInit, Rows
<1>2. ChargesTyped /\ ChargesInv
  BY <1>1 DEF PayInit, ChargesTyped, ChargesInv
<1>3. HandlersTyped
  BY IdleTyped DEF PayInit, HandlersTyped
<1>4. HandlersInv /\ OneEach
  BY DEF PayInit, HandlersInv, OneEach, HandlerInv, NoHandler, Charging, Retrying, Refunding
<1>5. QED
  BY <1>2, <1>3, <1>4 DEF LInv

\* Charges, handlers and gateway agree as LInv says, throughout (chargeForJob,
\* retryCharge, processWebhook).
THEOREM LedgerInvariance == PaySpec => []LInv
BY LedgerInit, LedgerStep, PTL DEF PaySpec

\* At most one row of a job is neither given up nor given back, whatever charges
\* and retries run at once or die (the unique key, and supersede after cancel).
THEOREM OneLive == PaySpec => []OneLiveCharge
<1>1. LInv => OneLiveCharge
  BY DEF LInv, ChargesInv, RowInv, OneLiveCharge
<1>2. QED
  BY <1>1, LedgerInvariance, PTL
=============================================================================
