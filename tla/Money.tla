-------------------------------- MODULE Money --------------------------------
(***************************************************************************)
(* The numbers of one job, in cents: what its customer is charged, what    *)
(* is withheld and sent to each worker who completes, what a cancellation  *)
(* pays to those who had set out and gives back.  Each number is computed  *)
(* by another handler, from the pay and from the fee in force at its own   *)
(* moment.  How the money moves, with failures and repeated calls, is in   *)
(* Settlement, where the amounts are fixed; here every transfer succeeds,  *)
(* and the handlers of a job follow each other.                            *)
(***************************************************************************)
EXTENDS Tables, FiniteSetsExt

CONSTANTS
  PayTerms,   \* values of pay_type, pay_cents, estimated_duration_minutes
  FeeRows,    \* rows of platform_fees: percent_bps and fixed_cents
  LateBps,    \* customer_late_cancel_fee_bps of the settings
  Crew        \* the workers who can be on the job

\* What the columns of the tables accept; the setting is not validated.
ASSUME MoneyAssumption ==
  /\ \A t \in PayTerms : t.pay_cents \in Nat \ {0} /\ t.minutes \in Nat
  /\ \A row \in FeeRows : row.percent_bps \in 0..10000 /\ row.fixed_cents \in Nat
  /\ LateBps \in Int
  /\ IsFiniteSet(Crew)

VARIABLES
  pay,        \* the terms of the job
  feeInForce, \* the row of platform_fees that computeFee finds, if any
  bill,       \* the row of the charge
  earnings,   \* job_workers.earnings_cents of those who completed
  sent,       \* rows of payouts: the earnings or the compensation of a worker
  returned,   \* the refund of a cancellation
  fate,       \* how far the job is
  repriced, feeMoved \* history: the pay, or the fee, was changed after the charge

jobMoneyVars == <<pay, feeInForce, bill, earnings, sent, returned, fate, repriced, feeMoved>>

MoneyTypeOK ==
  /\ pay \in PayTerms
  /\ feeInForce \in OrAbsent(FeeRows)
  /\ bill \in OrAbsent([cents : Nat, fee : Nat, crew : SUBSET Crew])
  /\ earnings \in [Crew -> OrAbsent(Nat)]
  /\ sent \in [Crew -> OrAbsent([cents : Nat, fee : Nat])]
  /\ returned \in Nat
  /\ fate \in {"open", "released", "cancelled"}
  /\ repriced \in BOOLEAN /\ feeMoved \in BOOLEAN

MoneyInit ==
  /\ pay \in PayTerms
  /\ feeInForce \in OrAbsent(FeeRows)
  /\ bill = Absent
  /\ earnings = [w \in Crew |-> Absent] /\ sent = [w \in Crew |-> Absent]
  /\ returned = 0
  /\ fate = "open"
  /\ repriced = FALSE /\ feeMoved = FALSE

-----------------------------------------------------------------------------
(* The computations *)

AtMost(n, limit) == IF n <= limit THEN n ELSE limit

\* Math.round(a / b), a and b not negative: a half is rounded up.
rounded(a, b) == (2 * a + b) \div (2 * b)

\* platform_fee_cents: without a row in force nothing is taken.
computeFee(gross, row) ==
  IF row = Absent THEN 0
  ELSE AtMost(rounded(gross * row.percent_bps, 10000) + row.fixed_cents, gross)

grossPerWorker(t) ==
  IF t.pay_type = "FLAT" THEN t.pay_cents ELSE rounded(t.pay_cents * t.minutes, 60)

\* What a cancellation by the customer entails.
outcome(active, travelled, enoughNotice) ==
  CASE active = {} -> [refund_bps |-> 10000, compensation |-> 0]
    [] travelled # {} ->
         [refund_bps |-> 10000, compensation |-> rounded(grossPerWorker(pay), 4)]
    [] OTHER ->
         [refund_bps |-> IF enoughNotice THEN 10000 ELSE 10000 - LateBps,
          compensation |-> 0]

\* (A fault, to see that the property below notices it: what was paid to the
\* workers is forgotten.)
Fault_refundInFull(cents, paid, bps) == rounded(cents * bps, 10000)

customerPart(cents, paid, bps) == AtMost(rounded(cents * bps, 10000), cents - paid)

-----------------------------------------------------------------------------
\* The gross of those committed, and the fee of it all.
chargeForJob(committed) ==
  /\ bill = Absent /\ fate = "open"
  /\ committed # {}
  /\ LET gross == grossPerWorker(pay) * Cardinality(committed)
     IN  bill' = [cents |-> gross, fee |-> computeFee(gross, feeInForce), crew |-> committed]
  /\ UNCHANGED <<pay, feeInForce, earnings, sent, returned, fate, repriced, feeMoved>>

setEarnings(w) ==
  /\ bill # Absent /\ fate = "open"
  /\ w \in bill.crew /\ earnings[w] = Absent
  /\ earnings' = [earnings EXCEPT ![w] = grossPerWorker(pay)]
  /\ UNCHANGED <<pay, feeInForce, bill, sent, returned, fate, repriced, feeMoved>>

net(w) == earnings[w] - computeFee(earnings[w], feeInForce)

Payable == {w \in Rows(earnings) : earnings[w] > 0}

\* One transaction for all who completed.  A payout of nothing is refused by
\* the table (CHECK amount_cents > 0), and with it the whole release.
releasePayouts ==
  /\ fate = "open" /\ Rows(earnings) # {}
  /\ \A w \in Payable : net(w) > 0
  /\ sent' = [w \in Crew |->
                IF w \notin Payable THEN Absent
                ELSE [cents |-> net(w), fee |-> earnings[w] - net(w)]]
  /\ fate' = "released"
  /\ UNCHANGED <<pay, feeInForce, bill, earnings, returned, repriced, feeMoved>>

\* Those who are still on the job lose their places, some of them on the way;
\* they are compensated first, and the customer gets of the rest.
cancelJob(active, travelled, enoughNotice) ==
  /\ bill # Absent /\ fate = "open"
  /\ LET o == outcome(active, travelled, enoughNotice)
         refund == customerPart(bill.cents, Cardinality(travelled) * o.compensation,
                                o.refund_bps)
     IN  /\ sent' = [w \in Crew |-> IF w \in travelled /\ o.compensation > 0
                       THEN [cents |-> o.compensation, fee |-> 0] ELSE Absent]
         /\ returned' = IF refund > 0 THEN refund ELSE 0
  /\ fate' = "cancelled"
  /\ UNCHANGED <<pay, feeInForce, bill, earnings, repriced, feeMoved>>

\* An approved scope change; the charge is not touched.
changePay(t) ==
  /\ bill # Absent /\ fate = "open" /\ t # pay
  /\ pay' = t
  /\ repriced' = TRUE
  /\ UNCHANGED <<feeInForce, bill, earnings, sent, returned, fate, feeMoved>>

\* Time passes: another row of platform_fees is active now, or none.
feeChanges(row) ==
  /\ bill # Absent /\ fate = "open" /\ row # feeInForce
  /\ feeInForce' = row
  /\ feeMoved' = TRUE
  /\ UNCHANGED <<pay, bill, earnings, sent, returned, fate, repriced>>

MoneyNext ==
  \/ \E committed \in SUBSET Crew : chargeForJob(committed)
  \/ \E w \in Crew : setEarnings(w)
  \/ releasePayouts
  \/ /\ bill # Absent
     /\ \E active \in SUBSET (bill.crew \ Rows(earnings)), enoughNotice \in BOOLEAN :
          \E travelled \in SUBSET active : cancelJob(active, travelled, enoughNotice)
  \/ \E t \in PayTerms : changePay(t)
  \/ \E row \in OrAbsent(FeeRows) : feeChanges(row)

MoneySpec == MoneyInit /\ [][MoneyNext]_jobMoneyVars

-----------------------------------------------------------------------------
(* What must hold *)

toWorkers == SumFunction([w \in Rows(sent) |-> sent[w].cents])
withheld == SumFunction([w \in Rows(sent) |-> sent[w].fee])

\* The charge is divided up to the cent, though its parts are computed one by
\* one, rounded one by one, at other moments and with another fee:
\* a worker is sent something and never more than earned; unless the pay was
\* changed after the charge, no more goes out than was charged, nothing is
\* lost when everybody completes, and a cancellation leaves the platform no
\* cent, but for the late fee; the fee booked with the charge, which the
\* revenue of the console sums up, is withheld up to a cent for each worker.
ChargeDividedUp ==
  bill # Absent =>
    /\ \A w \in Rows(sent) : sent[w].cents > 0 /\ sent[w].fee >= 0
    /\ ~repriced => toWorkers + withheld + returned <= bill.cents
    /\ ~repriced /\ fate = "released" /\ Rows(sent) = bill.crew =>
         /\ toWorkers + withheld = bill.cents
         /\ ~feeMoved => bill.fee <= withheld + Cardinality(bill.crew)
    /\ fate = "cancelled" /\ Rows(sent) # {} /\ ~repriced =>
         toWorkers + returned = bill.cents
=============================================================================
