-------------------------------- MODULE Tips --------------------------------
(***************************************************************************)
(* The tip a customer gives to a worker for a completed assignment         *)
(* (payments.service.ts, tipWorker): one charge and one transfer, with a   *)
(* row written before and after each, every statement committing by        *)
(* itself.  The row of the charge is the claim on the assignment's tip:    *)
(* whoever comes second is refused, however the first one ended.           *)
(*                                                                         *)
(* The gateway recognises a repeated charge by the row it is for, and a    *)
(* repeated transfer by the assignment.  Its answer may be lost, and a     *)
(* call may fail or its server die after any step.                         *)
(***************************************************************************)
EXTENDS Tables

CONSTANTS
  CompletedWork, \* completed assignments of the customer's jobs
  TipRows,     \* ids of rows of payments
  TipCalls     \* requests in flight

TIP_STATUSES == {"REQUIRES_PAYMENT", "SUCCEEDED", "FAILED"}
TIP_PAYOUT_STATUSES == {"PENDING", "IN_TRANSIT", "FAILED", "REVERSED"}

ASSUME AbsentIsNoTip ==
  /\ Absent \notin TipRows
  /\ Absent \notin [assignment : CompletedWork, status : TIP_STATUSES]
  /\ Absent \notin TIP_PAYOUT_STATUSES \cup {"succeeded", "declined"}

VARIABLES
  tip,      \* rows of payments of kind TIP
  payout,   \* rows of payouts of kind TIP, one for an assignment at most
  charged,  \* gateway: the outcome of the charge for a row
  transferred, \* gateway: assignments whose tip was transferred
  reversed, \* gateway: transfers that were taken back
  payouts_enabled, \* payout_accounts: transfers are possible
  tipCall,  \* the requests in flight
  told      \* history: payout.released was emitted

tipVars ==
  <<tip, payout, charged, transferred, reversed, payouts_enabled, tipCall, told>>

TipCall == [assignment : CompletedWork, row : OrAbsent(TipRows), answer : BOOLEAN,
            at : {"insert", "charge", "record", "payout", "account", "transfer",
                  "inTransit", "failed", "emit"}]

TipsTypeOK ==
  /\ tip \in [TipRows -> OrAbsent([assignment : CompletedWork,
                                status : TIP_STATUSES])]
  /\ payout \in [CompletedWork -> OrAbsent(TIP_PAYOUT_STATUSES)]
  /\ charged \in [TipRows -> OrAbsent({"succeeded", "declined"})]
  /\ transferred \subseteq CompletedWork
  /\ reversed \subseteq transferred
  /\ payouts_enabled \in BOOLEAN
  /\ tipCall \in [TipCalls -> OrAbsent(TipCall)]
  /\ told \subseteq CompletedWork

TipsInit ==
  /\ tip = [p \in TipRows |-> Absent]
  /\ payout = [a \in CompletedWork |-> Absent]
  /\ charged = [p \in TipRows |-> Absent]
  /\ transferred = {} /\ reversed = {}
  /\ payouts_enabled = FALSE
  /\ tipCall = [k \in TipCalls |-> Absent]
  /\ told = {}

-----------------------------------------------------------------------------
tipRowsOf(a) == {p \in Rows(tip) : tip[p].assignment = a}

(* Fault: a tip that failed may be tried again *)
Fault_retriesFailed(a) ==
  \A p \in tipRowsOf(a) : tip[p].status # "SUCCEEDED"

\* idempotency_key is "assignment:<id>:tip:v1": no row of that assignment yet.
noTipYet(a) == tipRowsOf(a) = {}

tipAt(k, at) == tipCall[k] # Absent /\ tipCall[k].at = at
tipGoes(k, at) == tipCall' = [tipCall EXCEPT ![k].at = at]
endTip(k) == tipCall' = [tipCall EXCEPT ![k] = Absent]

\* A tip is asked for; that job and assignment are completed stays true.
BeginTip(k, a) ==
  /\ tipCall[k] = Absent
  /\ tipCall' = [tipCall EXCEPT ![k] =
                   [assignment |-> a, row |-> Absent, answer |-> FALSE, at |-> "insert"]]
  /\ UNCHANGED <<tip, payout, charged, transferred, reversed, payouts_enabled, told>>

insertTip(k, p) ==
  LET a == tipCall[k].assignment IN
  /\ tipAt(k, "insert")
  /\ noTipYet(a)
  /\ tip[p] = Absent
  /\ tip' = [tip EXCEPT ![p] = [assignment |-> a, status |-> "REQUIRES_PAYMENT"]]
  /\ tipCall' = [tipCall EXCEPT ![k].at = "charge", ![k].row = p]
  /\ UNCHANGED <<payout, charged, transferred, reversed, payouts_enabled, told>>

\* chargeCustomer.  What is not an answer is thrown: the row stays as it is,
\* without the gateway's id, so no webhook finds it either.
chargeTip(k, outcome, arrives) ==
  LET p == tipCall[k].row IN
  /\ tipAt(k, "charge")
  /\ charged' = [charged EXCEPT ![p] = outcome]
  /\ tipCall' = [tipCall EXCEPT ![k] =
                   IF arrives THEN [@ EXCEPT !.at = "record", !.answer = (outcome = "succeeded")]
                              ELSE Absent]
  /\ UNCHANGED <<tip, payout, transferred, reversed, payouts_enabled, told>>

recordCharge(k) ==
  LET q == tipCall[k] IN
  /\ tipAt(k, "record")
  /\ tip' = [tip EXCEPT ![q.row].status = IF q.answer THEN "SUCCEEDED" ELSE "FAILED"]
  /\ IF q.answer THEN tipGoes(k, "payout") ELSE endTip(k)
  /\ UNCHANGED <<payout, charged, transferred, reversed, payouts_enabled, told>>

\* INSERT ... ON CONFLICT (assignment_id, kind) DO NOTHING.
insertPayout(k) ==
  LET a == tipCall[k].assignment IN
  /\ tipAt(k, "payout")
  /\ payout' = [payout EXCEPT ![a] = IF @ = Absent THEN "PENDING" ELSE @]
  /\ tipGoes(k, IF payout[a] = Absent THEN "account" ELSE "emit")
  /\ UNCHANGED <<tip, charged, transferred, reversed, payouts_enabled, told>>

readAccount(k) ==
  /\ tipAt(k, "account")
  /\ tipGoes(k, IF payouts_enabled THEN "transfer" ELSE "failed")
  /\ UNCHANGED <<tip, payout, charged, transferred, reversed, payouts_enabled, told>>

\* createTransfer: what does not answer, made or not, is taken as failed.
transferTip(k, made, arrives) ==
  LET a == tipCall[k].assignment IN
  /\ tipAt(k, "transfer")
  /\ transferred' = IF made THEN transferred \cup {a} ELSE transferred
  /\ tipGoes(k, IF made /\ arrives THEN "inTransit" ELSE "failed")
  /\ UNCHANGED <<tip, payout, charged, reversed, payouts_enabled, told>>

\* The statement may fail: the transfer stands, and the row says FAILED.
recordTransfer(k, fails) ==
  LET a == tipCall[k].assignment IN
  /\ tipAt(k, "inTransit")
  /\ payout' = [payout EXCEPT ![a] = IF fails THEN @ ELSE "IN_TRANSIT"]
  /\ tipGoes(k, IF fails THEN "failed" ELSE "emit")
  /\ UNCHANGED <<tip, charged, transferred, reversed, payouts_enabled, told>>

recordFailure(k) ==
  LET a == tipCall[k].assignment IN
  /\ tipAt(k, "failed")
  /\ payout' = [payout EXCEPT ![a] = "FAILED"]
  /\ tipGoes(k, "emit")
  /\ UNCHANGED <<tip, charged, transferred, reversed, payouts_enabled, told>>

\* The worker is told "You got paid", whether the transfer succeeded or not.
emitReleased(k) ==
  /\ tipAt(k, "emit")
  /\ told' = told \cup {tipCall[k].assignment}
  /\ endTip(k)
  /\ UNCHANGED <<tip, payout, charged, transferred, reversed, payouts_enabled>>

\* The request is refused, a statement fails, or the server dies.
failTip(k) ==
  /\ tipCall[k] # Absent
  /\ endTip(k)
  /\ UNCHANGED <<tip, payout, charged, transferred, reversed, payouts_enabled, told>>

\* The gateway takes a transfer back; the webhook finds the row by the id of
\* the transfer, which only a row in transit has.
reverseTransfer(a) ==
  /\ a \in transferred \ reversed
  /\ reversed' = reversed \cup {a}
  /\ UNCHANGED <<tip, payout, charged, transferred, payouts_enabled, tipCall, told>>

transferReversed(a) ==
  /\ a \in reversed
  /\ payout[a] = "IN_TRANSIT"
  /\ payout' = [payout EXCEPT ![a] = "REVERSED"]
  /\ UNCHANGED <<tip, charged, transferred, reversed, payouts_enabled, tipCall, told>>

setPayoutsEnabled ==
  /\ payouts_enabled' = ~payouts_enabled
  /\ UNCHANGED <<tip, payout, charged, transferred, reversed, tipCall, told>>

TipsNext ==
  \/ \E k \in TipCalls :
       \/ \E a \in CompletedWork : BeginTip(k, a)
       \/ \E p \in TipRows : insertTip(k, p)
       \/ \E outcome \in {"succeeded", "declined"}, arrives \in BOOLEAN :
            chargeTip(k, outcome, arrives)
       \/ \E made, arrives \in BOOLEAN : transferTip(k, made, arrives)
       \/ \E fails \in BOOLEAN : recordTransfer(k, fails)
       \/ recordCharge(k) \/ insertPayout(k) \/ readAccount(k)
       \/ recordFailure(k) \/ emitReleased(k) \/ failTip(k)
  \/ \E a \in CompletedWork : reverseTransfer(a) \/ transferReversed(a)
  \/ setPayoutsEnabled

TipsSpec == TipsInit /\ [][TipsNext]_tipVars

-----------------------------------------------------------------------------
(* What must hold *)

\* A tip is charged once for an assignment, whatever was retried, and the rows
\* claim no more than happened: what is transferred, or told to the worker, was
\* charged and recorded; what is in transit was transferred; and what counts
\* as the worker's earnings was taken from the customer.
TipsBacked ==
  \A a \in CompletedWork :
    LET paid == {p \in tipRowsOf(a) : charged[p] = "succeeded"}
        recorded == {p \in tipRowsOf(a) : tip[p].status = "SUCCEEDED"}
    IN  /\ Cardinality(paid) <= 1
        /\ recorded \subseteq paid
        /\ a \in transferred \cup told => recorded # {}
        /\ payout[a] \in {"IN_TRANSIT", "REVERSED"} => a \in transferred
=============================================================================
