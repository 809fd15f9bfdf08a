------------------------------ MODULE JobFunds ------------------------------
(***************************************************************************)
(* What the customer is charged for a job against what its workers earn    *)
(* from it, while the terms of the job and its crew change (JobChanges).   *)
(*                                                                         *)
(* The charge is computed by chargeForJob from two reads that nothing      *)
(* holds together, the job and then the workers on it; the earnings are    *)
(* fixed one by one, each at the completion of its assignment, from the    *)
(* locked job.  Both are a number of workers at certain terms: what such a *)
(* number is in cents is in Money, how the money moves in Settlement.      *)
(***************************************************************************)
EXTENDS JobChanges

VARIABLES
  charge,  \* the charge of the job: its two reads, then the ledger's row
  earned   \* job_workers.earnings_cents: the terms they were computed from

fundsVars == <<charge, earned>>

NoCharge == [at |-> "none", terms |-> NoRow, crew |-> 0]
Charge == [at : {"reading", "charged"}, terms : Terms, crew : 0 .. WorkersNeeded]

FundsTypeOK ==
  /\ ChangesTypeOK
  /\ charge \in Charge \cup {NoCharge}
  /\ earned \in [Workers -> Terms \cup {NoRow}]

FundsInit ==
  /\ ChangesInit
  /\ charge = NoCharge
  /\ earned = [w \in Workers |-> NoRow]

-----------------------------------------------------------------------------
\* (A fault, see below: who is done already is not counted.)
Fault_atWork == ActiveWorkers

\* The workers whom the charge covers.
committed == ActiveWorkers \cup CompletedWorkers

\* The job is read; it is charged when it is filled, and when work begins.
readForCharge ==
  /\ charge = NoCharge
  /\ state \in {"FILLED", "IN_PROGRESS"}
  /\ charge' = [at |-> "reading", terms |-> terms, crew |-> 0]
  /\ UNCHANGED <<allVars, earned>>

\* The workers are counted, and the row of the charge inserted: there is one
\* of them, whoever comes to insert it first.  The retry of a declined charge
\* reads and counts again: it is the attempt that succeeds which is meant.
countCommitted ==
  /\ charge.at = "reading"
  /\ charge' = IF committed = {} THEN NoCharge
               ELSE [charge EXCEPT !.at = "charged", !.crew = Cardinality(committed)]
  /\ UNCHANGED <<allVars, earned>>

\* Whatever happens to the job and its terms; setEarnings is part of the
\* transaction that completes an assignment.
jobGoesOn ==
  /\ ChangesNext
  /\ earned' = [w \in Workers |->
                  IF assignment[w] # "COMPLETED" /\ assignment'[w] = "COMPLETED"
                    THEN terms ELSE earned[w]]
  /\ UNCHANGED charge

FundsNext == readForCharge \/ countCommitted \/ jobGoesOn

FundsSpec == FundsInit /\ [][FundsNext]_<<allVars, fundsVars>>

-----------------------------------------------------------------------------
(* What must hold *)

\* The one terms became the other: a change away from the first was approved,
\* and one to the second.
Approved == {c \in Changes : change[c].status = "APPROVED"}
LedTo(x, y) ==
  x = y \/ \E c, d \in Approved : change[c].old = x /\ change[d].new = y

\* Doc: "one charge -> N transfers" (PAYMENT_MODEL.md): the charge covers what
\* the workers earn, though it is computed before they work and from two reads
\* that others race: no more of them complete than were counted, and each at
\* the terms that were charged.  Only two things break it: a worker who took
\* the place of another (given up between the two reads, the place is charged
\* to nobody), and approved changes between the terms charged and those earned.
FundsCoverWork ==
  charge.at = "charged" =>
    /\ Cardinality({w \in Workers : assignment[w] # NoRow}) <= WorkersNeeded =>
         Cardinality(CompletedWorkers) <= charge.crew
    /\ \A w \in CompletedWorkers :
         LedTo(earned[w], charge.terms) \/ LedTo(charge.terms, earned[w])
=============================================================================
