----------------------------- MODULE JobChanges -----------------------------
(***************************************************************************)
(* Scope changes of one job, composed with its life (JobLifecycle): the    *)
(* customer proposes other terms, the workers active at that moment are    *)
(* asked, and the last approval changes the job.                           *)
(*                                                                         *)
(* propose locks the job first and is one action.  decide locks the row of *)
(* the change, reads who has not answered yet, and locks the job only if   *)
(* the change is to be applied: it is two actions, takeChange (which holds *)
(* the change's row from then on) and decide (its commit).                 *)
(*                                                                         *)
(* The terms are what CHANGEABLE_FIELDS holds: description, pay, duration  *)
(* and start.  What is charged and what is earned is computed from the     *)
(* terms of its own moment; the payments are in Settlement, for fixed ones.*)
(***************************************************************************)
EXTENDS JobLifecycle

CONSTANTS
  Terms,       \* values of the changeable fields of the job
  FirstTerms,  \* those the job was created with
  Changes      \* ids of the rows of job_changes: bounds the proposals

ASSUME FirstTermsIsTerms == FirstTerms \in Terms

VARIABLES
  terms,     \* the changeable fields of the jobs row
  change,    \* rows of job_changes
  approval,  \* job_change_approvals.decision of each change and worker
  deciding   \* transactions of workers that have locked a change

changeVars == <<terms, change, approval, deciding>>
allVars == <<vars, changeVars>>

NoChange == [status |-> NoRow, old |-> NoRow, new |-> NoRow]
Change == [status : {"PROPOSED", "APPROVED", "DECLINED"}, old : Terms, new : Terms]

\* "last": nobody else was still to answer when the change was locked.
NoDecision == [change |-> NoRow, approve |-> FALSE, last |-> FALSE]
Decision == [change : Changes, approve : BOOLEAN, last : BOOLEAN]

ChangesTypeOK ==
  /\ TypeOK
  /\ terms \in Terms
  /\ change \in [Changes -> Change \cup {NoChange}]
  /\ approval \in [Changes -> [Workers -> {NoRow, "ASKED", "APPROVED", "DECLINED"}]]
  /\ deciding \in [Workers -> Decision \cup {NoDecision}]

ChangesInit ==
  /\ Init
  /\ terms = FirstTerms
  /\ change = [c \in Changes |-> NoChange]
  /\ approval = [c \in Changes |-> [w \in Workers |-> NoRow]]
  /\ deciding = [w \in Workers |-> NoDecision]

-----------------------------------------------------------------------------
CHANGEABLE_STATES == {"MATCHING", "PARTIALLY_FILLED", "FILLED", "IN_PROGRESS"}

Open(c) == change[c].status = "PROPOSED"

\* (A fault, see below: a status that the table does not know.)
Fault_applied(c, old, new) ==
  /\ terms' = new
  /\ change' = [change EXCEPT ![c] = [status |-> "APPLIED", old |-> old, new |-> new]]

\* The proposal's row once its fields have been written to the job.
apply(c, old, new) ==
  /\ terms' = new
  /\ change' = [change EXCEPT ![c] = [status |-> "APPROVED", old |-> old, new |-> new]]

\* The change's row is free to be locked.
Unlocked(c) == \A w \in Workers : deciding[w].change # c

Asked(c) == {w \in Workers : approval[c][w] = "ASKED"}

-----------------------------------------------------------------------------
(* Faults: definitions of this module as a plausible slip would have       *)
(* written them, used only to see that the properties below notice them.   *)

\* The row is read without FOR UPDATE.
Fault_takeUnlocked(w, c, approve) ==
  /\ deciding[w] = NoDecision
  /\ Open(c)
  /\ assignment[w] # NoRow
  /\ w \in Asked(c)
  /\ deciding' = [deciding EXCEPT ![w] =
                    [change |-> c, approve |-> approve, last |-> Asked(c) = {w}]]
  /\ UNCHANGED <<vars, terms, change, approval>>

\* A second proposal is let in.
Fault_proposeTwice(c, new) ==
  /\ change[c] = NoChange
  /\ state \in CHANGEABLE_STATES
  /\ new # terms
  /\ approval' = [approval EXCEPT ![c] =
                    [w \in Workers |-> IF Active(w) THEN "ASKED" ELSE NoRow]]
  /\ IF ActiveWorkers = {}
       THEN apply(c, terms, new)
       ELSE /\ change' = [change EXCEPT ![c] =
                            [status |-> "PROPOSED", old |-> terms, new |-> new]]
            /\ UNCHANGED terms
  /\ UNCHANGED <<vars, deciding>>

-----------------------------------------------------------------------------
\* Refused while another proposal is open, and when nothing would change.
\* Without active workers it is applied at once.
propose(c, new) ==
  /\ change[c] = NoChange
  /\ state \in CHANGEABLE_STATES
  /\ \A d \in Changes : ~Open(d)
  /\ new # terms
  /\ approval' = [approval EXCEPT ![c] =
                    [w \in Workers |-> IF Active(w) THEN "ASKED" ELSE NoRow]]
  /\ IF ActiveWorkers = {}
       THEN apply(c, terms, new)
       ELSE /\ change' = [change EXCEPT ![c] =
                            [status |-> "PROPOSED", old |-> terms, new |-> new]]
            /\ UNCHANGED terms
  /\ UNCHANGED <<vars, deciding>>

\* A worker answers, once: the row is locked, and who else is still to answer
\* is read.  Having left the job meanwhile does not matter.
takeChange(w, c, approve) ==
  /\ deciding[w] = NoDecision
  /\ Unlocked(c)
  /\ Open(c)
  /\ assignment[w] # NoRow
  /\ w \in Asked(c)
  /\ deciding' = [deciding EXCEPT ![w] =
                    [change |-> c, approve |-> approve, last |-> Asked(c) = {w}]]
  /\ UNCHANGED <<vars, terms, change, approval>>

\* The answer is committed.  A refusal ends the proposal; the last approval
\* locks the job and applies it, whatever state the job is in by then.
decide(w) ==
  LET d == deciding[w]
      c == d.change
  IN  /\ d # NoDecision
      /\ deciding' = [deciding EXCEPT ![w] = NoDecision]
      /\ \/ /\ ~d.approve
            /\ approval' = [approval EXCEPT ![c][w] = "DECLINED"]
            /\ change' = [change EXCEPT ![c].status = "DECLINED"]
            /\ UNCHANGED terms
         \/ /\ d.approve /\ ~d.last
            /\ approval' = [approval EXCEPT ![c][w] = "APPROVED"]
            /\ UNCHANGED <<terms, change>>
         \/ /\ d.approve /\ d.last
            /\ approval' = [approval EXCEPT ![c][w] = "APPROVED"]
            /\ apply(c, change[c].old, change[c].new)
      /\ UNCHANGED vars

\* The transaction fails or its server dies: nothing is kept.
dropDecision(w) ==
  /\ deciding[w] # NoDecision
  /\ deciding' = [deciding EXCEPT ![w] = NoDecision]
  /\ UNCHANGED <<vars, terms, change, approval>>

\* A step of the job's life; it does not look at the proposals.
liveOn == Next /\ UNCHANGED changeVars

ChangesNext ==
  \/ liveOn
  \/ \E c \in Changes, new \in Terms : propose(c, new)
  \/ \E w \in Workers, c \in Changes, approve \in BOOLEAN : takeChange(w, c, approve)
  \/ \E w \in Workers : decide(w) \/ dropDecision(w)

ChangesSpec == ChangesInit /\ [][ChangesNext]_allVars

-----------------------------------------------------------------------------
(* What must hold *)

\* The diff that people are asked about, and that the history keeps, is the
\* diff that would be applied: as long as a proposal is open, nothing else
\* has changed the terms it starts from.
DiffStillTrue == \A c \in Changes : Open(c) => change[c].old = terms

\* A proposal is what its answers make it, however they raced: applied only
\* with the approval of every worker who was asked, declined only by one of
\* them; and while it is open it waits for somebody, the last approval never
\* slipping through between two that each saw the other missing.
AnswersDecide ==
  \A c \in Changes :
    /\ Open(c) => Asked(c) # {}
    /\ change[c].status = "APPROVED" =>
         \A w \in Workers : approval[c][w] \in {NoRow, "APPROVED"}
    /\ change[c].status = "DECLINED" =>
         \E w \in Workers : approval[c][w] = "DECLINED"
=============================================================================
