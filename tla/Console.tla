------------------------------- MODULE Console -------------------------------
(***************************************************************************)
(* What administrators decide in the console: one row, of the kind that    *)
(* one of its pages lists, two people who look at it, and the handlers     *)
(* that carry their decisions out.                                         *)
(*                                                                         *)
(* A page shows what was read when it loaded; the lists that can be        *)
(* searched load anew with every letter typed, and show the answer that    *)
(* arrives last, whichever was asked first.  A decision is one transaction *)
(* or one statement; its record in audit_logs is a statement of its own.   *)
(***************************************************************************)
EXTENDS Tables

CONSTANTS
  Admins,
  MaxDecisions  \* bound: decisions that take effect

ASSUME AdminsFinite == IsFiniteSet(Admins)
ASSUME DecisionsBounded == MaxDecisions \in Nat

VARIABLES
  kind,      \* what the row is: fixed
  status,    \* its status
  seen,     \* the status each administrator sees, or Absent
  answers,   \* lists on their way to each administrator's page
  decision,  \* the request each administrator has sent
  audited,   \* rows in audit_logs
  decisions  \* history: decisions that took effect

consoleRowVars == <<kind, status, seen, answers, decision, audited, decisions>>

KINDS == {"user", "job", "dispute", "report", "category"}

STATUSES ==
  [user |-> {"ACTIVE", "SUSPENDED", "DELETION_REQUESTED"},
   job |-> {"PENDING_REVIEW", "MATCHING", "CANCELLED"},
   dispute |-> {"OPEN", "RESOLVED"},
   report |-> {"OPEN", "REVIEWED", "ACTIONED", "DISMISSED"},
   category |-> {"enabled", "disabled"}]

Decision == [to : UNION {STATUSES[k] : k \in KINDS}, saw : UNION {STATUSES[k] : k \in KINDS},
             at : {"sent", "audit", "reload"}]

ASSUME AbsentIsNoDecision == Absent \notin Decision

ConsoleTypeOK ==
  /\ kind \in KINDS
  /\ status \in STATUSES[kind]
  /\ seen \in [Admins -> OrAbsent(STATUSES[kind])]
  /\ answers \in [Admins -> SUBSET STATUSES[kind]]
  /\ decision \in [Admins -> OrAbsent(Decision)]
  /\ audited \in 0..MaxDecisions /\ decisions \in 0..MaxDecisions

RowInit ==
  /\ kind \in KINDS
  /\ status = [user |-> "ACTIVE", job |-> "PENDING_REVIEW", dispute |-> "OPEN",
               report |-> "OPEN", category |-> "disabled"][kind]
  /\ seen = [a \in Admins |-> Absent]
  /\ answers = [a \in Admins |-> {}]
  /\ decision = [a \in Admins |-> Absent]
  /\ audited = 0 /\ decisions = 0

-----------------------------------------------------------------------------
(* The pages: the buttons they offer beside a row, by the status seen, each *)
(* with the status it leads to.                                             *)

usersPage == [ACTIVE |-> {"SUSPENDED"}, SUSPENDED |-> {"ACTIVE"}, DELETION_REQUESTED |-> {}]

\* Only what waits is listed.
reviewQueuePage == [PENDING_REVIEW |-> {"MATCHING", "CANCELLED"}, MATCHING |-> {}, CANCELLED |-> {}]

disputesPage == [OPEN |-> {"RESOLVED"}, RESOLVED |-> {}]

reportsPage == [OPEN |-> {"REVIEWED", "ACTIONED", "DISMISSED"}, REVIEWED |-> {},
                ACTIONED |-> {}, DISMISSED |-> {}]

categoriesPage == [enabled |-> {"disabled"}, disabled |-> {"enabled"}]

buttons(s) ==
  CASE kind = "user" -> usersPage[s]
    [] kind = "job" -> reviewQueuePage[s]
    [] kind = "dispute" -> disputesPage[s]
    [] kind = "report" -> reportsPage[s]
    [] kind = "category" -> categoriesPage[s]

\* A search box: more than one list may be on its way.
searchable == kind = "user"

-----------------------------------------------------------------------------
(* Faults: definitions of this module as a plausible slip would have       *)
(* written them, used only to see that the property below notices them.    *)

\* The row is written whatever its status.
Fault_suspend(a) == decision[a].to = "SUSPENDED"

(* The handlers: what they want of the row before they write it *)

suspendUser(a) == decision[a].to = "SUSPENDED" /\ status = "ACTIVE"
restoreUser(a) == decision[a].to = "ACTIVE" /\ status = "SUSPENDED"
reviewJob(a) == status = "PENDING_REVIEW"
resolveDispute(a) == status # "RESOLVED"

\* reports and categories are written as they are found.
reviewReport(a) == TRUE
updateEnabled(a) == TRUE

takesEffect(a) ==
  CASE kind = "user" -> suspendUser(a) \/ restoreUser(a)
    [] kind = "job" -> reviewJob(a)
    [] kind = "dispute" -> resolveDispute(a)
    [] kind = "report" -> reviewReport(a)
    [] kind = "category" -> updateEnabled(a)

-----------------------------------------------------------------------------
decisionAt(a, at) == IF decision[a] = Absent THEN FALSE ELSE decision[a].at = at

\* A list is read: at first, after a decision, with every letter of a search.
load(a) ==
  /\ decision[a] = Absent \/ decisionAt(a, "reload")
  /\ answers[a] = {} \/ searchable
  /\ answers' = [answers EXCEPT ![a] = @ \cup {status}]
  /\ decision' = [decision EXCEPT ![a] = Absent]
  /\ UNCHANGED <<kind, status, seen, audited, decisions>>

show(a, s) ==
  /\ s \in answers[a]
  /\ seen' = [seen EXCEPT ![a] = s]
  /\ \E left \in {answers[a] \ {s}, answers[a]} :
       /\ searchable \/ left # answers[a]
       /\ answers' = [answers EXCEPT ![a] = left]
  /\ UNCHANGED <<kind, status, decision, audited, decisions>>

\* A button is pressed and the reason given.
decideRow(a, to) ==
  /\ decision[a] = Absent
  /\ seen[a] # Absent /\ to \in buttons(seen[a])
  /\ decisions < MaxDecisions
  /\ decision' = [decision EXCEPT ![a] = [to |-> to, saw |-> seen[a], at |-> "sent"]]
  /\ UNCHANGED <<kind, status, seen, answers, audited, decisions>>

carryOut(a) ==
  /\ decisionAt(a, "sent")
  /\ takesEffect(a) /\ decisions < MaxDecisions
  /\ status' = decision[a].to
  /\ decisions' = decisions + 1
  /\ decision' = [decision EXCEPT ![a].at = "audit"]
  /\ UNCHANGED <<kind, seen, answers, audited>>

\* The error is shown; the list stays as it was.
refuse(a) ==
  /\ decisionAt(a, "sent")
  /\ ~takesEffect(a)
  /\ decision' = [decision EXCEPT ![a] = Absent]
  /\ UNCHANGED <<kind, status, seen, answers, audited, decisions>>

adminAudit(a) ==
  /\ decisionAt(a, "audit")
  /\ audited' = audited + 1
  /\ decision' = [decision EXCEPT ![a].at = "reload"]
  /\ UNCHANGED <<kind, status, seen, answers, decisions>>

\* The server dies, or the answer is lost.
loseDecision(a) ==
  /\ decision[a] # Absent
  /\ decision' = [decision EXCEPT ![a] = Absent]
  /\ UNCHANGED <<kind, status, seen, answers, audited, decisions>>

\* requestDeletion, and the sign-in that takes it back; the handlers look at
\* the account before they write and not again, so either may overwrite a
\* suspension.  A customer may withdraw a job that waits for its review.
rowMoves ==
  /\ \/ kind = "user" /\ status' \in {"DELETION_REQUESTED", "ACTIVE"}
     \/ kind = "job" /\ status = "PENDING_REVIEW" /\ status' = "CANCELLED"
  /\ UNCHANGED <<kind, seen, answers, decision, audited, decisions>>

RowNext ==
  \/ \E a \in Admins :
       \/ load(a) \/ carryOut(a) \/ refuse(a) \/ adminAudit(a) \/ loseDecision(a)
       \/ \E s \in STATUSES[kind] : show(a, s) \/ decideRow(a, s)
  \/ rowMoves

RowSpec == RowInit /\ [][RowNext]_consoleRowVars

-----------------------------------------------------------------------------
(* What must hold *)

\* What an administrator decides about a user, a job or a dispute happens to
\* the row as it was shown: a decision made on a list that another's decision,
\* the user or the customer has overtaken changes nothing.  (A report and a
\* category are written as they are found: there the later decision stands.)
\* And audit_logs never holds more than what was decided: at most the decisions
\* that were cut off before their record are missing from it.
DecidedAsShown ==
  [][/\ decisions' # decisions /\ kind \notin {"report", "category"} =>
          \E a \in Admins : decision'[a] # decision[a] /\ decision[a].saw = status
     /\ audited' <= decisions']_consoleRowVars
=============================================================================
