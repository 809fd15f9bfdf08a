----------------------------- MODULE JobNotices -----------------------------
(***************************************************************************)
(* Who is told of what happens to a job (notifications.listeners.ts).  A   *)
(* handler emits its event after the commit; the listener looks up the     *)
(* recipients later, in a query of its own, so they are taken from the     *)
(* rows of that moment.  Each list is an operator of the assignments'      *)
(* states; how a notice is delivered is the matter of Notifications.       *)
(***************************************************************************)
EXTENDS JobLifecycle

workerIds(states) == {w \in Workers : assignment[w] \in states}

(* Faults: a list as a slip would have written it *)

\* The workers at work are told, those who are done are not.
Fault_toldWhileAtWork == workerIds({"STARTED", "ARRIVED"})

onConfirmed == workerIds({"COMPLETED"})
onJobCancelled == workerIds({"CANCELLED_BY_CUSTOMER"})
onDisputeOpened == workerIds({"COMPLETED", "STARTED", "ARRIVED"})
onDisputeResolved == workerIds({"COMPLETED"})

\* The steps after which each of these events is emitted.
emitsJobCancelled ==
  state # "CANCELLED" /\ state' = "CANCELLED" /\ review_status' = review_status
emitsDisputeOpened == dispute # "OPEN" /\ dispute' = "OPEN"

-----------------------------------------------------------------------------
(* What must hold *)

\* However late the listener looks, it reaches those it was meant for: each
\* worker whose place a cancellation took is told; whoever was at the job, or
\* done with it, when a dispute was opened stays on the list of the dispute
\* unless they leave the job themselves, and nobody drops from the others.
LateNoticesReach ==
  [][/\ emitsJobCancelled => ActiveWorkers \subseteq onJobCancelled'
     /\ onJobCancelled \subseteq onJobCancelled'
     /\ onConfirmed \subseteq onConfirmed'
     /\ onDisputeResolved \subseteq onDisputeResolved'
     /\ state \notin CANCELLABLE_STATES =>
          \A w \in onDisputeOpened :
            w \in onDisputeOpened' \/ assignment'[w] = "CANCELLED_BY_WORKER"]_vars
=============================================================================
