----------------------------- MODULE Messaging ------------------------------
(***************************************************************************)
(* The conversation of a customer and a worker about one job: sending,     *)
(* blocking, reading; and the screen on which one of them (Reader) follows *)
(* it.                                                                     *)
(*                                                                         *)
(* No handler opens a transaction.  sendMessage reads the blocks, then the *)
(* job and the assignment, then inserts: three steps.  The screen fetches  *)
(* the newest page again and again, and asks the server to mark what is    *)
(* unread whenever the number of messages it shows has changed (the        *)
(* request it makes while it still shows nothing is left out).             *)
(*                                                                         *)
(* Bodies are left out, and who is not a participant: refused everywhere.  *)
(***************************************************************************)
EXTENDS Tables, Sequences

CONSTANTS
  Reader,       \* the participant whose screen is open
  PageSize,     \* messages in one page
  MaxMessages,  \* bounds what is sent
  MaxMarks      \* bounds the requests to mark that are in flight

People == {"CUSTOMER", "WORKER"}

ASSUME ReaderIsParticipant == Reader \in People
ASSUME PageSizePositive == PageSize \in Nat \ {0}
ASSUME MarksBounded == MaxMarks \in Nat
ASSUME AbsentIsNotSending == Absent \notin {"unblocked", "writable"}

VARIABLES
  conversation, \* the row exists
  messages,     \* rows of messages, by seq
  blockers,     \* who has blocked the other (user_blocks)
  access,       \* what the job and the assignment allow
  sending,      \* how far the request of each person to send has come
  late,         \* history: messages sent since it is forbidden, by each
  fetched,      \* an answer on its way: how many messages there were
  shown,        \* how many there were when the shown page was fetched
  marking,      \* requests to mark as read in flight
  markLost      \* history: one of them has failed

screenVars == <<fetched, shown, marking, markLost>>
messagingVars ==
  <<conversation, messages, blockers, access, sending, late, screenVars>>

\* A job not yet over with the worker on it, or left; over, for less than the
\* 14 days of grace, or for longer.
ACCESSES == {"ACTIVE", "LEFT", "GRACE", "OVER"}

MessagingTypeOK ==
  /\ conversation \in BOOLEAN
  /\ messages \in Seq([sender : People, read : BOOLEAN])
  /\ blockers \subseteq People
  /\ access \in ACCESSES
  /\ sending \in [People -> {Absent, "unblocked", "writable"}]
  /\ late \in [People -> Nat]
  /\ fetched \in OrAbsent(Nat)
  /\ shown \in Nat
  /\ marking \in 0 .. MaxMarks
  /\ markLost \in BOOLEAN

MessagingInit ==
  /\ conversation = FALSE
  /\ messages = <<>>
  /\ blockers = {}
  /\ access = "ACTIVE"
  /\ sending = [p \in People |-> Absent]
  /\ late = [p \in People |-> 0]
  /\ fetched = Absent
  /\ shown = 0
  /\ marking = 0
  /\ markLost = FALSE

-----------------------------------------------------------------------------
Writable == access \in {"ACTIVE", "GRACE"}
Forbidden == blockers # {} \/ ~Writable

\* The history counts from the moment on that sending is forbidden, or is for
\* one more reason.
lateStarts(reason) == late' = IF reason THEN [p \in People |-> 0] ELSE late

(* Faults: definitions of this module as a plausible slip would have       *)
(* written them, used only to see that the properties below notice them.   *)

\* The effect does not depend on the number of messages.
Fault_marksOnce(n) == shown = 0 /\ n # 0

notBlocked(p) == blockers = {}

\* useEffect(..., [id, qc, items.length]): what was shown and is to be shown
\* differ in length, and a page is never longer than its limit.
marksAgain(n) ==
  LET length(k) == IF k < PageSize THEN k ELSE PageSize
  IN  length(n) # length(shown)

-----------------------------------------------------------------------------
(* messaging.service.ts *)

\* One row for the job and the worker, however often it is asked for.
ensureConversation ==
  /\ conversation' = TRUE
  /\ UNCHANGED <<messages, blockers, access, sending, late, screenVars>>

sendMessage(p) ==
  /\ conversation
  /\ sending[p] = Absent
  /\ notBlocked(p)
  /\ sending' = [sending EXCEPT ![p] = "unblocked"]
  /\ UNCHANGED <<conversation, messages, blockers, access, late, screenVars>>

assertConversationWritable(p) ==
  /\ sending[p] = "unblocked"
  /\ sending' = [sending EXCEPT ![p] = IF Writable THEN "writable" ELSE Absent]
  /\ UNCHANGED <<conversation, messages, blockers, access, late, screenVars>>

insertMessage(p) ==
  /\ sending[p] = "writable"
  /\ Len(messages) < MaxMessages
  /\ messages' = Append(messages, [sender |-> p, read |-> FALSE])
  /\ sending' = [sending EXCEPT ![p] = Absent]
  /\ late' = IF Forbidden THEN [late EXCEPT ![p] = @ + 1] ELSE late
  /\ UNCHANGED <<conversation, blockers, access, screenVars>>

loseMessage(p) ==
  /\ sending[p] # Absent
  /\ sending' = [sending EXCEPT ![p] = Absent]
  /\ UNCHANGED <<conversation, messages, blockers, access, late, screenVars>>

blockUser(p) ==
  /\ blockers' = blockers \cup {p}
  /\ lateStarts(blockers = {})
  /\ UNCHANGED <<conversation, messages, access, sending, screenVars>>

unblockUser(p) ==
  /\ p \in blockers
  /\ blockers' = blockers \ {p}
  /\ UNCHANGED <<conversation, messages, access, sending, late, screenVars>>

\* The job and the assignment move on; a place that was left is not taken
\* again, and a dispute makes a paid job current again.
jobMoves(to) ==
  /\ to # access
  /\ access = "LEFT" => to # "ACTIVE"
  /\ access = "OVER" => to # "GRACE"
  /\ access' = to
  /\ lateStarts(Writable /\ to \in {"LEFT", "OVER"})
  /\ UNCHANGED <<conversation, messages, blockers, sending, screenVars>>

-----------------------------------------------------------------------------
(* conversation/[id].tsx, the screen of Reader *)

\* Every five seconds, one request at a time: the newest page.
listMessages ==
  /\ conversation
  /\ fetched = Absent
  /\ fetched' = Len(messages)
  /\ UNCHANGED <<conversation, messages, blockers, access, sending, late,
                 shown, marking, markLost>>

showMessages ==
  /\ fetched # Absent
  /\ shown' = fetched
  /\ fetched' = Absent
  /\ IF marksAgain(fetched) THEN marking < MaxMarks /\ marking' = marking + 1
                            ELSE UNCHANGED marking
  /\ UNCHANGED <<conversation, messages, blockers, access, sending, late, markLost>>

\* Everything that the other has sent is marked, shown or not.
markRead ==
  /\ marking > 0
  /\ marking' = marking - 1
  /\ messages' = [i \in DOMAIN messages |->
                    IF messages[i].sender # Reader THEN [messages[i] EXCEPT !.read = TRUE]
                                                   ELSE messages[i]]
  /\ UNCHANGED <<conversation, blockers, access, sending, late, fetched, shown, markLost>>

\* The failure is swallowed.
loseMark ==
  /\ marking > 0
  /\ marking' = marking - 1
  /\ markLost' = TRUE
  /\ UNCHANGED <<conversation, messages, blockers, access, sending, late, fetched, shown>>

MessagingNext ==
  \/ ensureConversation
  \/ \E p \in People :
       \/ sendMessage(p) \/ assertConversationWritable(p) \/ insertMessage(p)
       \/ loseMessage(p) \/ blockUser(p) \/ unblockUser(p)
  \/ \E to \in ACCESSES : jobMoves(to)
  \/ listMessages \/ showMessages \/ markRead \/ loseMark

MessagingSpec == MessagingInit /\ [][MessagingNext]_messagingVars

-----------------------------------------------------------------------------
(* What must hold *)

\* After a block, by whichever of the two, and after a job is over or left, no
\* more messages arrive than were being sent at that moment: one from each.
LateBounded == \A p \in People : late[p] <= 1

\* What the screen shows does not stay unread: once its requests to mark have
\* been answered, every message shown is marked, as long as none of them
\* failed and the conversation fits into one page.
ShownIsRead ==
  marking = 0 /\ ~markLost /\ shown <= PageSize =>
    \A i \in 1 .. shown : messages[i].sender # Reader => messages[i].read

\* Both hold, whoever writes, reads, blocks and leaves in whatever order.
ConversationHolds == LateBounded /\ ShownIsRead
=============================================================================
