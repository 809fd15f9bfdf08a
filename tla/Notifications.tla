--------------------------- MODULE Notifications ----------------------------
(***************************************************************************)
(* Notifications and the push messages that carry them: notify inserts a   *)
(* row, looks up the devices of the user, asks the push service to deliver *)
(* to them, and works through the service's answer, one ticket for each    *)
(* device.  Every statement commits by itself, other notifications and     *)
(* registrations of devices run in between, and a request may be lost      *)
(* after any of them.                                                      *)
(*                                                                         *)
(* The push service is external: it answers for each device that it takes  *)
(* the message, that the device is no longer registered, or another error. *)
(***************************************************************************)
EXTENDS Tables

CONSTANTS
  Recipients,     \* users
  DeviceTokens,   \* 1..n: rows of device_tokens, in the order they are read
  ExpoTokens,     \* those of a form that the push service knows
  NotificationIds \* rows of notifications: bounds what is sent

ASSUME TokensAreNumbered == ExpoTokens \subseteq DeviceTokens /\ DeviceTokens \subseteq Nat
ASSUME TokensFinite == IsFiniteSet(DeviceTokens)

VARIABLES
  device,        \* device_tokens: owner, and whether disabled
  notification,  \* rows of notifications: sent_at, failed_at
  push,          \* dispatchPush of each notification, while it runs
  took,          \* history: notifications that the service took
  reported       \* history: devices the service last said are gone

notificationsVars == <<device, notification, push, took, reported>>

Device == [owner : Recipients, disabled : BOOLEAN]
Notification == [user : Recipients, sent : BOOLEAN, failed : BOOLEAN]

ASSUME AbsentIsNoNotice == Absent \notin Notification /\ Absent \notin Device

\* What a dispatch has read, and the positions it still has to disable.
Push == [at : {"lookup", "post", "record", "disable"},
         devices : SUBSET DeviceTokens, accepted : BOOLEAN, gone : SUBSET Nat]

NotificationsTypeOK ==
  /\ device \in [DeviceTokens -> OrAbsent(Device)]
  /\ notification \in [NotificationIds -> OrAbsent(Notification)]
  /\ push \in [NotificationIds -> OrAbsent(Push)]
  /\ took \subseteq NotificationIds
  /\ reported \subseteq DeviceTokens

NotificationsInit ==
  /\ device = [t \in DeviceTokens |-> Absent]
  /\ notification = [n \in NotificationIds |-> Absent]
  /\ push = [n \in NotificationIds |-> Absent]
  /\ took = {}
  /\ reported = {}

-----------------------------------------------------------------------------
Valid(n) == push[n].devices \cap ExpoTokens

\* The tokens of S in the order in which they are read.
ListOf(S) ==
  CHOOSE list \in [1 .. Cardinality(S) -> S] :
    \A i, j \in 1 .. Cardinality(S) : i < j => list[i] < list[j]

(* Faults: definitions of this module as a plausible slip would have       *)
(* written them, used only to see that the properties below notice them.   *)

\* Without a device the message counts as sent.
Fault_accepts(n, tickets) == \A i \in DOMAIN tickets : tickets[i] # "gone"

\* The device that the i-th ticket is about.
tokenOf(n, i) == ListOf(Valid(n))[i]

accepts(n, tickets) == \E i \in DOMAIN tickets : tickets[i] = "ok"

-----------------------------------------------------------------------------
\* The token of a device follows whoever signs in on it, and is enabled again.
registerDeviceToken(u, t) ==
  /\ device' = [device EXCEPT ![t] = [owner |-> u, disabled |-> FALSE]]
  /\ reported' = reported \
       {r \in {t} : \A n \in Rows(push) : \A i \in push[n].gone : tokenOf(n, i) # r}
  /\ UNCHANGED <<notification, push, took>>

\* The row first: a notification exists whatever becomes of its push.
notify(n, u) ==
  /\ notification[n] = Absent
  /\ notification' = [notification EXCEPT ![n] =
                        [user |-> u, sent |-> FALSE, failed |-> FALSE]]
  /\ push' = [push EXCEPT ![n] = [at |-> "lookup", devices |-> {}, accepted |-> FALSE,
                                  gone |-> {}]]
  /\ UNCHANGED <<device, took, reported>>

\* dispatchPush.  Without valid devices nothing is sent.
findDevices(n) ==
  LET mine == {t \in Rows(device) : device[t].owner = notification[n].user
                                    /\ ~device[t].disabled}
  IN  /\ push[n] # Absent /\ push[n].at = "lookup"
      /\ push' = [push EXCEPT ![n] =
                    IF mine \cap ExpoTokens = {} THEN Absent
                    ELSE [@ EXCEPT !.at = "post", !.devices = mine]]
      /\ UNCHANGED <<device, notification, took, reported>>

\* The service's answer: tickets in the order of the devices, or none.
postPush(n) ==
  /\ push[n] # Absent /\ push[n].at = "post"
  /\ \E tickets \in {<<>>} \cup [1 .. Cardinality(Valid(n)) -> {"ok", "gone", "error"}] :
       LET gone == {i \in DOMAIN tickets : tickets[i] = "gone"}
       IN  /\ push' = [push EXCEPT ![n].at = "record", ![n].gone = gone,
                                   ![n].accepted = accepts(n, tickets)]
           /\ took' = IF \E i \in DOMAIN tickets : tickets[i] = "ok"
                        THEN took \cup {n} ELSE took
           /\ reported' = reported \cup {ListOf(Valid(n))[i] : i \in gone}
  /\ UNCHANGED <<device, notification>>

recordOutcome(n) ==
  /\ push[n] # Absent /\ push[n].at = "record"
  /\ notification' = [notification EXCEPT
                        ![n].sent = @ \/ push[n].accepted,
                        ![n].failed = @ \/ ~push[n].accepted]
  /\ push' = [push EXCEPT ![n] = IF @.gone = {} THEN Absent
                                 ELSE [@ EXCEPT !.at = "disable"]]
  /\ UNCHANGED <<device, took, reported>>

\* The loop over the tickets: the i-th is dealt with.
nextGone(p, i) == IF p.gone = {i} THEN Absent ELSE [p EXCEPT !.gone = @ \ {i}]

disableDevice(n) ==
  /\ push[n] # Absent /\ push[n].at = "disable"
  /\ \E i \in push[n].gone :
       /\ device' = [device EXCEPT ![tokenOf(n, i)].disabled = TRUE]
       /\ push' = [push EXCEPT ![n] = nextGone(push[n], i)]
  /\ UNCHANGED <<notification, took, reported>>

\* Any of it fails: the catch marks the notification, even one marked as sent.
pushFails(n) ==
  /\ push[n] # Absent
  /\ notification' = [notification EXCEPT ![n].failed = TRUE]
  /\ push' = [push EXCEPT ![n] = Absent]
  /\ UNCHANGED <<device, took, reported>>

\* The server dies.
losePush(n) ==
  /\ push[n] # Absent
  /\ push' = [push EXCEPT ![n] = Absent]
  /\ UNCHANGED <<device, notification, took, reported>>

NotificationsNext ==
  \/ \E u \in Recipients, t \in DeviceTokens : registerDeviceToken(u, t)
  \/ \E n \in NotificationIds :
       \/ \E u \in Recipients : notify(n, u)
       \/ findDevices(n) \/ postPush(n) \/ recordOutcome(n)
       \/ disableDevice(n) \/ pushFails(n) \/ losePush(n)

NotificationsSpec == NotificationsInit /\ [][NotificationsNext]_notificationsVars

-----------------------------------------------------------------------------
(* What must hold *)

\* Comment: "sent_at is set only when the push service actually accepted the
\* message - no fake delivery claims" (notifications.service.ts).  And a device
\* is switched off only on the word of the push service about that very device,
\* though tickets and tokens are matched by their places in two lists.
DeliveryRecordTrue ==
  /\ \A n \in Rows(notification) : notification[n].sent => n \in took
  /\ \A t \in Rows(device) : device[t].disabled => t \in reported
=============================================================================
