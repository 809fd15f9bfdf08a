------------------------------ MODULE Sessions ------------------------------
(***************************************************************************)
(* The sessions of one account: sign-in, rotation of refresh tokens with   *)
(* detection of reuse, sign-out, and the operations on the account that    *)
(* end every session (deletion, suspension, password reset); and the       *)
(* devices that keep a refresh token between requests.                     *)
(*                                                                         *)
(* A request is a sequence of statements, each a step.  refresh holds the  *)
(* row of the token from its first statement to its commit.  An UPDATE of  *)
(* many rows sees the rows committed when it starts, waits for those that  *)
(* are locked, and passes over those revoked meanwhile: it is two steps,   *)
(* the second when nothing it wants is locked.  Access tokens are not      *)
(* modelled: every guarded request reads the account (jwt-auth.guard), and *)
(* here only those requests that write it are requests.                    *)
(***************************************************************************)
EXTENDS Tables

CONSTANTS
  Devices,       \* clients, each with storage for one refresh token
  SingleFlight,  \* those whose refreshes are shared: one at a time (the app)
  Calls,         \* requests that can be in flight at once
  Tokens         \* rows of refresh_tokens: bounds sign-ins and rotations

ASSUME SingleFlightAreDevices == SingleFlight \subseteq Devices
ASSUME AbsentIsNoToken == Absent \notin Tokens

VARIABLES
  account,   \* users.status
  token,     \* refresh_tokens: family, and whether revoked
  stored,    \* the refresh token each device keeps
  call,      \* the requests in flight
  disturbed  \* history: devices that have lost an answer, or been told to end

sessionVars == <<account, token, stored, call, disturbed>>

ACCOUNT_STATUSES == {"ACTIVE", "SUSPENDED", "DELETION_REQUESTED"}

NoToken == [family |-> Absent, revoked |-> FALSE]
NoCall == [at |-> "idle", device |-> Absent, token |-> Absent, targets |-> {}]
CALL_STEPS == {"refresh", "locked", "reuse", "rotated", "refused", "reactivate",
               "issue", "signedIn", "logout", "clear", "delete", "endAll", "ending"}

\* A family is named by its first token.
SessionsTypeOK ==
  /\ account \in ACCOUNT_STATUSES
  /\ token \in [Tokens -> [family : Tokens, revoked : BOOLEAN] \cup {NoToken}]
  /\ stored \in [Devices -> OrAbsent(Tokens)]
  /\ call \in [Calls -> [at : CALL_STEPS, device : OrAbsent(Devices),
                         token : OrAbsent(Tokens), targets : SUBSET Tokens]
                        \cup {NoCall}]
  /\ disturbed \in SUBSET Devices

SessionsInit ==
  /\ account = "ACTIVE"
  /\ token = [t \in Tokens |-> NoToken]
  /\ stored = [d \in Devices |-> Absent]
  /\ call = [r \in Calls |-> NoCall]
  /\ disturbed = {}

-----------------------------------------------------------------------------
TokenLive(t) == token[t].family # Absent /\ ~token[t].revoked
LiveTokens == {t \in Tokens : TokenLive(t)}
TokenFamily(t) == {u \in Tokens : token[u].family = token[t].family}
TokenLocked(t) == \E r \in Calls : call[r].at = "locked" /\ call[r].token = t
\* Ids are drawn fresh; which one is drawn makes no difference.
FreshToken == CHOOSE t \in Tokens : token[t] = NoToken
Refreshing(d) == \E r \in Calls : /\ call[r].device = d
                                  /\ call[r].at \in {"refresh", "locked", "reuse",
                                                     "rotated", "refused"}

BeginCall(r, at, d, t) ==
  /\ call[r] = NoCall
  /\ call' = [call EXCEPT ![r] = [at |-> at, device |-> d, token |-> t, targets |-> {}]]
CallAt(r, at) == call' = [call EXCEPT ![r].at = at]
EndCall(r) == call' = [call EXCEPT ![r] = NoCall]

-----------------------------------------------------------------------------
(* The devices *)

\* (A fault, see below: the refreshes of the app are not shared.)
Fault_tryRefreshTwice(r, d) ==
  /\ stored[d] # Absent
  /\ BeginCall(r, "refresh", d, stored[d])
  /\ UNCHANGED <<account, token, stored, disturbed>>

\* A request was answered 401 and the device refreshes.  The app joins the
\* refresh that is already running, the console starts another.
tryRefresh(r, d) ==
  /\ stored[d] # Absent
  /\ d \in SingleFlight => ~Refreshing(d)
  /\ BeginCall(r, "refresh", d, stored[d])
  /\ UNCHANGED <<account, token, stored, disturbed>>

\* The answer reaches the device: the new token is stored; after a refusal
\* whatever is stored by then is removed.
receive(r) ==
  LET d == call[r].device
  IN  /\ \/ /\ call[r].at = "rotated"
            /\ stored' = [stored EXCEPT ![d] = call[r].token]
         \/ /\ call[r].at = "refused"
            /\ stored' = [stored EXCEPT ![d] = Absent]
      /\ EndCall(r)
      /\ UNCHANGED <<account, token, disturbed>>

\* The answer of a sign-in is stored over what was there.
storeSignIn(r) ==
  LET d == call[r].device
  IN  /\ call[r].at = "signedIn"
      /\ stored' = [stored EXCEPT ![d] = call[r].token]
      /\ disturbed' = IF Refreshing(d) THEN disturbed \cup {d} ELSE disturbed
      /\ EndCall(r)
      /\ UNCHANGED <<account, token>>

signOut(r, d) ==
  /\ stored[d] # Absent
  /\ BeginCall(r, "logout", d, stored[d])
  /\ disturbed' = disturbed \cup {d}
  /\ UNCHANGED <<account, token, stored>>

\* Whether or not the server was reached, the device forgets its token.
clearTokens(r) ==
  /\ call[r].at \in {"logout", "clear"}
  /\ stored' = [stored EXCEPT ![call[r].device] = Absent]
  /\ EndCall(r)
  /\ UNCHANGED <<account, token, disturbed>>

\* The request fails, its server dies, or its answer is lost.  A transaction
\* that was open leaves nothing; what was committed stays.
loseCall(r) ==
  /\ call[r].at \notin {"idle", "logout", "clear", "ending"}
  /\ disturbed' = IF call[r].at = "rotated" THEN disturbed \cup {call[r].device}
                                            ELSE disturbed
  /\ EndCall(r)
  /\ UNCHANGED <<account, token, stored>>

-----------------------------------------------------------------------------
(* Faults: definitions of this module as a plausible slip would have       *)
(* written them, used only to see that the properties below notice them.   *)

\* The token is read without FOR UPDATE.
Fault_takeTokenUnlocked(r) ==
  /\ call[r].at = "refresh"
  /\ LET t == call[r].token
     IN  \/ /\ token[t].revoked
            /\ call' = [call EXCEPT ![r].at = "reuse",
                                    ![r].targets = LiveTokens \cap TokenFamily(t)]
         \/ /\ TokenLive(t) /\ account # "ACTIVE"
            /\ CallAt(r, "refused")
         \/ /\ TokenLive(t) /\ account = "ACTIVE"
            /\ CallAt(r, "locked")
  /\ UNCHANGED <<account, token, stored, disturbed>>

\* The account is marked as gone already.
Fault_requestDeletionAtOnce(r) ==
  /\ call[r].at = "delete"
  /\ account' = "DELETED"
  /\ CallAt(r, "endAll")
  /\ UNCHANGED <<token, stored, disturbed>>

-----------------------------------------------------------------------------
(* The server *)

\* refresh locks the token's row and reads it, then the account.  A token
\* that is revoked, for whatever reason, counts as reused: the live tokens of
\* its family are to be revoked, on another connection.
takeToken(r) ==
  /\ call[r].at = "refresh"
  /\ ~TokenLocked(call[r].token)
  /\ LET t == call[r].token
     IN  \/ /\ token[t].revoked
            /\ call' = [call EXCEPT ![r].at = "reuse",
                                    ![r].targets = LiveTokens \cap TokenFamily(t)]
         \/ /\ TokenLive(t) /\ account # "ACTIVE"
            /\ CallAt(r, "refused")
         \/ /\ TokenLive(t) /\ account = "ACTIVE"
            /\ CallAt(r, "locked")
  /\ UNCHANGED <<account, token, stored, disturbed>>

\* The commit of the rotation: one token out, one in, of the same family.
rotate(r, u) ==
  /\ call[r].at = "locked"
  /\ token[u] = NoToken
  /\ token' = [token EXCEPT ![call[r].token].revoked = TRUE,
                            ![u] = [family |-> token[call[r].token].family,
                                    revoked |-> FALSE]]
  /\ call' = [call EXCEPT ![r].at = "rotated", ![r].token = u]
  /\ UNCHANGED <<account, stored, disturbed>>

\* An UPDATE over many tokens ends, those it waited for being free.
revoke(r) ==
  /\ call[r].at \in {"reuse", "ending"}
  /\ \A t \in call[r].targets : ~TokenLocked(t)
  /\ token' = [t \in Tokens |-> IF t \in call[r].targets
                                  THEN [token[t] EXCEPT !.revoked = TRUE]
                                  ELSE token[t]]
  /\ IF call[r].at = "reuse" THEN CallAt(r, "refused") ELSE EndCall(r)
  /\ UNCHANGED <<account, stored, disturbed>>

\* login reads the account; the password and the second factor are right.
login(r, d) ==
  /\ \/ /\ account = "ACTIVE" /\ BeginCall(r, "issue", d, Absent)
     \/ /\ account = "DELETION_REQUESTED" /\ BeginCall(r, "reactivate", d, Absent)
  /\ UNCHANGED <<account, token, stored, disturbed>>

\* The account comes back to life, whatever its status is by now.
reactivate(r) ==
  /\ call[r].at = "reactivate"
  /\ account' = "ACTIVE"
  /\ CallAt(r, "issue")
  /\ UNCHANGED <<token, stored, disturbed>>

issueTokenPair(r, u) ==
  /\ call[r].at = "issue"
  /\ token[u] = NoToken
  /\ token' = [token EXCEPT ![u] = [family |-> u, revoked |-> FALSE]]
  /\ call' = [call EXCEPT ![r].at = "signedIn", ![r].token = u]
  /\ UNCHANGED <<account, stored, disturbed>>

\* One UPDATE, which waits for a rotation of the same token.
logout(r) ==
  /\ call[r].at = "logout"
  /\ ~TokenLocked(call[r].token)
  /\ token' = [token EXCEPT ![call[r].token].revoked = TRUE]
  /\ CallAt(r, "clear")
  /\ UNCHANGED <<account, stored, disturbed>>

\* The guard found the account active.
beginDeletion(r) ==
  /\ account = "ACTIVE"
  /\ BeginCall(r, "delete", Absent, Absent)
  /\ UNCHANGED <<account, token, stored, disturbed>>

\* The status is set without looking at it again.
requestDeletion(r) ==
  /\ call[r].at = "delete"
  /\ account' = "DELETION_REQUESTED"
  /\ CallAt(r, "endAll")
  /\ UNCHANGED <<token, stored, disturbed>>

suspend(r) ==
  /\ account = "ACTIVE"
  /\ account' = "SUSPENDED"
  /\ BeginCall(r, "endAll", Absent, Absent)
  /\ UNCHANGED <<token, stored, disturbed>>

restore ==
  /\ account = "SUSPENDED"
  /\ account' = "ACTIVE"
  /\ UNCHANGED <<token, stored, call, disturbed>>

\* The reset token has been consumed and the password changed.
resetPassword(r) ==
  /\ BeginCall(r, "endAll", Absent, Absent)
  /\ UNCHANGED <<account, token, stored, disturbed>>

\* The UPDATE of all sessions starts: it will not see a token inserted later.
revokeAllSessions(r) ==
  /\ call[r].at = "endAll"
  /\ call' = [call EXCEPT ![r].at = "ending", ![r].targets = LiveTokens]
  /\ disturbed' = Devices
  /\ UNCHANGED <<account, token, stored>>

DeviceSteps(r) ==
  \/ \E d \in Devices : tryRefresh(r, d) \/ signOut(r, d)
  \/ receive(r) \/ storeSignIn(r) \/ clearTokens(r) \/ loseCall(r)

SessionServerSteps(r) ==
  \/ takeToken(r) \/ revoke(r) \/ reactivate(r) \/ logout(r)
  \/ /\ \E u \in Tokens : token[u] = NoToken
     /\ rotate(r, FreshToken) \/ issueTokenPair(r, FreshToken)
  \/ \E d \in Devices : login(r, d)
  \/ beginDeletion(r) \/ requestDeletion(r) \/ suspend(r) \/ resetPassword(r)
  \/ revokeAllSessions(r)

SessionsNext == restore \/ \E r \in Calls : DeviceSteps(r) \/ SessionServerSteps(r)

SessionsSpec == SessionsInit /\ [][SessionsNext]_sessionVars

-----------------------------------------------------------------------------
(* What must hold *)

\* Refresh tokens are single-use (auth.service.ts, 0002_auth_users.sql): a
\* family never has two live tokens, however many refreshes race for one.
OneLivePerFamily ==
  \A t, u \in LiveTokens : token[t].family = token[u].family => t = u

\* A device of which no answer was lost, which has not signed out and whose
\* account's sessions were not ended stays signed in: between its refreshes
\* the token it keeps is live.  Reuse detection never hits it.
UndisturbedSignedIn ==
  \A d \in SingleFlight \ disturbed :
    stored[d] # Absent /\ ~Refreshing(d) => TokenLive(stored[d])
=============================================================================
