----------------------------- MODULE TwoFactor ------------------------------
(***************************************************************************)
(* The other tokens of one account: two-factor authentication, whose       *)
(* secret is set up by one request and switched on by another, and the     *)
(* one-time tokens of e-mail verification and password reset.              *)
(*                                                                         *)
(* As in Verification every statement commits by itself.  setup and enable *)
(* read the account first and write it without looking again.              *)
(***************************************************************************)
EXTENDS Tables

CONSTANTS
  Secrets,      \* values of users.totp_secret
  FactorCalls,  \* requests in flight
  ResetTokens   \* rows of type PASSWORD_RESET

VARIABLES
  totpSecret,   \* users.totp_secret
  totpEnabled,  \* users.totp_enabled_at is set
  factorCall,   \* the requests in flight
  proven,       \* history: secrets a right code of which has been seen
  overlapped,   \* history: a setup and an enabling wrote over each other
  oneTime,      \* tokens by mail: "SENT" or "CONSUMED"
  emailVerified \* users.email_verified_at is set

totpVars == <<totpSecret, totpEnabled, proven, overlapped>>
mailVars == <<oneTime, emailVerified>>
twoFactorVars == <<totpVars, factorCall, mailVars>>

EMAIL_VERIFY == "EMAIL_VERIFY"

NoFactorCall == [at |-> "idle", on |-> Absent]
FactorCall == [at : {"setup", "enable", "verified", "reset"},
               on : OrAbsent(Secrets \cup ResetTokens)]

TwoFactorTypeOK ==
  /\ totpSecret \in OrAbsent(Secrets)
  /\ totpEnabled \in BOOLEAN
  /\ factorCall \in [FactorCalls -> FactorCall \cup {NoFactorCall}]
  /\ proven \in SUBSET Secrets
  /\ overlapped \in BOOLEAN
  /\ oneTime \in [ResetTokens \cup {EMAIL_VERIFY} -> {Absent, "SENT", "CONSUMED"}]
  /\ emailVerified \in BOOLEAN

\* register sends the token for the e-mail address, the only one there will be.
TwoFactorInit ==
  /\ totpSecret = Absent
  /\ totpEnabled = FALSE
  /\ factorCall = [r \in FactorCalls |-> NoFactorCall]
  /\ proven = {}
  /\ overlapped = FALSE
  /\ oneTime = [t \in ResetTokens \cup {EMAIL_VERIFY} |->
                  IF t = EMAIL_VERIFY THEN "SENT" ELSE Absent]
  /\ emailVerified = FALSE

-----------------------------------------------------------------------------
factorCallBegins(r, at, on) ==
  /\ factorCall[r] = NoFactorCall
  /\ factorCall' = [factorCall EXCEPT ![r] = [at |-> at, on |-> on]]
factorCallEnds(r) == factorCall' = [factorCall EXCEPT ![r] = NoFactorCall]
InFlight(at) == \E r \in FactorCalls : factorCall[r].at = at

(* Faults: definitions of this module as a plausible slip would have       *)
(* written them, used only to see that the properties below notice them.   *)

\* A new secret is set up though the factor is on.
Fault_setupAgain(r, secret) ==
  /\ factorCallBegins(r, "setup", secret)
  /\ UNCHANGED <<totpVars, mailVars>>

-----------------------------------------------------------------------------
(* totp.service.ts *)

setup(r, secret) ==
  /\ ~totpEnabled
  /\ factorCallBegins(r, "setup", secret)
  /\ UNCHANGED <<totpVars, mailVars>>

setSecret(r) ==
  /\ factorCall[r].at = "setup"
  /\ totpSecret' = factorCall[r].on
  /\ overlapped' = (overlapped \/ InFlight("enable"))
  /\ factorCallEnds(r)
  /\ UNCHANGED <<totpEnabled, proven, mailVars>>

\* The code is checked against the secret as it was read.
enable(r) ==
  /\ totpSecret # Absent
  /\ ~totpEnabled
  /\ factorCallBegins(r, "enable", totpSecret)
  /\ proven' = proven \cup {totpSecret}
  /\ UNCHANGED <<totpSecret, totpEnabled, overlapped, mailVars>>

setEnabled(r) ==
  /\ factorCall[r].at = "enable"
  /\ totpEnabled' = TRUE
  /\ overlapped' = (overlapped \/ InFlight("setup"))
  /\ factorCallEnds(r)
  /\ UNCHANGED <<totpSecret, proven, mailVars>>

-----------------------------------------------------------------------------
(* auth.service.ts: tokens by mail *)

forgotPassword(t) ==
  /\ oneTime[t] = Absent
  /\ oneTime' = [oneTime EXCEPT ![t] = "SENT"]
  /\ UNCHANGED <<totpVars, factorCall, emailVerified>>

\* One UPDATE finds the token and consumes it.
consumeOneTimeToken(r, t) ==
  /\ oneTime[t] = "SENT"
  /\ oneTime' = [oneTime EXCEPT ![t] = "CONSUMED"]
  /\ IF t = EMAIL_VERIFY THEN factorCallBegins(r, "verified", Absent)
                         ELSE factorCallBegins(r, "reset", t)
  /\ UNCHANGED <<totpVars, emailVerified>>

setEmailVerified(r) ==
  /\ factorCall[r].at = "verified"
  /\ emailVerified' = TRUE
  /\ factorCallEnds(r)
  /\ UNCHANGED <<totpVars, oneTime>>

\* The password is changed; ending the sessions is in Sessions.
setPasswordHash(r) ==
  /\ factorCall[r].at = "reset"
  /\ factorCallEnds(r)
  /\ UNCHANGED <<totpVars, mailVars>>

\* A request fails between two statements: a consumed token stays so.
loseFactorCall(r) ==
  /\ factorCall[r] # NoFactorCall
  /\ factorCallEnds(r)
  /\ UNCHANGED <<totpVars, mailVars>>

TwoFactorNext ==
  \/ \E t \in ResetTokens : forgotPassword(t)
  \/ \E r \in FactorCalls :
       \/ \E secret \in Secrets : setup(r, secret)
       \/ \E t \in ResetTokens \cup {EMAIL_VERIFY} : consumeOneTimeToken(r, t)
       \/ setSecret(r) \/ enable(r) \/ setEnabled(r)
       \/ setEmailVerified(r) \/ setPasswordHash(r) \/ loseFactorCall(r)

TwoFactorSpec == TwoFactorInit /\ [][TwoFactorNext]_twoFactorVars

-----------------------------------------------------------------------------
(* What must hold *)

\* Comment: "prove possession with a valid code to switch enforcement on"
\* (totp.service.ts): once the factor is on, the secret it asks for is one of
\* which its owner has shown a code, whatever was lost or repeated, unless a
\* setup and an enabling ran at the same time.
EnforcedIsProven == totpEnabled /\ ~overlapped => totpSecret \in proven
=============================================================================
