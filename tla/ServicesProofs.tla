--------------------------- MODULE ServicesProofs ---------------------------
(***************************************************************************)
(* What holds of the services around the jobs for any number of devices,   *)
(* tokens, requests in flight and rows: one section for each service.      *)
(***************************************************************************)
EXTENDS Services, FiniteSetTheorems, WellFoundedInduction, TLAPS

-----------------------------------------------------------------------------
(* Sessions: one live token in a family *)

HasRow(t) == t \in Tokens /\ token[t] # NoToken

\* What a request in flight holds is there, and what it has locked is live.
CallOK(c) ==
  c # NoCall =>
    /\ c \in [at : CALL_STEPS, device : OrAbsent(Devices),
              token : OrAbsent(Tokens), targets : SUBSET Tokens]
    /\ c.token # Absent => HasRow(c.token)
    /\ \A t \in c.targets : HasRow(t)
    /\ c.at \in {"refresh", "locked", "logout", "rotated", "signedIn"} => c.token # Absent
    /\ c.at = "locked" => TokenLive(c.token)

TokensOK ==
  /\ token \in [Tokens -> [family : Tokens, revoked : BOOLEAN] \cup {NoToken}]
  /\ \A t \in Tokens : token[t] # NoToken => HasRow(token[t].family)

CallsOK ==
  /\ call \in [Calls -> [at : CALL_STEPS, device : OrAbsent(Devices),
                         token : OrAbsent(Tokens), targets : SUBSET Tokens]
                        \cup {NoCall}]
  /\ \A r \in Calls : CallOK(call[r])

\* FOR UPDATE: no two requests hold one row.
OneLock ==
  \A r, q \in Calls : call[r].at = "locked" /\ call[q].at = "locked" =>
    r = q \/ call[r].token # call[q].token

StoredOK == stored \in [Devices -> OrAbsent(Tokens)] /\
            \A d \in Devices : stored[d] # Absent => HasRow(stored[d])

SessionsInv == TokensOK /\ CallsOK /\ OneLock /\ StoredOK /\ OneLivePerFamily

\* A step that writes no token and moves one request, to hold what is there.
LEMMA QuietCall ==
  ASSUME SessionsInv, NEW r \in Calls, NEW c,
         call' = [call EXCEPT ![r] = c], token' = token,
         c \in [at : CALL_STEPS, device : OrAbsent(Devices),
                token : OrAbsent(Tokens), targets : SUBSET Tokens] \cup {NoCall},
         CallOK(c),
         c.at = "locked" => ~TokenLocked(c.token),
         StoredOK'
  PROVE  SessionsInv'
<1> USE DEF SessionsInv
<1>1. TokensOK' /\ OneLivePerFamily'
  BY DEF TokensOK, HasRow, OneLivePerFamily, LiveTokens, TokenLive
<1>2. CallsOK'
  BY DEF CallsOK, CallOK, HasRow, TokenLive
<1>3. OneLock'
  BY DEF OneLock, CallsOK, TokenLocked
<1>4. QED
  BY <1>1, <1>2, <1>3

\* Requests that begin, end, or take another step without writing a token.
LEMMA DeviceStepKeeps ==
  ASSUME SessionsInv, NEW r \in Calls, DeviceSteps(r)
  PROVE  SessionsInv'
<1> USE DEF SessionsInv
<1>1. NoCall.at = "idle" /\ CallOK(NoCall)
  BY DEF NoCall, CallOK
<1>2. CASE \E d \in Devices : tryRefresh(r, d)
  <2>1. PICK d \in Devices : tryRefresh(r, d)
    BY <1>2
  <2>2. PICK c : c = [at |-> "refresh", device |-> d, token |-> stored[d], targets |-> {}]
    OBVIOUS
  <2>3. /\ call' = [call EXCEPT ![r] = c] /\ token' = token /\ stored' = stored
        /\ stored[d] # Absent
    BY <2>1, <2>2 DEF tryRefresh, BeginCall
  <2>4. /\ c \in [at : CALL_STEPS, device : OrAbsent(Devices),
                  token : OrAbsent(Tokens), targets : SUBSET Tokens]
        /\ CallOK(c) /\ c.at # "locked"
    BY <2>2, <2>3 DEF CALL_STEPS, OrAbsent, CallOK, StoredOK, HasRow
  <2>5. StoredOK'
    BY <2>3 DEF StoredOK, HasRow
  <2>6. QED
    BY <2>3, <2>4, <2>5, QuietCall
<1>3. CASE \E d \in Devices : signOut(r, d)
  <2>1. PICK d \in Devices : signOut(r, d)
    BY <1>3
  <2>2. PICK c : c = [at |-> "logout", device |-> d, token |-> stored[d], targets |-> {}]
    OBVIOUS
  <2>3. /\ call' = [call EXCEPT ![r] = c] /\ token' = token /\ stored' = stored
        /\ stored[d] # Absent
    BY <2>1, <2>2 DEF signOut, BeginCall
  <2>4. /\ c \in [at : CALL_STEPS, device : OrAbsent(Devices),
                  token : OrAbsent(Tokens), targets : SUBSET Tokens]
        /\ CallOK(c) /\ c.at # "locked"
    BY <2>2, <2>3 DEF CALL_STEPS, OrAbsent, CallOK, StoredOK, HasRow
  <2>5. StoredOK'
    BY <2>3 DEF StoredOK, HasRow
  <2>6. QED
    BY <2>3, <2>4, <2>5, QuietCall
<1>4. CASE receive(r) \/ storeSignIn(r) \/ clearTokens(r) \/ loseCall(r)
  <2>1. call' = [call EXCEPT ![r] = NoCall] /\ token' = token
    BY <1>4 DEF receive, storeSignIn, clearTokens, loseCall, EndCall
  <2>2. /\ call[r].at # "idle" => call[r].token \in OrAbsent(Tokens)
        /\ call[r].at # "idle" /\ call[r].token # Absent => HasRow(call[r].token)
    BY DEF CallsOK, CallOK, NoCall
  <2>3. \/ stored' = stored
        \/ \E t \in OrAbsent(Tokens) :
             /\ stored' = [stored EXCEPT ![call[r].device] = t]
             /\ t # Absent => HasRow(t)
    BY <1>4, <2>2 DEF receive, storeSignIn, clearTokens, loseCall, OrAbsent
  <2>4. StoredOK'
    BY <2>1, <2>3 DEF StoredOK, HasRow
  <2>5. QED
    BY <1>1, <2>1, <2>4, QuietCall
<1>5. QED
  BY <1>2, <1>3, <1>4 DEF DeviceSteps

\* Steps of the server that write no token.
QuietServer(r) ==
  \/ takeToken(r) \/ reactivate(r) \/ beginDeletion(r) \/ requestDeletion(r)
  \/ suspend(r) \/ resetPassword(r) \/ revokeAllSessions(r)
  \/ \E d \in Devices : login(r, d)

LEMMA QuietServerKeeps ==
  ASSUME SessionsInv, NEW r \in Calls, QuietServer(r)
  PROVE  SessionsInv'
<1> USE DEF SessionsInv
<1>1. token' = token /\ stored' = stored
  BY DEF QuietServer, takeToken, reactivate, beginDeletion, requestDeletion,
     suspend, resetPassword, revokeAllSessions, login
<1>2. StoredOK'
  BY <1>1 DEF StoredOK, HasRow
<1>3. \A t \in LiveTokens : HasRow(t)
  BY DEF LiveTokens, TokenLive, HasRow, NoToken
<1>4. ASSUME NEW at \in CALL_STEPS \ {"refresh", "locked", "logout", "rotated", "signedIn"},
             NEW d \in OrAbsent(Devices),
             call' = [call EXCEPT ![r] =
                        [at |-> at, device |-> d, token |-> Absent, targets |-> {}]]
      PROVE  SessionsInv'
  <2>1. PICK c : c = [at |-> at, device |-> d, token |-> Absent, targets |-> {}]
    OBVIOUS
  <2>2. /\ c \in [at : CALL_STEPS, device : OrAbsent(Devices),
                  token : OrAbsent(Tokens), targets : SUBSET Tokens]
        /\ CallOK(c) /\ c.at # "locked"
    BY <2>1 DEF OrAbsent, CallOK, CALL_STEPS
  <2>3. QED
    BY <1>1, <1>2, <1>4, <2>1, <2>2, QuietCall
<1>5. ASSUME call[r] # NoCall,
             NEW at \in CALL_STEPS \ {"refresh", "logout", "rotated", "signedIn"},
             NEW targets \in SUBSET LiveTokens,
             call' = [call EXCEPT ![r].at = at] \/
               call' = [call EXCEPT ![r].at = at, ![r].targets = targets],
             at = "locked" => /\ call[r].at = "refresh"
                              /\ ~TokenLocked(call[r].token) /\ TokenLive(call[r].token)
      PROVE  SessionsInv'
  <2>1. /\ call[r] \in [at : CALL_STEPS, device : OrAbsent(Devices),
                        token : OrAbsent(Tokens), targets : SUBSET Tokens]
        /\ CallOK(call[r])
    BY <1>5 DEF CallsOK
  <2>2. PICK c : /\ c \in {[call[r] EXCEPT !.at = at],
                           [call[r] EXCEPT !.at = at, !.targets = targets]}
                 /\ call' = [call EXCEPT ![r] = c]
    BY <1>5 DEF CallsOK
  <2>3. targets \in SUBSET Tokens
    BY DEF LiveTokens
  <2>4. /\ c.at = at /\ c.token = call[r].token /\ c.device = call[r].device
        /\ c.targets = call[r].targets \/ c.targets = targets
        /\ c \in [at : CALL_STEPS, device : OrAbsent(Devices),
                  token : OrAbsent(Tokens), targets : SUBSET Tokens]
    BY <2>1, <2>2, <2>3
  <2>5. CallOK(c)
    BY <1>3, <1>5, <2>1, <2>4 DEF CallOK
  <2>6. c.at = "locked" => ~TokenLocked(c.token)
    BY <1>5, <2>4
  <2>7. QED
    BY <1>1, <1>2, <2>2, <2>4, <2>5, <2>6, QuietCall
<1>6. CASE takeToken(r)
  <2>1. call[r] # NoCall /\ call[r].at = "refresh" /\ ~TokenLocked(call[r].token)
    BY <1>6 DEF takeToken, NoCall
  <2>2. \/ call' = [call EXCEPT ![r].at = "reuse",
                                ![r].targets = LiveTokens \cap TokenFamily(call[r].token)]
        \/ call' = [call EXCEPT ![r].at = "refused"]
        \/ TokenLive(call[r].token) /\ call' = [call EXCEPT ![r].at = "locked"]
    BY <1>6 DEF takeToken, CallAt
  <2>3. LiveTokens \cap TokenFamily(call[r].token) \in SUBSET LiveTokens
    OBVIOUS
  <2>4. {"reuse", "refused", "locked"} \subseteq
          CALL_STEPS \ {"refresh", "logout", "rotated", "signedIn"}
    BY DEF CALL_STEPS
  <2>5. QED
    BY <1>5, <2>1, <2>2, <2>3, <2>4
<1>7. CASE reactivate(r) \/ requestDeletion(r)
  <2>1. /\ call[r] # NoCall
        /\ \/ call' = [call EXCEPT ![r].at = "issue"]
           \/ call' = [call EXCEPT ![r].at = "endAll"]
    BY <1>7 DEF reactivate, requestDeletion, CallAt, NoCall
  <2>2. {"issue", "endAll"} \subseteq
          CALL_STEPS \ {"refresh", "logout", "rotated", "signedIn", "locked"}
    BY DEF CALL_STEPS
  <2>3. QED
    BY <1>5, <2>1, <2>2
<1>8. CASE revokeAllSessions(r)
  <2>1. /\ call[r] # NoCall
        /\ call' = [call EXCEPT ![r].at = "ending", ![r].targets = LiveTokens]
    BY <1>8 DEF revokeAllSessions, NoCall
  <2>2. "ending" \in CALL_STEPS \ {"refresh", "logout", "rotated", "signedIn", "locked"}
    BY DEF CALL_STEPS
  <2>3. QED
    BY <1>5, <2>1, <2>2
<1>9. CASE \/ beginDeletion(r) \/ suspend(r) \/ resetPassword(r)
           \/ \E d \in Devices : login(r, d)
  <2>1. \E at \in {"delete", "endAll", "issue", "reactivate"}, d \in OrAbsent(Devices) :
          call' = [call EXCEPT ![r] =
                     [at |-> at, device |-> d, token |-> Absent, targets |-> {}]]
    BY <1>9 DEF beginDeletion, suspend, resetPassword, login, BeginCall, OrAbsent
  <2>2. {"delete", "endAll", "issue", "reactivate"} \subseteq
          CALL_STEPS \ {"refresh", "locked", "logout", "rotated", "signedIn"}
    BY DEF CALL_STEPS
  <2>3. QED
    BY <1>4, <2>1, <2>2
<1>10. QED
  BY <1>6, <1>7, <1>8, <1>9 DEF QuietServer

LEMMA RevokedRow ==
  ASSUME NEW row \in [family : Tokens, revoked : BOOLEAN]
  PROVE  [row EXCEPT !.revoked = TRUE] = [family |-> row.family, revoked |-> TRUE]
<1>1. PICK new : new = [row EXCEPT !.revoked = TRUE]
  OBVIOUS
<1>2. PICK out : out = [family |-> row.family, revoked |-> TRUE]
  OBVIOUS
<1>3. /\ new \in [family : Tokens, revoked : BOOLEAN]
      /\ new.family = row.family /\ new.revoked = TRUE
  BY <1>1
<1>4. /\ out \in [family : Tokens, revoked : BOOLEAN]
      /\ out.family = row.family /\ out.revoked = TRUE
  BY <1>2
<1>5. new = out
  BY <1>3, <1>4
<1>6. QED
  BY <1>1, <1>2, <1>5

\* Revoking rows that nobody holds; the request goes on without a new lock.
LEMMA RevokeKeeps ==
  ASSUME SessionsInv, NEW r \in Calls, NEW S \in SUBSET Tokens,
         \A t \in S : HasRow(t) /\ ~TokenLocked(t),
         token' = [t \in Tokens |-> IF t \in S
                     THEN [family |-> token[t].family, revoked |-> TRUE] ELSE token[t]],
         call[r] # NoCall, call[r].at # "locked",
         NEW at \in {"refused", "clear"},
         \/ call' = [call EXCEPT ![r].at = at]
         \/ call' = [call EXCEPT ![r] = NoCall],
         stored' = stored
  PROVE  SessionsInv'
<1> USE DEF SessionsInv
<1>1. \A t \in Tokens :
        /\ token[t] \in [family : Tokens, revoked : BOOLEAN] \cup {NoToken}
        /\ t \in S => token[t] \in [family : Tokens, revoked : BOOLEAN]
        /\ token'[t].family = token[t].family
        /\ token'[t] = token[t] \/ (t \in S /\ token'[t].revoked)
  BY DEF TokensOK, HasRow
<1>2. \A t \in Tokens : HasRow(t) => HasRow(t)'
  <2> SUFFICES ASSUME NEW t \in Tokens, HasRow(t), t \in S PROVE token'[t] # NoToken
    BY DEF HasRow
  <2>1. token'[t].revoked = TRUE
    OBVIOUS
  <2>2. QED
    BY <2>1 DEF NoToken
<1>3. TokensOK'
  <2>1. token' \in [Tokens -> [family : Tokens, revoked : BOOLEAN] \cup {NoToken}]
    BY <1>1
  <2>2. \A t \in Tokens : token'[t] # NoToken => token[t] # NoToken
    BY DEF HasRow
  <2>3. \A t \in Tokens : (token[t] # NoToken => HasRow(token[t].family))'
    BY <1>1, <1>2, <2>2 DEF TokensOK, HasRow
  <2>4. QED
    BY <2>1, <2>3 DEF TokensOK
<1>4. \A t \in Tokens : TokenLive(t)' => TokenLive(t)
  BY <1>1 DEF TokenLive
<1>5. OneLivePerFamily'
  BY <1>1, <1>4 DEF OneLivePerFamily, LiveTokens
<1>6. \A t \in Tokens : TokenLive(t) /\ TokenLocked(t) => TokenLive(t)'
  BY <1>1 DEF TokenLive
<1>7. call' \in [Calls -> [at : CALL_STEPS, device : OrAbsent(Devices),
                           token : OrAbsent(Tokens), targets : SUBSET Tokens]
                          \cup {NoCall}]
  <2>1. call[r] \in [at : CALL_STEPS, device : OrAbsent(Devices),
                     token : OrAbsent(Tokens), targets : SUBSET Tokens]
    BY DEF CallsOK
  <2>2. at \in CALL_STEPS
    BY DEF CALL_STEPS
  <2>3. QED
    BY <2>1, <2>2 DEF CallsOK
<1>8. \A q \in Calls :
        \/ call'[q] = call[q]
        \/ call'[q] = NoCall
        \/ /\ call'[q] = [call[q] EXCEPT !.at = at]
           /\ call[q] \in [at : CALL_STEPS, device : OrAbsent(Devices),
                           token : OrAbsent(Tokens), targets : SUBSET Tokens]
           /\ call[q] # NoCall
  BY DEF CallsOK
<1>9. ASSUME NEW q \in Calls PROVE CallOK(call[q])'
  <2>1. PICK c : c = call[q]
    OBVIOUS
  <2>2. CallOK(c)
    BY <2>1 DEF CallsOK, CallOK, HasRow, TokenLive
  <2>3. c # NoCall =>
          /\ c.token # Absent => HasRow(c.token)'
          /\ \A t \in c.targets : HasRow(t)'
    BY <1>2, <2>2 DEF CallOK, HasRow
  <2>4. c # NoCall /\ c.at = "locked" => TokenLive(c.token)'
    <3> SUFFICES ASSUME c # NoCall, c.at = "locked" PROVE TokenLive(c.token)'
      OBVIOUS
    <3>1. PICK t : t = c.token
      OBVIOUS
    <3>2. t \in Tokens /\ TokenLive(t) /\ TokenLocked(t)
      BY <2>1, <2>2, <3>1 DEF CallOK, HasRow, TokenLocked, TokenLive
    <3>3. TokenLive(t)'
      BY <1>6, <3>2
    <3>4. QED
      BY <3>1, <3>3
  <2>5. CASE call'[q] = c
    <3>1. CallOK(c)'
      BY <2>2, <2>3, <2>4 DEF CallOK
    <3>2. QED
      BY <2>5, <3>1 DEF CallOK, HasRow, TokenLive
  <2>6. CASE call'[q] = NoCall
    BY <2>6 DEF CallOK
  <2>7. CASE c # NoCall /\ call'[q] = [c EXCEPT !.at = at]
    <3>1. c \in [at : CALL_STEPS, device : OrAbsent(Devices),
                 token : OrAbsent(Tokens), targets : SUBSET Tokens]
      BY <2>1, <2>7 DEF CallsOK
    <3>2. PICK e : e = [c EXCEPT !.at = at]
      OBVIOUS
    <3>3. /\ e.at = at /\ e.token = c.token /\ e.targets = c.targets
          /\ e \in [at : CALL_STEPS, device : OrAbsent(Devices),
                    token : OrAbsent(Tokens), targets : SUBSET Tokens]
      BY <3>1, <3>2 DEF CALL_STEPS
    <3>4. CallOK(e)'
      BY <2>3, <2>7, <3>3 DEF CallOK, HasRow
    <3>5. QED
      BY <2>7, <3>2, <3>4 DEF CallOK, HasRow, TokenLive
  <2>8. QED
    BY <1>8, <2>1, <2>5, <2>6, <2>7
<1>10. CallsOK'
  BY <1>7, <1>9 DEF CallsOK
<1>11. OneLock'
  <2>1. ASSUME NEW q \in Calls, call'[q].at = "locked" PROVE call'[q] = call[q]
    <3>1. CASE call'[q] = NoCall
      BY <2>1, <3>1 DEF NoCall
    <3>2. CASE /\ call'[q] = [call[q] EXCEPT !.at = at]
               /\ call[q] \in [at : CALL_STEPS, device : OrAbsent(Devices),
                               token : OrAbsent(Tokens), targets : SUBSET Tokens]
      <4>1. call'[q].at = at
        BY <3>2
      <4>2. QED
        BY <2>1, <4>1
    <3>3. QED
      BY <1>8, <3>1, <3>2
  <2>2. QED
    BY <2>1 DEF OneLock
<1>12. StoredOK'
  BY <1>2 DEF StoredOK, HasRow
<1>13. QED
  BY <1>3, <1>5, <1>10, <1>11, <1>12

LEMMA RevokesKeep ==
  ASSUME SessionsInv, NEW r \in Calls, revoke(r) \/ logout(r)
  PROVE  SessionsInv'
<1> USE DEF SessionsInv
<1>1. call[r] # NoCall /\ call[r].at # "locked" /\ stored' = stored
  BY DEF revoke, logout, NoCall
<1>2. CallOK(call[r]) /\ token \in [Tokens -> [family : Tokens, revoked : BOOLEAN] \cup {NoToken}]
  BY DEF CallsOK, TokensOK
<1>3. CASE revoke(r)
  <2>1. PICK S : S = call[r].targets
    OBVIOUS
  <2>2. S \in SUBSET Tokens /\ \A t \in S : HasRow(t) /\ ~TokenLocked(t)
    BY <1>1, <1>2, <1>3, <2>1 DEF CallOK, revoke
  <2>3. \A t \in S : [token[t] EXCEPT !.revoked = TRUE]
                       = [family |-> token[t].family, revoked |-> TRUE]
    BY <1>2, <2>2, RevokedRow DEF HasRow
  <2>4. token' = [t \in Tokens |-> IF t \in S
                    THEN [family |-> token[t].family, revoked |-> TRUE] ELSE token[t]]
    BY <1>3, <2>1, <2>2, <2>3 DEF revoke
  <2>5. \/ call' = [call EXCEPT ![r].at = "refused"]
        \/ call' = [call EXCEPT ![r] = NoCall]
    BY <1>3 DEF revoke, CallAt, EndCall
  <2>6. QED
    BY <1>1, <2>2, <2>4, <2>5, RevokeKeeps
<1>4. CASE logout(r)
  <2>1. PICK t : t = call[r].token
    OBVIOUS
  <2>2. t \in Tokens /\ HasRow(t) /\ ~TokenLocked(t)
    BY <1>1, <1>2, <1>4, <2>1 DEF CallOK, logout, HasRow
  <2>3. token' = [u \in Tokens |-> IF u \in {t}
                    THEN [family |-> token[u].family, revoked |-> TRUE] ELSE token[u]]
    <3>1. token[t] \in [family : Tokens, revoked : BOOLEAN]
      BY <1>2, <2>2 DEF HasRow
    <3>2. [token[t] EXCEPT !.revoked = TRUE]
            = [family |-> token[t].family, revoked |-> TRUE]
      BY <3>1, RevokedRow
    <3>3. token' = [token EXCEPT ![t] = [token[t] EXCEPT !.revoked = TRUE]]
      BY <1>4, <2>1 DEF logout
    <3>4. QED
      BY <1>2, <2>2, <3>2, <3>3
  <2>4. call' = [call EXCEPT ![r].at = "clear"]
    BY <1>4 DEF logout, CallAt
  <2>5. QED
    BY <1>1, <2>2, <2>3, <2>4, RevokeKeeps
<1>5. QED
  BY <1>3, <1>4

\* A token comes in: with the first of a family, or in exchange for another.
LEMMA InsertKeeps ==
  ASSUME SessionsInv, NEW r \in Calls, NEW u \in Tokens, token[u] = NoToken,
         rotate(r, u) \/ issueTokenPair(r, u)
  PROVE  SessionsInv'
<1> USE DEF SessionsInv
<1> DEFINE Row == [family : Tokens, revoked : BOOLEAN]
<1>1. /\ call[r] # NoCall /\ CallOK(call[r])
      /\ call[r] \in [at : CALL_STEPS, device : OrAbsent(Devices),
                      token : OrAbsent(Tokens), targets : SUBSET Tokens]
      /\ call[r].at \in {"locked", "issue"} /\ stored' = stored
  BY DEF rotate, issueTokenPair, NoCall, CallsOK
<1>2. PICK t, at : t = call[r].token /\ at = call[r].at
  OBVIOUS
<1>3. \A v \in Tokens : token[v] \in Row \cup {NoToken}
  BY DEF TokensOK
<1>4. at = "locked" => t \in Tokens /\ t # u /\ HasRow(t) /\ TokenLive(t) /\ token[t] \in Row
  BY <1>1, <1>2, <1>3 DEF CallOK, HasRow
<1>5. PICK f \in Tokens, new \in Row :
        /\ new = [family |-> f, revoked |-> FALSE]
        /\ token'[u] = new
        /\ \A v \in Tokens : v # u /\ ~(at = "locked" /\ v = t) => token'[v] = token[v]
        /\ at = "locked" => /\ f = token[t].family
                            /\ token'[t] = [family |-> f, revoked |-> TRUE]
        /\ at = "issue" => f = u
        /\ token' \in [Tokens -> Row \cup {NoToken}]
  <2>1. CASE rotate(r, u)
    <3>1. at = "locked" /\ token[t] \in Row
      BY <1>2, <1>4, <2>1 DEF rotate
    <3>2. PICK f \in Tokens : f = token[t].family
      BY <3>1
    <3>3. [token[t] EXCEPT !.revoked = TRUE] = [family |-> f, revoked |-> TRUE]
      BY <3>1, <3>2, RevokedRow
    <3>4. PICK new : new = [family |-> f, revoked |-> FALSE]
      OBVIOUS
    <3>5. token' = [token EXCEPT ![t] = [family |-> f, revoked |-> TRUE], ![u] = new]
      <4>1. token' = [token EXCEPT ![t] = [token[t] EXCEPT !.revoked = TRUE], ![u] = new]
        BY <1>2, <2>1, <3>2, <3>4 DEF rotate
      <4>2. QED
        BY <3>3, <4>1
    <3>6. new \in Row /\ [family |-> f, revoked |-> TRUE] \in Row
      BY <3>4
    <3>7. /\ token'[u] = new /\ token'[t] = [family |-> f, revoked |-> TRUE]
          /\ \A v \in Tokens : v # u /\ v # t => token'[v] = token[v]
          /\ token' \in [Tokens -> Row \cup {NoToken}]
      BY <1>4, <3>1, <3>5, <3>6 DEF TokensOK
    <3>8. QED
      BY <3>1, <3>2, <3>4, <3>6, <3>7
  <2>2. CASE issueTokenPair(r, u)
    <3>1. at = "issue" /\ token' = [token EXCEPT ![u] = [family |-> u, revoked |-> FALSE]]
      BY <1>2, <2>2 DEF issueTokenPair
    <3>2. PICK new : new = [family |-> u, revoked |-> FALSE]
      OBVIOUS
    <3>3. new \in Row
      BY <3>2
    <3>4. /\ token'[u] = new
          /\ \A v \in Tokens : v # u => token'[v] = token[v]
          /\ token' \in [Tokens -> Row \cup {NoToken}]
      BY <3>1, <3>2, <3>3 DEF TokensOK
    <3>5. QED
      BY <3>1, <3>2, <3>3, <3>4
  <2>3. QED
    BY <1>1, <1>2, <2>1, <2>2 DEF rotate, issueTokenPair
<1>6. \A v \in Tokens : HasRow(v) => HasRow(v)'
  <2>1. [family |-> f, revoked |-> TRUE] # NoToken /\ new # NoToken
    BY <1>5, AbsentIsNoToken DEF NoToken
  <2>2. QED
    BY <1>4, <1>5, <2>1 DEF HasRow
<1>7. HasRow(u)' /\ TokenLive(u)'
  BY <1>5, AbsentIsNoToken DEF HasRow, NoToken, TokenLive
<1>8. \A v \in Tokens : v # u => token'[v].family = token[v].family
                              /\ (token'[v] # NoToken => token[v] # NoToken)
  BY <1>4, <1>5 DEF HasRow
<1>9. TokensOK'
  <2>1. HasRow(f)'
    <3>1. CASE at = "locked"
      <4>1. HasRow(f)
        BY <1>4, <1>5, <3>1 DEF TokensOK, HasRow
      <4>2. QED
        BY <1>6, <4>1
    <3>2. CASE at = "issue"
      BY <1>5, <1>7, <3>2
    <3>3. QED
      BY <1>1, <1>2, <3>1, <3>2
  <2>2. \A v \in Tokens : (token[v] # NoToken => HasRow(token[v].family))'
    <3> SUFFICES ASSUME NEW v \in Tokens, token'[v] # NoToken
                 PROVE  HasRow(token[v].family)'
      OBVIOUS
    <3>1. PICK g : g = token'[v].family
      OBVIOUS
    <3>2. CASE v = u
      BY <1>5, <2>1, <3>2
    <3>3. CASE v # u
      <4>1. g = token[v].family /\ HasRow(g)
        BY <1>8, <3>1, <3>3 DEF TokensOK, HasRow
      <4>2. HasRow(g)'
        BY <1>6, <4>1 DEF HasRow
      <4>3. QED
        BY <3>1, <4>2
    <3>4. QED
      BY <3>2, <3>3
  <2>3. QED
    BY <1>5, <2>2 DEF TokensOK
<1>10. \A v \in Tokens : v # u /\ TokenLive(v)' => TokenLive(v) /\ ~(at = "locked" /\ v = t)
  BY <1>3, <1>5 DEF TokenLive
<1>11. OneLivePerFamily'
  <2>1. ASSUME NEW v \in Tokens, v # u, TokenLive(v)', token'[v].family = f PROVE FALSE
    <3>1. TokenLive(v) /\ token[v].family = f
      BY <1>8, <1>10, <2>1
    <3>2. CASE at = "locked"
      BY <1>4, <1>5, <1>10, <2>1, <3>1, <3>2 DEF OneLivePerFamily, LiveTokens
    <3>3. CASE at = "issue"
      <4>1. token[v].family = u /\ token[v] # NoToken
        BY <1>5, <3>1, <3>3, AbsentIsNoToken DEF NoToken
      <4>2. QED
        BY <4>1 DEF TokensOK, HasRow
    <3>4. QED
      BY <1>1, <1>2, <3>2, <3>3
  <2>2. token'[u].family = f
    BY <1>5
  <2>3. ASSUME NEW v \in Tokens, NEW x \in Tokens, v # u, x # u,
               TokenLive(v)', TokenLive(x)', token'[v].family = token'[x].family
        PROVE  v = x
    BY <1>8, <1>10, <2>3 DEF OneLivePerFamily, LiveTokens
  <2>4. QED
    BY <2>1, <2>2, <2>3 DEF OneLivePerFamily, LiveTokens
<1>12. PICK c : /\ c \in {[call[r] EXCEPT !.at = "rotated", !.token = u],
                          [call[r] EXCEPT !.at = "signedIn", !.token = u]}
                /\ call' = [call EXCEPT ![r] = c]
  BY DEF rotate, issueTokenPair, CallsOK
<1>13. /\ c \in [at : CALL_STEPS, device : OrAbsent(Devices),
                 token : OrAbsent(Tokens), targets : SUBSET Tokens]
       /\ c.at \in {"rotated", "signedIn"} /\ c.token = u /\ c.targets = call[r].targets
       /\ u # Absent
  BY <1>1, <1>12, AbsentIsNoToken DEF CALL_STEPS, OrAbsent
<1>14. CallOK(c)'
  BY <1>1, <1>6, <1>7, <1>13 DEF CallOK, HasRow
<1>15. ASSUME NEW q \in Calls, q # r PROVE call'[q] = call[q] /\ CallOK(call[q])'
  <2>1. PICK d : d = call[q]
    OBVIOUS
  <2>2. call'[q] = d
    BY <1>12, <1>15, <2>1 DEF CallsOK
  <2>3. CallOK(d)
    BY <2>1 DEF CallsOK, CallOK, HasRow, TokenLive
  <2>4. d # NoCall =>
          /\ d.token # Absent => HasRow(d.token)'
          /\ \A v \in d.targets : HasRow(v)'
    BY <1>6, <2>3 DEF CallOK, HasRow
  <2>5. d # NoCall /\ d.at = "locked" => TokenLive(d.token)'
    <3> SUFFICES ASSUME d # NoCall, d.at = "locked" PROVE TokenLive(d.token)'
      OBVIOUS
    <3>1. PICK v : v = d.token
      OBVIOUS
    <3>2. v \in Tokens /\ TokenLive(v) /\ HasRow(v)
      BY <2>3, <3>1 DEF CallOK, HasRow
    <3>3. v # u /\ ~(at = "locked" /\ v = t)
      BY <1>2, <1>15, <2>1, <3>1, <3>2 DEF OneLock, HasRow
    <3>4. token'[v] = token[v]
      BY <1>5, <3>2, <3>3
    <3>5. TokenLive(v)'
      BY <3>2, <3>4 DEF TokenLive
    <3>6. QED
      BY <3>1, <3>5
  <2>6. CallOK(d)'
    BY <2>3, <2>4, <2>5 DEF CallOK
  <2>7. CallOK(call[q])'
    BY <2>2, <2>6 DEF CallOK, HasRow, TokenLive
  <2>8. QED
    BY <2>1, <2>2, <2>7
<1>16. CallsOK'
  <2>1. call'[r] = c
    BY <1>12 DEF CallsOK
  <2>2. call' \in [Calls -> [at : CALL_STEPS, device : OrAbsent(Devices),
                             token : OrAbsent(Tokens), targets : SUBSET Tokens]
                            \cup {NoCall}]
    BY <1>12, <1>13 DEF CallsOK
  <2>3. \A q \in Calls : CallOK(call[q])'
    BY <1>14, <1>15, <2>1
  <2>4. QED
    BY <2>2, <2>3 DEF CallsOK
<1>17. OneLock'
  <2>1. call'[r].at # "locked"
    BY <1>12, <1>13 DEF CallsOK
  <2>2. QED
    BY <1>15, <2>1 DEF OneLock
<1>18. StoredOK'
  BY <1>1, <1>6 DEF StoredOK, HasRow
<1>19. QED
  BY <1>9, <1>11, <1>16, <1>17, <1>18

\* Whatever races for a refresh token, what a request holds stays live until
\* it commits, so that each rotation takes one live token for another.
THEOREM SessionsInvariance == SessionsSpec => []SessionsInv
<1>1. SessionsInit => SessionsInv
  <2> SUFFICES ASSUME SessionsInit PROVE SessionsInv
    OBVIOUS
  <2>1. \A t \in Tokens : token[t] = NoToken /\ ~TokenLive(t)
    BY DEF SessionsInit, TokenLive, NoToken
  <2>2. \A r \in Calls : call[r] = NoCall /\ call[r].at = "idle"
    BY DEF SessionsInit, NoCall
  <2>3. TokensOK /\ OneLivePerFamily
    BY <2>1 DEF SessionsInit, TokensOK, OneLivePerFamily, LiveTokens
  <2>4. CallsOK /\ OneLock
    BY <2>2 DEF SessionsInit, CallsOK, CallOK, OneLock
  <2>5. StoredOK
    BY DEF SessionsInit, StoredOK, OrAbsent
  <2>6. QED
    BY <2>3, <2>4, <2>5 DEF SessionsInv
<1>2. SessionsInv /\ [SessionsNext]_sessionVars => SessionsInv'
  <2> SUFFICES ASSUME SessionsInv, [SessionsNext]_sessionVars PROVE SessionsInv'
    OBVIOUS
  <2>1. CASE UNCHANGED <<token, stored, call>>
    BY <2>1 DEF SessionsInv, TokensOK, CallsOK, CallOK, OneLock, StoredOK,
       OneLivePerFamily, LiveTokens, TokenLive, HasRow
  <2>2. CASE \E r \in Calls : DeviceSteps(r)
    BY <2>2, DeviceStepKeeps
  <2>3. CASE \E r \in Calls : SessionServerSteps(r)
    <3>1. PICK r \in Calls : SessionServerSteps(r)
      BY <2>3
    <3>2. CASE revoke(r) \/ logout(r)
      BY <3>2, RevokesKeep
    <3>3. CASE /\ \E u \in Tokens : token[u] = NoToken
               /\ rotate(r, FreshToken) \/ issueTokenPair(r, FreshToken)
      <4>1. FreshToken \in Tokens /\ token[FreshToken] = NoToken
        BY <3>3 DEF FreshToken
      <4>2. QED
        BY <3>3, <4>1, InsertKeeps
    <3>4. CASE QuietServer(r)
      BY <3>4, QuietServerKeeps
    <3>5. QED
      BY <3>1, <3>2, <3>3, <3>4 DEF SessionServerSteps, QuietServer
  <2>4. QED
    BY <2>1, <2>2, <2>3 DEF SessionsNext, restore, sessionVars
<1>3. QED
  BY <1>1, <1>2, PTL DEF SessionsSpec

\* For any number of devices, tokens and requests in flight: a family has one
\* live refresh token at most.
THEOREM SingleUse == SessionsSpec => []OneLivePerFamily
BY SessionsInvariance, PTL DEF SessionsInv

-----------------------------------------------------------------------------
(* Sessions: a device that nothing disturbed stays signed in.  The tokens of  *)
(* a family are held on behalf of one device, so that what the requests of    *)
(* one device revoke is never what another one keeps.                         *)

FamilyOf(t) == token[t].family
RefreshBy(r, d) == /\ call[r].device = d
                   /\ call[r].at \in {"refresh", "locked", "reuse", "rotated", "refused"}

\* The tokens of a family are held on behalf of one device.
FamilyHeldByOne ==
  /\ \A d, e \in Devices : stored[d] # Absent /\ stored[e] # Absent
       /\ FamilyOf(stored[d]) = FamilyOf(stored[e]) => d = e
  /\ \A r \in Calls, d \in Devices : call[r].token # Absent /\ stored[d] # Absent
       /\ FamilyOf(call[r].token) = FamilyOf(stored[d]) => call[r].device = d
  /\ \A r, q \in Calls : call[r].token # Absent /\ call[q].token # Absent
       /\ FamilyOf(call[r].token) = FamilyOf(call[q].token) => call[r].device = call[q].device

\* The token of a sign-in is nowhere else before it is stored.
SignInAlone ==
  \A r \in Calls : call[r].at = "signedIn" =>
    /\ \A q \in Calls \ {r} : call[q].token # Absent =>
         FamilyOf(call[q].token) # FamilyOf(call[r].token)
    /\ \A d \in Devices : stored[d] # Absent => FamilyOf(stored[d]) # FamilyOf(call[r].token)

OneRefresh ==
  \A d \in SingleFlight, r, q \in Calls : RefreshBy(r, d) /\ RefreshBy(q, d) => r = q

RevokingOK ==
  \A r \in Calls :
    /\ call[r].at = "reuse" =>
         /\ call[r].token # Absent
         /\ \A t \in call[r].targets : FamilyOf(t) = FamilyOf(call[r].token)
    /\ call[r].at \in {"logout", "clear"} => call[r].device \in disturbed \cap Devices
    /\ call[r].at = "ending" => Devices \subseteq disturbed

UndisturbedOK ==
  \A d \in SingleFlight \ disturbed :
    /\ \A r \in Calls : call[r].device = d =>
         /\ call[r].at # "reuse"
         /\ call[r].at \in {"refresh", "locked"} => call[r].token = stored[d]
         /\ call[r].at \in {"rotated", "signedIn"} => TokenLive(call[r].token)
    /\ stored[d] # Absent /\ (\A r \in Calls : call[r].device = d => call[r].at # "rotated")
         => TokenLive(stored[d])

FlightInv == FamilyHeldByOne /\ SignInAlone /\ OneRefresh /\ RevokingOK /\ UndisturbedOK

\* A step that gives no token to anybody: requests end, go on or look on.
LEMMA SameHolders ==
  ASSUME SessionsInv, FlightInv, NEW r \in Calls, NEW c,
         call' = [call EXCEPT ![r] = c],
         c.token # Absent => c.token = call[r].token /\ c.device = call[r].device,
         c.at = "signedIn" => call[r].at = "signedIn" /\ c.token = call[r].token,
         \A t \in Tokens : HasRow(t) => token'[t].family = token[t].family,
         \A d \in Devices : stored'[d] \in {stored[d], Absent}
  PROVE  FamilyHeldByOne' /\ SignInAlone'
<1> USE DEF SessionsInv, FlightInv, FamilyOf
<1>1. /\ \A q \in Calls : q # r => call'[q] = call[q]
      /\ call'[r] = c
  BY DEF CallsOK
<1>2. \A q \in Calls : call[q].token # Absent => HasRow(call[q].token)
  BY DEF CallsOK, CallOK, NoCall
<1>3. \A d \in Devices : stored[d] # Absent => HasRow(stored[d])
  BY DEF StoredOK
<1>4. \A q \in Calls : call'[q].token # Absent =>
        /\ call'[q].token = call[q].token /\ call'[q].device = call[q].device
        /\ HasRow(call[q].token) /\ token'[call'[q].token].family = token[call[q].token].family
  BY <1>1, <1>2 DEF HasRow
<1>5. \A d \in Devices : stored'[d] # Absent =>
        stored'[d] = stored[d] /\ token'[stored'[d]].family = token[stored[d]].family
  BY <1>3 DEF HasRow
<1>6. FamilyHeldByOne'
  BY <1>4, <1>5 DEF FamilyHeldByOne
<1>7. \A q \in Calls : call'[q].at = "signedIn" =>
        call[q].at = "signedIn" /\ call'[q].token = call[q].token /\ call[q].token # Absent
  BY <1>1 DEF CallsOK, CallOK, NoCall
<1>8. SignInAlone'
  BY <1>4, <1>5, <1>7 DEF SignInAlone
<1>9. QED
  BY <1>6, <1>8

\* A request begins with the token that its device keeps.
LEMMA BorrowsStored ==
  ASSUME SessionsInv, FlightInv, NEW r \in Calls, NEW d \in Devices, NEW c,
         call' = [call EXCEPT ![r] = c], c.device = d, c.token = stored[d],
         c.at # "signedIn", stored[d] # Absent, token' = token, stored' = stored
  PROVE  FamilyHeldByOne' /\ SignInAlone'
<1> USE DEF SessionsInv, FlightInv, FamilyOf
<1>1. /\ \A q \in Calls : q # r => call'[q] = call[q]
      /\ call'[r] = c
  BY DEF CallsOK
<1>2. FamilyHeldByOne'
  BY <1>1 DEF FamilyHeldByOne
<1>3. SignInAlone'
  BY <1>1 DEF SignInAlone
<1>4. QED
  BY <1>2, <1>3

\* The answer with a token is stored, and the request is over.
LEMMA StoresAnswer ==
  ASSUME SessionsInv, FlightInv, NEW r \in Calls, NEW d, d = call[r].device,
         call[r].at \in {"rotated", "signedIn"},
         call' = [call EXCEPT ![r] = NoCall], token' = token,
         stored' = [stored EXCEPT ![d] = call[r].token]
  PROVE  FamilyHeldByOne' /\ SignInAlone'
<1> USE DEF SessionsInv, FlightInv, FamilyOf
<1>1. /\ \A q \in Calls : q # r => call'[q] = call[q]
      /\ call'[r] = NoCall /\ NoCall.token = Absent /\ NoCall.at = "idle"
  BY DEF CallsOK, NoCall
<1>2. call[r].token # Absent
  BY DEF CallsOK, CallOK, NoCall
<1>3. \A e \in Devices : stored'[e] = IF e = d THEN call[r].token ELSE stored[e]
  BY DEF StoredOK
<1>4. FamilyHeldByOne'
  BY <1>1, <1>2, <1>3 DEF FamilyHeldByOne
<1>5. \A q \in Calls : call'[q].at = "signedIn" => q # r /\ call[q].at = "signedIn"
  BY <1>1
<1>6. SignInAlone'
  BY <1>1, <1>2, <1>3, <1>5 DEF SignInAlone
<1>7. QED
  BY <1>4, <1>6

\* A new token goes to the request that asked for it: in the family of the
\* token it takes the place of, or as the first of a family of its own.
LEMMA HandsOut ==
  ASSUME SessionsInv, FlightInv, NEW r \in Calls, NEW u \in Tokens, NEW c,
         token[u] = NoToken, call' = [call EXCEPT ![r] = c],
         c.token = u, c.device = call[r].device, stored' = stored,
         \A t \in Tokens : HasRow(t) => token'[t].family = token[t].family,
         \/ /\ c.at # "signedIn" /\ call[r].token # Absent /\ call[r].at # "signedIn"
            /\ token'[u].family = token[call[r].token].family
         \/ token'[u].family = u
  PROVE  FamilyHeldByOne' /\ SignInAlone'
<1> USE DEF SessionsInv, FlightInv, FamilyOf
<1>1. /\ \A q \in Calls : q # r => call'[q] = call[q]
      /\ call'[r] = c
  BY DEF CallsOK
<1>2. \A q \in Calls : call[q].token # Absent => HasRow(call[q].token)
  BY DEF CallsOK, CallOK, NoCall
<1>3. \A d \in Devices : stored[d] # Absent => HasRow(stored[d])
  BY DEF StoredOK
<1>4. \A t \in Tokens : HasRow(t) => token[t].family # u
  BY DEF TokensOK, HasRow
<1>5. /\ \A q \in Calls : call[q].token # Absent =>
           /\ token'[call[q].token].family = token[call[q].token].family
           /\ token[call[q].token].family # u
      /\ \A d \in Devices : stored[d] # Absent =>
           /\ token'[stored[d]].family = token[stored[d]].family
           /\ token[stored[d]].family # u
  BY <1>2, <1>3, <1>4 DEF HasRow
<1>6. u # Absent
  BY AbsentIsNoToken
<1>7. CASE /\ c.at # "signedIn" /\ call[r].token # Absent /\ call[r].at # "signedIn"
           /\ token'[u].family = token[call[r].token].family
  <2>1. FamilyHeldByOne'
    BY <1>1, <1>5, <1>6, <1>7 DEF FamilyHeldByOne
  <2>2. \A q \in Calls : call[q].at = "signedIn" => call[q].token # Absent
    BY DEF CallsOK, CallOK, NoCall
  <2>3. SignInAlone'
    BY <1>1, <1>5, <1>6, <1>7, <2>2 DEF SignInAlone
  <2>4. QED
    BY <2>1, <2>3
<1>8. CASE token'[u].family = u
  <2>1. FamilyHeldByOne'
    BY <1>1, <1>5, <1>6, <1>8 DEF FamilyHeldByOne
  <2>2. \A q \in Calls : call[q].at = "signedIn" => call[q].token # Absent
    BY DEF CallsOK, CallOK, NoCall
  <2>3. SignInAlone'
    BY <1>1, <1>5, <1>6, <1>8, <2>2 DEF SignInAlone
  <2>4. QED
    BY <2>1, <2>3
<1>9. QED
  BY <1>7, <1>8

\* What a request and a device hold has a row; a request that has ended holds
\* nothing.
LEMMA HeldRows ==
  ASSUME SessionsInv
  PROVE  /\ \A q \in Calls : call[q].token # Absent => HasRow(call[q].token)
         /\ \A q \in Calls : call[q].at \in {"refresh", "locked", "logout", "rotated", "signedIn"}
              => call[q].token # Absent
         /\ \A d \in Devices : stored[d] # Absent => HasRow(stored[d])
         /\ NoCall.at = "idle" /\ NoCall.token = Absent /\ NoCall.device = Absent
BY DEF SessionsInv, CallsOK, CallOK, StoredOK, NoCall

\* A request ends, its answer being a refusal or of no use any more.
LEMMA EndingKeeps ==
  ASSUME SessionsInv, FlightInv, NEW r \in Calls,
         \/ loseCall(r) \/ clearTokens(r)
         \/ receive(r) /\ call[r].at = "refused"
  PROVE  FlightInv'
<1>1. /\ \A q \in Calls : q # r => call'[q] = call[q]
      /\ call'[r] = NoCall /\ token' = token
      /\ call' = [call EXCEPT ![r] = NoCall]
  BY DEF loseCall, clearTokens, receive, EndCall, SessionsInv, CallsOK
<1>2. \A d \in Devices : stored'[d] \in {stored[d], Absent}
  BY DEF loseCall, clearTokens, receive, SessionsInv, StoredOK
<1>3. FamilyHeldByOne' /\ SignInAlone'
  BY <1>1, <1>2, HeldRows, SameHolders
<1>4. disturbed \subseteq disturbed'
  BY DEF loseCall, clearTokens, receive
<1>5. OneRefresh'
  BY <1>1, HeldRows DEF FlightInv, OneRefresh, RefreshBy
<1>6. RevokingOK'
  BY <1>1, <1>4, HeldRows DEF FlightInv, RevokingOK, FamilyOf
<1>7. UndisturbedOK'
  <2> SUFFICES ASSUME NEW d \in SingleFlight \ disturbed'
               PROVE  /\ \A q \in Calls : call'[q].device = d =>
                           /\ call'[q].at # "reuse"
                           /\ call'[q].at \in {"refresh", "locked"} => call'[q].token = stored'[d]
                           /\ call'[q].at \in {"rotated", "signedIn"} => TokenLive(call[q].token)'
                      /\ stored'[d] # Absent
                         /\ (\A q \in Calls : call'[q].device = d => call'[q].at # "rotated")
                           => TokenLive(stored[d])'
    BY DEF UndisturbedOK
  <2>1. d \in SingleFlight \ disturbed /\ d \in Devices
    BY <1>4, SingleFlightAreDevices
  <2>2. \/ stored'[d] = stored[d]
        \/ stored'[d] = Absent /\ call[r].at = "refused" /\ call[r].device = d
    <3>1. CASE loseCall(r)
      BY <3>1 DEF loseCall
    <3>2. CASE clearTokens(r)
      BY <2>1, <3>2 DEF clearTokens, SessionsInv, StoredOK, FlightInv, RevokingOK
    <3>3. CASE receive(r) /\ call[r].at = "refused"
      BY <2>1, <3>3 DEF receive, SessionsInv, StoredOK
    <3>4. QED
      BY <3>1, <3>2, <3>3
  <2>3. \A q \in Calls : call'[q].device = d /\ call'[q].at # "idle" => q # r /\ call'[q] = call[q]
    BY <1>1, HeldRows
  <2>4. \A q \in Calls : q # r /\ call[q].device = d /\ call[q].at \in {"refresh", "locked"}
          => stored'[d] = stored[d]
    BY <2>1, <2>2 DEF FlightInv, OneRefresh, RefreshBy
  <2>5. call[r].device = d => call[r].at # "rotated"
    BY <2>1 DEF loseCall, clearTokens, receive
  <2>6. QED
    BY <1>1, <2>1, <2>2, <2>3, <2>4, <2>5 DEF FlightInv, UndisturbedOK, TokenLive
<1>8. QED
  BY <1>3, <1>5, <1>6, <1>7 DEF FlightInv

\* A device begins a request with the token it keeps.
LEMMA BorrowingKeeps ==
  ASSUME SessionsInv, FlightInv, NEW r \in Calls, NEW d \in Devices,
         tryRefresh(r, d) \/ signOut(r, d)
  PROVE  FlightInv'
<1>1. PICK c : /\ c \in {[at |-> "refresh", device |-> d, token |-> stored[d], targets |-> {}],
                          [at |-> "logout", device |-> d, token |-> stored[d], targets |-> {}]}
               /\ call' = [call EXCEPT ![r] = c]
               /\ c.at = "refresh" => disturbed' = disturbed /\ (d \in SingleFlight => ~Refreshing(d))
               /\ c.at = "logout" => disturbed' = disturbed \cup {d}
  BY DEF tryRefresh, signOut, BeginCall
<1>2. /\ \A q \in Calls : q # r => call'[q] = call[q]
      /\ call'[r] = c /\ c.device = d /\ c.token = stored[d] /\ c.at \in {"refresh", "logout"}
      /\ token' = token /\ stored' = stored /\ stored[d] # Absent
      /\ call[r] = NoCall
  BY <1>1 DEF tryRefresh, signOut, BeginCall, SessionsInv, CallsOK
<1>3. FamilyHeldByOne' /\ SignInAlone'
  BY <1>1, <1>2, BorrowsStored
<1>4. disturbed \subseteq disturbed'
  BY <1>1, <1>2
<1>5. OneRefresh'
  BY <1>1, <1>2 DEF FlightInv, OneRefresh, RefreshBy, Refreshing
<1>6. RevokingOK'
  BY <1>1, <1>2, <1>4 DEF FlightInv, RevokingOK, FamilyOf
<1>7. UndisturbedOK'
  <2> SUFFICES ASSUME NEW e \in SingleFlight \ disturbed'
               PROVE  /\ \A q \in Calls : call'[q].device = e =>
                           /\ call'[q].at # "reuse"
                           /\ call'[q].at \in {"refresh", "locked"} => call'[q].token = stored'[e]
                           /\ call'[q].at \in {"rotated", "signedIn"} => TokenLive(call[q].token)'
                      /\ stored'[e] # Absent
                         /\ (\A q \in Calls : call'[q].device = e => call'[q].at # "rotated")
                           => TokenLive(stored[e])'
    BY DEF UndisturbedOK
  <2>1. e \in SingleFlight \ disturbed
    BY <1>4
  <2>2. call[r].at = "idle"
    BY <1>2, HeldRows
  <2>3. QED
    BY <1>2, <2>1, <2>2 DEF FlightInv, UndisturbedOK, TokenLive
<1>8. QED
  BY <1>3, <1>5, <1>6, <1>7 DEF FlightInv

\* A token arrives and is stored.
LEMMA StoringKeeps ==
  ASSUME SessionsInv, FlightInv, NEW r \in Calls,
         \/ storeSignIn(r)
         \/ receive(r) /\ call[r].at = "rotated"
  PROVE  FlightInv'
<1>1. PICK d : d = call[r].device
  OBVIOUS
<1>2. /\ \A q \in Calls : q # r => call'[q] = call[q]
      /\ call'[r] = NoCall /\ token' = token
      /\ call' = [call EXCEPT ![r] = NoCall]
      /\ call[r].at \in {"rotated", "signedIn"}
      /\ stored' = [stored EXCEPT ![d] = call[r].token]
      /\ \A e \in Devices : stored'[e] = IF e = d THEN call[r].token ELSE stored[e]
  BY <1>1 DEF storeSignIn, receive, EndCall, SessionsInv, CallsOK, StoredOK
<1>3. FamilyHeldByOne' /\ SignInAlone'
  BY <1>1, <1>2, StoresAnswer
<1>4. disturbed \subseteq disturbed'
  BY DEF storeSignIn, receive
<1>5. OneRefresh'
  BY <1>2, HeldRows DEF FlightInv, OneRefresh, RefreshBy
<1>6. RevokingOK'
  BY <1>2, <1>4, HeldRows DEF FlightInv, RevokingOK, FamilyOf
<1>7. UndisturbedOK'
  <2> SUFFICES ASSUME NEW e \in SingleFlight \ disturbed'
               PROVE  /\ \A q \in Calls : call'[q].device = e =>
                           /\ call'[q].at # "reuse"
                           /\ call'[q].at \in {"refresh", "locked"} => call'[q].token = stored'[e]
                           /\ call'[q].at \in {"rotated", "signedIn"} => TokenLive(call[q].token)'
                      /\ stored'[e] # Absent
                         /\ (\A q \in Calls : call'[q].device = e => call'[q].at # "rotated")
                           => TokenLive(stored[e])'
    BY DEF UndisturbedOK
  <2>1. e \in SingleFlight \ disturbed /\ e \in Devices
    BY <1>4, SingleFlightAreDevices
  <2>2. CASE e # d
    BY <1>1, <1>2, <2>1, <2>2, HeldRows DEF FlightInv, UndisturbedOK, TokenLive
  <2>3. CASE e = d
    <3>1. \A q \in Calls : q # r /\ call[q].device = d => call[q].at \notin {"refresh", "locked", "rotated"}
      <4>1. CASE call[r].at = "rotated"
        BY <1>1, <2>1, <2>3, <4>1 DEF FlightInv, OneRefresh, RefreshBy
      <4>2. CASE call[r].at = "signedIn"
        BY <1>1, <2>1, <2>3, <4>2 DEF storeSignIn, receive, Refreshing
      <4>3. QED
        BY <1>2, <4>1, <4>2
    <3>2. TokenLive(call[r].token)
      BY <1>1, <1>2, <2>1, <2>3 DEF FlightInv, UndisturbedOK
    <3>3. \A q \in Calls : call'[q].at # "idle" => q # r /\ call'[q] = call[q]
      BY <1>2, HeldRows
    <3>4. stored'[e] = call[r].token
      BY <1>2, <2>1, <2>3
    <3>5. QED
      BY <1>2, <2>1, <2>3, <3>1, <3>2, <3>3, <3>4 DEF FlightInv, UndisturbedOK, TokenLive
  <2>4. QED
    BY <2>2, <2>3
<1>8. QED
  BY <1>3, <1>5, <1>6, <1>7 DEF FlightInv

\* A request that holds no token begins or goes on.
LEMMA EmptyHandedKeeps ==
  ASSUME SessionsInv, FlightInv, NEW r \in Calls,
         \/ \E d \in Devices : login(r, d)
         \/ beginDeletion(r) \/ suspend(r) \/ resetPassword(r)
         \/ reactivate(r) \/ requestDeletion(r) \/ revokeAllSessions(r)
  PROVE  FlightInv'
<1>1. PICK c : /\ call' = [call EXCEPT ![r] = c]
               /\ c.at \in {"issue", "reactivate", "delete", "endAll", "ending"}
               /\ c.token # Absent => c.token = call[r].token /\ c.device = call[r].device
               /\ c.at = "ending" => disturbed' = Devices
  <2>1. call[r] \in [at : CALL_STEPS, device : OrAbsent(Devices),
                     token : OrAbsent(Tokens), targets : SUBSET Tokens] \cup {NoCall}
    BY DEF SessionsInv, CallsOK
  <2>2. CASE (\E d \in Devices : login(r, d)) \/ beginDeletion(r) \/ suspend(r) \/ resetPassword(r)
    <3>1. PICK at, d : /\ call' = [call EXCEPT ![r] = [at |-> at, device |-> d,
                                                      token |-> Absent, targets |-> {}]]
                       /\ at \in {"issue", "reactivate", "delete", "endAll"}
      BY <2>2 DEF login, beginDeletion, suspend, resetPassword, BeginCall
    <3>2. PICK c : c = [at |-> at, device |-> d, token |-> Absent, targets |-> {}]
      OBVIOUS
    <3>3. c.at = at /\ c.token = Absent
      BY <3>2
    <3>4. QED
      BY <3>1, <3>2, <3>3
  <2>3. CASE reactivate(r) \/ requestDeletion(r)
    <3>1. PICK at \in {"issue", "endAll"} : call' = [call EXCEPT ![r].at = at]
      BY <2>3 DEF reactivate, requestDeletion, CallAt
    <3>2. PICK c : c = [call[r] EXCEPT !.at = at]
      OBVIOUS
    <3>3. c.at = at /\ c.token = call[r].token /\ c.device = call[r].device
      BY <2>1, <3>2 DEF NoCall
    <3>4. QED
      BY <3>1, <3>2, <3>3
  <2>4. CASE revokeAllSessions(r)
    <3>1. call' = [call EXCEPT ![r].at = "ending", ![r].targets = LiveTokens]
      BY <2>4 DEF revokeAllSessions
    <3>2. PICK c : c = [call[r] EXCEPT !.at = "ending", !.targets = LiveTokens]
      OBVIOUS
    <3>3. c.at = "ending" /\ c.token = call[r].token /\ c.device = call[r].device
      BY <2>1, <3>2 DEF NoCall
    <3>4. call' = [call EXCEPT ![r] = c]
      BY <3>1, <3>2 DEF SessionsInv, CallsOK
    <3>5. QED
      BY <2>4, <3>3, <3>4 DEF revokeAllSessions
  <2>5. QED
    BY <2>2, <2>3, <2>4
<1>2. /\ \A q \in Calls : q # r => call'[q] = call[q]
      /\ call'[r] = c /\ token' = token /\ stored' = stored
  BY <1>1 DEF SessionsInv, CallsOK, login, beginDeletion, suspend, resetPassword,
     reactivate, requestDeletion, revokeAllSessions
<1>3. FamilyHeldByOne' /\ SignInAlone'
  BY <1>1, <1>2, SameHolders
<1>4. disturbed' = disturbed \/ disturbed' = Devices
  BY DEF login, beginDeletion, suspend, resetPassword,
     reactivate, requestDeletion, revokeAllSessions
<1>5. OneRefresh'
  BY <1>1, <1>2 DEF FlightInv, OneRefresh, RefreshBy
<1>6. \A q \in Calls : call[q].at \in {"logout", "clear"} => call[q].device \in disturbed' \cap Devices
  <2>1. CASE disturbed' = disturbed
    BY <2>1 DEF FlightInv, RevokingOK
  <2>2. CASE disturbed' = Devices
    <3>1. \A q \in Calls : call[q].at \in {"logout", "clear"} => call[q].device \in Devices
      BY DEF FlightInv, RevokingOK
    <3>2. QED
      BY <2>2, <3>1
  <2>3. QED
    BY <1>4, <2>1, <2>2
<1>7. RevokingOK'
  BY <1>1, <1>2, <1>4, <1>6 DEF FlightInv, RevokingOK, FamilyOf
<1>8. UndisturbedOK'
  <2> SUFFICES ASSUME NEW e \in SingleFlight \ disturbed'
               PROVE  /\ \A q \in Calls : call'[q].device = e =>
                           /\ call'[q].at # "reuse"
                           /\ call'[q].at \in {"refresh", "locked"} => call'[q].token = stored'[e]
                           /\ call'[q].at \in {"rotated", "signedIn"} => TokenLive(call[q].token)'
                      /\ stored'[e] # Absent
                         /\ (\A q \in Calls : call'[q].device = e => call'[q].at # "rotated")
                           => TokenLive(stored[e])'
    BY DEF UndisturbedOK
  <2>1. e \in SingleFlight \ disturbed
    BY <1>4, SingleFlightAreDevices
  <2>2. call[r].at # "rotated"
    BY HeldRows DEF login, beginDeletion, suspend, resetPassword,
       reactivate, requestDeletion, revokeAllSessions, BeginCall
  <2>3. QED
    BY <1>1, <1>2, <2>1, <2>2 DEF FlightInv, UndisturbedOK, TokenLive
<1>9. QED
  BY <1>3, <1>5, <1>7, <1>8 DEF FlightInv

\* The token's row is read under its lock.
LEMMA TakingKeeps ==
  ASSUME SessionsInv, FlightInv, NEW r \in Calls, takeToken(r)
  PROVE  FlightInv'
<1>1. PICK d, t : d = call[r].device /\ t = call[r].token
  OBVIOUS
<1>2. /\ t \in Tokens /\ HasRow(t) /\ call[r].at = "refresh" /\ t # Absent
      /\ call[r] \in [at : CALL_STEPS, device : OrAbsent(Devices),
                      token : OrAbsent(Tokens), targets : SUBSET Tokens]
  BY <1>1, HeldRows DEF takeToken, HasRow, SessionsInv, CallsOK, NoCall
<1>3. PICK c : /\ call' = [call EXCEPT ![r] = c]
               /\ c.device = d /\ c.token = t
               /\ \/ c.at = "reuse" /\ token[t].revoked /\ c.targets = LiveTokens \cap TokenFamily(t)
                  \/ c.at \in {"refused", "locked"} /\ TokenLive(t)
  <2>1. CASE token[t].revoked /\ call' = [call EXCEPT ![r].at = "reuse",
                                          ![r].targets = LiveTokens \cap TokenFamily(t)]
    <3>1. PICK c : c = [call[r] EXCEPT !.at = "reuse", !.targets = LiveTokens \cap TokenFamily(t)]
      OBVIOUS
    <3>2. /\ c.at = "reuse" /\ c.device = d /\ c.token = t
          /\ c.targets = LiveTokens \cap TokenFamily(t)
      BY <1>1, <1>2, <3>1
    <3>3. call' = [call EXCEPT ![r] = c]
      BY <2>1, <3>1 DEF SessionsInv, CallsOK
    <3>4. QED
      BY <2>1, <3>2, <3>3
  <2>2. ASSUME NEW at \in {"refused", "locked"}, TokenLive(t), call' = [call EXCEPT ![r].at = at]
        PROVE  \E c : /\ call' = [call EXCEPT ![r] = c]
                      /\ c.device = d /\ c.token = t /\ c.at \in {"refused", "locked"}
    <3>1. PICK c : c = [call[r] EXCEPT !.at = at]
      OBVIOUS
    <3>2. c.at = at /\ c.device = d /\ c.token = t
      BY <1>1, <1>2, <3>1
    <3>3. QED
      BY <2>2, <3>1, <3>2
  <2>3. QED
    BY <1>1, <2>1, <2>2 DEF takeToken, CallAt
<1>4. /\ \A q \in Calls : q # r => call'[q] = call[q]
      /\ call'[r] = c /\ token' = token /\ stored' = stored /\ disturbed' = disturbed
  BY <1>3 DEF SessionsInv, CallsOK, takeToken
<1>5. FamilyHeldByOne' /\ SignInAlone'
  BY <1>1, <1>3, <1>4, SameHolders
<1>6. OneRefresh'
  BY <1>1, <1>2, <1>3, <1>4 DEF FlightInv, OneRefresh, RefreshBy
<1>7. RevokingOK'
  <2>1. c.at = "reuse" => \A v \in c.targets : token[v].family = token[t].family
    BY <1>3 DEF TokenFamily
  <2>2. QED
    BY <1>2, <1>3, <1>4, <2>1 DEF FlightInv, RevokingOK, FamilyOf
<1>8. UndisturbedOK'
  <2> SUFFICES ASSUME NEW e \in SingleFlight \ disturbed'
               PROVE  /\ \A q \in Calls : call'[q].device = e =>
                           /\ call'[q].at # "reuse"
                           /\ call'[q].at \in {"refresh", "locked"} => call'[q].token = stored'[e]
                           /\ call'[q].at \in {"rotated", "signedIn"} => TokenLive(call[q].token)'
                      /\ stored'[e] # Absent
                         /\ (\A q \in Calls : call'[q].device = e => call'[q].at # "rotated")
                           => TokenLive(stored[e])'
    BY DEF UndisturbedOK
  <2>1. e \in SingleFlight \ disturbed
    BY <1>4
  <2>2. CASE e # d
    BY <1>1, <1>3, <1>4, <2>1, <2>2 DEF FlightInv, UndisturbedOK, TokenLive
  <2>3. CASE e = d
    <3>1. stored[d] = t
      BY <1>1, <1>2, <2>1, <2>3 DEF FlightInv, UndisturbedOK
    <3>2. \A q \in Calls : call[q].device = d => call[q].at # "rotated"
      BY <1>1, <1>2, <2>1, <2>3 DEF FlightInv, OneRefresh, RefreshBy
    <3>3. TokenLive(t)
      BY <1>2, <2>1, <2>3, <3>1, <3>2 DEF FlightInv, UndisturbedOK
    <3>4. c.at \in {"refused", "locked"}
      BY <1>3, <3>3 DEF TokenLive
    <3>5. QED
      BY <1>1, <1>3, <1>4, <2>1, <2>3, <3>1, <3>3, <3>4 DEF FlightInv, UndisturbedOK, TokenLive
  <2>4. QED
    BY <2>2, <2>3
<1>9. QED
  BY <1>5, <1>6, <1>7, <1>8 DEF FlightInv

\* Tokens of one family are revoked, or of all when every device is disturbed.
LEMMA RevokingKeeps ==
  ASSUME SessionsInv, FlightInv, NEW r \in Calls, revoke(r) \/ logout(r)
  PROVE  FlightInv'
<1>1. PICK d, t, at : d = call[r].device /\ t = call[r].token /\ at = call[r].at
  OBVIOUS
<1>2. /\ call[r] \in [at : CALL_STEPS, device : OrAbsent(Devices),
                      token : OrAbsent(Tokens), targets : SUBSET Tokens]
      /\ at \in {"reuse", "ending", "logout"} /\ stored' = stored /\ disturbed' = disturbed
  BY <1>1 DEF revoke, logout, SessionsInv, CallsOK, NoCall
<1>3. PICK c : /\ call' = [call EXCEPT ![r] = c]
               /\ c.token # Absent => c.token = t /\ c.device = d
               /\ \/ at = "reuse" /\ c.at = "refused" /\ c.device = d
                  \/ at = "ending" /\ c.at = "idle"
                  \/ at = "logout" /\ c.at = "clear" /\ c.device = d
  <2>1. ASSUME NEW now \in {"refused", "clear"}
        PROVE  /\ [call[r] EXCEPT !.at = now].at = now
               /\ [call[r] EXCEPT !.at = now].device = d
               /\ [call[r] EXCEPT !.at = now].token = t
    BY <1>1, <1>2
  <2>2. CASE at = "reuse"
    BY <1>1, <2>1, <2>2 DEF revoke, logout, CallAt
  <2>3. CASE at = "ending"
    BY <1>1, <2>3, HeldRows DEF revoke, logout, EndCall
  <2>4. CASE at = "logout"
    BY <1>1, <2>1, <2>4 DEF revoke, logout, CallAt
  <2>5. QED
    BY <1>2, <2>2, <2>3, <2>4
<1>4. PICK S \in SUBSET Tokens :
        /\ S = IF at = "logout" THEN {t} ELSE call[r].targets
        /\ \A v \in S : HasRow(v)
        /\ token' = [v \in Tokens |-> IF v \in S
                       THEN [family |-> token[v].family, revoked |-> TRUE] ELSE token[v]]
  <2>1. \A v \in Tokens : HasRow(v) => token[v] \in [family : Tokens, revoked : BOOLEAN]
    BY DEF SessionsInv, TokensOK, HasRow
  <2>2. \A v \in Tokens : HasRow(v) =>
          [token[v] EXCEPT !.revoked = TRUE] = [family |-> token[v].family, revoked |-> TRUE]
    BY <2>1, RevokedRow
  <2>3. CASE at = "logout"
    <3>1. t \in Tokens /\ HasRow(t)
      BY <1>1, <2>3, HeldRows DEF HasRow
    <3>2. token' = [token EXCEPT ![t] = [token[t] EXCEPT !.revoked = TRUE]]
      BY <1>1, <2>3 DEF revoke, logout
    <3>3. token' = [v \in Tokens |-> IF v \in {t}
                     THEN [family |-> token[v].family, revoked |-> TRUE] ELSE token[v]]
      BY <2>2, <3>1, <3>2 DEF SessionsInv, TokensOK
    <3>4. QED
      BY <2>3, <3>1, <3>3
  <2>4. CASE at # "logout"
    <3>1. PICK S : S = call[r].targets
      OBVIOUS
    <3>2. S \in SUBSET Tokens /\ \A v \in S : HasRow(v)
      BY <1>1, <1>2, <3>1 DEF SessionsInv, CallsOK, CallOK, NoCall
    <3>3. token' = [v \in Tokens |-> IF v \in S
                     THEN [token[v] EXCEPT !.revoked = TRUE] ELSE token[v]]
      BY <1>1, <2>4, <3>1 DEF revoke, logout
    <3>4. token' = [v \in Tokens |-> IF v \in S
                     THEN [family |-> token[v].family, revoked |-> TRUE] ELSE token[v]]
      BY <2>2, <3>2, <3>3
    <3>5. QED
      BY <2>4, <3>1, <3>2, <3>4
  <2>5. QED
    BY <2>3, <2>4
<1>5. /\ \A q \in Calls : q # r => call'[q] = call[q]
      /\ call'[r] = c /\ c.at \in {"refused", "idle", "clear"}
  BY <1>3, HeldRows DEF SessionsInv, CallsOK
<1>6. \A v \in Tokens : token'[v].family = token[v].family
  BY <1>4
<1>7. FamilyHeldByOne' /\ SignInAlone'
  BY <1>1, <1>2, <1>3, <1>5, <1>6, SameHolders
<1>8. OneRefresh'
  BY <1>1, <1>3, <1>5 DEF FlightInv, OneRefresh, RefreshBy
<1>9. RevokingOK'
  <2>1. \A q \in Calls : call[q].at = "reuse" => \A v \in call[q].targets : v \in Tokens
    BY DEF SessionsInv, CallsOK, NoCall
  <2>2. \A q \in Calls : call[q].at = "reuse" => call[q].token \in Tokens
    BY HeldRows DEF FlightInv, RevokingOK, HasRow
  <2>3. \A q \in Calls : call'[q].at \in {"reuse", "ending"} => q # r
    BY <1>5
  <2>4. \A q \in Calls : call'[q].at \in {"logout", "clear"} => call'[q].device \in disturbed \cap Devices
    BY <1>1, <1>3, <1>5 DEF FlightInv, RevokingOK
  <2>5. QED
    BY <1>2, <1>5, <1>6, <2>1, <2>2, <2>3, <2>4 DEF FlightInv, RevokingOK, FamilyOf
<1>10. UndisturbedOK'
  <2> SUFFICES ASSUME NEW e \in SingleFlight \ disturbed'
               PROVE  /\ \A q \in Calls : call'[q].device = e =>
                           /\ call'[q].at # "reuse"
                           /\ call'[q].at \in {"refresh", "locked"} => call'[q].token = stored'[e]
                           /\ call'[q].at \in {"rotated", "signedIn"} => TokenLive(call[q].token)'
                      /\ stored'[e] # Absent
                         /\ (\A q \in Calls : call'[q].device = e => call'[q].at # "rotated")
                           => TokenLive(stored[e])'
    BY DEF UndisturbedOK
  <2>1. e \in SingleFlight \ disturbed /\ e \in Devices
    BY <1>2, SingleFlightAreDevices
  <2>2. at # "ending" /\ e # d
    BY <1>1, <1>2, <2>1 DEF FlightInv, RevokingOK, UndisturbedOK
  <2>3. t # Absent /\ \A v \in S : token[v].family = token[t].family
    BY <1>1, <1>2, <1>4, <2>2, HeldRows DEF FlightInv, RevokingOK, FamilyOf
  <2>4. stored[e] # Absent => stored[e] \notin S
    BY <1>1, <2>1, <2>2, <2>3 DEF FlightInv, FamilyHeldByOne, FamilyOf
  <2>5. \A q \in Calls : call[q].device = e /\ call[q].token # Absent => call[q].token \notin S
    BY <1>1, <2>2, <2>3 DEF FlightInv, FamilyHeldByOne, FamilyOf
  <2>6. \A v \in Tokens : v \notin S => token'[v] = token[v]
    BY <1>4
  <2>7. stored[e] # Absent /\ TokenLive(stored[e]) => TokenLive(stored[e])'
    <3>1. stored[e] # Absent => token'[stored[e]] = token[stored[e]]
      BY <2>1, <2>4, <2>6, HeldRows DEF HasRow
    <3>2. QED
      BY <1>2, <3>1 DEF TokenLive
  <2>8. \A q \in Calls : q # r /\ call[q].device = e /\ call[q].at \in {"rotated", "signedIn"}
          => TokenLive(call[q].token)'
    <3>1. \A q \in Calls : call[q].device = e /\ call[q].at \in {"rotated", "signedIn"}
            => token'[call[q].token] = token[call[q].token] /\ TokenLive(call[q].token)
      BY <2>1, <2>5, <2>6, HeldRows DEF HasRow, FlightInv, UndisturbedOK
    <3>2. QED
      BY <1>5, <3>1 DEF TokenLive
  <2>9. \A q \in Calls : call[q].device = e \/ call'[q].device = e =>
          q # r /\ call'[q] = call[q]
    BY <1>1, <1>2, <1>3, <1>5, <2>2
  <2>10. (\A q \in Calls : call'[q].device = e => call'[q].at # "rotated")
           => (stored[e] # Absent => TokenLive(stored[e]))
    BY <2>1, <2>9 DEF FlightInv, UndisturbedOK
  <2>11. \A q \in Calls : call[q].device = e =>
           /\ call[q].at # "reuse"
           /\ call[q].at \in {"refresh", "locked"} => call[q].token = stored[e]
    BY <2>1 DEF FlightInv, UndisturbedOK
  <2>12. QED
    BY <1>2, <2>7, <2>8, <2>9, <2>10, <2>11
<1>11. QED
  BY <1>7, <1>8, <1>9, <1>10 DEF FlightInv

\* What a rotation, or a sign-in, does to the table and to its request.
LEMMA InsertEffect ==
  ASSUME SessionsInv, NEW r \in Calls, NEW u \in Tokens, token[u] = NoToken,
         rotate(r, u) \/ issueTokenPair(r, u)
  PROVE  /\ \E c : /\ call' = [call EXCEPT ![r] = c]
                   /\ c.token = u /\ c.device = call[r].device
                   /\ c.at = IF call[r].at = "locked" THEN "rotated" ELSE "signedIn"
         /\ call[r].at = "locked" => token'[u].family = token[call[r].token].family
         /\ call[r].at # "locked" => call[r].at = "issue" /\ token'[u].family = u
         /\ TokenLive(u)'
         /\ \A v \in Tokens : v # u /\ ~(call[r].at = "locked" /\ v = call[r].token)
              => token'[v] = token[v]
         /\ \A v \in Tokens : HasRow(v) => token'[v].family = token[v].family
<1> USE DEF SessionsInv
<1> DEFINE Row == [family : Tokens, revoked : BOOLEAN]
<1>1. PICK k : k = call[r]
  OBVIOUS
<1>2. k \in [at : CALL_STEPS, device : OrAbsent(Devices),
             token : OrAbsent(Tokens), targets : SUBSET Tokens]
  BY <1>1 DEF rotate, issueTokenPair, CallsOK, NoCall
<1>3. \A v \in Tokens : token[v] \in Row \cup {NoToken}
  BY DEF TokensOK
<1>4. CASE rotate(r, u)
  <2>1. k.at = "locked" /\ k.token \in Tokens /\ HasRow(k.token) /\ k.token # u
        /\ token[k.token] \in Row
    BY <1>1, <1>3, <1>4, HeldRows DEF rotate, HasRow
  <2>2. PICK t, f : t = k.token /\ f = token[t].family
    OBVIOUS
  <2>3. f \in Tokens
    BY <2>1, <2>2
  <2>4. [token[t] EXCEPT !.revoked = TRUE] = [family |-> f, revoked |-> TRUE]
    BY <2>1, <2>2, RevokedRow
  <2>5. PICK new, old : /\ new = [family |-> f, revoked |-> FALSE]
                        /\ old = [family |-> f, revoked |-> TRUE]
    OBVIOUS
  <2>6. token' = [token EXCEPT ![t] = old, ![u] = new]
    <3>1. token' = [token EXCEPT ![t] = [token[t] EXCEPT !.revoked = TRUE], ![u] = new]
      BY <1>1, <1>4, <2>2, <2>5 DEF rotate
    <3>2. QED
      BY <2>4, <2>5, <3>1
  <2>7. new.family = f /\ ~new.revoked /\ old.family = f
    BY <2>5
  <2>8. /\ token'[u] = new /\ token'[t] = old
        /\ \A v \in Tokens : v # u /\ v # t => token'[v] = token[v]
    BY <2>1, <2>2, <2>6 DEF TokensOK
  <2>9. TokenLive(u)'
    BY <2>3, <2>7, <2>8, AbsentIsNoToken DEF TokenLive
  <2>10. \A v \in Tokens : HasRow(v) => token'[v].family = token[v].family
    BY <2>2, <2>7, <2>8 DEF HasRow
  <2>11. PICK c : c = [k EXCEPT !.at = "rotated", !.token = u]
    OBVIOUS
  <2>12. c.token = u /\ c.device = k.device /\ c.at = "rotated"
    BY <1>2, <2>11
  <2>13. call' = [call EXCEPT ![r] = c]
    BY <1>1, <1>4, <2>11 DEF rotate, CallsOK
  <2>14. QED
    BY <1>1, <2>1, <2>2, <2>7, <2>8, <2>9, <2>10, <2>12, <2>13
<1>5. CASE issueTokenPair(r, u)
  <2>1. k.at = "issue" /\ token' = [token EXCEPT ![u] = [family |-> u, revoked |-> FALSE]]
    BY <1>1, <1>5 DEF issueTokenPair
  <2>2. PICK new : new = [family |-> u, revoked |-> FALSE]
    OBVIOUS
  <2>3. new.family = u /\ ~new.revoked
    BY <2>2
  <2>4. token'[u] = new /\ \A v \in Tokens : v # u => token'[v] = token[v]
    BY <2>1, <2>2 DEF TokensOK
  <2>5. TokenLive(u)'
    BY <2>3, <2>4, AbsentIsNoToken DEF TokenLive
  <2>6. PICK c : c = [k EXCEPT !.at = "signedIn", !.token = u]
    OBVIOUS
  <2>7. c.token = u /\ c.device = k.device /\ c.at = "signedIn"
    BY <1>2, <2>6
  <2>8. call' = [call EXCEPT ![r] = c]
    BY <1>1, <1>5, <2>6 DEF issueTokenPair, CallsOK
  <2>9. QED
    BY <1>1, <2>1, <2>3, <2>4, <2>5, <2>7, <2>8 DEF HasRow
<1>6. QED
  BY <1>4, <1>5

LEMMA InsertingKeeps ==
  ASSUME SessionsInv, FlightInv, NEW r \in Calls, NEW u \in Tokens, token[u] = NoToken,
         rotate(r, u) \/ issueTokenPair(r, u)
  PROVE  FlightInv'
<1>1. PICK d, t, at : d = call[r].device /\ t = call[r].token /\ at = call[r].at
  OBVIOUS
<1>2. PICK c : /\ call' = [call EXCEPT ![r] = c]
               /\ c.token = u /\ c.device = d
               /\ c.at = IF at = "locked" THEN "rotated" ELSE "signedIn"
  BY <1>1, InsertEffect
<1>3. /\ at = "locked" => token'[u].family = token[t].family
      /\ at # "locked" => at = "issue" /\ token'[u].family = u
      /\ TokenLive(u)'
      /\ \A v \in Tokens : v # u /\ ~(at = "locked" /\ v = t) => token'[v] = token[v]
      /\ \A v \in Tokens : HasRow(v) => token'[v].family = token[v].family
  BY <1>1, InsertEffect
<1>4. /\ \A q \in Calls : q # r => call'[q] = call[q]
      /\ call'[r] = c /\ stored' = stored /\ disturbed' = disturbed
  BY <1>2 DEF SessionsInv, CallsOK, rotate, issueTokenPair
<1>5. at = "locked" => t # Absent /\ HasRow(t)
  BY <1>1, HeldRows
<1>6. FamilyHeldByOne' /\ SignInAlone'
  <2>1. \/ /\ c.at # "signedIn" /\ call[r].token # Absent /\ call[r].at # "signedIn"
           /\ token'[u].family = token[call[r].token].family
        \/ token'[u].family = u
    BY <1>1, <1>2, <1>3, <1>5
  <2>2. QED
    BY <1>1, <1>2, <1>3, <1>4, <2>1, HandsOut
<1>7. OneRefresh'
  BY <1>1, <1>2, <1>3, <1>4 DEF FlightInv, OneRefresh, RefreshBy
<1>8. RevokingOK'
  <2>1. \A q \in Calls : call'[q].at \in {"reuse", "ending", "logout", "clear"} => q # r
    BY <1>2, <1>4
  <2>2. \A q \in Calls : call[q].at = "reuse" =>
          /\ call[q].token # Absent /\ token'[call[q].token].family = token[call[q].token].family
          /\ \A v \in call[q].targets : token'[v].family = token[v].family
    <3> SUFFICES ASSUME NEW q \in Calls, call[q].at = "reuse"
                 PROVE  /\ call[q].token # Absent
                        /\ token'[call[q].token].family = token[call[q].token].family
                        /\ \A v \in call[q].targets : token'[v].family = token[v].family
      OBVIOUS
    <3>1. call[q].token # Absent /\ HasRow(call[q].token)
      BY HeldRows DEF FlightInv, RevokingOK
    <3>2. \A v \in call[q].targets : HasRow(v)
      BY DEF SessionsInv, CallsOK, CallOK, NoCall
    <3>3. QED
      BY <1>3, <3>1, <3>2 DEF HasRow
  <2>3. QED
    BY <1>4, <2>1, <2>2 DEF FlightInv, RevokingOK, FamilyOf
<1>9. UndisturbedOK'
  <2> SUFFICES ASSUME NEW e \in SingleFlight \ disturbed'
               PROVE  /\ \A q \in Calls : call'[q].device = e =>
                           /\ call'[q].at # "reuse"
                           /\ call'[q].at \in {"refresh", "locked"} => call'[q].token = stored'[e]
                           /\ call'[q].at \in {"rotated", "signedIn"} => TokenLive(call[q].token)'
                      /\ stored'[e] # Absent
                         /\ (\A q \in Calls : call'[q].device = e => call'[q].at # "rotated")
                           => TokenLive(stored[e])'
    BY DEF UndisturbedOK
  <2>1. e \in SingleFlight \ disturbed /\ e \in Devices
    BY <1>4, SingleFlightAreDevices
  <2>2. \A v \in Tokens : HasRow(v) /\ ~(at = "locked" /\ v = t) => token'[v] = token[v]
    BY <1>3 DEF HasRow
  <2>3. \A q \in Calls : q # r /\ call[q].device = e /\ call[q].at \in {"rotated", "signedIn"}
          => TokenLive(call[q].token)'
    <3> SUFFICES ASSUME NEW q \in Calls, q # r, call[q].device = e,
                        call[q].at \in {"rotated", "signedIn"}
                 PROVE  TokenLive(call[q].token)'
      OBVIOUS
    <3>1. PICK v : v = call[q].token
      OBVIOUS
    <3>2. v # Absent /\ HasRow(v) /\ TokenLive(v)
      BY <2>1, <3>1, HeldRows DEF FlightInv, UndisturbedOK
    <3>3. ~(at = "locked" /\ v = t)
      <4> SUFFICES ASSUME at = "locked", v = t PROVE FALSE
        OBVIOUS
      <4>1. call[q].at = "rotated"
        BY <1>1, <1>5, <3>1 DEF FlightInv, SignInAlone, FamilyOf
      <4>2. d = e
        BY <1>1, <1>5, <3>1, <3>2 DEF FlightInv, FamilyHeldByOne, FamilyOf
      <4>3. QED
        BY <1>1, <2>1, <4>1, <4>2 DEF FlightInv, OneRefresh, RefreshBy
    <3>4. token'[v] = token[v]
      BY <2>2, <3>2, <3>3 DEF HasRow
    <3>5. TokenLive(v)'
      BY <3>2, <3>4 DEF TokenLive
    <3>6. QED
      BY <1>4, <3>1, <3>5
  <2>4. stored[e] # Absent /\ (\A q \in Calls : call'[q].device = e => call'[q].at # "rotated")
          => TokenLive(stored[e])'
    <3> SUFFICES ASSUME stored[e] # Absent,
                        \A q \in Calls : call'[q].device = e => call'[q].at # "rotated"
                 PROVE  TokenLive(stored[e])'
      OBVIOUS
    <3>1. PICK v : v = stored[e]
      OBVIOUS
    <3>2. HasRow(v) /\ v # Absent
      BY <2>1, <3>1, HeldRows
    <3>3. ~(d = e /\ at = "locked")
      BY <1>2, <1>4
    <3>4. \A q \in Calls : call[q].device = e => call[q].at # "rotated"
      BY <1>1, <1>3, <1>4
    <3>5. TokenLive(v)
      BY <2>1, <3>1, <3>2, <3>4 DEF FlightInv, UndisturbedOK
    <3>6. ~(at = "locked" /\ v = t)
      BY <1>1, <1>5, <2>1, <3>1, <3>2, <3>3 DEF FlightInv, FamilyHeldByOne, FamilyOf
    <3>7. token'[v] = token[v]
      BY <2>2, <3>2, <3>6 DEF HasRow
    <3>8. TokenLive(v)'
      BY <3>5, <3>7 DEF TokenLive
    <3>9. QED
      BY <1>4, <3>1, <3>8
  <2>5. c.at \in {"rotated", "signedIn"} /\ TokenLive(c.token)'
    BY <1>2, <1>3
  <2>6. \A q \in Calls : call[q].device = e =>
          /\ call[q].at # "reuse"
          /\ call[q].at \in {"refresh", "locked"} => call[q].token = stored[e]
    BY <2>1 DEF FlightInv, UndisturbedOK
  <2>7. \A q \in Calls : call'[q].at \in {"rotated", "signedIn"} /\ call'[q].device = e
          => TokenLive(call[q].token)'
    <3> SUFFICES ASSUME NEW q \in Calls, call'[q].device = e,
                        call'[q].at \in {"rotated", "signedIn"}
                 PROVE  TokenLive(call[q].token)'
      OBVIOUS
    <3>1. CASE q = r
      BY <1>2, <1>3, <1>4, <3>1
    <3>2. CASE q # r
      BY <1>4, <2>3, <3>2
    <3>3. QED
      BY <3>1, <3>2
  <2>8. QED
    BY <1>4, <2>4, <2>5, <2>6, <2>7
<1>10. QED
  BY <1>6, <1>7, <1>8, <1>9 DEF FlightInv

\* Whose token a request or a device holds, what a refresh may find and what
\* is still live: kept by every step, whatever else is in flight.
THEOREM FlightInvariance == SessionsSpec => []FlightInv
<1>1. SessionsInit => FlightInv
  <2> SUFFICES ASSUME SessionsInit PROVE FlightInv
    OBVIOUS
  <2>1. \A r \in Calls : call[r] = NoCall /\ call[r].at = "idle" /\ call[r].token = Absent
    BY DEF SessionsInit, NoCall
  <2>2. \A d \in Devices : stored[d] = Absent
    BY DEF SessionsInit
  <2>3. FamilyHeldByOne /\ SignInAlone
    BY <2>1, <2>2 DEF FamilyHeldByOne, SignInAlone
  <2>4. OneRefresh /\ RevokingOK
    BY <2>1 DEF OneRefresh, RevokingOK, RefreshBy
  <2>5. UndisturbedOK
    BY <2>1, <2>2, SingleFlightAreDevices DEF UndisturbedOK
  <2>6. QED
    BY <2>3, <2>4, <2>5 DEF FlightInv
<1>2. SessionsInv /\ FlightInv /\ [SessionsNext]_sessionVars => FlightInv'
  <2> SUFFICES ASSUME SessionsInv, FlightInv, [SessionsNext]_sessionVars PROVE FlightInv'
    OBVIOUS
  <2>1. CASE UNCHANGED <<token, stored, call, disturbed>>
    BY <2>1 DEF FlightInv, FamilyHeldByOne, SignInAlone, OneRefresh, RevokingOK, UndisturbedOK,
       FamilyOf, RefreshBy, TokenLive
  <2>2. CASE \E r \in Calls : DeviceSteps(r)
    <3>1. PICK r \in Calls : DeviceSteps(r)
      BY <2>2
    <3>2. CASE \E d \in Devices : tryRefresh(r, d) \/ signOut(r, d)
      BY <3>2, BorrowingKeeps
    <3>3. CASE receive(r)
      <4>1. call[r].at = "rotated" \/ call[r].at = "refused"
        BY <3>3 DEF receive
      <4>2. QED
        BY <3>3, <4>1, StoringKeeps, EndingKeeps
    <3>4. CASE storeSignIn(r)
      BY <3>4, StoringKeeps
    <3>5. CASE clearTokens(r) \/ loseCall(r)
      BY <3>5, EndingKeeps
    <3>6. QED
      BY <3>1, <3>2, <3>3, <3>4, <3>5 DEF DeviceSteps
  <2>3. CASE \E r \in Calls : SessionServerSteps(r)
    <3>1. PICK r \in Calls : SessionServerSteps(r)
      BY <2>3
    <3>2. CASE takeToken(r)
      BY <3>2, TakingKeeps
    <3>3. CASE revoke(r) \/ logout(r)
      BY <3>3, RevokingKeeps
    <3>4. CASE /\ \E u \in Tokens : token[u] = NoToken
               /\ rotate(r, FreshToken) \/ issueTokenPair(r, FreshToken)
      <4>1. FreshToken \in Tokens /\ token[FreshToken] = NoToken
        BY <3>4 DEF FreshToken
      <4>2. QED
        BY <3>4, <4>1, InsertingKeeps
    <3>5. CASE \/ \E d \in Devices : login(r, d)
               \/ beginDeletion(r) \/ suspend(r) \/ resetPassword(r)
               \/ reactivate(r) \/ requestDeletion(r) \/ revokeAllSessions(r)
      BY <3>5, EmptyHandedKeeps
    <3>6. QED
      BY <3>1, <3>2, <3>3, <3>4, <3>5 DEF SessionServerSteps
  <2>4. QED
    BY <2>1, <2>2, <2>3 DEF SessionsNext, restore, sessionVars
<1>3. QED
  BY <1>1, <1>2, SessionsInvariance, PTL DEF SessionsSpec

\* For any number of devices, tokens and requests in flight: a device that
\* shares its refreshes, lost no answer and was not told to end keeps a live
\* token; no rotation, sign-out or reuse of another device reaches it.
THEOREM StaysSignedIn == SessionsSpec => []UndisturbedSignedIn
<1>1. FlightInv => UndisturbedSignedIn
  BY DEF FlightInv, UndisturbedOK, UndisturbedSignedIn, Refreshing
<1>2. QED
  BY <1>1, FlightInvariance, PTL
-----------------------------------------------------------------------------
(* Tips: one charge and one transfer for an assignment *)

TipRow == [assignment : CompletedWork, status : TIP_STATUSES]

\* Where a request is tells what the tables and the gateway hold for its row.
TipCallOK(c) ==
  c # Absent =>
    /\ c.at = "insert" <=> c.row = Absent
    /\ c.row # Absent => tip[c.row] # Absent /\ tip[c.row].assignment = c.assignment
    /\ c.at = "charge" => charged[c.row] = Absent
    /\ c.at = "record" /\ c.answer => charged[c.row] = "succeeded"
    /\ c.at \in {"charge", "record"} => tip[c.row].status = "REQUIRES_PAYMENT"
    /\ c.at \notin {"insert", "charge", "record"} => tip[c.row].status = "SUCCEEDED"
    /\ c.at = "inTransit" => c.assignment \in transferred

TipCallsOK ==
  /\ tipCall \in [TipCalls -> OrAbsent(TipCall)]
  /\ \A k \in TipCalls : TipCallOK(tipCall[k])

OneHolder ==
  \A k, l \in TipCalls :
    k # l /\ tipCall[k] # Absent /\ tipCall[l] # Absent /\ tipCall[k].row # Absent =>
      tipCall[k].row # tipCall[l].row

TipRowsOK ==
  /\ tip \in [TipRows -> OrAbsent(TipRow)]
  /\ charged \in [TipRows -> OrAbsent({"succeeded", "declined"})]
  /\ \A p \in TipRows :
       /\ tip[p] = Absent => charged[p] = Absent
       /\ tip[p] # Absent /\ tip[p].status = "SUCCEEDED" => charged[p] = "succeeded"
  /\ \A p, q \in TipRows :
       tip[p] # Absent /\ tip[q] # Absent /\ tip[p].assignment = tip[q].assignment => p = q

\* The tip of the assignment was charged and recorded.
Recorded(a) ==
  \E p \in TipRows : tip[p] # Absent /\ tip[p].assignment = a /\ tip[p].status = "SUCCEEDED"

PayoutsOK ==
  /\ payout \in [CompletedWork -> OrAbsent(TIP_PAYOUT_STATUSES)]
  /\ transferred \subseteq CompletedWork /\ told \subseteq CompletedWork
  /\ reversed \subseteq transferred
  /\ \A a \in transferred \cup told : Recorded(a)
  /\ \A a \in CompletedWork :
       payout[a] \in {"IN_TRANSIT", "REVERSED"} => a \in transferred

TipsInv == TipCallsOK /\ OneHolder /\ TipRowsOK /\ PayoutsOK

\* A step of one request that touches no row but its own leaves the others.
LEMMA OtherTipCalls ==
  ASSUME TipsInv, NEW k \in TipCalls, NEW c \in OrAbsent(TipCall),
         NEW p \in OrAbsent(TipRows),
         tipCall' = [tipCall EXCEPT ![k] = c],
         \A q \in TipRows : q # p => tip'[q] = tip[q] /\ charged'[q] = charged[q],
         \A l \in TipCalls : l # k /\ tipCall[l] # Absent /\ p # Absent => tipCall[l].row # p,
         c # Absent => c.row \in {Absent, p},
         transferred \subseteq transferred',
         TipCallOK(c)'
  PROVE  TipCallsOK' /\ OneHolder'
<1> USE DEF TipsInv
<1>1. tipCall' \in [TipCalls -> OrAbsent(TipCall)]
  BY DEF TipCallsOK
<1>2. tipCall'[k] = c
  BY DEF TipCallsOK
<1>3. ASSUME NEW l \in TipCalls, l # k
      PROVE  TipCallOK(tipCall[l])' /\ tipCall'[l] = tipCall[l]
  <2>1. PICK d : d = tipCall[l]
    OBVIOUS
  <2>2. tipCall'[l] = d
    BY <1>3, <2>1 DEF TipCallsOK
  <2>3. TipCallOK(d) /\ d \in OrAbsent(TipCall)
    BY <2>1 DEF TipCallsOK
  <2>4. CASE d # Absent /\ d.row # Absent
    <3>1. d.row \in TipRows /\ d.row # p
      BY <1>3, <2>1, <2>3, <2>4 DEF OrAbsent, TipCall
    <3>2. PICK q \in TipRows : q = d.row
      BY <3>1
    <3>3. tip'[q] = tip[q] /\ charged'[q] = charged[q]
      BY <3>1, <3>2
    <3>4. TipCallOK(d)'
      BY <2>3, <2>4, <3>2, <3>3 DEF TipCallOK
    <3>5. QED
      BY <2>1, <2>2, <3>4
  <2>5. CASE d = Absent \/ d.row = Absent
    <3>1. TipCallOK(d)'
      BY <2>3, <2>5 DEF TipCallOK, OrAbsent, TipCall
    <3>2. QED
      BY <2>1, <2>2, <3>1
  <2>6. QED
    BY <2>4, <2>5
<1>4. TipCallsOK'
  BY <1>1, <1>2, <1>3 DEF TipCallsOK
<1>5. OneHolder'
  BY <1>2, <1>3 DEF OneHolder
<1>6. QED
  BY <1>4, <1>5

\* A step that writes neither the rows of tips nor the charges.
LEMMA QuietTip ==
  ASSUME TipsInv, NEW k \in TipCalls, NEW c \in OrAbsent(TipCall),
         tipCall' = [tipCall EXCEPT ![k] = c],
         tip' = tip, charged' = charged, transferred \subseteq transferred',
         c # Absent => c.row = Absent \/ (tipCall[k] # Absent /\ c.row = tipCall[k].row),
         TipCallOK(c)',
         PayoutsOK'
  PROVE  TipsInv'
<1>1. PICK p : p = IF tipCall[k] = Absent THEN Absent ELSE tipCall[k].row
  OBVIOUS
<1>2. p \in OrAbsent(TipRows)
  BY <1>1 DEF TipsInv, TipCallsOK, OrAbsent, TipCall
<1>3. \A l \in TipCalls : l # k /\ tipCall[l] # Absent /\ p # Absent => tipCall[l].row # p
  BY <1>1 DEF TipsInv, OneHolder
<1>4. c # Absent => c.row \in {Absent, p}
  BY <1>1
<1>5. TipCallsOK' /\ OneHolder'
  BY <1>2, <1>3, <1>4, OtherTipCalls
<1>6. TipRowsOK'
  BY DEF TipsInv, TipRowsOK
<1>7. QED
  BY <1>5, <1>6 DEF TipsInv

\* What a request may hold while it is on its way.
LEMMA HeldRow ==
  ASSUME TipsInv, NEW k \in TipCalls, tipCall[k] # Absent
  PROVE  /\ tipCall[k] \in TipCall /\ TipCallOK(tipCall[k])
         /\ tipCall[k].assignment \in CompletedWork
         /\ tipCall[k].row \in OrAbsent(TipRows)
         /\ \A l \in TipCalls :
              l # k /\ tipCall[l] # Absent /\ tipCall[k].row # Absent =>
                tipCall[l].row # tipCall[k].row
         /\ tipCall[k].at \notin {"insert", "charge", "record"} =>
              Recorded(tipCall[k].assignment)
<1>1. PICK c : c = tipCall[k]
  OBVIOUS
<1>2. c \in TipCall /\ TipCallOK(c)
  BY <1>1 DEF TipsInv, TipCallsOK, OrAbsent
<1>3. c.assignment \in CompletedWork /\ c.row \in OrAbsent(TipRows)
  BY <1>2 DEF TipCall
<1>4. c.at \notin {"insert", "charge", "record"} => Recorded(c.assignment)
  BY <1>1, <1>2, <1>3 DEF TipCallOK, Recorded, OrAbsent
<1>5. \A l \in TipCalls :
        l # k /\ tipCall[l] # Absent /\ c.row # Absent => tipCall[l].row # c.row
  BY <1>1 DEF TipsInv, OneHolder
<1>6. QED
  BY <1>1, <1>2, <1>3, <1>4, <1>5

TIP_STEPS == {"insert", "charge", "record", "payout", "account", "transfer",
              "inTransit", "failed", "emit"}

LEMMA TipGoes ==
  ASSUME TipsInv, NEW k \in TipCalls, tipCall[k] # Absent,
         NEW at \in TIP_STEPS, tipGoes(k, at)
  PROVE  \E c \in TipCall :
           /\ tipCall' = [tipCall EXCEPT ![k] = c]
           /\ c.at = at /\ c.row = tipCall[k].row
           /\ c.assignment = tipCall[k].assignment /\ c.answer = tipCall[k].answer
<1>1. PICK q : q = tipCall[k]
  OBVIOUS
<1>2. q \in TipCall
  BY <1>1, HeldRow
<1>3. PICK c : c = [q EXCEPT !.at = at]
  OBVIOUS
<1>4. /\ c \in TipCall /\ c.at = at /\ c.row = q.row
      /\ c.assignment = q.assignment /\ c.answer = q.answer
  BY <1>2, <1>3 DEF TipCall, TIP_STEPS
<1>5. tipCall' = [tipCall EXCEPT ![k] = c]
  BY <1>1, <1>3 DEF tipGoes
<1>6. QED
  BY <1>1, <1>4, <1>5

\* Steps after the charge was recorded: they write payouts, transfers and
\* what the worker is told, of an assignment whose tip is recorded.
LEMMA PaidStepKeeps ==
  ASSUME TipsInv, NEW k \in TipCalls,
         \/ insertPayout(k) \/ readAccount(k) \/ recordFailure(k)
         \/ \E made, arrives \in BOOLEAN : transferTip(k, made, arrives)
         \/ \E fails \in BOOLEAN : recordTransfer(k, fails)
  PROVE  TipsInv'
<1>1. PICK q : q = tipCall[k]
  OBVIOUS
<1>2. q # Absent /\ q.at \in {"payout", "account", "transfer", "inTransit", "failed"}
  BY <1>1 DEF insertPayout, readAccount, recordFailure, transferTip, recordTransfer, tipAt
<1>3. /\ q \in TipCall /\ TipCallOK(q) /\ q.assignment \in CompletedWork
      /\ Recorded(q.assignment) /\ q.row # Absent
  BY <1>1, <1>2, HeldRow DEF TipCallOK
<1>4. PICK a \in CompletedWork : a = q.assignment
  BY <1>3
<1>5. /\ tip' = tip /\ charged' = charged /\ told' = told /\ reversed' = reversed
      /\ transferred' \in {transferred, transferred \cup {a}}
  BY <1>1, <1>4
     DEF insertPayout, readAccount, recordFailure, transferTip, recordTransfer
<1>6. PICK at \in TIP_STEPS :
        /\ tipGoes(k, at)
        /\ at \in {"account", "transfer", "inTransit", "failed", "emit"}
        /\ at = "inTransit" => a \in transferred'
  BY <1>1, <1>4
     DEF insertPayout, readAccount, recordFailure, transferTip, recordTransfer, TIP_STEPS
<1>7. PICK c \in TipCall :
        /\ tipCall' = [tipCall EXCEPT ![k] = c]
        /\ c.at = at /\ c.row = q.row /\ c.assignment = q.assignment
  BY <1>1, <1>2, <1>6, TipGoes
<1>8. TipCallOK(c)'
  BY <1>2, <1>3, <1>4, <1>5, <1>6, <1>7 DEF TipCallOK
<1>9. /\ payout' \in [CompletedWork -> OrAbsent(TIP_PAYOUT_STATUSES)]
      /\ \A b \in CompletedWork : payout'[b] \in {"IN_TRANSIT", "REVERSED"} =>
           b \in transferred'
  <2>1. payout \in [CompletedWork -> OrAbsent(TIP_PAYOUT_STATUSES)]
    BY DEF TipsInv, PayoutsOK
  <2>2. CASE payout' = payout
    BY <1>5, <2>1, <2>2 DEF TipsInv, PayoutsOK
  <2>3. CASE /\ payout' = [payout EXCEPT ![a] = "IN_TRANSIT"]
             /\ a \in transferred
    BY <1>5, <2>1, <2>3 DEF TipsInv, PayoutsOK, OrAbsent, TIP_PAYOUT_STATUSES
  <2>4. CASE \E x \in {"PENDING", "FAILED"} : payout' = [payout EXCEPT ![a] = x]
    BY <1>5, <2>1, <2>4 DEF TipsInv, PayoutsOK, OrAbsent, TIP_PAYOUT_STATUSES
  <2>5. \/ payout' = payout
        \/ payout' = [payout EXCEPT ![a] = "IN_TRANSIT"] /\ a \in transferred
        \/ \E x \in {"PENDING", "FAILED"} : payout' = [payout EXCEPT ![a] = x]
    <3>1. CASE insertPayout(k)
      BY <1>1, <1>4, <2>1, <3>1 DEF insertPayout
    <3>2. CASE readAccount(k) \/ \E made, arrives \in BOOLEAN : transferTip(k, made, arrives)
      BY <3>2 DEF readAccount, transferTip
    <3>3. CASE recordFailure(k)
      BY <1>1, <1>4, <3>3 DEF recordFailure
    <3>4. CASE \E fails \in BOOLEAN : recordTransfer(k, fails)
      <4>1. a \in transferred
        BY <1>1, <1>2, <1>3, <1>4, <3>4 DEF recordTransfer, tipAt, TipCallOK
      <4>2. QED
        BY <1>1, <1>4, <2>1, <3>4, <4>1 DEF recordTransfer
    <3>5. QED
      BY <3>1, <3>2, <3>3, <3>4
  <2>6. QED
    BY <2>2, <2>3, <2>4, <2>5
<1>10. PayoutsOK'
  BY <1>3, <1>4, <1>5, <1>9 DEF TipsInv, PayoutsOK, Recorded
<1>11. QED
  BY <1>1, <1>2, <1>5, <1>7, <1>8, <1>10, QuietTip DEF OrAbsent

\* A request begins, or ends after whatever step.
LEMMA TipBeginsOrEnds ==
  ASSUME TipsInv, NEW k \in TipCalls,
         (\E a \in CompletedWork : BeginTip(k, a)) \/ emitReleased(k) \/ failTip(k)
  PROVE  TipsInv'
<1>1. PICK q : q = tipCall[k]
  OBVIOUS
<1>2. CASE \E a \in CompletedWork : BeginTip(k, a)
  <2>1. PICK a \in CompletedWork : BeginTip(k, a)
    BY <1>2
  <2>2. PICK c : c = [assignment |-> a, row |-> Absent, answer |-> FALSE, at |-> "insert"]
    OBVIOUS
  <2>3. c \in TipCall /\ c.row = Absent /\ TipCallOK(c)'
    BY <2>2 DEF TipCall, OrAbsent, TipCallOK
  <2>4. /\ tipCall' = [tipCall EXCEPT ![k] = c] /\ tip' = tip /\ charged' = charged
        /\ transferred' = transferred /\ PayoutsOK'
    BY <2>1, <2>2 DEF BeginTip, TipsInv, PayoutsOK, Recorded
  <2>5. QED
    BY <2>3, <2>4, QuietTip DEF OrAbsent
<1>3. CASE emitReleased(k) \/ failTip(k)
  <2>1. /\ tipCall' = [tipCall EXCEPT ![k] = Absent] /\ tip' = tip /\ charged' = charged
        /\ transferred' = transferred /\ reversed' = reversed /\ payout' = payout
    BY <1>3 DEF emitReleased, failTip, endTip
  <2>2. \/ told' = told
        \/ /\ q # Absent /\ q.at = "emit"
           /\ told' = told \cup {q.assignment}
    BY <1>1, <1>3 DEF emitReleased, failTip, tipAt
  <2>3. told' = told \/ (/\ Recorded(q.assignment) /\ q.assignment \in CompletedWork
                         /\ told' = told \cup {q.assignment})
    BY <1>1, <2>2, HeldRow
  <2>4. PayoutsOK'
    BY <2>1, <2>3 DEF TipsInv, PayoutsOK, Recorded
  <2>5. TipCallOK(Absent)'
    BY DEF TipCallOK
  <2>6. QED
    BY <2>1, <2>4, <2>5, QuietTip DEF OrAbsent
<1>4. QED
  BY <1>2, <1>3

\* The claim: a row for an assignment that has none.
LEMMA InsertTipKeeps ==
  ASSUME TipsInv, NEW k \in TipCalls, NEW p \in TipRows, insertTip(k, p)
  PROVE  TipsInv'
<1>1. PICK q : q = tipCall[k]
  OBVIOUS
<1>2. q # Absent /\ q.at = "insert" /\ q \in TipCall /\ TipCallOK(q)
  BY <1>1, HeldRow DEF insertTip, tipAt
<1>3. PICK a \in CompletedWork : a = q.assignment
  BY <1>2 DEF TipCall
<1>4. PICK c : c = [q EXCEPT !.at = "charge", !.row = p]
  OBVIOUS
<1>5. /\ c \in TipCall /\ c.at = "charge" /\ c.row = p /\ c.assignment = a
  BY <1>2, <1>3, <1>4 DEF TipCall, OrAbsent
<1>6. PICK new : new = [assignment |-> a, status |-> "REQUIRES_PAYMENT"]
  OBVIOUS
<1>7. /\ new \in TipRow /\ new.assignment = a /\ new.status = "REQUIRES_PAYMENT"
      /\ new # Absent /\ p # Absent
  BY <1>6, AbsentIsNoTip DEF TipRow, TIP_STATUSES
<1>8. /\ tip' = [tip EXCEPT ![p] = new] /\ tip[p] = Absent /\ noTipYet(a)
      /\ charged' = charged /\ payout' = payout /\ transferred' = transferred
      /\ reversed' = reversed /\ told' = told
  BY <1>1, <1>3, <1>6 DEF insertTip
<1>9. tipCall' = [tipCall EXCEPT ![k] = c]
  BY <1>1, <1>4 DEF insertTip
<1>10. tip' \in [TipRows -> OrAbsent(TipRow)]
       /\ tip'[p] = new /\ \A x \in TipRows : x # p => tip'[x] = tip[x]
  BY <1>7, <1>8 DEF TipsInv, TipRowsOK, OrAbsent
<1>11. \A x \in TipRows : tip[x] # Absent => tip[x].assignment # a
  BY <1>8 DEF noTipYet, tipRowsOf, Rows, TipsInv, TipRowsOK
<1>12. charged[p] = Absent
  BY <1>8 DEF TipsInv, TipRowsOK
<1>13. TipRowsOK'
  <2>1. \A x \in TipRows :
          /\ tip'[x] = Absent => charged[x] = Absent
          /\ tip'[x] # Absent /\ tip'[x].status = "SUCCEEDED" => charged[x] = "succeeded"
    BY <1>7, <1>10 DEF TipsInv, TipRowsOK
  <2>2. \A x, y \in TipRows :
          tip'[x] # Absent /\ tip'[y] # Absent /\ tip'[x].assignment = tip'[y].assignment
            => x = y
    BY <1>7, <1>10, <1>11 DEF TipsInv, TipRowsOK
  <2>3. QED
    BY <1>8, <1>10, <2>1, <2>2 DEF TipsInv, TipRowsOK
<1>14. TipCallOK(c)'
  BY <1>5, <1>7, <1>8, <1>10, <1>12 DEF TipCallOK
<1>15. \A l \in TipCalls : l # k /\ tipCall[l] # Absent => tipCall[l].row # p
  <2> SUFFICES ASSUME NEW l \in TipCalls, tipCall[l] # Absent, tipCall[l].row = p
               PROVE  FALSE
    OBVIOUS
  <2>1. TipCallOK(tipCall[l]) /\ tipCall[l] \in TipCall
    BY HeldRow
  <2>2. PICK d : d = tipCall[l]
    OBVIOUS
  <2>3. d # Absent /\ d.row = p /\ p # Absent
    BY <1>7, <2>2
  <2>4. tip[p] # Absent
    BY <2>1, <2>2, <2>3 DEF TipCallOK
  <2>5. QED
    BY <1>8, <2>4
<1>16. TipCallsOK' /\ OneHolder'
  <2>1. /\ c \in OrAbsent(TipCall) /\ p \in OrAbsent(TipRows)
        /\ c # Absent => c.row \in {Absent, p}
        /\ transferred \subseteq transferred'
        /\ \A x \in TipRows : x # p => tip'[x] = tip[x] /\ charged'[x] = charged[x]
        /\ \A l \in TipCalls : l # k /\ tipCall[l] # Absent /\ p # Absent =>
             tipCall[l].row # p
    BY <1>5, <1>8, <1>10, <1>15 DEF OrAbsent
  <2>2. QED
    BY <1>9, <1>14, <2>1, OtherTipCalls
<1>17. \A b : Recorded(b) => Recorded(b)'
  BY <1>8, <1>10 DEF Recorded
<1>18. PayoutsOK'
  BY <1>8, <1>17 DEF TipsInv, PayoutsOK
<1>19. QED
  BY <1>13, <1>16, <1>18 DEF TipsInv

\* The gateway charges: the result is known there, and here only if the
\* answer arrives.
LEMMA ChargeTipKeeps ==
  ASSUME TipsInv, NEW k \in TipCalls, NEW result \in {"succeeded", "declined"},
         NEW arrives \in BOOLEAN, chargeTip(k, result, arrives)
  PROVE  TipsInv'
<1>1. PICK q : q = tipCall[k]
  OBVIOUS
<1>2. q # Absent /\ q.at = "charge" /\ q \in TipCall /\ TipCallOK(q)
  BY <1>1, HeldRow DEF chargeTip, tipAt
<1>3. q.row # Absent /\ q.row \in TipRows
  BY <1>2 DEF TipCallOK, TipCall, OrAbsent
<1>4. PICK p \in TipRows : p = q.row
  BY <1>3
<1>5. /\ tip[p] # Absent /\ tip[p].assignment = q.assignment /\ charged[p] = Absent
      /\ tip[p].status = "REQUIRES_PAYMENT"
  BY <1>2, <1>3, <1>4 DEF TipCallOK
<1>6. /\ charged' = [charged EXCEPT ![p] = result] /\ tip' = tip
      /\ payout' = payout /\ transferred' = transferred /\ reversed' = reversed
      /\ told' = told
  BY <1>1, <1>4 DEF chargeTip
<1>7. PICK c : c = IF arrives
                   THEN [q EXCEPT !.at = "record", !.answer = (result = "succeeded")]
                   ELSE Absent
  OBVIOUS
<1>8. tipCall' = [tipCall EXCEPT ![k] = c]
  BY <1>1, <1>7 DEF chargeTip
<1>9. /\ c \in OrAbsent(TipCall)
      /\ c # Absent => /\ c.at = "record" /\ c.row = p /\ c.assignment = q.assignment
                       /\ c.answer => result = "succeeded"
  <2>1. CASE arrives
    <3>1. PICK yes \in BOOLEAN : yes = (result = "succeeded")
      OBVIOUS
    <3>2. c = [q EXCEPT !.at = "record", !.answer = yes]
      BY <1>7, <2>1, <3>1
    <3>3. /\ c \in TipCall /\ c.at = "record" /\ c.row = q.row
          /\ c.assignment = q.assignment /\ c.answer = yes
      BY <1>2, <3>2 DEF TipCall
    <3>4. QED
      BY <1>4, <3>1, <3>3 DEF OrAbsent
  <2>2. CASE ~arrives
    BY <1>7, <2>2 DEF OrAbsent
  <2>3. QED
    BY <2>1, <2>2
<1>10. /\ charged' \in [TipRows -> OrAbsent({"succeeded", "declined"})]
       /\ charged'[p] = result
       /\ \A x \in TipRows : x # p => charged'[x] = charged[x]
  BY <1>6 DEF TipsInv, TipRowsOK, OrAbsent
<1>11. TipRowsOK'
  BY <1>5, <1>6, <1>10 DEF TipsInv, TipRowsOK
<1>12. TipCallOK(c)'
  BY <1>3, <1>4, <1>5, <1>6, <1>9, <1>10 DEF TipCallOK
<1>13. TipCallsOK' /\ OneHolder'
  <2>1. /\ p \in OrAbsent(TipRows)
        /\ c # Absent => c.row \in {Absent, p}
        /\ transferred \subseteq transferred'
        /\ \A x \in TipRows : x # p => tip'[x] = tip[x] /\ charged'[x] = charged[x]
    BY <1>6, <1>9, <1>10 DEF OrAbsent
  <2>2. \A l \in TipCalls : l # k /\ tipCall[l] # Absent /\ p # Absent => tipCall[l].row # p
    BY <1>1, <1>2, <1>3, <1>4, HeldRow
  <2>3. QED
    BY <1>8, <1>9, <1>12, <2>1, <2>2, OtherTipCalls
<1>14. PayoutsOK'
  BY <1>6 DEF TipsInv, PayoutsOK, Recorded
<1>15. QED
  BY <1>11, <1>13, <1>14 DEF TipsInv

\* The answer is written into the row, and only a success goes on.
LEMMA RecordChargeKeeps ==
  ASSUME TipsInv, NEW k \in TipCalls, recordCharge(k)
  PROVE  TipsInv'
<1>1. PICK q : q = tipCall[k]
  OBVIOUS
<1>2. q # Absent /\ q.at = "record" /\ q \in TipCall /\ TipCallOK(q)
  BY <1>1, HeldRow DEF recordCharge, tipAt
<1>3. q.row # Absent /\ q.row \in TipRows /\ q.answer \in BOOLEAN
  BY <1>2 DEF TipCallOK, TipCall, OrAbsent
<1>4. PICK p \in TipRows : p = q.row
  BY <1>3
<1>5. PICK old : old = tip[p]
  OBVIOUS
<1>6. /\ old # Absent /\ old.assignment = q.assignment
      /\ old.status = "REQUIRES_PAYMENT"
      /\ q.answer => charged[p] = "succeeded"
  BY <1>2, <1>3, <1>4, <1>5 DEF TipCallOK
<1>7. old \in TipRow
  BY <1>5, <1>6 DEF TipsInv, TipRowsOK, OrAbsent
<1>8. PICK result \in {"SUCCEEDED", "FAILED"} :
        result = IF q.answer THEN "SUCCEEDED" ELSE "FAILED"
  OBVIOUS
<1>9. PICK new : new = [old EXCEPT !.status = result]
  OBVIOUS
<1>10. /\ new \in TipRow /\ new.assignment = q.assignment /\ new.status = result
       /\ new # Absent
  BY <1>6, <1>7, <1>9, AbsentIsNoTip DEF TipRow, TIP_STATUSES
<1>11. /\ tip' = [tip EXCEPT ![p] = new]
       /\ charged' = charged /\ payout' = payout /\ transferred' = transferred
       /\ reversed' = reversed /\ told' = told
  BY <1>1, <1>4, <1>5, <1>8, <1>9 DEF recordCharge
<1>12. /\ tip' \in [TipRows -> OrAbsent(TipRow)] /\ tip'[p] = new
       /\ \A x \in TipRows : x # p => tip'[x] = tip[x]
  BY <1>10, <1>11 DEF TipsInv, TipRowsOK, OrAbsent
<1>13. PICK c \in OrAbsent(TipCall) :
         /\ tipCall' = [tipCall EXCEPT ![k] = c]
         /\ c # Absent => /\ c.at = "payout" /\ c.row = p /\ c.assignment = q.assignment
                          /\ result = "SUCCEEDED"
  <2>1. CASE q.answer
    <3>1. tipGoes(k, "payout")
      BY <1>1, <2>1 DEF recordCharge
    <3>2. QED
      BY <1>1, <1>2, <1>4, <1>8, <2>1, <3>1, TipGoes DEF TIP_STEPS, OrAbsent
  <2>2. CASE ~q.answer
    BY <1>1, <2>2 DEF recordCharge, endTip, OrAbsent
  <2>3. QED
    BY <2>1, <2>2
<1>14. TipCallOK(c)'
  BY <1>3, <1>4, <1>10, <1>12, <1>13 DEF TipCallOK
<1>15. TipRowsOK'
  <2>1. \A x \in TipRows :
          /\ tip'[x] = Absent => charged[x] = Absent
          /\ tip'[x] # Absent /\ tip'[x].status = "SUCCEEDED" => charged[x] = "succeeded"
    BY <1>6, <1>8, <1>10, <1>12 DEF TipsInv, TipRowsOK
  <2>2. \A x \in TipRows : tip'[x] # Absent => tip[x] # Absent /\ tip'[x].assignment = tip[x].assignment
    BY <1>5, <1>6, <1>10, <1>12
  <2>3. \A x, y \in TipRows :
          tip'[x] # Absent /\ tip'[y] # Absent /\ tip'[x].assignment = tip'[y].assignment
            => x = y
    BY <2>2 DEF TipsInv, TipRowsOK
  <2>4. QED
    BY <1>11, <1>12, <2>1, <2>3 DEF TipsInv, TipRowsOK
<1>16. TipCallsOK' /\ OneHolder'
  <2>1. /\ p \in OrAbsent(TipRows)
        /\ c # Absent => c.row \in {Absent, p}
        /\ transferred \subseteq transferred'
        /\ \A x \in TipRows : x # p => tip'[x] = tip[x] /\ charged'[x] = charged[x]
    BY <1>11, <1>12, <1>13 DEF OrAbsent
  <2>2. \A l \in TipCalls : l # k /\ tipCall[l] # Absent /\ p # Absent => tipCall[l].row # p
    BY <1>1, <1>2, <1>3, <1>4, HeldRow
  <2>3. QED
    BY <1>13, <1>14, <2>1, <2>2, OtherTipCalls
<1>17. \A b : Recorded(b) => Recorded(b)'
  BY <1>5, <1>6, <1>12 DEF Recorded
<1>18. PayoutsOK'
  BY <1>11, <1>17 DEF TipsInv, PayoutsOK
<1>19. QED
  BY <1>15, <1>16, <1>18 DEF TipsInv

\* Steps of the gateway, and of the webhooks: no request moves.
LEMMA GatewayStepKeeps ==
  ASSUME TipsInv,
         \/ \E a \in CompletedWork : reverseTransfer(a) \/ transferReversed(a)
         \/ setPayoutsEnabled \/ UNCHANGED tipVars
  PROVE  TipsInv'
<1>1. UNCHANGED <<tip, charged, transferred, tipCall, told>>
  BY DEF reverseTransfer, transferReversed, setPayoutsEnabled, tipVars
<1>2. TipCallsOK' /\ OneHolder' /\ TipRowsOK'
  BY <1>1 DEF TipsInv, TipCallsOK, TipCallOK, OneHolder, TipRowsOK
<1>3. reversed' \subseteq transferred
  BY DEF reverseTransfer, transferReversed, setPayoutsEnabled, tipVars, TipsInv, PayoutsOK
<1>4. \/ payout' = payout
      \/ \E a \in CompletedWork : a \in transferred /\ payout' = [payout EXCEPT ![a] = "REVERSED"]
  BY DEF reverseTransfer, transferReversed, setPayoutsEnabled, tipVars, TipsInv, PayoutsOK
<1>5. /\ payout' \in [CompletedWork -> OrAbsent(TIP_PAYOUT_STATUSES)]
      /\ \A a \in CompletedWork :
           payout'[a] \in {"IN_TRANSIT", "REVERSED"} => a \in transferred
  BY <1>4 DEF TipsInv, PayoutsOK, OrAbsent, TIP_PAYOUT_STATUSES
<1>6. PayoutsOK'
  BY <1>1, <1>3, <1>5 DEF TipsInv, PayoutsOK, Recorded
<1>7. QED
  BY <1>2, <1>6 DEF TipsInv

\* One request at most holds the row of a tip, and what the later steps do is
\* of an assignment whose tip was charged and recorded, whatever fails.
THEOREM TipsInvariance == TipsSpec => []TipsInv
<1>1. TipsInit => TipsInv
  <2> SUFFICES ASSUME TipsInit PROVE TipsInv
    OBVIOUS
  <2>1. \A k \in TipCalls : tipCall[k] = Absent
    BY DEF TipsInit
  <2>2. TipCallOK(Absent)
    BY DEF TipCallOK
  <2>3. TipCallsOK /\ OneHolder
    BY <2>1, <2>2 DEF TipsInit, TipCallsOK, OneHolder, OrAbsent
  <2>4. TipRowsOK
    BY DEF TipsInit, TipRowsOK, OrAbsent
  <2>5. \A a \in CompletedWork : payout[a] = Absent
    BY DEF TipsInit
  <2>6. Absent \notin {"IN_TRANSIT", "REVERSED"}
    BY AbsentIsNoTip DEF TIP_PAYOUT_STATUSES
  <2>7. PayoutsOK
    BY <2>5, <2>6 DEF TipsInit, PayoutsOK, OrAbsent
  <2>8. QED
    BY <2>3, <2>4, <2>7 DEF TipsInv
<1>2. TipsInv /\ [TipsNext]_tipVars => TipsInv'
  <2> SUFFICES ASSUME TipsInv, [TipsNext]_tipVars PROVE TipsInv'
    OBVIOUS
  <2>1. ASSUME NEW k \in TipCalls,
               \/ \E a \in CompletedWork : BeginTip(k, a)
               \/ emitReleased(k) \/ failTip(k)
        PROVE  TipsInv'
    BY <2>1, TipBeginsOrEnds
  <2>2. ASSUME NEW k \in TipCalls, \E p \in TipRows : insertTip(k, p)
        PROVE  TipsInv'
    BY <2>2, InsertTipKeeps
  <2>3. ASSUME NEW k \in TipCalls,
               \E result \in {"succeeded", "declined"}, arrives \in BOOLEAN :
                 chargeTip(k, result, arrives)
        PROVE  TipsInv'
    BY <2>3, ChargeTipKeeps
  <2>4. ASSUME NEW k \in TipCalls, recordCharge(k)
        PROVE  TipsInv'
    BY <2>4, RecordChargeKeeps
  <2>5. ASSUME NEW k \in TipCalls,
               \/ insertPayout(k) \/ readAccount(k) \/ recordFailure(k)
               \/ \E made, arrives \in BOOLEAN : transferTip(k, made, arrives)
               \/ \E fails \in BOOLEAN : recordTransfer(k, fails)
        PROVE  TipsInv'
    BY <2>5, PaidStepKeeps
  <2>6. CASE \/ \E a \in CompletedWork : reverseTransfer(a) \/ transferReversed(a)
             \/ setPayoutsEnabled \/ UNCHANGED tipVars
    BY <2>6, GatewayStepKeeps
  <2>7. QED
    BY <2>1, <2>2, <2>3, <2>4, <2>5, <2>6 DEF TipsNext
<1>3. QED
  BY <1>1, <1>2, PTL DEF TipsSpec

\* For any number of assignments, rows and requests, with lost answers,
\* failing statements and crashes at every step: an assignment's tip is charged
\* once, and nothing is transferred, or told, or counted as earnings without.
THEOREM Tipped == TipsSpec => []TipsBacked
<1>1. TipsInv => TipsBacked
  <2> SUFFICES ASSUME TipsInv, NEW a \in CompletedWork
               PROVE  LET paid == {p \in tipRowsOf(a) : charged[p] = "succeeded"}
                          recorded == {p \in tipRowsOf(a) : tip[p].status = "SUCCEEDED"}
                      IN  /\ Cardinality(paid) <= 1
                          /\ recorded \subseteq paid
                          /\ a \in transferred \cup told => recorded # {}
                          /\ payout[a] \in {"IN_TRANSIT", "REVERSED"} => a \in transferred
    BY DEF TipsBacked
  <2> DEFINE paid == {p \in tipRowsOf(a) : charged[p] = "succeeded"}
             recorded == {p \in tipRowsOf(a) : tip[p].status = "SUCCEEDED"}
  <2>1. tipRowsOf(a) = {p \in TipRows : tip[p] # Absent /\ tip[p].assignment = a}
    BY DEF TipsInv, TipRowsOK, tipRowsOf, Rows
  <2>2. \A p, q \in paid : p = q
    BY <2>1 DEF TipsInv, TipRowsOK
  <2>3. Cardinality(paid) <= 1
    <3>1. CASE paid = {}
      BY <3>1, FS_EmptySet
    <3>2. CASE paid # {}
      <4>1. PICK p : paid = {p}
        BY <2>2, <3>2
      <4>2. QED
        BY <4>1, FS_Singleton
    <3>3. QED
      BY <3>1, <3>2
  <2>4. recorded \subseteq paid
    BY <2>1 DEF TipsInv, TipRowsOK
  <2>5. a \in transferred \cup told => recorded # {}
    BY <2>1 DEF TipsInv, PayoutsOK, Recorded
  <2>6. payout[a] \in {"IN_TRANSIT", "REVERSED"} => a \in transferred
    BY DEF TipsInv, PayoutsOK
  <2>7. QED
    BY <2>3, <2>4, <2>5, <2>6
<1>2. QED
  BY <1>1, TipsInvariance, PTL
-----------------------------------------------------------------------------
(* Verification: the attempts on a code, and the phone *)

PhoneCall == [at : PHONE_STEPS, phone : Phones, right : BOOLEAN, row : OrAbsent(Codes)]

\* The requests that have read the attempts of c and not yet counted theirs.
Attempting(c) == {r \in PhoneCalls : phoneCall[r].at = "attempt" /\ phoneCall[r].row = c}

CodesOK ==
  /\ code \in [Codes -> OrAbsent(CodeRow)]
  /\ phone \in OrAbsent(Phones)
  /\ phoneCall \in [PhoneCalls -> {NoPhoneCall} \cup PhoneCall]

\* A request that is to count, compare or consume has read a row.
RowRead ==
  \A r \in PhoneCalls :
    phoneCall[r].at \in {"attempt", "compare", "consume"} =>
      phoneCall[r].row \in Codes /\ code[phoneCall[r].row] # Absent

\* Who waits to count is bounded by the room that the requests beside leave.
AttemptsLeft ==
  \A c \in Codes : code[c] # Absent =>
    code[c].attempts + Cardinality(Attempting(c))
      <= PHONE_CODE_MAX_ATTEMPTS + Cardinality(PhoneCalls) - 1

EnteredFirst ==
  /\ \A r \in PhoneCalls :
       phoneCall[r].at \in {"consume", "set"} => phoneCall[r].phone \in entered
  /\ PhoneWasProven

VerificationInv == CodesOK /\ RowRead /\ AttemptsLeft /\ EnteredFirst

LEMMA IdlePhoneCall ==
  NoPhoneCall.at = "idle" /\ NoPhoneCall \notin PhoneCall
BY DEF NoPhoneCall, PhoneCall, PHONE_STEPS

LEMMA AttemptingFinite ==
  ASSUME NEW c
  PROVE  IsFiniteSet(Attempting(c)) /\ Cardinality(Attempting(c)) \in Nat
BY PhoneCallsFinite, FS_Subset, FS_CardinalityType DEF Attempting

\* A step of one request: the others wait on the rows they waited on.
LEMMA AttemptingMoves ==
  ASSUME CodesOK, NEW r \in PhoneCalls, NEW q \in {NoPhoneCall} \cup PhoneCall,
         phoneCall' = [phoneCall EXCEPT ![r] = q], NEW c \in Codes
  PROVE  Attempting(c)' = IF q.at = "attempt" /\ q.row = c
                            THEN Attempting(c) \cup {r} ELSE Attempting(c) \ {r}
<1>1. \A x \in PhoneCalls : phoneCall'[x] = IF x = r THEN q ELSE phoneCall[x]
  BY DEF CodesOK
<1>2. QED
  BY <1>1 DEF Attempting

\* One that does not come to wait leaves no more of them.
LEMMA AttemptingShrinks ==
  ASSUME CodesOK, NEW r \in PhoneCalls, NEW q \in {NoPhoneCall} \cup PhoneCall,
         phoneCall' = [phoneCall EXCEPT ![r] = q], q.at # "attempt", NEW c \in Codes
  PROVE  /\ Cardinality(Attempting(c)') \in Nat
         /\ Cardinality(Attempting(c)') <= Cardinality(Attempting(c))
         /\ r \in Attempting(c) =>
              Cardinality(Attempting(c)') = Cardinality(Attempting(c)) - 1
<1>1. Attempting(c)' = Attempting(c) \ {r}
  BY AttemptingMoves
<1>2. PICK A : A = Attempting(c)
  OBVIOUS
<1>3. IsFiniteSet(A) /\ Cardinality(A) \in Nat
  BY <1>2, AttemptingFinite
<1>4. /\ IsFiniteSet(A \ {r})
      /\ Cardinality(A \ {r}) = IF r \in A THEN Cardinality(A) - 1 ELSE Cardinality(A)
  BY <1>3, FS_RemoveElement
<1>5. Cardinality(A \ {r}) \in Nat
  BY <1>4, FS_CardinalityType
<1>6. QED
  BY <1>1, <1>2, <1>3, <1>4, <1>5

\* What a step of one request needs to keep, when no row disappears.
LEMMA PhoneStepKeeps ==
  ASSUME VerificationInv, NEW r \in PhoneCalls, NEW q \in {NoPhoneCall} \cup PhoneCall,
         phoneCall' = [phoneCall EXCEPT ![r] = q],
         code' \in [Codes -> OrAbsent(CodeRow)],
         \A c \in Codes : code[c] # Absent => code'[c] # Absent,
         phone' \in OrAbsent(Phones), PhoneWasProven', entered \subseteq entered',
         q.at \in {"attempt", "compare", "consume"} => q.row \in Codes /\ code'[q.row] # Absent,
         q.at \in {"consume", "set"} => q.phone \in entered'
  PROVE  CodesOK' /\ RowRead' /\ EnteredFirst'
<1>1. \A x \in PhoneCalls : phoneCall'[x] = IF x = r THEN q ELSE phoneCall[x]
  BY DEF VerificationInv, CodesOK
<1>2. CodesOK'
  BY DEF VerificationInv, CodesOK
<1>3. RowRead'
  BY <1>1 DEF VerificationInv, RowRead
<1>4. EnteredFirst'
  BY <1>1 DEF VerificationInv, EnteredFirst
<1>5. QED
  BY <1>2, <1>3, <1>4

\* Requests that go on, or end, without a new attempt and without counting one.
LEMMA QuietPhoneStep ==
  ASSUME VerificationInv, NEW r \in PhoneCalls,
         \/ \E p \in Phones : requestPhoneCode(r, p)
         \/ compareCode(r) \/ setPhoneVerified(r) \/ losePhoneCall(r)
  PROVE  VerificationInv'
<1> USE DEF VerificationInv
<1>1. PICK old : old = phoneCall[r]
  OBVIOUS
<1>2. old \in {NoPhoneCall} \cup PhoneCall
  BY <1>1 DEF CodesOK
<1>3. code' = code
  BY DEF requestPhoneCode, compareCode, setPhoneVerified, losePhoneCall
<1>4. PICK q \in {NoPhoneCall} \cup PhoneCall :
        /\ phoneCall' = [phoneCall EXCEPT ![r] = q]
        /\ q.at \notin {"attempt", "compare", "set"}
        /\ q.at = "consume" => /\ q.row \in Codes /\ code[q.row] # Absent
                               /\ q.phone \in entered'
  <2>1. CASE \E p \in Phones : requestPhoneCode(r, p)
    <3>1. PICK p \in Phones : requestPhoneCode(r, p)
      BY <2>1
    <3>2. PICK q : q = [NoPhoneCall EXCEPT !.at = "insert", !.phone = p]
      OBVIOUS
    <3>3. q \in PhoneCall /\ q.at = "insert"
      BY <3>2 DEF NoPhoneCall, PhoneCall, PHONE_STEPS, OrAbsent
    <3>4. QED
      BY <3>1, <3>2, <3>3 DEF requestPhoneCode
  <2>2. CASE compareCode(r) /\ matches(r)
    <3>1. old.at = "compare" /\ old \in PhoneCall
      BY <1>1, <1>2, <2>2, IdlePhoneCall DEF compareCode
    <3>2. PICK q : q = [old EXCEPT !.at = "consume"]
      OBVIOUS
    <3>3. q \in PhoneCall /\ q.at = "consume" /\ q.row = old.row /\ q.phone = old.phone
      BY <3>1, <3>2 DEF PhoneCall, PHONE_STEPS
    <3>4. old.row \in Codes /\ code[old.row] # Absent
      BY <1>1, <3>1 DEF RowRead
    <3>5. old.phone \in entered'
      BY <1>1, <2>2 DEF compareCode, matches
    <3>6. phoneCall' = [phoneCall EXCEPT ![r] = q]
      BY <1>1, <2>2, <3>2 DEF compareCode, phoneCallAt
    <3>7. QED
      BY <3>3, <3>4, <3>5, <3>6
  <2>3. CASE (compareCode(r) /\ ~matches(r)) \/ setPhoneVerified(r) \/ losePhoneCall(r)
    <3>1. phoneCall' = [phoneCall EXCEPT ![r] = NoPhoneCall]
      BY <2>3 DEF compareCode, setPhoneVerified, losePhoneCall, phoneCallEnds
    <3>2. QED
      BY <3>1, IdlePhoneCall
  <2>4. QED
    BY <2>1, <2>2, <2>3
<1>5. entered \subseteq entered'
  BY DEF requestPhoneCode, compareCode, setPhoneVerified, losePhoneCall
<1>6. /\ phone' \in OrAbsent(Phones) /\ PhoneWasProven'
  <2>1. CASE setPhoneVerified(r)
    <3>1. old.at = "set" /\ old \in PhoneCall
      BY <1>1, <1>2, <2>1, IdlePhoneCall DEF setPhoneVerified
    <3>2. old.phone \in Phones /\ old.phone \in entered
      BY <1>1, <3>1 DEF PhoneCall, EnteredFirst
    <3>3. phone' \in {phone, old.phone} /\ entered' = entered
      BY <1>1, <2>1 DEF setPhoneVerified
    <3>4. QED
      BY <3>2, <3>3 DEF CodesOK, EnteredFirst, PhoneWasProven, OrAbsent
  <2>2. CASE phone' = phone
    BY <1>5, <2>2 DEF CodesOK, EnteredFirst, PhoneWasProven
  <2>3. QED
    BY <2>1, <2>2 DEF requestPhoneCode, compareCode, losePhoneCall
<1>7. AttemptsLeft'
  <2> SUFFICES ASSUME NEW c \in Codes, code[c] # Absent
               PROVE  code[c].attempts + Cardinality(Attempting(c)')
                        <= PHONE_CODE_MAX_ATTEMPTS + Cardinality(PhoneCalls) - 1
    BY <1>3 DEF AttemptsLeft
  <2>1. /\ Cardinality(Attempting(c)') \in Nat
        /\ Cardinality(Attempting(c)') <= Cardinality(Attempting(c))
    BY <1>4, AttemptingShrinks
  <2>2. code[c].attempts + Cardinality(Attempting(c))
          <= PHONE_CODE_MAX_ATTEMPTS + Cardinality(PhoneCalls) - 1
    BY DEF AttemptsLeft
  <2>3. code[c].attempts \in Nat
    BY DEF CodesOK, OrAbsent, CodeRow
  <2>4. Cardinality(Attempting(c)) \in Nat /\ Cardinality(PhoneCalls) \in Nat
    BY AttemptingFinite, PhoneCallsFinite, FS_CardinalityType
  <2>5. QED
    BY <2>1, <2>2, <2>3, <2>4, AttemptsPositive
<1>8. code' \in [Codes -> OrAbsent(CodeRow)] /\ \A c \in Codes : code[c] # Absent => code'[c] # Absent
  BY <1>3 DEF CodesOK
<1>9. /\ q.at \in {"attempt", "compare", "consume"} => q.row \in Codes /\ code'[q.row] # Absent
      /\ q.at \in {"consume", "set"} => q.phone \in entered'
  BY <1>3, <1>4
<1>10. QED
  BY <1>4, <1>5, <1>6, <1>7, <1>8, <1>9, PhoneStepKeeps

\* A request that reads a code waits among at most one less than all.
LEMMA ConfirmKeeps ==
  ASSUME VerificationInv, NEW r \in PhoneCalls, NEW p \in Phones, NEW right \in BOOLEAN,
         confirmPhone(r, p, right)
  PROVE  VerificationInv'
<1> USE DEF VerificationInv
<1>1. PICK c \in Codes :
        /\ Latest(c, Unconsumed) /\ mayTry(c)
        /\ phoneCall' = [phoneCall EXCEPT ![r] = [at |-> "attempt", phone |-> p,
                                                  right |-> right, row |-> c]]
  BY DEF confirmPhone
<1>2. PICK q : q = [at |-> "attempt", phone |-> p, right |-> right, row |-> c]
  OBVIOUS
<1>3. /\ phoneCall[r] = NoPhoneCall
      /\ phoneCall' = [phoneCall EXCEPT ![r] = q]
      /\ code' = code /\ phone' = phone /\ entered' = entered
  BY <1>1, <1>2 DEF confirmPhone
<1>4. q \in PhoneCall /\ q.at = "attempt" /\ q.row = c
  BY <1>2 DEF PhoneCall, PHONE_STEPS, OrAbsent
<1>5. /\ code[c] # Absent /\ code[c].attempts \in Nat
      /\ code[c].attempts < PHONE_CODE_MAX_ATTEMPTS
  BY <1>1 DEF Latest, Unconsumed, Rows, mayTry, CodesOK, OrAbsent, CodeRow
<1>6. \A d \in Codes : Attempting(d)' = IF d = c THEN Attempting(d) \cup {r}
                                                  ELSE Attempting(d) \ {r}
  BY <1>3, <1>4, AttemptingMoves
<1>7. r \notin Attempting(c)
  BY <1>3, IdlePhoneCall DEF Attempting
<1>8. AttemptsLeft'
  <2> SUFFICES ASSUME NEW d \in Codes, code[d] # Absent
               PROVE  code[d].attempts + Cardinality(Attempting(d)')
                        <= PHONE_CODE_MAX_ATTEMPTS + Cardinality(PhoneCalls) - 1
    BY <1>3 DEF AttemptsLeft
  <2>1. /\ Attempting(d) \subseteq PhoneCalls \ {r}
        /\ IsFiniteSet(PhoneCalls \ {r})
        /\ Cardinality(PhoneCalls \ {r}) = Cardinality(PhoneCalls) - 1
    BY <1>3, IdlePhoneCall, PhoneCallsFinite, FS_RemoveElement DEF Attempting
  <2>2. /\ Cardinality(Attempting(d)) \in Nat /\ Cardinality(PhoneCalls) \in Nat
        /\ IsFiniteSet(Attempting(d))
    BY AttemptingFinite, PhoneCallsFinite, FS_CardinalityType
  <2>3. Cardinality(Attempting(d)) <= Cardinality(PhoneCalls) - 1
    BY <2>1, FS_Subset
  <2>4. CASE d = c
    <3>1. Cardinality(Attempting(d)') = Cardinality(Attempting(d)) + 1
      BY <1>6, <1>7, <2>2, <2>4, FS_AddElement
    <3>2. QED
      BY <1>5, <2>2, <2>3, <2>4, <3>1, AttemptsPositive
  <2>5. CASE d # c
    <3>1. Attempting(d)' = Attempting(d)
      BY <1>3, <1>6, <2>5, IdlePhoneCall DEF Attempting
    <3>2. QED
      BY <3>1 DEF AttemptsLeft
  <2>6. QED
    BY <2>4, <2>5
<1>9. /\ code' \in [Codes -> OrAbsent(CodeRow)] /\ phone' \in OrAbsent(Phones)
      /\ PhoneWasProven' /\ code'[q.row] # Absent /\ q.row \in Codes
  BY <1>3, <1>4, <1>5 DEF CodesOK, EnteredFirst, PhoneWasProven
<1>10. CodesOK' /\ RowRead' /\ EnteredFirst'
  BY <1>3, <1>4, <1>9, PhoneStepKeeps
<1>11. QED
  BY <1>8, <1>10

\* Steps that write a row of one_time_tokens: the attempts of a row only grow
\* by the one who waited, and what was hashed stays.
LEMMA CodeWriteKeeps ==
  ASSUME VerificationInv, NEW r \in PhoneCalls,
         \/ \E c \in Codes : insertCode(r, c)
         \/ supersede(r) \/ countAttempt(r) \/ consumeCode(r)
  PROVE  VerificationInv'
<1> USE DEF VerificationInv
<1>1. PICK old : old = phoneCall[r]
  OBVIOUS
<1>2. old \in PhoneCall /\ old.at \in {"insert", "supersede", "attempt", "consume"}
  BY <1>1, IdlePhoneCall DEF CodesOK, insertCode, supersede, countAttempt, consumeCode
<1>3. PICK q \in {NoPhoneCall} \cup PhoneCall :
        /\ phoneCall' = [phoneCall EXCEPT ![r] = q]
        /\ q.at \notin {"attempt", "consume"}
        /\ q.at = "compare" => q.row = old.row /\ old.at = "attempt"
        /\ q.at = "set" => old.at = "consume" /\ q.phone = old.phone
  <2>1. CASE supersede(r)
    BY <2>1, IdlePhoneCall DEF supersede, phoneCallEnds
  <2>2. ASSUME NEW at \in {"supersede", "compare", "set"}, phoneCallAt(r, at),
               at = "compare" => old.at = "attempt", at = "set" => old.at = "consume"
        PROVE  \E q \in PhoneCall :
                 /\ phoneCall' = [phoneCall EXCEPT ![r] = q]
                 /\ q.at \notin {"attempt", "consume"}
                 /\ q.at = "compare" => q.row = old.row /\ old.at = "attempt"
                 /\ q.at = "set" => old.at = "consume" /\ q.phone = old.phone
    <3>1. PICK q : q = [old EXCEPT !.at = at]
      OBVIOUS
    <3>2. q \in PhoneCall /\ q.at = at /\ q.row = old.row /\ q.phone = old.phone
      BY <1>2, <3>1 DEF PhoneCall, PHONE_STEPS
    <3>3. phoneCall' = [phoneCall EXCEPT ![r] = q]
      BY <1>1, <2>2, <3>1 DEF phoneCallAt
    <3>4. QED
      BY <2>2, <3>2, <3>3
  <2>3. CASE (\E c \in Codes : insertCode(r, c)) \/ countAttempt(r) \/ consumeCode(r)
    <3>1. \/ phoneCallAt(r, "supersede")
          \/ phoneCallAt(r, "compare") /\ old.at = "attempt"
          \/ phoneCallAt(r, "set") /\ old.at = "consume"
      BY <1>1, <2>3 DEF insertCode, countAttempt, consumeCode
    <3>2. QED
      BY <2>2, <3>1
  <2>4. QED
    BY <2>1, <2>3
<1>4. phone' = phone /\ entered' = entered
  BY DEF insertCode, supersede, countAttempt, consumeCode
<1>5. /\ code' \in [Codes -> OrAbsent(CodeRow)]
      /\ \A c \in Codes : code[c] # Absent =>
           /\ code'[c] # Absent
           /\ code'[c].attempts = IF old.at = "attempt" /\ c = old.row
                                    THEN code[c].attempts + 1 ELSE code[c].attempts
      /\ \A c \in Codes : code[c] = Absent /\ code'[c] # Absent => code'[c].attempts = 0
  <2>1. CASE \E c \in Codes : insertCode(r, c)
    <3>1. PICK c \in Codes : insertCode(r, c)
      BY <2>1
    <3>2. PICK new : new = [phone |-> old.phone, attempts |-> 0, consumed |-> FALSE]
      OBVIOUS
    <3>3. new \in CodeRow /\ new.attempts = 0
      BY <1>2, <3>2 DEF CodeRow, PhoneCall
    <3>4. code' = [code EXCEPT ![c] = new] /\ code[c] = Absent /\ old.at = "insert"
      BY <1>1, <3>1, <3>2 DEF insertCode
    <3>5. QED
      BY <3>3, <3>4 DEF CodesOK, OrAbsent
  <2>2. ASSUME NEW x \in CodeRow, NEW y, y = [x EXCEPT !.consumed = TRUE]
        PROVE  y \in CodeRow /\ y # Absent /\ y.attempts = x.attempts
    BY <2>2, AbsentIsNoCode DEF CodeRow
  <2>3. CASE supersede(r)
    <3>1. /\ old.at = "supersede"
          /\ code' = [c \in Codes |->
                        IF c \in Unconsumed /\ ~Latest(c, Rows(code))
                          THEN [code[c] EXCEPT !.consumed = TRUE] ELSE code[c]]
      BY <1>1, <2>3 DEF supersede
    <3>2. ASSUME NEW c \in Codes
          PROVE  /\ code'[c] \in OrAbsent(CodeRow)
                 /\ code[c] # Absent => /\ code'[c] # Absent
                                        /\ code'[c].attempts = code[c].attempts
                 /\ code[c] = Absent => code'[c] = Absent
      <4>1. CASE code'[c] = code[c]
        BY <4>1 DEF CodesOK
      <4>2. CASE c \in Unconsumed /\ code'[c] = [code[c] EXCEPT !.consumed = TRUE]
        <5>1. PICK x : x = code[c]
          OBVIOUS
        <5>2. x \in CodeRow /\ x # Absent
          BY <4>2, <5>1 DEF CodesOK, OrAbsent, Unconsumed, Rows
        <5>3. PICK y : y = [x EXCEPT !.consumed = TRUE]
          OBVIOUS
        <5>4. y \in CodeRow /\ y # Absent /\ y.attempts = x.attempts
          BY <2>2, <5>2, <5>3
        <5>5. QED
          BY <4>2, <5>1, <5>2, <5>3, <5>4 DEF OrAbsent
      <4>3. QED
        BY <3>1, <4>1, <4>2
    <3>3. QED
      BY <3>1, <3>2
  <2>4. CASE countAttempt(r) \/ consumeCode(r)
    <3>1. PICK c \in Codes : c = old.row /\ code[c] # Absent
      BY <1>1, <2>4 DEF RowRead, countAttempt, consumeCode
    <3>2. PICK x \in CodeRow : x = code[c]
      BY <3>1 DEF CodesOK, OrAbsent
    <3>3. PICK y : y = IF old.at = "attempt" THEN [x EXCEPT !.attempts = @ + 1]
                                             ELSE [x EXCEPT !.consumed = TRUE]
      OBVIOUS
    <3>4. /\ y \in CodeRow /\ y # Absent
          /\ y.attempts = IF old.at = "attempt" THEN x.attempts + 1 ELSE x.attempts
      <4>1. CASE old.at = "attempt"
        BY <3>3, <4>1, AbsentIsNoCode DEF CodeRow
      <4>2. CASE old.at # "attempt"
        BY <2>2, <3>3, <4>2
      <4>3. QED
        BY <4>1, <4>2
    <3>5. code' = [code EXCEPT ![c] = y]
      BY <1>1, <2>4, <3>1, <3>2, <3>3 DEF countAttempt, consumeCode
    <3>6. QED
      BY <3>1, <3>2, <3>4, <3>5 DEF CodesOK, OrAbsent
  <2>5. QED
    BY <2>1, <2>3, <2>4
<1>6. AttemptsLeft'
  <2> SUFFICES ASSUME NEW c \in Codes, code'[c] # Absent
               PROVE  code'[c].attempts + Cardinality(Attempting(c)')
                        <= PHONE_CODE_MAX_ATTEMPTS + Cardinality(PhoneCalls) - 1
    BY DEF AttemptsLeft
  <2>1. /\ Cardinality(Attempting(c)') \in Nat
        /\ Cardinality(Attempting(c)') <= Cardinality(Attempting(c))
        /\ r \in Attempting(c) =>
             Cardinality(Attempting(c)') = Cardinality(Attempting(c)) - 1
    <3>1. q.at # "attempt"
      BY <1>3
    <3>2. QED
      BY <1>3, <3>1, AttemptingShrinks
  <2>2. Cardinality(Attempting(c)) \in Nat /\ Cardinality(PhoneCalls) \in Nat
    BY AttemptingFinite, PhoneCallsFinite, FS_CardinalityType
  <2>3. CASE code[c] = Absent
    <3>1. Attempting(c) = {}
      BY <2>3 DEF Attempting, RowRead
    <3>2. Cardinality(Attempting(c)) = 0 /\ code'[c].attempts = 0
      BY <1>5, <2>3, <3>1, FS_EmptySet
    <3>3. Cardinality(PhoneCalls) # 0
      BY PhoneCallsFinite, FS_EmptySet
    <3>4. QED
      BY <2>1, <2>2, <3>2, <3>3, AttemptsPositive
  <2>4. CASE code[c] # Absent
    <3>1. PICK n \in Nat : n = code[c].attempts
      BY <2>4 DEF CodesOK, OrAbsent, CodeRow
    <3>2. n + Cardinality(Attempting(c))
            <= PHONE_CODE_MAX_ATTEMPTS + Cardinality(PhoneCalls) - 1
      BY <2>4, <3>1 DEF AttemptsLeft
    <3>3. CASE old.at = "attempt" /\ c = old.row
      <4>1. r \in Attempting(c) /\ code'[c].attempts = n + 1
        BY <1>1, <1>5, <2>4, <3>1, <3>3 DEF Attempting
      <4>2. QED
        BY <2>1, <2>2, <3>2, <4>1, AttemptsPositive
    <3>4. CASE ~(old.at = "attempt" /\ c = old.row)
      <4>1. code'[c].attempts = n
        BY <1>5, <2>4, <3>1, <3>4
      <4>2. QED
        BY <2>1, <2>2, <3>2, <4>1, AttemptsPositive
    <3>5. QED
      BY <3>3, <3>4
  <2>5. QED
    BY <2>3, <2>4
<1>7. /\ phone' \in OrAbsent(Phones) /\ PhoneWasProven'
      /\ q.at \in {"attempt", "compare", "consume"} => q.row \in Codes /\ code'[q.row] # Absent
      /\ q.at \in {"consume", "set"} => q.phone \in entered'
  BY <1>1, <1>3, <1>4, <1>5 DEF CodesOK, EnteredFirst, PhoneWasProven, RowRead
<1>8. QED
  BY <1>3, <1>4, <1>5, <1>6, <1>7, PhoneStepKeeps

\* The attempts counted, and those that wait to be, stay within the limit and
\* the requests beside one another.
THEOREM VerificationInvariance == VerificationSpec => []VerificationInv
<1>1. VerificationInit => VerificationInv
  <2> SUFFICES ASSUME VerificationInit PROVE VerificationInv
    OBVIOUS
  <2>1. \A c \in Codes : code[c] = Absent
    BY DEF VerificationInit
  <2>2. \A r \in PhoneCalls : phoneCall[r].at = "idle"
    BY IdlePhoneCall DEF VerificationInit
  <2>3. CodesOK
    BY DEF VerificationInit, CodesOK, OrAbsent
  <2>4. RowRead /\ AttemptsLeft
    BY <2>1, <2>2 DEF RowRead, AttemptsLeft
  <2>5. EnteredFirst
    BY <2>2 DEF VerificationInit, EnteredFirst, PhoneWasProven
  <2>6. QED
    BY <2>3, <2>4, <2>5 DEF VerificationInv
<1>2. VerificationInv /\ [VerificationNext]_verificationVars => VerificationInv'
  <2> SUFFICES ASSUME VerificationInv, [VerificationNext]_verificationVars
               PROVE  VerificationInv'
    OBVIOUS
  <2>1. CASE UNCHANGED verificationVars
    <3>1. \A c : Attempting(c)' = Attempting(c)
      BY <2>1 DEF verificationVars, Attempting
    <3>2. QED
      BY <2>1, <3>1 DEF verificationVars, VerificationInv, CodesOK, RowRead, AttemptsLeft,
         EnteredFirst, PhoneWasProven
  <2>2. ASSUME NEW r \in PhoneCalls,
               \/ \E p \in Phones : requestPhoneCode(r, p)
               \/ compareCode(r) \/ setPhoneVerified(r) \/ losePhoneCall(r)
        PROVE  VerificationInv'
    BY <2>2, QuietPhoneStep
  <2>3. ASSUME NEW r \in PhoneCalls,
               \E p \in Phones, right \in BOOLEAN : confirmPhone(r, p, right)
        PROVE  VerificationInv'
    BY <2>3, ConfirmKeeps
  <2>4. ASSUME NEW r \in PhoneCalls,
               \/ \E c \in Codes : insertCode(r, c)
               \/ supersede(r) \/ countAttempt(r) \/ consumeCode(r)
        PROVE  VerificationInv'
    BY <2>4, CodeWriteKeeps
  <2>5. QED
    BY <2>1, <2>2, <2>3, <2>4 DEF VerificationNext
<1>3. QED
  BY <1>1, <1>2, PTL DEF VerificationSpec

\* For any number of phones, codes and requests in flight: a phone is verified
\* by its own code, and the limit of attempts is passed by no more than the
\* requests that ran at the same time.
THEOREM OwnCodeOnly == VerificationSpec => []CodesHold
<1>1. VerificationInv => CodesHold
  <2> SUFFICES ASSUME VerificationInv PROVE CodesHold
    OBVIOUS
  <2>1. PhoneWasProven
    BY DEF VerificationInv, EnteredFirst
  <2>2. ASSUME NEW c \in Rows(code)
        PROVE  code[c].attempts <= PHONE_CODE_MAX_ATTEMPTS + Cardinality(PhoneCalls) - 1
    <3>1. c \in Codes /\ code[c] # Absent /\ code[c].attempts \in Nat
      BY DEF Rows, VerificationInv, CodesOK, OrAbsent, CodeRow
    <3>2. code[c].attempts + Cardinality(Attempting(c))
            <= PHONE_CODE_MAX_ATTEMPTS + Cardinality(PhoneCalls) - 1
      BY <3>1 DEF VerificationInv, AttemptsLeft
    <3>3. Cardinality(Attempting(c)) \in Nat /\ Cardinality(PhoneCalls) \in Nat
      BY AttemptingFinite, PhoneCallsFinite, FS_CardinalityType
    <3>4. QED
      BY <3>1, <3>2, <3>3, AttemptsPositive
  <2>3. QED
    BY <2>1, <2>2 DEF CodesHold, TriesBounded
<1>2. QED
  BY <1>1, VerificationInvariance, PTL
-----------------------------------------------------------------------------
(* TwoFactor: the secret that is asked for *)

\* One entry for every request, whatever is in it.
IsFactorCalls(f) == f = [r \in FactorCalls |-> f[r]]

FactorInv ==
  /\ IsFactorCalls(factorCall)
  /\ ~overlapped /\ InFlight("enable") => totpSecret \in proven
  /\ ~overlapped /\ totpEnabled => totpSecret \in proven /\ ~InFlight("setup")

\* A request that begins as something else, or ends, starts no other.
LEMMA FactorCallMoves ==
  ASSUME FactorInv, NEW r \in FactorCalls, NEW c, NEW at,
         c.at # at, factorCall' = [factorCall EXCEPT ![r] = c]
  PROVE  InFlight(at)' => InFlight(at)
BY DEF FactorInv, IsFactorCalls, InFlight

\* A request that ends is no longer in flight, and no other is touched.
LEMMA FactorCallEnds ==
  ASSUME FactorInv, NEW r \in FactorCalls, factorCallEnds(r)
  PROVE  /\ IsFactorCalls(factorCall)'
         /\ \A at \in {"setup", "enable"} : InFlight(at)' => InFlight(at)
<1>1. NoFactorCall.at = "idle"
  BY DEF NoFactorCall
<1>2. PICK c : c = NoFactorCall
  OBVIOUS
<1>3. factorCall' = [factorCall EXCEPT ![r] = c] /\ c.at = "idle"
  BY <1>1, <1>2 DEF factorCallEnds
<1>4. QED
  BY <1>2, <1>3, FactorCallMoves DEF FactorInv, IsFactorCalls

LEMMA FactorStepKeeps ==
  ASSUME FactorInv, NEW r \in FactorCalls,
         \/ \E secret \in Secrets : setup(r, secret)
         \/ setSecret(r) \/ enable(r) \/ setEnabled(r)
  PROVE  FactorInv'
<1>1. CASE \E secret \in Secrets : setup(r, secret)
  <2>1. PICK secret \in Secrets : setup(r, secret)
    BY <1>1
  <2>2. PICK c : c = [at |-> "setup", on |-> secret]
    OBVIOUS
  <2>3. factorCall' = [factorCall EXCEPT ![r] = c] /\ c.at = "setup" /\ ~totpEnabled
    BY <2>1, <2>2 DEF setup, factorCallBegins
  <2>4. InFlight("enable")' => InFlight("enable")
    BY <2>3, FactorCallMoves
  <2>5. IsFactorCalls(factorCall)'
    BY <2>3 DEF FactorInv, IsFactorCalls
  <2>6. QED
    BY <2>1, <2>3, <2>4, <2>5 DEF FactorInv, setup, totpVars
<1>2. CASE setSecret(r)
  <2>1. factorCall[r].at = "setup" /\ InFlight("setup")
    BY <1>2 DEF setSecret, InFlight
  <2>2. CASE overlapped \/ InFlight("enable")
    BY <1>2, <2>2, FactorCallEnds DEF setSecret, FactorInv
  <2>3. CASE ~overlapped /\ ~InFlight("enable")
    <3>1. ~totpEnabled
      BY <2>1, <2>3 DEF FactorInv
    <3>2. ~InFlight("enable")'
      BY <1>2, <2>3, FactorCallEnds DEF setSecret
    <3>3. QED
      BY <1>2, <3>1, <3>2, FactorCallEnds DEF setSecret, FactorInv
  <2>4. QED
    BY <2>2, <2>3
<1>3. CASE enable(r)
  <2>1. PICK c : c = [at |-> "enable", on |-> totpSecret]
    OBVIOUS
  <2>2. factorCall' = [factorCall EXCEPT ![r] = c] /\ c.at = "enable" /\ ~totpEnabled
    BY <1>3, <2>1 DEF enable, factorCallBegins
  <2>3. IsFactorCalls(factorCall)'
    BY <2>2 DEF FactorInv, IsFactorCalls
  <2>4. QED
    BY <1>3, <2>2, <2>3 DEF FactorInv, enable
<1>4. CASE setEnabled(r)
  <2>1. factorCall[r].at = "enable" /\ InFlight("enable")
    BY <1>4 DEF setEnabled, InFlight
  <2>2. CASE overlapped \/ InFlight("setup")
    BY <1>4, <2>2, FactorCallEnds DEF setEnabled, FactorInv
  <2>3. CASE ~overlapped /\ ~InFlight("setup")
    <3>1. totpSecret \in proven
      BY <2>1, <2>3 DEF FactorInv
    <3>2. ~InFlight("setup")'
      BY <1>4, <2>3, FactorCallEnds DEF setEnabled
    <3>3. QED
      BY <1>4, <3>1, <3>2, FactorCallEnds DEF setEnabled, FactorInv
  <2>4. QED
    BY <2>2, <2>3
<1>5. QED
  BY <1>1, <1>2, <1>3, <1>4

LEMMA MailStepKeeps ==
  ASSUME FactorInv, NEW r \in FactorCalls,
         \/ \E t \in ResetTokens \cup {EMAIL_VERIFY} : consumeOneTimeToken(r, t)
         \/ setEmailVerified(r) \/ setPasswordHash(r) \/ loseFactorCall(r)
  PROVE  FactorInv'
<1>1. CASE \E t \in ResetTokens \cup {EMAIL_VERIFY} : consumeOneTimeToken(r, t)
  <2>1. PICK t \in ResetTokens \cup {EMAIL_VERIFY} : consumeOneTimeToken(r, t)
    BY <1>1
  <2>2. PICK c : factorCall' = [factorCall EXCEPT ![r] = c] /\ c.at \in {"verified", "reset"}
    <3>1. CASE t = EMAIL_VERIFY
      <4>1. PICK c : c = [at |-> "verified", on |-> Absent]
        OBVIOUS
      <4>2. QED
        BY <2>1, <3>1, <4>1 DEF consumeOneTimeToken, factorCallBegins
    <3>2. CASE t # EMAIL_VERIFY
      <4>1. PICK c : c = [at |-> "reset", on |-> t]
        OBVIOUS
      <4>2. QED
        BY <2>1, <3>2, <4>1 DEF consumeOneTimeToken, factorCallBegins
    <3>3. QED
      BY <3>1, <3>2
  <2>3. \A at \in {"setup", "enable"} : InFlight(at)' => InFlight(at)
    BY <2>2, FactorCallMoves
  <2>4. IsFactorCalls(factorCall)'
    BY <2>2 DEF FactorInv, IsFactorCalls
  <2>5. QED
    BY <2>1, <2>3, <2>4 DEF FactorInv, consumeOneTimeToken, totpVars
<1>2. CASE setEmailVerified(r) \/ setPasswordHash(r) \/ loseFactorCall(r)
  <2>1. factorCallEnds(r) /\ UNCHANGED totpVars
    BY <1>2 DEF setEmailVerified, setPasswordHash, loseFactorCall
  <2>2. QED
    BY <2>1, FactorCallEnds DEF FactorInv, totpVars
<1>3. QED
  BY <1>1, <1>2

\* Whatever is lost or repeated: while no setup and enabling have overlapped,
\* what is being switched on has been proven, and what is on is not replaced.
THEOREM FactorInvariance == TwoFactorSpec => []FactorInv
<1>1. TwoFactorInit => FactorInv
  <2>1. NoFactorCall.at = "idle"
    BY DEF NoFactorCall
  <2>2. QED
    BY <2>1 DEF TwoFactorInit, FactorInv, IsFactorCalls, InFlight
<1>2. FactorInv /\ [TwoFactorNext]_twoFactorVars => FactorInv'
  <2> SUFFICES ASSUME FactorInv, [TwoFactorNext]_twoFactorVars PROVE FactorInv'
    OBVIOUS
  <2>1. CASE UNCHANGED twoFactorVars
    BY <2>1 DEF twoFactorVars, totpVars, FactorInv, InFlight
  <2>2. CASE \E t \in ResetTokens : forgotPassword(t)
    BY <2>2 DEF forgotPassword, totpVars, FactorInv, InFlight
  <2>3. CASE \E r \in FactorCalls :
               \/ \E secret \in Secrets : setup(r, secret)
               \/ setSecret(r) \/ enable(r) \/ setEnabled(r)
    BY <2>3, FactorStepKeeps
  <2>4. CASE \E r \in FactorCalls :
               \/ \E t \in ResetTokens \cup {EMAIL_VERIFY} : consumeOneTimeToken(r, t)
               \/ setEmailVerified(r) \/ setPasswordHash(r) \/ loseFactorCall(r)
    BY <2>4, MailStepKeeps
  <2>5. QED
    BY <2>1, <2>2, <2>3, <2>4 DEF TwoFactorNext
<1>3. QED
  BY <1>1, <1>2, PTL DEF TwoFactorSpec

\* "prove possession with a valid code to switch enforcement on": with any
\* number of requests, the secret a switched-on factor asks for is one whose
\* owner has shown a code of it.
THEOREM Enforced == TwoFactorSpec => []EnforcedIsProven
<1>1. FactorInv => EnforcedIsProven
  BY DEF FactorInv, EnforcedIsProven
<1>2. QED
  BY <1>1, FactorInvariance, PTL
-----------------------------------------------------------------------------
(* JobPhotos: the photos of a job, and the requests that counted them *)

\* The requests that have counted the photos of j and not yet added theirs.
Counted(j) ==
  {r \in AttachCalls : /\ attachCall[r] # Absent
                       /\ attachCall[r].job = j
                       /\ attachCall[r].counted # Absent}

AttachedOK ==
  /\ attached \in [JobIds -> SUBSET Photos]
  /\ attachCall \in [AttachCalls -> AttachCall \cup {Absent}]

\* The bytes come first: of an upload's row, and of what is being attached.
BytesFirst ==
  /\ upload = [p \in Photos |-> upload[p]]
  /\ \A p \in Photos : upload[p] = "insert" => p \in bytes
  /\ fileRow \subseteq bytes
  /\ \A r \in AttachCalls : attachCall[r] # Absent => attachCall[r].file \in fileRow
  /\ \A j \in JobIds : attached[j] \subseteq bytes

\* The last that counts a free place leaves at most the others beside it.
PlacesLeft ==
  \A j \in JobIds :
    /\ IsFiniteSet(attached[j])
    /\ Cardinality(attached[j]) + Cardinality(Counted(j))
         <= MAX_PHOTOS + Cardinality(AttachCalls) - 1

PhotosInv == AttachedOK /\ BytesFirst /\ PlacesLeft

LEMMA CountedFinite ==
  ASSUME NEW j
  PROVE  /\ IsFiniteSet(Counted(j)) /\ Cardinality(Counted(j)) \in Nat
         /\ Cardinality(Counted(j)) <= Cardinality(AttachCalls)
         /\ Cardinality(AttachCalls) \in Nat
BY AttachCallsFinite, FS_Subset, FS_CardinalityType DEF Counted

\* A request that has not counted takes no place.
LEMMA UncountedKeeps ==
  ASSUME PlacesLeft, AttachedOK, attached' = attached, NEW r \in AttachCalls, NEW c,
         attachCall' = [attachCall EXCEPT ![r] = c],
         c = Absent \/ c.counted = Absent
  PROVE  PlacesLeft'
<1> SUFFICES ASSUME NEW j \in JobIds
             PROVE  /\ IsFiniteSet(attached[j])
                    /\ Cardinality(attached[j]) + Cardinality(Counted(j)')
                         <= MAX_PHOTOS + Cardinality(AttachCalls) - 1
  BY DEF PlacesLeft
<1>1. Counted(j)' \subseteq Counted(j)
  BY DEF Counted, AttachedOK
<1>2. PICK A, B, D : A = Counted(j) /\ B = Counted(j)' /\ D = attached[j]
  OBVIOUS
<1>3. IsFiniteSet(A) /\ Cardinality(A) \in Nat /\ Cardinality(AttachCalls) \in Nat
  BY <1>2, CountedFinite
<1>4. Cardinality(B) \in Nat /\ Cardinality(B) <= Cardinality(A)
  BY <1>1, <1>2, <1>3, FS_Subset, FS_CardinalityType
<1>5. /\ IsFiniteSet(D) /\ Cardinality(D) \in Nat
      /\ Cardinality(D) + Cardinality(A) <= MAX_PHOTOS + Cardinality(AttachCalls) - 1
  BY <1>2, FS_CardinalityType DEF PlacesLeft
<1>6. Cardinality(D) + Cardinality(B) <= MAX_PHOTOS + Cardinality(AttachCalls) - 1
  BY <1>3, <1>4, <1>5, MaxPhotosPositive
<1>7. QED
  BY <1>2, <1>5, <1>6

LEMMA FormStepKeeps ==
  ASSUME PhotosInv,
         \/ \E p \in Photos : \/ pickPhoto(p) \/ putBytes(p) \/ insertFile(p)
                              \/ addPhoto(p) \/ uploadFails(p) \/ attachRefused(p)
         \/ submit \/ createAnswered \/ createFails \/ leaveForm
         \/ \E j \in JobIds : createPosted(j) \/ jobIsStaffed(j)
  PROVE  PhotosInv'
<1>1. UNCHANGED <<attached, attachCall>>
  BY DEF pickPhoto, putBytes, insertFile, addPhoto, uploadFails, attachRefused, submit,
         createAnswered, createFails, leaveForm, createPosted, jobIsStaffed, jobVars
<1>2. AttachedOK' /\ PlacesLeft'
  BY <1>1 DEF PhotosInv, AttachedOK, PlacesLeft, Counted
<1>3. BytesFirst'
  <2>1. CASE UNCHANGED fileVars
    BY <1>1, <2>1 DEF PhotosInv, BytesFirst, fileVars
  <2>2. CASE \E p \in Photos : pickPhoto(p) \/ addPhoto(p) \/ uploadFails(p)
    BY <1>1, <2>2, AbsentIsNoUpload
       DEF PhotosInv, BytesFirst, pickPhoto, addPhoto, uploadFails
  <2>3. CASE \E p \in Photos : putBytes(p)
    BY <1>1, <2>3 DEF PhotosInv, BytesFirst, putBytes
  <2>4. CASE \E p \in Photos : insertFile(p)
    BY <1>1, <2>4 DEF PhotosInv, BytesFirst, insertFile
  <2>5. QED
    BY <2>1, <2>2, <2>3, <2>4 DEF attachRefused, submit, createAnswered, createFails,
       leaveForm, createPosted, jobIsStaffed
<1>4. QED
  BY <1>2, <1>3 DEF PhotosInv

LEMMA BeginAttachKeeps ==
  ASSUME PhotosInv, NEW r \in AttachCalls, NEW j \in JobIds, NEW p \in Photos,
         NEW form \in BOOLEAN, beginAttach(r, j, p, form)
  PROVE  PhotosInv'
<1>1. PICK c : c = [job |-> j, file |-> p, counted |-> Absent, form |-> form]
  OBVIOUS
<1>2. attachCall' = [attachCall EXCEPT ![r] = c] /\ UNCHANGED <<fileVars, attached>>
      /\ p \in fileRow
  BY <1>1 DEF beginAttach
<1>3. c \in AttachCall /\ c.counted = Absent /\ c.file = p
  BY <1>1 DEF AttachCall, OrAbsent
<1>4. AttachedOK'
  BY <1>2, <1>3 DEF PhotosInv, AttachedOK
<1>5. BytesFirst'
  BY <1>2, <1>3 DEF PhotosInv, BytesFirst, AttachedOK, fileVars
<1>6. PlacesLeft'
  BY <1>2, <1>3, UncountedKeeps DEF PhotosInv
<1>7. QED
  BY <1>4, <1>5, <1>6 DEF PhotosInv

LEMMA CountPhotosKeeps ==
  ASSUME PhotosInv, NEW r \in AttachCalls, countPhotos(r)
  PROVE  PhotosInv'
<1>1. PICK c \in AttachCall : c = attachCall[r]
  BY DEF PhotosInv, AttachedOK, countPhotos
<1>2. PICK n : n = Cardinality(attached[c.job])
  OBVIOUS
<1>3. c.job \in JobIds /\ c.file \in Photos
  BY DEF AttachCall
<1>4. n \in Nat /\ n < MAX_PHOTOS
  <2>1. n < MAX_PHOTOS
    BY <1>1, <1>2 DEF countPhotos, roomFor
  <2>2. n \in Nat
    BY <1>2, <1>3, FS_CardinalityType DEF PhotosInv, PlacesLeft
  <2>3. QED
    BY <2>1, <2>2
<1>5. PICK d : d = [c EXCEPT !.counted = n]
  OBVIOUS
<1>6. d \in AttachCall /\ d.job = c.job /\ d.file = c.file
  BY <1>4, <1>5 DEF AttachCall, OrAbsent
<1>7. attachCall' = [attachCall EXCEPT ![r] = d] /\ UNCHANGED <<fileVars, attached>>
  BY <1>1, <1>2, <1>5 DEF countPhotos
<1>8. AttachedOK'
  BY <1>6, <1>7 DEF PhotosInv, AttachedOK
<1>9. BytesFirst'
  <2>1. c.file \in fileRow
    BY <1>1 DEF PhotosInv, BytesFirst, countPhotos
  <2>2. QED
    BY <1>6, <1>7, <2>1 DEF PhotosInv, BytesFirst, AttachedOK, fileVars
<1>10. PlacesLeft'
  <2> SUFFICES ASSUME NEW j \in JobIds
               PROVE  /\ IsFiniteSet(attached[j])
                      /\ Cardinality(attached[j]) + Cardinality(Counted(j)')
                           <= MAX_PHOTOS + Cardinality(AttachCalls) - 1
    BY <1>7 DEF PlacesLeft
  <2>1. PICK D, B : D = attached[j] /\ B = Counted(j)'
    OBVIOUS
  <2>2. IsFiniteSet(D) /\ Cardinality(D) \in Nat
    BY <2>1, FS_CardinalityType DEF PhotosInv, PlacesLeft
  <2>3. Cardinality(AttachCalls) \in Nat
    BY AttachCallsFinite, FS_CardinalityType
  <2>4. CASE j = c.job
    <3>1. B \subseteq AttachCalls
      BY <2>1 DEF Counted
    <3>2. Cardinality(B) \in Nat /\ Cardinality(B) <= Cardinality(AttachCalls)
      BY <3>1, AttachCallsFinite, FS_Subset, FS_CardinalityType
    <3>3. Cardinality(D) < MAX_PHOTOS
      BY <1>2, <1>4, <2>1, <2>4
    <3>4. Cardinality(D) + Cardinality(B) <= MAX_PHOTOS + Cardinality(AttachCalls) - 1
      BY <2>2, <2>3, <3>2, <3>3, MaxPhotosPositive
    <3>5. QED
      BY <2>1, <2>2, <3>4
  <2>5. CASE j # c.job
    <3>1. B = Counted(j)
      BY <1>1, <1>6, <1>7, <2>1, <2>5 DEF Counted, PhotosInv, AttachedOK
    <3>2. QED
      BY <2>1, <3>1 DEF PhotosInv, PlacesLeft
  <2>6. QED
    BY <2>4, <2>5
<1>11. QED
  BY <1>8, <1>9, <1>10 DEF PhotosInv

LEMMA AttachFailsKeeps ==
  ASSUME PhotosInv, NEW r \in AttachCalls, attachFails(r)
  PROVE  PhotosInv'
<1>1. attachCall' = [attachCall EXCEPT ![r] = Absent] /\ UNCHANGED <<fileVars, attached>>
  BY DEF attachFails, attachEnds
<1>2. AttachedOK'
  BY <1>1 DEF PhotosInv, AttachedOK
<1>3. BytesFirst'
  BY <1>1 DEF PhotosInv, BytesFirst, AttachedOK, fileVars
<1>4. PlacesLeft'
  BY <1>1, UncountedKeeps DEF PhotosInv
<1>5. QED
  BY <1>2, <1>3, <1>4 DEF PhotosInv

LEMMA InsertPhotoKeeps ==
  ASSUME PhotosInv, NEW r \in AttachCalls, insertPhoto(r)
  PROVE  PhotosInv'
<1>1. PICK c \in AttachCall : c = attachCall[r] /\ c # Absent /\ c.counted # Absent
  BY DEF PhotosInv, AttachedOK, insertPhoto
<1>2. c.job \in JobIds /\ c.file \in Photos
  BY DEF AttachCall
<1>3. PICK k, p : k = c.job /\ p = c.file
  OBVIOUS
<1>4. /\ attachCall' = [attachCall EXCEPT ![r] = Absent]
      /\ attached' = [attached EXCEPT ![k] = @ \cup {p}]
      /\ UNCHANGED fileVars
  BY <1>1, <1>3 DEF insertPhoto, attachEnds
<1>5. p \in fileRow
  BY <1>1, <1>3 DEF PhotosInv, BytesFirst
<1>6. AttachedOK'
  BY <1>2, <1>3, <1>4 DEF PhotosInv, AttachedOK
<1>7. BytesFirst'
  BY <1>2, <1>3, <1>4, <1>5 DEF PhotosInv, BytesFirst, AttachedOK, fileVars
<1>8. PlacesLeft'
  <2> SUFFICES ASSUME NEW j \in JobIds
               PROVE  /\ IsFiniteSet(attached'[j])
                      /\ Cardinality(attached'[j]) + Cardinality(Counted(j)')
                           <= MAX_PHOTOS + Cardinality(AttachCalls) - 1
    BY DEF PlacesLeft
  <2>1. PICK D, E, A, B : D = attached[j] /\ E = attached'[j]
                          /\ A = Counted(j) /\ B = Counted(j)'
    OBVIOUS
  <2>2. /\ IsFiniteSet(D) /\ Cardinality(D) \in Nat
        /\ Cardinality(D) + Cardinality(A) <= MAX_PHOTOS + Cardinality(AttachCalls) - 1
    BY <2>1, FS_CardinalityType DEF PhotosInv, PlacesLeft
  <2>3. IsFiniteSet(A) /\ Cardinality(A) \in Nat /\ Cardinality(AttachCalls) \in Nat
    BY <2>1, CountedFinite
  <2>4. B = A \ {r}
    BY <1>4, <2>1 DEF Counted, PhotosInv, AttachedOK
  <2>5. Cardinality(B) = IF r \in A THEN Cardinality(A) - 1 ELSE Cardinality(A)
    BY <2>3, <2>4, FS_RemoveElement
  <2>6. CASE j = k
    <3>1. r \in A
      BY <1>1, <1>3, <2>1, <2>6 DEF Counted
    <3>2. E = D \cup {p}
      BY <1>2, <1>3, <1>4, <2>1, <2>6 DEF PhotosInv, AttachedOK
    <3>3. IsFiniteSet(E) /\ Cardinality(E) \in Nat /\ Cardinality(E) <= Cardinality(D) + 1
      <4>1. /\ IsFiniteSet(E)
            /\ Cardinality(E) = IF p \in D THEN Cardinality(D) ELSE Cardinality(D) + 1
        BY <2>2, <3>2, FS_AddElement
      <4>2. Cardinality(E) \in Nat
        BY <4>1, FS_CardinalityType
      <4>3. QED
        BY <2>2, <4>1, <4>2
    <3>4. Cardinality(E) + Cardinality(B) <= MAX_PHOTOS + Cardinality(AttachCalls) - 1
      BY <2>2, <2>3, <2>5, <3>1, <3>3, MaxPhotosPositive
    <3>5. QED
      BY <2>1, <3>3, <3>4
  <2>7. CASE j # k
    <3>1. E = D /\ r \notin A
      BY <1>1, <1>3, <1>4, <2>1, <2>7 DEF PhotosInv, AttachedOK, Counted
    <3>2. QED
      BY <2>1, <2>2, <2>5, <3>1
  <2>8. QED
    BY <2>6, <2>7
<1>9. QED
  BY <1>6, <1>7, <1>8 DEF PhotosInv

\* Wherever uploads are cut off and however requests to attach interleave:
\* bytes precede rows, and places are passed only by those who counted first.
THEOREM PhotosInvariance == PhotosSpec => []PhotosInv
<1>1. PhotosInit => PhotosInv
  <2> SUFFICES ASSUME PhotosInit PROVE PhotosInv
    OBVIOUS
  <2>1. AttachedOK /\ BytesFirst
    BY AbsentIsNoUpload DEF PhotosInit, AttachedOK, BytesFirst
  <2>2. \A j \in JobIds : attached[j] = {} /\ Counted(j) = {}
    BY DEF PhotosInit, Counted
  <2>3. Cardinality(AttachCalls) \in Nat
    BY AttachCallsFinite, FS_CardinalityType
  <2>4. PlacesLeft
    <3>1. IsFiniteSet({}) /\ Cardinality({}) = 0
      BY FS_EmptySet
    <3>2. PICK n : n = Cardinality({})
      OBVIOUS
    <3>3. n + n <= MAX_PHOTOS + Cardinality(AttachCalls) - 1
      BY <2>3, <3>1, <3>2, MaxPhotosPositive
    <3>4. QED
      BY <2>2, <3>1, <3>2, <3>3 DEF PlacesLeft
  <2>5. QED
    BY <2>1, <2>4 DEF PhotosInv
<1>2. PhotosInv /\ [PhotosNext]_photoVars => PhotosInv'
  <2> SUFFICES ASSUME PhotosInv, [PhotosNext]_photoVars PROVE PhotosInv'
    OBVIOUS
  <2>1. CASE UNCHANGED photoVars
    BY <2>1 DEF photoVars, PhotosInv, AttachedOK, BytesFirst, PlacesLeft, Counted
  <2>2. CASE \E r \in AttachCalls :
               \/ \E j \in JobIds, p \in Photos, form \in BOOLEAN : beginAttach(r, j, p, form)
               \/ countPhotos(r) \/ insertPhoto(r) \/ attachFails(r)
    BY <2>2, BeginAttachKeeps, CountPhotosKeeps, InsertPhotoKeeps, AttachFailsKeeps
  <2>3. QED
    BY <2>1, <2>2, FormStepKeeps DEF PhotosNext
<1>3. QED
  BY <1>1, <1>2, PTL DEF PhotosSpec

\* With any number of jobs, photos and requests, a job has at most the limit
\* and the other requests that counted, and every photo has its bytes.
THEOREM Bounded == PhotosSpec => []PhotosBounded
<1>1. PhotosInv => PhotosBounded
  <2> SUFFICES ASSUME PhotosInv, NEW j \in JobIds
               PROVE  /\ Cardinality(attached[j])
                           <= MAX_PHOTOS + Cardinality(AttachCalls) - 1
                      /\ attached[j] \subseteq bytes
    BY DEF PhotosBounded
  <2>1. PICK A, D : A = Counted(j) /\ D = attached[j]
    OBVIOUS
  <2>2. Cardinality(D) \in Nat /\ Cardinality(A) \in Nat /\ Cardinality(AttachCalls) \in Nat
    BY <2>1, CountedFinite, FS_CardinalityType DEF PhotosInv, PlacesLeft
  <2>3. Cardinality(D) + Cardinality(A) <= MAX_PHOTOS + Cardinality(AttachCalls) - 1
    BY <2>1 DEF PhotosInv, PlacesLeft
  <2>4. Cardinality(D) <= MAX_PHOTOS + Cardinality(AttachCalls) - 1
    BY <2>2, <2>3, MaxPhotosPositive
  <2>5. QED
    BY <2>1, <2>4 DEF PhotosInv, BytesFirst
<1>2. QED
  BY <1>1, PhotosInvariance, PTL
-----------------------------------------------------------------------------
(* Messaging: late messages, and what the screen marks *)

Message == [sender : People, read : BOOLEAN]

ConversationOK ==
  /\ messages \in Seq(Message)
  /\ sending = [p \in People |-> sending[p]]
  /\ late \in [People -> Nat]
  /\ shown \in Nat
  /\ marking \in Nat

\* Who may still insert has not inserted since it is forbidden.
LateOK ==
  \A p \in People :
    /\ late[p] <= 1
    /\ Forbidden /\ sending[p] = "writable" => late[p] = 0
    /\ blockers # {} /\ sending[p] = "unblocked" => late[p] = 0

\* Pages come in the order in which they were asked for.
PagesInOrder ==
  /\ shown <= Len(messages)
  /\ fetched # Absent => fetched \in Nat /\ shown <= fetched /\ fetched <= Len(messages)

MessagingInv == ConversationOK /\ LateOK /\ PagesInOrder /\ ShownIsRead

LEMMA ServerStepKeeps ==
  ASSUME MessagingInv, NEW p \in People,
         \/ sendMessage(p) \/ assertConversationWritable(p) \/ loseMessage(p)
         \/ blockUser(p) \/ unblockUser(p) \/ ensureConversation
         \/ \E to \in ACCESSES : jobMoves(to)
  PROVE  MessagingInv'
<1>1. UNCHANGED <<messages, screenVars>>
  BY DEF sendMessage, assertConversationWritable, loseMessage, blockUser, unblockUser,
         ensureConversation, jobMoves
<1>2. PagesInOrder' /\ ShownIsRead'
  BY <1>1 DEF MessagingInv, PagesInOrder, ShownIsRead, screenVars
<1>3. ConversationOK' /\ LateOK'
  <2> USE DEF MessagingInv, ConversationOK, LateOK
  <2>1. CASE ensureConversation
    BY <1>1, <2>1 DEF ensureConversation, screenVars, Forbidden, Writable
  <2>2. CASE sendMessage(p)
    BY <1>1, <2>2 DEF sendMessage, notBlocked, screenVars, Forbidden, Writable
  <2>3. CASE assertConversationWritable(p)
    BY <1>1, <2>3, AbsentIsNotSending
       DEF assertConversationWritable, screenVars, Forbidden, Writable
  <2>4. CASE loseMessage(p)
    BY <1>1, <2>4, AbsentIsNotSending DEF loseMessage, screenVars, Forbidden, Writable
  <2>5. CASE blockUser(p)
    BY <1>1, <2>5 DEF blockUser, lateStarts, screenVars, Forbidden, Writable
  <2>6. CASE unblockUser(p)
    BY <1>1, <2>6 DEF unblockUser, screenVars, Forbidden, Writable
  <2>7. CASE \E to \in ACCESSES : jobMoves(to)
    BY <1>1, <2>7 DEF jobMoves, lateStarts, screenVars, Forbidden, Writable, ACCESSES
  <2>8. QED
    BY <2>1, <2>2, <2>3, <2>4, <2>5, <2>6, <2>7
<1>4. QED
  BY <1>2, <1>3 DEF MessagingInv

LEMMA InsertMessageKeeps ==
  ASSUME MessagingInv, NEW p \in People, insertMessage(p)
  PROVE  MessagingInv'
<1> USE DEF MessagingInv, ConversationOK
<1>1. PICK m : m = [sender |-> p, read |-> FALSE]
  OBVIOUS
<1>2. m \in Message
  BY <1>1 DEF Message
<1>3. messages' = Append(messages, m) /\ UNCHANGED screenVars
  BY <1>1 DEF insertMessage
<1>4. /\ messages' \in Seq(Message)
      /\ Len(messages') = Len(messages) + 1 /\ Len(messages) \in Nat
      /\ \A i \in 1 .. Len(messages) : messages'[i] = messages[i]
  BY <1>2, <1>3
<1>5. PagesInOrder'
  BY <1>3, <1>4 DEF PagesInOrder, screenVars
<1>6. ShownIsRead'
  BY <1>3, <1>4 DEF ShownIsRead, PagesInOrder, screenVars
<1>7. LateOK' /\ ConversationOK'
  <2>1. /\ sending[p] = "writable" /\ sending' = [sending EXCEPT ![p] = Absent]
        /\ late' = IF Forbidden THEN [late EXCEPT ![p] = @ + 1] ELSE late
        /\ UNCHANGED <<blockers, access, shown, marking>>
    BY DEF insertMessage, screenVars
  <2>2. Forbidden' = Forbidden
    BY <2>1 DEF Forbidden, Writable
  <2>3. sending'[p] = Absent /\ sending' = [q \in People |-> sending'[q]]
        /\ \A q \in People \ {p} : sending'[q] = sending[q]
    BY <2>1
  <2>4. /\ late' \in [People -> Nat]
        /\ \A q \in People \ {p} : late'[q] = late[q]
        /\ late'[p] <= 1
    BY <2>1 DEF LateOK
  <2>5. LateOK'
    BY <2>1, <2>2, <2>3, <2>4, AbsentIsNotSending DEF LateOK
  <2>6. QED
    BY <1>4, <2>1, <2>3, <2>4, <2>5
<1>8. QED
  BY <1>5, <1>6, <1>7

LEMMA MarkReadKeeps ==
  ASSUME MessagingInv, markRead
  PROVE  MessagingInv'
<1> USE DEF MessagingInv, ConversationOK
<1>1. PICK n \in Nat : n = Len(messages)
  OBVIOUS
<1>2. DOMAIN messages = 1 .. n
  BY <1>1
<1>3. \A i \in 1 .. n : messages[i] \in Message
  BY <1>1
<1>4. messages' = [i \in 1 .. n |->
                     IF messages[i].sender # Reader THEN [messages[i] EXCEPT !.read = TRUE]
                                                    ELSE messages[i]]
  BY <1>2 DEF markRead
<1>5. ASSUME NEW i \in 1 .. n
      PROVE  /\ messages'[i] \in Message
             /\ messages'[i].sender = messages[i].sender
             /\ messages'[i].sender # Reader => messages'[i].read
  <2>1. PICK x \in Message : x = messages[i]
    BY <1>3
  <2> DEFINE y == messages'[i]
  <2>2. y = IF x.sender # Reader THEN [x EXCEPT !.read = TRUE] ELSE x
    BY <1>4, <2>1
  <2>3. y \in Message /\ y.sender = x.sender /\ (y.sender # Reader => y.read)
    <3>1. PICK z : z = y
      OBVIOUS
    <3>2. z = IF x.sender # Reader THEN [x EXCEPT !.read = TRUE] ELSE x
      BY <2>2, <3>1
    <3>3. z \in Message /\ z.sender = x.sender /\ (z.sender # Reader => z.read)
      BY <3>2 DEF Message
    <3>4. QED
      BY <3>1, <3>3
  <2>4. QED
    BY <2>1, <2>3
<1>6. messages' \in Seq(Message) /\ Len(messages') = n
  <2>1. PICK f : f = messages'
    OBVIOUS
  <2>2. f = [i \in 1 .. n |-> f[i]] /\ \A i \in 1 .. n : f[i] \in Message
    BY <1>4, <1>5, <2>1
  <2>3. f \in [1 .. n -> Message]
    BY <2>2
  <2>4. f \in Seq(Message) /\ Len(f) = n
    BY <2>3
  <2>5. QED
    BY <2>1, <2>4
<1>7. PagesInOrder'
  BY <1>1, <1>6 DEF PagesInOrder, markRead
<1>8. ShownIsRead'
  BY <1>1, <1>5 DEF ShownIsRead, PagesInOrder, markRead
<1>9. LateOK' /\ ConversationOK'
  BY <1>6 DEF LateOK, markRead, Forbidden, Writable
<1>10. QED
  BY <1>7, <1>8, <1>9

LEMMA ScreenStepKeeps ==
  ASSUME MessagingInv, listMessages \/ showMessages \/ loseMark
  PROVE  MessagingInv'
<1> USE DEF MessagingInv, ConversationOK
<1>1. LateOK' /\ messages' \in Seq(Message) /\ messages' = messages
      /\ sending' = sending /\ late' = late
  BY DEF LateOK, listMessages, showMessages, loseMark, Forbidden, Writable
<1>2. Len(messages) \in Nat
  OBVIOUS
<1>3. CASE listMessages
  BY <1>1, <1>2, <1>3 DEF listMessages, PagesInOrder, ShownIsRead
<1>4. CASE loseMark
  BY <1>1, <1>2, <1>4 DEF loseMark, PagesInOrder, ShownIsRead
<1>5. CASE showMessages
  <2>1. /\ fetched \in Nat /\ shown <= fetched /\ fetched <= Len(messages)
        /\ shown' = fetched /\ fetched' = Absent /\ markLost' = markLost
    BY <1>5 DEF showMessages, PagesInOrder
  <2>2. PagesInOrder'
    BY <1>1, <2>1 DEF PagesInOrder
  <2>3. CASE marksAgain(fetched)
    BY <1>1, <1>5, <2>1, <2>2, <2>3 DEF showMessages, ShownIsRead
  <2>4. CASE ~marksAgain(fetched)
    <3>1. marking' = marking
      BY <1>5, <2>4 DEF showMessages
    <3>2. fetched <= PageSize => fetched = shown
      BY <2>1, <2>4, PageSizePositive DEF marksAgain
    <3>3. ShownIsRead'
      BY <1>1, <2>1, <3>1, <3>2 DEF ShownIsRead
    <3>4. QED
      BY <1>1, <2>1, <2>2, <3>1, <3>3
  <2>5. QED
    BY <2>3, <2>4
<1>6. QED
  BY <1>3, <1>4, <1>5

\* Whoever sends, blocks, reads and leaves in whatever order: a message under
\* way is counted late at most once, and pages are shown and marked in order.
THEOREM MessagingInvariance == MessagingSpec => []MessagingInv
<1>1. MessagingInit => MessagingInv
  BY AbsentIsNotSending
     DEF MessagingInit, MessagingInv, ConversationOK, LateOK, PagesInOrder, ShownIsRead
<1>2. MessagingInv /\ [MessagingNext]_messagingVars => MessagingInv'
  <2> SUFFICES ASSUME MessagingInv, [MessagingNext]_messagingVars PROVE MessagingInv'
    OBVIOUS
  <2>1. CASE UNCHANGED messagingVars
    BY <2>1 DEF messagingVars, screenVars, MessagingInv, ConversationOK, LateOK,
       PagesInOrder, ShownIsRead, Forbidden, Writable
  <2>2. CASE \E p \in People : insertMessage(p)
    BY <2>2, InsertMessageKeeps
  <2>3. CASE markRead
    BY <2>3, MarkReadKeeps
  <2>4. CASE listMessages \/ showMessages \/ loseMark
    BY <2>4, ScreenStepKeeps
  <2>5. CASE \/ ensureConversation \/ \E to \in ACCESSES : jobMoves(to)
             \/ \E p \in People :
                  \/ sendMessage(p) \/ assertConversationWritable(p) \/ loseMessage(p)
                  \/ blockUser(p) \/ unblockUser(p)
    BY <2>5, ServerStepKeeps DEF People
  <2>6. QED
    BY <2>1, <2>2, <2>3, <2>4, <2>5 DEF MessagingNext
<1>3. QED
  BY <1>1, <1>2, PTL DEF MessagingSpec

\* After a block or the end of a job at most one message of each arrives, and
\* what a screen has shown comes to be marked, for pages of any length.
THEOREM Conversing == MessagingSpec => []ConversationHolds
<1>1. MessagingInv => ConversationHolds
  BY DEF MessagingInv, ConversationHolds, LateOK, LateBounded
<1>2. QED
  BY <1>1, MessagingInvariance, PTL
-----------------------------------------------------------------------------
(* Wallets: what a request goes on with is what is stored *)

\* The table, the key and the stored id of a request with the contents q.
OfCustomers(q) == q.purpose \in {"setup", "default"}
KeyFor(q) == <<IF OfCustomers(q) THEN "customer" ELSE "account", q.user>>
StoredFor(q) ==
  IF OfCustomers(q)
    THEN IF paymentCustomer[q.user] = Absent THEN Absent
         ELSE paymentCustomer[q.user].customer
    ELSE IF payoutAccount[q.user] = Absent THEN Absent
         ELSE payoutAccount[q.user].account

GatewayOK ==
  /\ createdFor \in [GatewayIds -> OrAbsent(Keys)]
  /\ intentOf \in [Cards -> OrAbsent(GatewayIds)]
  /\ attachedTo \in [Cards -> OrAbsent(GatewayIds)]
  /\ \A i, j \in GatewayIds : \A key \in Keys :
       createdFor[i] = key /\ createdFor[j] = key => i = j

\* Every stored id is the user's at the gateway, and the default card its own.
StoredRowsOK ==
  /\ paymentCustomer \in [Users -> OrAbsent(CustomerRow)]
  /\ payoutAccount \in [Users -> OrAbsent(AccountRow)]
  /\ \A u \in Users : paymentCustomer[u] # Absent =>
       LET row == paymentCustomer[u] IN
       /\ row \in CustomerRow
       /\ createdFor[row.customer] = <<"customer", u>>
       /\ row.default_payment_method # Absent =>
            /\ row.default_payment_method \in Cards
            /\ attachedTo[row.default_payment_method] = row.customer
  /\ \A u \in Users : payoutAccount[u] # Absent =>
       /\ payoutAccount[u] \in AccountRow
       /\ createdFor[payoutAccount[u].account] = <<"account", u>>

\* A request goes on with an id of its user, and uses only the stored one.
WalletCallOK(q) ==
  q # Absent =>
    /\ q \in WalletCall
    /\ q.purpose = "default" => q.card \in Cards
    /\ q.at \in {"insert", "use", "store"} =>
         q.id \in GatewayIds /\ createdFor[q.id] = KeyFor(q)
    /\ q.at \in {"use", "store"} => StoredFor(q) = q.id
    /\ q.at = "store" /\ q.purpose = "default" => attachedTo[q.card] = q.id

WalletCallsOK ==
  /\ walletCall = [k \in WalletCalls |-> walletCall[k]]
  /\ \A k \in WalletCalls : WalletCallOK(walletCall[k])

WalletsInv == GatewayOK /\ StoredRowsOK /\ WalletCallsOK

LEMMA StoredForIs ==
  ASSUME NEW k
  PROVE  storedId(k) = StoredFor(walletCall[k]) /\ keyOf(k) = KeyFor(walletCall[k])
         /\ inCustomers(k) = OfCustomers(walletCall[k])
BY DEF storedId, StoredFor, keyOf, KeyFor, inCustomers, OfCustomers

\* A request moves to c, and the others are as good as they were.
LEMMA WalletMoves ==
  ASSUME WalletCallsOK, NEW k \in WalletCalls, NEW c, WalletCallOK(c)',
         walletCall' = [walletCall EXCEPT ![k] = c],
         \A q : WalletCallOK(q) => WalletCallOK(q)'
  PROVE  WalletCallsOK'
<1>1. \A i \in WalletCalls : walletCall'[i] = IF i = k THEN c ELSE walletCall[i]
  BY DEF WalletCallsOK
<1>2. walletCall' = [i \in WalletCalls |-> walletCall'[i]]
  BY DEF WalletCallsOK
<1>3. PICK w, v : w = walletCall' /\ v = walletCall
  OBVIOUS
<1>4. \A i \in WalletCalls : WalletCallOK(v[i])
  BY <1>3 DEF WalletCallsOK
<1>5. \A i \in WalletCalls : WalletCallOK(v[i])'
  BY <1>4
<1>6. \A i \in WalletCalls : w[i] = IF i = k THEN c ELSE v[i]
  BY <1>1, <1>3
<1>7. \A i \in WalletCalls : WalletCallOK(w[i])'
  BY <1>5, <1>6
<1>8. QED
  BY <1>2, <1>3, <1>7 DEF WalletCallsOK

LEMMA WalletCallsStay ==
  ASSUME WalletCallsOK, walletCall' = walletCall,
         \A q : WalletCallOK(q) => WalletCallOK(q)'
  PROVE  WalletCallsOK'
<1>1. PICK v : v = walletCall
  OBVIOUS
<1>2. \A i \in WalletCalls : WalletCallOK(v[i])
  BY <1>1 DEF WalletCallsOK
<1>3. \A i \in WalletCalls : WalletCallOK(v[i])'
  BY <1>2
<1>4. QED
  BY <1>1, <1>3 DEF WalletCallsOK

LEMMA WalletsRest ==
  ASSUME WalletsInv,
         UNCHANGED <<createdFor, intentOf, attachedTo, paymentCustomer, payoutAccount,
                     walletCall>>
  PROVE  WalletsInv'
<1>1. GatewayOK' /\ StoredRowsOK'
  BY DEF WalletsInv, GatewayOK, StoredRowsOK
<1>2. \A q : WalletCallOK(q) => WalletCallOK(q)'
  BY DEF WalletCallOK, StoredFor
<1>3. QED
  BY <1>1, <1>2, WalletCallsStay DEF WalletsInv

\* Neither a row nor an id at the gateway changes.
LEMMA QuietWallet ==
  ASSUME WalletsInv, NEW k \in WalletCalls, NEW c, WalletCallOK(c),
         walletCall' = [walletCall EXCEPT ![k] = c],
         UNCHANGED <<createdFor, attachedTo, rowVars>>,
         intentOf' \in [Cards -> OrAbsent(GatewayIds)]
  PROVE  WalletsInv'
<1>1. GatewayOK' /\ StoredRowsOK'
  BY DEF WalletsInv, GatewayOK, StoredRowsOK, rowVars
<1>2. \A q : WalletCallOK(q)' <=> WalletCallOK(q)
  <2> TAKE q
  <2>1. StoredFor(q)' = StoredFor(q)
    BY DEF StoredFor, rowVars
  <2>2. QED
    BY <2>1 DEF WalletCallOK
<1>3. WalletCallsOK'
  BY <1>2, WalletMoves DEF WalletsInv
<1>4. QED
  BY <1>1, <1>3 DEF WalletsInv

\* A request that ends.
LEMMA WalletEnds ==
  ASSUME WalletsInv, NEW k \in WalletCalls, endWallet(k),
         UNCHANGED <<createdFor, attachedTo, rowVars>>,
         intentOf' \in [Cards -> OrAbsent(GatewayIds)]
  PROVE  WalletsInv'
<1>1. WalletCallOK(Absent)
  BY DEF WalletCallOK
<1>2. QED
  BY <1>1, QuietWallet DEF endWallet

\* What a request in flight is known to hold.
LEMMA InWallet ==
  ASSUME WalletsInv, NEW k \in WalletCalls, NEW at, walletAt(k, at)
  PROVE  \E q \in WalletCall : /\ q = walletCall[k] /\ q.at = at
                               /\ WalletCallOK(q) /\ q # Absent
                               /\ q.user \in Users
BY DEF WalletsInv, WalletCallsOK, WalletCallOK, walletAt, WalletCall

LEMMA ReadStepKeeps ==
  ASSUME WalletsInv, NEW k \in WalletCalls,
         \/ \E u \in Users, purpose \in PURPOSES, c \in OrAbsent(Cards) :
              BeginWallet(k, u, purpose, c)
         \/ \E c \in Cards : createSetupIntent(k, c)
         \/ readRow(k) \/ checkCard(k) \/ onboard(k) \/ readStatus(k) \/ failWallet(k)
  PROVE  WalletsInv'
<1> USE DEF rowVars, gatewayVars
<1>1. intentOf \in [Cards -> OrAbsent(GatewayIds)]
  BY DEF WalletsInv, GatewayOK
<1>2. CASE \E u \in Users, purpose \in PURPOSES, c \in OrAbsent(Cards) :
             BeginWallet(k, u, purpose, c)
  <2>1. PICK u \in Users, purpose \in PURPOSES, c \in OrAbsent(Cards) :
          BeginWallet(k, u, purpose, c)
    BY <1>2
  <2>2. PICK q : q = [user |-> u, purpose |-> purpose, card |-> c, at |-> "read",
                      id |-> Absent, status |-> FALSE]
    OBVIOUS
  <2>3. /\ walletCall' = [walletCall EXCEPT ![k] = q]
        /\ UNCHANGED <<gatewayVars, rowVars>>
        /\ purpose = "default" => c \in Cards
    BY <2>1, <2>2 DEF BeginWallet, OrAbsent
  <2>4. q \in WalletCall /\ q.at = "read" /\ q.purpose = purpose /\ q.card = c
    BY <2>2 DEF WalletCall, OrAbsent
  <2>5. WalletCallOK(q)
    BY <2>3, <2>4 DEF WalletCallOK
  <2>6. QED
    BY <1>1, <2>3, <2>5, QuietWallet
<1>3. CASE \E c \in Cards : createSetupIntent(k, c)
  <2>1. PICK c \in Cards : createSetupIntent(k, c)
    BY <1>3
  <2>2. PICK q \in WalletCall : q = walletCall[k] /\ q.at = "use" /\ WalletCallOK(q)
                                /\ q # Absent
    BY <2>1, InWallet DEF createSetupIntent
  <2>3. q.id \in GatewayIds
    BY <2>2 DEF WalletCallOK
  <2>4. intentOf' = [intentOf EXCEPT ![c] = q.id]
    BY <2>1, <2>2 DEF createSetupIntent
  <2>5. intentOf' \in [Cards -> OrAbsent(GatewayIds)]
    BY <1>1, <2>3, <2>4 DEF OrAbsent
  <2>6. QED
    BY <2>1, <2>5, WalletEnds DEF createSetupIntent
<1>4. CASE onboard(k) \/ failWallet(k) \/ (endWallet(k) /\ UNCHANGED <<gatewayVars, rowVars>>)
  BY <1>1, <1>4, WalletEnds DEF onboard, failWallet
<1>5. CASE readRow(k)
  <2>1. PICK q \in WalletCall : q = walletCall[k] /\ q.at = "read" /\ WalletCallOK(q)
                                /\ q # Absent /\ q.user \in Users
    BY <1>5, InWallet DEF readRow
  <2>2. PICK i : i = StoredFor(q)
    OBVIOUS
  <2>3. storedId(k) = i
    BY <2>1, <2>2, StoredForIs
  <2>4. CASE i # Absent
    <3>1. PICK c : c = [[q EXCEPT !.at = "use"] EXCEPT !.id = i]
      OBVIOUS
    <3>2. walletCall' = [walletCall EXCEPT ![k] = c] /\ UNCHANGED <<gatewayVars, rowVars>>
      BY <1>5, <2>1, <2>3, <2>4, <3>1 DEF readRow
    <3>3. i \in GatewayIds /\ createdFor[i] = KeyFor(q)
      <4>1. CASE OfCustomers(q)
        BY <2>1, <2>2, <2>4, <4>1 DEF StoredFor, KeyFor, WalletsInv, StoredRowsOK, CustomerRow
      <4>2. CASE ~OfCustomers(q)
        BY <2>1, <2>2, <2>4, <4>2 DEF StoredFor, KeyFor, WalletsInv, StoredRowsOK, AccountRow
      <4>3. QED
        BY <4>1, <4>2
    <3>4. /\ c \in WalletCall /\ c.at = "use" /\ c.id = i /\ c.user = q.user
          /\ c.purpose = q.purpose /\ c.card = q.card
      BY <3>1, <3>3 DEF WalletCall, OrAbsent
    <3>5. KeyFor(c) = KeyFor(q) /\ StoredFor(c) = i
      BY <2>2, <3>4 DEF KeyFor, StoredFor, OfCustomers
    <3>6. WalletCallOK(c)
      BY <2>1, <3>3, <3>4, <3>5 DEF WalletCallOK
    <3>7. QED
      BY <1>1, <3>2, <3>6, QuietWallet
  <2>5. CASE i = Absent /\ q.purpose = "refresh"
    BY <1>1, <1>5, <2>1, <2>3, <2>5, WalletEnds DEF readRow
  <2>6. CASE i = Absent /\ q.purpose # "refresh"
    <3>1. PICK c : c = [q EXCEPT !.at = "create"]
      OBVIOUS
    <3>2. walletCall' = [walletCall EXCEPT ![k] = c] /\ UNCHANGED <<gatewayVars, rowVars>>
      BY <1>5, <2>1, <2>3, <2>6, <3>1 DEF readRow
    <3>3. c \in WalletCall /\ c.at = "create" /\ c.purpose = q.purpose /\ c.card = q.card
      BY <3>1 DEF WalletCall
    <3>4. WalletCallOK(c)
      BY <2>1, <3>3 DEF WalletCallOK
    <3>5. QED
      BY <1>1, <3>2, <3>4, QuietWallet
  <2>7. QED
    BY <2>4, <2>5, <2>6
<1>6. CASE checkCard(k)
  <2>1. PICK q \in WalletCall : q = walletCall[k] /\ q.at = "use" /\ WalletCallOK(q)
                                /\ q # Absent
    BY <1>6, InWallet DEF checkCard
  <2>2. CASE belongsTo(q.card, q.id)
    <3>1. PICK c : c = [q EXCEPT !.at = "store"]
      OBVIOUS
    <3>2. walletCall' = [walletCall EXCEPT ![k] = c] /\ UNCHANGED <<gatewayVars, rowVars>>
      BY <1>6, <2>1, <2>2, <3>1 DEF checkCard
    <3>3. /\ c \in WalletCall /\ c.at = "store" /\ c.id = q.id /\ c.user = q.user
          /\ c.purpose = q.purpose /\ c.card = q.card
      BY <3>1 DEF WalletCall
    <3>4. KeyFor(c) = KeyFor(q) /\ StoredFor(c) = StoredFor(q)
      BY <3>3 DEF KeyFor, StoredFor, OfCustomers
    <3>5. WalletCallOK(c)
      BY <2>1, <2>2, <3>3, <3>4 DEF WalletCallOK, belongsTo
    <3>6. QED
      BY <1>1, <3>2, <3>5, QuietWallet
  <2>3. CASE ~belongsTo(q.card, q.id)
    BY <1>1, <1>6, <2>1, <2>3, WalletEnds DEF checkCard
  <2>4. QED
    BY <2>2, <2>3
<1>7. CASE readStatus(k)
  <2>1. PICK q \in WalletCall : q = walletCall[k] /\ q.at = "use" /\ WalletCallOK(q)
                                /\ q # Absent /\ q.purpose = "refresh"
    BY <1>7, InWallet DEF readStatus
  <2>2. PICK b : b = (q.id \in ready)
    OBVIOUS
  <2>3. PICK c : c = [[q EXCEPT !.at = "store"] EXCEPT !.status = b]
    OBVIOUS
  <2>4. walletCall' = [walletCall EXCEPT ![k] = c] /\ UNCHANGED <<gatewayVars, rowVars>>
    BY <1>7, <2>1, <2>2, <2>3 DEF readStatus
  <2>5. /\ c \in WalletCall /\ c.at = "store" /\ c.id = q.id /\ c.user = q.user
        /\ c.purpose = q.purpose /\ c.card = q.card
    <3>1. b \in BOOLEAN
      BY <2>2
    <3>2. QED
      BY <2>3, <3>1 DEF WalletCall
  <2>6. KeyFor(c) = KeyFor(q) /\ StoredFor(c) = StoredFor(q)
    BY <2>5 DEF KeyFor, StoredFor, OfCustomers
  <2>7. WalletCallOK(c)
    BY <2>1, <2>5, <2>6 DEF WalletCallOK
  <2>8. QED
    BY <1>1, <2>4, <2>7, QuietWallet
<1>8. QED
  BY <1>2, <1>3, <1>4, <1>5, <1>6, <1>7

\* The gateway answers with the one id it has for the key, an old or a new one.
LEMMA CreateKeeps ==
  ASSUME WalletsInv, NEW k \in WalletCalls, NEW id \in GatewayIds, createAtGateway(k, id)
  PROVE  WalletsInv'
<1>1. PICK q \in WalletCall : q = walletCall[k] /\ q.at = "create" /\ WalletCallOK(q)
                              /\ q # Absent /\ q.user \in Users
  BY InWallet DEF createAtGateway
<1>2. PICK key : key = KeyFor(q)
  OBVIOUS
<1>3. key \in Keys /\ keyOf(k) = key
  BY <1>1, <1>2, StoredForIs DEF KeyFor, Keys
<1>4. createdFor' = [createdFor EXCEPT ![id] = key]
      /\ UNCHANGED <<intentOf, attachedTo, paymentCustomer, payoutAccount>>
  BY <1>3 DEF createAtGateway, rowVars
<1>5. \/ createdFor[id] = key
      \/ createdFor[id] = Absent /\ \A i \in GatewayIds : createdFor[i] # key
  BY <1>3 DEF createAtGateway, answersWith
<1>6. GatewayOK'
  BY <1>3, <1>4, <1>5 DEF WalletsInv, GatewayOK, OrAbsent
<1>7. \A i \in GatewayIds : \A x \in Keys : createdFor[i] = x => createdFor'[i] = x
  BY <1>4, <1>5, AbsentIsNoId DEF WalletsInv, GatewayOK
<1>8. StoredRowsOK'
  <2>1. \A u \in Users : <<"customer", u>> \in Keys /\ <<"account", u>> \in Keys
    BY DEF Keys
  <2>2. PICK f, g : f = createdFor /\ g = createdFor'
    OBVIOUS
  <2>3. \A i \in GatewayIds : \A x \in Keys : f[i] = x => g[i] = x
    BY <1>7, <2>2
  <2>4. ASSUME NEW u \in Users, paymentCustomer[u] # Absent
        PROVE  g[paymentCustomer[u].customer] = <<"customer", u>>
    <3>1. paymentCustomer[u].customer \in GatewayIds
          /\ f[paymentCustomer[u].customer] = <<"customer", u>>
      BY <2>2, <2>4 DEF WalletsInv, StoredRowsOK, CustomerRow
    <3>2. QED
      BY <2>1, <2>3, <3>1
  <2>5. ASSUME NEW u \in Users, payoutAccount[u] # Absent
        PROVE  g[payoutAccount[u].account] = <<"account", u>>
    <3>1. payoutAccount[u].account \in GatewayIds
          /\ f[payoutAccount[u].account] = <<"account", u>>
      BY <2>2, <2>5 DEF WalletsInv, StoredRowsOK, AccountRow
    <3>2. QED
      BY <2>1, <2>3, <3>1
  <2>6. QED
    BY <1>4, <2>2, <2>4, <2>5 DEF WalletsInv, StoredRowsOK
<1>9. ASSUME NEW x, WalletCallOK(x) PROVE WalletCallOK(x)'
  <2>1. StoredFor(x)' = StoredFor(x)
    BY <1>4 DEF StoredFor
  <2>2. CASE x # Absent /\ x.at \in {"insert", "use", "store"}
    <3>1. KeyFor(x) \in Keys
      BY <1>9, <2>2 DEF WalletCallOK, WalletCall, KeyFor, Keys
    <3>2. createdFor'[x.id] = KeyFor(x)
      BY <1>7, <1>9, <2>2, <3>1 DEF WalletCallOK
    <3>3. QED
      BY <1>4, <1>9, <2>1, <3>2 DEF WalletCallOK
  <2>3. CASE ~(x # Absent /\ x.at \in {"insert", "use", "store"})
    BY <1>9, <2>3 DEF WalletCallOK
  <2>4. QED
    BY <2>2, <2>3
<1>10. PICK c : c = [[q EXCEPT !.at = "insert"] EXCEPT !.id = id]
  OBVIOUS
<1>11. walletCall' = [walletCall EXCEPT ![k] = c]
  BY <1>1, <1>10 DEF createAtGateway
<1>12. /\ c \in WalletCall /\ c.at = "insert" /\ c.id = id /\ c.user = q.user
       /\ c.purpose = q.purpose /\ c.card = q.card
  BY <1>10 DEF WalletCall, OrAbsent
<1>13. createdFor'[id] = KeyFor(c)
  <2>1. createdFor'[id] = key
    BY <1>4 DEF WalletsInv, GatewayOK
  <2>2. QED
    BY <1>2, <1>12, <2>1 DEF KeyFor, OfCustomers
<1>14. WalletCallOK(c)'
  BY <1>1, <1>12, <1>13 DEF WalletCallOK
<1>15. WalletCallsOK'
  BY <1>9, <1>11, <1>14, WalletMoves DEF WalletsInv
<1>16. QED
  BY <1>6, <1>8, <1>15 DEF WalletsInv

\* The first insert stores its id; a later one finds the same id stored.
LEMMA InsertRowKeeps ==
  ASSUME WalletsInv, NEW k \in WalletCalls, insertRow(k)
  PROVE  WalletsInv'
<1>1. PICK q \in WalletCall : q = walletCall[k] /\ q.at = "insert" /\ WalletCallOK(q)
                              /\ q # Absent /\ q.user \in Users
  BY InWallet DEF insertRow
<1>2. PICK c : c = [q EXCEPT !.at = "use"]
  OBVIOUS
<1>3. /\ c \in WalletCall /\ c.at = "use" /\ c.id = q.id /\ c.user = q.user
      /\ c.purpose = q.purpose /\ c.card = q.card
  BY <1>2 DEF WalletCall
<1>4. walletCall' = [walletCall EXCEPT ![k] = c] /\ UNCHANGED gatewayVars
  BY <1>1, <1>2 DEF insertRow
<1>5. KeyFor(c) = KeyFor(q)
  BY <1>3 DEF KeyFor, OfCustomers
<1>6. KeyFor(q) \in Keys /\ q.id \in GatewayIds /\ createdFor[q.id] = KeyFor(q)
  BY <1>1 DEF KeyFor, Keys, WalletCallOK
<1>7. GatewayOK'
  BY <1>4 DEF WalletsInv, GatewayOK, gatewayVars
<1>8. CASE StoredFor(q) # Absent
  <2>1. UNCHANGED rowVars
    BY <1>1, <1>4, <1>8, StoredForIs DEF insertRow
  <2>2. PICK i : i = StoredFor(q)
    OBVIOUS
  <2>3. i \in GatewayIds /\ createdFor[i] = KeyFor(q)
    <3>1. CASE OfCustomers(q)
      BY <1>1, <1>8, <2>2, <3>1 DEF StoredFor, KeyFor, WalletsInv, StoredRowsOK, CustomerRow
    <3>2. CASE ~OfCustomers(q)
      BY <1>1, <1>8, <2>2, <3>2 DEF StoredFor, KeyFor, WalletsInv, StoredRowsOK, AccountRow
    <3>3. QED
      BY <3>1, <3>2
  <2>4. i = q.id
    BY <1>6, <2>3 DEF WalletsInv, GatewayOK
  <2>5. StoredFor(c) = q.id
    BY <1>3, <2>2, <2>4 DEF StoredFor, OfCustomers
  <2>6. WalletCallOK(c)
    BY <1>1, <1>3, <1>5, <1>6, <2>5 DEF WalletCallOK
  <2>7. QED
    BY <1>4, <1>7, <2>1, <2>6, QuietWallet DEF gatewayVars, GatewayOK
<1>9. CASE StoredFor(q) = Absent
  <2>1. storedId(k) = Absent /\ inCustomers(k) = OfCustomers(q)
    BY <1>1, <1>9, StoredForIs
  <2>2. PICK row : row = IF OfCustomers(q)
                           THEN [customer |-> q.id, default_payment_method |-> Absent]
                           ELSE [account |-> q.id, payouts_enabled |-> FALSE]
    OBVIOUS
  <2>3. OfCustomers(q) => /\ paymentCustomer' = [paymentCustomer EXCEPT ![q.user] = row]
                          /\ payoutAccount' = payoutAccount
                          /\ row \in CustomerRow /\ row.customer = q.id
                          /\ row.default_payment_method = Absent
                          /\ paymentCustomer[q.user] = Absent
    <3>1. ASSUME OfCustomers(q)
          PROVE  /\ row \in CustomerRow /\ row.customer = q.id
                 /\ row.default_payment_method = Absent
      BY <1>6, <2>2, <3>1 DEF CustomerRow, OrAbsent
    <3>2. ASSUME OfCustomers(q), paymentCustomer[q.user] # Absent PROVE FALSE
      BY <1>1, <1>9, <3>2, AbsentIsNoId DEF StoredFor, WalletsInv, StoredRowsOK, CustomerRow
    <3>3. QED
      BY <1>1, <2>1, <2>2, <3>1, <3>2 DEF insertRow
  <2>4. ~OfCustomers(q) => /\ payoutAccount' = [payoutAccount EXCEPT ![q.user] = row]
                           /\ paymentCustomer' = paymentCustomer
                           /\ row \in AccountRow /\ row.account = q.id
                           /\ payoutAccount[q.user] = Absent
    <3>1. ASSUME ~OfCustomers(q)
          PROVE  row \in AccountRow /\ row.account = q.id
      BY <1>6, <2>2, <3>1 DEF AccountRow
    <3>2. ASSUME ~OfCustomers(q), payoutAccount[q.user] # Absent PROVE FALSE
      BY <1>1, <1>9, <3>2, AbsentIsNoId DEF StoredFor, WalletsInv, StoredRowsOK, AccountRow
    <3>3. QED
      BY <1>1, <2>1, <2>2, <3>1, <3>2 DEF insertRow
  <2>5. createdFor' = createdFor /\ attachedTo' = attachedTo
    BY <1>4 DEF gatewayVars
  <2>6. StoredRowsOK'
    <3>1. CASE OfCustomers(q)
      BY <1>1, <1>6, <2>3, <2>5, <3>1 DEF WalletsInv, StoredRowsOK, KeyFor, OrAbsent
    <3>2. CASE ~OfCustomers(q)
      BY <1>1, <1>6, <2>4, <2>5, <3>2 DEF WalletsInv, StoredRowsOK, KeyFor, OrAbsent
    <3>3. QED
      BY <3>1, <3>2
  <2>7. ASSUME NEW x, WalletCallOK(x) PROVE WalletCallOK(x)'
    <3>1. CASE x # Absent /\ x.at \in {"use", "store"}
      <4>1. StoredFor(x) # Absent /\ x.user \in Users
        BY <2>7, <3>1, AbsentIsNoId DEF WalletCallOK, WalletCall
      <4>2. StoredFor(x)' = StoredFor(x)
        <5>1. CASE OfCustomers(q)
          BY <2>3, <4>1, <5>1 DEF StoredFor, WalletsInv, StoredRowsOK
        <5>2. CASE ~OfCustomers(q)
          BY <2>4, <4>1, <5>2 DEF StoredFor, WalletsInv, StoredRowsOK
        <5>3. QED
          BY <5>1, <5>2
      <4>3. QED
        BY <2>5, <2>7, <4>2 DEF WalletCallOK
    <3>2. CASE ~(x # Absent /\ x.at \in {"use", "store"})
      BY <2>5, <2>7, <3>2 DEF WalletCallOK
    <3>3. QED
      BY <3>1, <3>2
  <2>8. StoredFor(c)' = q.id
    <3>1. CASE OfCustomers(q)
      <4>1. paymentCustomer'[c.user] = row /\ row # Absent /\ row.customer = q.id
        BY <1>1, <1>3, <1>6, <2>3, <3>1, AbsentIsNoId DEF WalletsInv, StoredRowsOK
      <4>2. QED
        BY <1>3, <3>1, <4>1 DEF StoredFor, OfCustomers
    <3>2. CASE ~OfCustomers(q)
      <4>1. payoutAccount'[c.user] = row /\ row # Absent /\ row.account = q.id
        BY <1>1, <1>3, <1>6, <2>4, <3>2, AbsentIsNoId DEF WalletsInv, StoredRowsOK
      <4>2. QED
        BY <1>3, <3>2, <4>1 DEF StoredFor, OfCustomers
    <3>3. QED
      BY <3>1, <3>2
  <2>9. WalletCallOK(c)'
    BY <1>1, <1>3, <1>5, <1>6, <2>5, <2>8 DEF WalletCallOK
  <2>10. WalletCallsOK'
    BY <1>4, <2>7, <2>9, WalletMoves DEF WalletsInv
  <2>11. QED
    BY <1>7, <2>6, <2>10 DEF WalletsInv
<1>10. QED
  BY <1>8, <1>9

\* A row is rewritten, and the id in it stays.
LEMMA RowRewritten ==
  ASSUME WalletsInv, createdFor' = createdFor,
         \A c \in Cards, i \in GatewayIds : attachedTo[c] = i => attachedTo'[c] = i,
         \A u : paymentCustomer[u] # Absent =>
                  /\ paymentCustomer'[u] # Absent
                  /\ paymentCustomer'[u].customer = paymentCustomer[u].customer,
         \A u : payoutAccount[u] # Absent =>
                  /\ payoutAccount'[u] # Absent
                  /\ payoutAccount'[u].account = payoutAccount[u].account,
         NEW x, WalletCallOK(x)
  PROVE  WalletCallOK(x)'
<1>1. CASE x # Absent /\ x.at \in {"use", "store"}
  <2>1. StoredFor(x) # Absent /\ StoredFor(x) = x.id /\ x.id \in GatewayIds
    BY <1>1, AbsentIsNoId DEF WalletCallOK
  <2>2. StoredFor(x)' = x.id
    BY <2>1 DEF StoredFor
  <2>3. x.at = "store" /\ x.purpose = "default" => attachedTo'[x.card] = x.id
    BY <1>1, <2>1 DEF WalletCallOK
  <2>4. QED
    BY <1>1, <2>2, <2>3 DEF WalletCallOK
<1>2. CASE ~(x # Absent /\ x.at \in {"use", "store"})
  BY <1>2 DEF WalletCallOK
<1>3. QED
  BY <1>1, <1>2

LEMMA SetDefaultKeeps ==
  ASSUME WalletsInv, NEW k \in WalletCalls, setDefaultPaymentMethod(k)
  PROVE  WalletsInv'
<1>1. PICK q \in WalletCall : /\ q = walletCall[k] /\ q.at = "store" /\ WalletCallOK(q)
                              /\ q # Absent /\ q.user \in Users /\ q.purpose = "default"
  BY InWallet DEF setDefaultPaymentMethod
<1>2. PICK row : row = paymentCustomer[q.user]
  OBVIOUS
<1>3. row # Absent /\ row \in CustomerRow /\ createdFor[row.customer] = <<"customer", q.user>>
  BY <1>1, <1>2 DEF setDefaultPaymentMethod, WalletsInv, StoredRowsOK
<1>4. row.customer = q.id /\ q.card \in Cards /\ attachedTo[q.card] = q.id
  BY <1>1, <1>2, <1>3 DEF WalletCallOK, StoredFor, OfCustomers
<1>5. PICK new : new = [row EXCEPT !.default_payment_method = q.card]
  OBVIOUS
<1>6. /\ new \in CustomerRow /\ new # Absent /\ new.customer = row.customer
      /\ new.default_payment_method = q.card
  BY <1>3, <1>4, <1>5, AbsentIsNoId DEF CustomerRow, OrAbsent
<1>7. /\ paymentCustomer' = [paymentCustomer EXCEPT ![q.user] = new]
      /\ walletCall' = [walletCall EXCEPT ![k] = Absent]
      /\ UNCHANGED <<createdFor, intentOf, attachedTo, payoutAccount>>
  BY <1>1, <1>2, <1>5 DEF setDefaultPaymentMethod, endWallet, gatewayVars
<1>8. GatewayOK'
  BY <1>7 DEF WalletsInv, GatewayOK
<1>9. StoredRowsOK'
  BY <1>1, <1>3, <1>4, <1>6, <1>7 DEF WalletsInv, StoredRowsOK, OrAbsent
<1>10. \A u : paymentCustomer[u] # Absent =>
                /\ paymentCustomer'[u] # Absent
                /\ paymentCustomer'[u].customer = paymentCustomer[u].customer
  BY <1>1, <1>2, <1>6, <1>7 DEF WalletsInv, StoredRowsOK
<1>11. \A x : WalletCallOK(x) => WalletCallOK(x)'
  BY <1>7, <1>10, RowRewritten
<1>12. WalletCallOK(Absent)'
  BY DEF WalletCallOK
<1>13. WalletCallsOK'
  BY <1>7, <1>11, <1>12, WalletMoves DEF WalletsInv
<1>14. QED
  BY <1>8, <1>9, <1>13 DEF WalletsInv

\* The status of an account is written: by a request, or by a webhook.
LEMMA StatusWritten ==
  ASSUME WalletsInv, NEW u \in Users, NEW b \in BOOLEAN, payoutAccount[u] # Absent,
         payoutAccount' = [payoutAccount EXCEPT ![u].payouts_enabled = b],
         UNCHANGED <<createdFor, intentOf, attachedTo, paymentCustomer>>
  PROVE  /\ GatewayOK' /\ StoredRowsOK'
         /\ \A x : WalletCallOK(x) => WalletCallOK(x)'
<1>1. PICK row : row = payoutAccount[u]
  OBVIOUS
<1>2. row \in AccountRow /\ createdFor[row.account] = <<"account", u>>
  BY <1>1 DEF WalletsInv, StoredRowsOK
<1>3. PICK new : new = [row EXCEPT !.payouts_enabled = b]
  OBVIOUS
<1>4. new \in AccountRow /\ new # Absent /\ new.account = row.account
  BY <1>2, <1>3, AbsentIsNoId DEF AccountRow
<1>5. payoutAccount' = [payoutAccount EXCEPT ![u] = new]
  BY <1>1, <1>3
<1>6. GatewayOK'
  BY DEF WalletsInv, GatewayOK
<1>7. StoredRowsOK'
  BY <1>2, <1>4, <1>5 DEF WalletsInv, StoredRowsOK, OrAbsent
<1>8. \A y : payoutAccount[y] # Absent =>
               /\ payoutAccount'[y] # Absent
               /\ payoutAccount'[y].account = payoutAccount[y].account
  BY <1>1, <1>4, <1>5 DEF WalletsInv, StoredRowsOK
<1>9. QED
  BY <1>6, <1>7, <1>8, RowRewritten

LEMMA StatusStepKeeps ==
  ASSUME WalletsInv,
         \/ \E k \in WalletCalls : updatePayoutAccount(k)
         \/ \E u \in Users, enabled \in BOOLEAN : accountUpdated(u, enabled)
  PROVE  WalletsInv'
<1>1. CASE \E k \in WalletCalls : updatePayoutAccount(k)
  <2>1. PICK k \in WalletCalls : updatePayoutAccount(k)
    BY <1>1
  <2>2. PICK q \in WalletCall : /\ q = walletCall[k] /\ q.at = "store" /\ WalletCallOK(q)
                                /\ q # Absent /\ q.user \in Users /\ q.purpose = "refresh"
    BY <2>1, InWallet DEF updatePayoutAccount
  <2>3. q.status \in BOOLEAN /\ payoutAccount[q.user] # Absent
    BY <2>2, AbsentIsNoId DEF WalletCall, WalletCallOK, StoredFor, OfCustomers
  <2>4. /\ payoutAccount' = [payoutAccount EXCEPT ![q.user].payouts_enabled = q.status]
        /\ walletCall' = [walletCall EXCEPT ![k] = Absent]
        /\ UNCHANGED <<createdFor, intentOf, attachedTo, paymentCustomer>>
    BY <2>1, <2>2 DEF updatePayoutAccount, endWallet, gatewayVars
  <2>5. GatewayOK' /\ StoredRowsOK' /\ \A x : WalletCallOK(x) => WalletCallOK(x)'
    BY <2>2, <2>3, <2>4, StatusWritten
  <2>6. WalletCallOK(Absent)'
    BY DEF WalletCallOK
  <2>7. WalletCallsOK'
    BY <2>4, <2>5, <2>6, WalletMoves DEF WalletsInv
  <2>8. QED
    BY <2>5, <2>7 DEF WalletsInv
<1>2. CASE \E u \in Users, enabled \in BOOLEAN : accountUpdated(u, enabled)
  <2>1. PICK u \in Users, enabled \in BOOLEAN : accountUpdated(u, enabled)
    BY <1>2
  <2>2. /\ GatewayOK' /\ StoredRowsOK' /\ \A x : WalletCallOK(x) => WalletCallOK(x)'
        /\ walletCall' = walletCall
    BY <2>1, StatusWritten DEF accountUpdated, gatewayVars
  <2>3. WalletCallsOK'
    BY <2>2, WalletCallsStay DEF WalletsInv
  <2>4. QED
    BY <2>2, <2>3 DEF WalletsInv
<1>3. QED
  BY <1>1, <1>2

\* The card sheet is completed, once; so is an onboarding.
LEMMA PersonStepKeeps ==
  ASSUME WalletsInv,
         (\E c \in Cards : confirmSetup(c)) \/ (\E u \in Users : completeOnboarding(u))
  PROVE  WalletsInv'
<1>1. CASE \E c \in Cards : confirmSetup(c)
  <2>1. PICK c \in Cards : confirmSetup(c)
    BY <1>1
  <2>2. PICK i \in GatewayIds : i = intentOf[c]
    BY <2>1 DEF confirmSetup, WalletsInv, GatewayOK, OrAbsent
  <2>3. /\ attachedTo[c] = Absent /\ attachedTo' = [attachedTo EXCEPT ![c] = i]
        /\ UNCHANGED <<createdFor, intentOf, paymentCustomer, payoutAccount, walletCall>>
    BY <2>1, <2>2 DEF confirmSetup, rowVars
  <2>4. GatewayOK'
    BY <2>3 DEF WalletsInv, GatewayOK, OrAbsent
  <2>5. \A d \in Cards, j \in GatewayIds : attachedTo[d] = j => attachedTo'[d] = j
    BY <2>3, AbsentIsNoId DEF WalletsInv, GatewayOK
  <2>6. StoredRowsOK'
    <3>1. ASSUME NEW u \in Users, paymentCustomer[u] # Absent,
                 paymentCustomer[u].default_payment_method # Absent
          PROVE  attachedTo'[paymentCustomer[u].default_payment_method]
                   = paymentCustomer[u].customer
      BY <2>5, <3>1 DEF WalletsInv, StoredRowsOK, CustomerRow
    <3>2. QED
      BY <2>3, <3>1 DEF WalletsInv, StoredRowsOK
  <2>7. \A x : WalletCallOK(x) => WalletCallOK(x)'
    BY <2>3, <2>5, RowRewritten
  <2>8. WalletCallsOK'
    BY <2>3, <2>7, WalletCallsStay DEF WalletsInv
  <2>9. QED
    BY <2>4, <2>6, <2>8 DEF WalletsInv
<1>2. CASE \E u \in Users : completeOnboarding(u)
  BY <1>2, WalletsRest DEF completeOnboarding, rowVars
<1>3. QED
  BY <1>1, <1>2

\* However requests that found no row race, fail and repeat: the gateway has
\* one id for a user and a table, and what is used is what is stored.
THEOREM WalletsInvariance == WalletsSpec => []WalletsInv
<1>1. WalletsInit => WalletsInv
  <2> SUFFICES ASSUME WalletsInit PROVE WalletsInv
    OBVIOUS
  <2>1. GatewayOK
    BY AbsentIsNoId DEF WalletsInit, GatewayOK, OrAbsent
  <2>2. StoredRowsOK
    BY DEF WalletsInit, StoredRowsOK, OrAbsent
  <2>3. WalletCallsOK
    BY DEF WalletsInit, WalletCallsOK, WalletCallOK
  <2>4. QED
    BY <2>1, <2>2, <2>3 DEF WalletsInv
<1>2. WalletsInv /\ [WalletsNext]_walletVars => WalletsInv'
  <2> SUFFICES ASSUME WalletsInv, [WalletsNext]_walletVars PROVE WalletsInv'
    OBVIOUS
  <2>1. CASE UNCHANGED walletVars
    BY <2>1, WalletsRest DEF walletVars, gatewayVars, rowVars
  <2>2. CASE \E k \in WalletCalls :
               \/ \E u \in Users, purpose \in PURPOSES, c \in OrAbsent(Cards) :
                    BeginWallet(k, u, purpose, c)
               \/ \E c \in Cards : createSetupIntent(k, c)
               \/ readRow(k) \/ checkCard(k) \/ onboard(k) \/ readStatus(k) \/ failWallet(k)
    BY <2>2, ReadStepKeeps
  <2>3. CASE \E k \in WalletCalls : \E id \in GatewayIds : createAtGateway(k, id)
    BY <2>3, CreateKeeps
  <2>4. CASE \E k \in WalletCalls : insertRow(k)
    BY <2>4, InsertRowKeeps
  <2>5. CASE \E k \in WalletCalls : setDefaultPaymentMethod(k)
    BY <2>5, SetDefaultKeeps
  <2>6. CASE \/ \E k \in WalletCalls : updatePayoutAccount(k)
             \/ \E u \in Users, enabled \in BOOLEAN : accountUpdated(u, enabled)
    BY <2>6, StatusStepKeeps
  <2>7. CASE (\E c \in Cards : confirmSetup(c)) \/ (\E u \in Users : completeOnboarding(u))
    BY <2>7, PersonStepKeeps
  <2>8. QED
    BY <2>1, <2>2, <2>3, <2>4, <2>5, <2>6, <2>7 DEF WalletsNext
<1>3. QED
  BY <1>1, <1>2, PTL DEF WalletsSpec

\* For any number of users, cards and requests: the default card is one of the
\* stored customer's, and a request goes on with the stored id.
THEOREM Known == WalletsSpec => []KnownAsStored
<1>1. WalletsInv => KnownAsStored
  <2> SUFFICES ASSUME WalletsInv PROVE KnownAsStored
    OBVIOUS
  <2>1. \A u \in Rows(paymentCustomer) :
          LET row == paymentCustomer[u] IN
          row.default_payment_method # Absent =>
            attachedTo[row.default_payment_method] = row.customer
    BY DEF WalletsInv, StoredRowsOK, Rows
  <2>2. \A k \in Rows(walletCall) :
          walletCall[k].at = "use" => walletCall[k].id = storedId(k)
    <3> SUFFICES ASSUME NEW k \in Rows(walletCall), walletCall[k].at = "use"
                 PROVE  walletCall[k].id = storedId(k)
      OBVIOUS
    <3>1. k \in WalletCalls /\ walletCall[k] # Absent
      BY DEF WalletsInv, WalletCallsOK, Rows
    <3>2. StoredFor(walletCall[k]) = walletCall[k].id
      BY <3>1 DEF WalletsInv, WalletCallsOK, WalletCallOK
    <3>3. QED
      BY <3>2, StoredForIs
  <2>3. QED
    BY <2>1, <2>2 DEF KnownAsStored
<1>2. QED
  BY <1>1, WalletsInvariance, PTL
-----------------------------------------------------------------------------
(* Matching: who is told of a job *)

\* Nobody waits to be told before the candidates have been found.
FanOutInv ==
  /\ fanOutRun = [at |-> fanOutRun.at, batch |-> fanOutRun.batch]
  /\ fanOutRun.at # "tell" => fanOutRun.batch = {}

LEMMA FoundAreCandidates ==
  ASSUME NEW batch \in SUBSET Candidates, findCandidates(batch), NEW w \in batch
  PROVE  mayAccept(w)
BY DEF findCandidates, isCandidate, mayAccept, assertWorkerEligible

\* One step of the fan-out, or of anybody beside it.
LEMMA FanOutStep ==
  ASSUME FanOutInv, [MatchingNext]_matchingVars
  PROVE  /\ FanOutInv'
         /\ \A w \in Candidates :
              fanOutRun.at = "find" /\ w \in fanOutRun'.batch => mayAccept(w)
<1> DEFINE Called == \A w \in Candidates :
                       fanOutRun.at = "find" /\ w \in fanOutRun'.batch => mayAccept(w)
<1>1. CASE fanOutRun' = fanOutRun
  BY <1>1 DEF FanOutInv
<1>2. CASE fanOutRun.at = "done" /\ fanOutRun' = [fanOutRun EXCEPT !.at = "start"]
  BY <1>2 DEF FanOutInv
<1>3. CASE readOpening
  BY <1>3 DEF FanOutInv, readOpening
<1>4. CASE endFanOut
  BY <1>4 DEF FanOutInv, endFanOut
<1>5. CASE \E w \in Candidates : notifyNext(w)
  BY <1>5 DEF FanOutInv, notifyNext
<1>6. CASE \E batch \in SUBSET Candidates : findCandidates(batch)
  <2>1. PICK batch \in SUBSET Candidates : findCandidates(batch)
    BY <1>6
  <2>2. fanOutRun' = [at |-> "tell", batch |-> batch]
    BY <2>1 DEF findCandidates
  <2>3. \A w \in batch : mayAccept(w)
    BY <2>1, FoundAreCandidates
  <2>4. QED
    BY <2>2, <2>3 DEF FanOutInv
<1>7. ASSUME NEW w \in Candidates,
             \/ \E yes \in BOOLEAN :
                  setAvailability(w, yes) \/ upsertProfile(w, yes) \/ setCategories(w, yes)
                  \/ setVerification(w, yes) \/ setBlocked(w, yes)
             \/ \E facts \in SUBSET ACCOUNT : setAccount(w, facts)
             \/ acceptJob(w)
      PROVE  fanOutRun' = fanOutRun
  BY <1>7 DEF setAvailability, upsertProfile, setCategories, setVerification, setBlocked,
     setAccount, acceptJob
<1>8. reopens => \/ fanOutRun' = fanOutRun
                 \/ fanOutRun.at = "done" /\ fanOutRun' = [fanOutRun EXCEPT !.at = "start"]
  BY DEF reopens
<1>9. ASSUME (\E w \in Candidates : cancelAssignment(w)) \/ othersMove
             \/ \E facts \in SUBSET CATEGORY : updateCategory(facts)
      PROVE  fanOutRun' = fanOutRun \/ reopens
  BY <1>9 DEF cancelAssignment, othersMove, updateCategory
<1>10. UNCHANGED matchingVars => fanOutRun' = fanOutRun
  BY DEF matchingVars
<1>11. QED
  BY <1>1, <1>2, <1>3, <1>4, <1>5, <1>6, <1>7, <1>8, <1>9, <1>10 DEF MatchingNext

THEOREM FanOutInvariance == MatchingSpec => []FanOutInv
<1>1. MatchingInit => FanOutInv
  BY DEF MatchingInit, FanOutInv
<1>2. FanOutInv /\ [MatchingNext]_matchingVars => FanOutInv'
  BY FanOutStep
<1>3. QED
  BY <1>1, <1>2, PTL DEF MatchingSpec

\* Whatever changes in profiles, accounts, blocks and places while a fan-out
\* runs: whoever is picked could have accepted at that moment.
THEOREM Called == MatchingSpec => CalledCouldAccept
<1>1. FanOutInv /\ [MatchingNext]_matchingVars =>
        [\A w \in Candidates :
           fanOutRun.at = "find" /\ w \in fanOutRun'.batch => mayAccept(w)]_matchingVars
  BY FanOutStep
<1>2. QED
  BY <1>1, FanOutInvariance, PTL DEF MatchingSpec, CalledCouldAccept
-----------------------------------------------------------------------------
(* Notifications: what is recorded of the push service's answers *)

\* The device that the i-th ticket of a dispatch with the contents q is about.
TokenIn(q, i) == ListOf(q.devices \cap ExpoTokens)[i]

IsPush(q) == q = [at |-> q.at, devices |-> q.devices, accepted |-> q.accepted, gone |-> q.gone]

\* A dispatch that will record an acceptance has seen it, and one that will
\* disable devices has been told so of each.
PushOK(n, q) ==
  q # Absent =>
    /\ IsPush(q)
    /\ q.at = "lookup" => q.gone = {}
    /\ q.accepted => n \in took
    /\ \A i \in q.gone : TokenIn(q, i) \in reported

NotificationOK(n, m) == m # Absent => m \in Notification /\ (m.sent => n \in took)

PushInv ==
  /\ device = [t \in DeviceTokens |-> device[t]]
  /\ notification = [n \in NotificationIds |-> notification[n]]
  /\ push = [n \in NotificationIds |-> push[n]]
  /\ \A n \in NotificationIds :
       /\ push[n] # Absent => notification[n] # Absent
       /\ PushOK(n, push[n])
       /\ NotificationOK(n, notification[n])
  /\ \A t \in DeviceTokens : device[t] # Absent /\ device[t].disabled => t \in reported

LEMMA TokenOfIs ==
  ASSUME NEW n, NEW i
  PROVE  tokenOf(n, i) = TokenIn(push[n], i)
BY DEF tokenOf, TokenIn, Valid

\* One dispatch moves; what the service has said stays said.
LEMMA PushMoves ==
  ASSUME PushInv, NEW n \in NotificationIds, NEW q, NEW m,
         push' = [push EXCEPT ![n] = q], notification' = [notification EXCEPT ![n] = m],
         device' = device, took \subseteq took', reported \subseteq reported',
         PushOK(n, q)', NotificationOK(n, m)', q # Absent => m # Absent
  PROVE  PushInv'
<1>1. PICK p, r : p = push /\ r = notification
  OBVIOUS
<1>2. ASSUME NEW k \in NotificationIds
      PROVE  /\ PushOK(k, p[k])' /\ NotificationOK(k, r[k])'
             /\ p[k] # Absent => r[k] # Absent
  <2>1. PushOK(k, p[k]) /\ NotificationOK(k, r[k]) /\ (p[k] # Absent => r[k] # Absent)
    BY <1>1 DEF PushInv
  <2>2. QED
    BY <2>1 DEF PushOK, NotificationOK
<1>3. PICK v, w : v = push' /\ w = notification'
  OBVIOUS
<1>4. /\ v = [k \in NotificationIds |-> IF k = n THEN q ELSE p[k]]
      /\ w = [k \in NotificationIds |-> IF k = n THEN m ELSE r[k]]
  BY <1>1, <1>3 DEF PushInv
<1>5. ASSUME NEW k \in NotificationIds
      PROVE  /\ PushOK(k, v[k])' /\ NotificationOK(k, w[k])'
             /\ v[k] # Absent => w[k] # Absent
  <2>1. CASE k = n
    BY <1>4, <2>1
  <2>2. CASE k # n
    BY <1>2, <1>4, <2>2
  <2>3. QED
    BY <2>1, <2>2
<1>6. v = [k \in NotificationIds |-> v[k]] /\ w = [k \in NotificationIds |-> w[k]]
  BY <1>4
<1>7. /\ device' = [t \in DeviceTokens |-> device'[t]]
      /\ \A t \in DeviceTokens : device'[t] # Absent /\ device'[t].disabled => t \in reported'
  BY DEF PushInv
<1>8. QED
  BY <1>3, <1>5, <1>6, <1>7 DEF PushInv

LEMMA DispatchKeeps ==
  ASSUME PushInv, NEW n \in NotificationIds,
         \/ \E u \in Recipients : notify(n, u)
         \/ findDevices(n) \/ postPush(n) \/ recordOutcome(n) \/ pushFails(n) \/ losePush(n)
  PROVE  PushInv'
<1>1. PICK q, m : q = push[n] /\ m = notification[n]
  OBVIOUS
<1>2. PushOK(n, q) /\ NotificationOK(n, m) /\ (q # Absent => m # Absent)
  BY <1>1 DEF PushInv
<1>3. push = [push EXCEPT ![n] = q] /\ notification = [notification EXCEPT ![n] = m]
  BY <1>1 DEF PushInv
<1>4. PushOK(n, Absent)'
  BY DEF PushOK
<1>5. CASE \E u \in Recipients : notify(n, u)
  <2>1. PICK u \in Recipients : notify(n, u)
    BY <1>5
  <2>2. PICK x, y : /\ x = [at |-> "lookup", devices |-> {}, accepted |-> FALSE, gone |-> {}]
                    /\ y = [user |-> u, sent |-> FALSE, failed |-> FALSE]
    OBVIOUS
  <2>3. /\ push' = [push EXCEPT ![n] = x] /\ notification' = [notification EXCEPT ![n] = y]
        /\ UNCHANGED <<device, took, reported>>
    BY <2>1, <2>2 DEF notify
  <2>4. PushOK(n, x)'
    BY <2>2 DEF PushOK, IsPush
  <2>5. NotificationOK(n, y)' /\ y # Absent
    <3>1. y \in Notification /\ y.sent = FALSE
      BY <2>2 DEF Notification
    <3>2. QED
      BY <3>1, AbsentIsNoNotice DEF NotificationOK
  <2>6. QED
    BY <2>3, <2>4, <2>5, PushMoves
<1>6. CASE losePush(n)
  <2>1. /\ push' = [push EXCEPT ![n] = Absent] /\ notification' = [notification EXCEPT ![n] = m]
        /\ UNCHANGED <<device, took, reported>>
    BY <1>3, <1>6 DEF losePush
  <2>2. NotificationOK(n, m)'
    BY <1>2, <2>1 DEF NotificationOK
  <2>3. QED
    BY <1>4, <2>1, <2>2, PushMoves
<1>7. CASE findDevices(n)
  <2>1. PICK mine : /\ push' = [push EXCEPT ![n] =
                         IF mine \cap ExpoTokens = {} THEN Absent
                         ELSE [@ EXCEPT !.at = "post", !.devices = mine]]
                    /\ UNCHANGED <<device, notification, took, reported>>
                    /\ q # Absent /\ q.at = "lookup"
    BY <1>1, <1>7 DEF findDevices
  <2>2. NotificationOK(n, m)' /\ m # Absent
    BY <1>2, <2>1 DEF NotificationOK
  <2>3. CASE mine \cap ExpoTokens = {}
    BY <1>3, <1>4, <2>1, <2>2, <2>3, PushMoves
  <2>4. CASE mine \cap ExpoTokens # {}
    <3>1. PICK x : x = [[q EXCEPT !.at = "post"] EXCEPT !.devices = mine]
      OBVIOUS
    <3>2. push' = [push EXCEPT ![n] = x]
      BY <1>1, <2>1, <2>4, <3>1
    <3>3. IsPush(x) /\ x.accepted = q.accepted /\ x.gone = q.gone
      BY <1>2, <2>1, <3>1 DEF PushOK, IsPush
    <3>4. q.gone = {}
      BY <1>2, <2>1 DEF PushOK
    <3>5. PushOK(n, x)'
      BY <1>2, <2>1, <3>3, <3>4 DEF PushOK
    <3>6. QED
      BY <1>3, <2>1, <2>2, <3>2, <3>5, PushMoves
  <2>5. QED
    BY <2>3, <2>4
<1>8. CASE postPush(n)
  <2>1. PICK tickets :
          LET gone == {i \in DOMAIN tickets : tickets[i] = "gone"}
          IN  /\ push' = [push EXCEPT ![n].at = "record", ![n].gone = gone,
                                      ![n].accepted = accepts(n, tickets)]
              /\ took' = IF \E i \in DOMAIN tickets : tickets[i] = "ok"
                           THEN took \cup {n} ELSE took
              /\ reported' = reported \cup {ListOf(Valid(n))[i] : i \in gone}
    BY <1>8 DEF postPush
  <2>2. PICK gone, yes : /\ gone = {i \in DOMAIN tickets : tickets[i] = "gone"}
                         /\ yes = accepts(n, tickets)
    OBVIOUS
  <2>3. yes => took' = took \cup {n}
    BY <2>1, <2>2 DEF accepts
  <2>4. took \subseteq took' /\ reported \subseteq reported'
    BY <2>1, <2>2
  <2>5. PICK x : x = [[[q EXCEPT !.at = "record"] EXCEPT !.gone = gone] EXCEPT !.accepted = yes]
    OBVIOUS
  <2>6. push' = [push EXCEPT ![n] = x] /\ q # Absent /\ UNCHANGED <<device, notification>>
    BY <1>1, <1>8, <2>1, <2>2, <2>5 DEF postPush
  <2>7. IsPush(x) /\ x.at = "record" /\ x.accepted = yes /\ x.gone = gone /\ x.devices = q.devices
    BY <1>2, <2>5, <2>6 DEF PushOK, IsPush
  <2>8. \A i \in gone : TokenIn(x, i) \in reported'
    <3>1. \A i : ListOf(Valid(n))[i] = TokenIn(x, i)
      BY <1>1, <2>7 DEF TokenIn, Valid
    <3>2. QED
      BY <2>1, <2>2, <3>1
  <2>9. PushOK(n, x)'
    BY <2>3, <2>7, <2>8 DEF PushOK
  <2>10. NotificationOK(n, m)' /\ m # Absent
    BY <1>2, <2>4, <2>6 DEF NotificationOK
  <2>11. QED
    BY <1>3, <2>4, <2>6, <2>9, <2>10, PushMoves
<1>9. CASE recordOutcome(n)
  <2>1. q # Absent /\ q.at = "record" /\ m \in Notification /\ m # Absent
    BY <1>1, <1>2, <1>9 DEF recordOutcome, NotificationOK
  <2>2. PICK y : y = [[m EXCEPT !.sent = m.sent \/ q.accepted] EXCEPT !.failed = m.failed \/ ~q.accepted]
    OBVIOUS
  <2>3. notification' = [notification EXCEPT ![n] = y] /\ UNCHANGED <<device, took, reported>>
    BY <1>1, <1>9, <2>2 DEF recordOutcome
  <2>4. y \in Notification /\ (y.sent => m.sent \/ q.accepted)
    BY <2>1, <2>2 DEF Notification
  <2>5. NotificationOK(n, y)'
    BY <1>2, <2>1, <2>3, <2>4 DEF NotificationOK, PushOK
  <2>6. y # Absent
    BY <2>4, AbsentIsNoNotice
  <2>7. CASE q.gone = {}
    <3>1. push' = [push EXCEPT ![n] = Absent]
      BY <1>1, <1>9, <2>7 DEF recordOutcome
    <3>2. QED
      BY <1>4, <2>3, <2>5, <3>1, PushMoves
  <2>8. CASE q.gone # {}
    <3>1. PICK x : x = [q EXCEPT !.at = "disable"]
      OBVIOUS
    <3>2. push' = [push EXCEPT ![n] = x]
      BY <1>1, <1>9, <2>8, <3>1 DEF recordOutcome
    <3>3. /\ IsPush(x) /\ x.at = "disable" /\ x.accepted = q.accepted /\ x.gone = q.gone
          /\ x.devices = q.devices
      BY <1>2, <2>1, <3>1 DEF PushOK, IsPush
    <3>4. PushOK(n, x)'
      BY <1>2, <2>1, <2>3, <3>3 DEF PushOK, TokenIn
    <3>5. QED
      BY <2>3, <2>5, <2>6, <3>2, <3>4, PushMoves
  <2>9. QED
    BY <2>7, <2>8
<1>10. CASE pushFails(n)
  <2>1. q # Absent /\ m \in Notification /\ m # Absent
    BY <1>1, <1>2, <1>10 DEF pushFails, NotificationOK
  <2>2. PICK y : y = [m EXCEPT !.failed = TRUE]
    OBVIOUS
  <2>3. /\ notification' = [notification EXCEPT ![n] = y]
        /\ push' = [push EXCEPT ![n] = Absent] /\ UNCHANGED <<device, took, reported>>
    BY <1>1, <1>10, <2>2 DEF pushFails
  <2>4. y \in Notification /\ y.sent = m.sent
    BY <2>1, <2>2 DEF Notification
  <2>5. NotificationOK(n, y)'
    BY <1>2, <2>1, <2>3, <2>4 DEF NotificationOK
  <2>6. QED
    BY <1>4, <2>3, <2>5, PushMoves
<1>11. QED
  BY <1>5, <1>6, <1>7, <1>8, <1>9, <1>10

\* A device is switched off on the word of the service, and on by signing in.
LEMMA DeviceStepsKeep ==
  ASSUME PushInv,
         \/ \E n \in NotificationIds : disableDevice(n)
         \/ \E u \in Recipients, t \in DeviceTokens : registerDeviceToken(u, t)
  PROVE  PushInv'
<1>1. CASE \E n \in NotificationIds : disableDevice(n)
  <2>1. PICK n \in NotificationIds : disableDevice(n)
    BY <1>1
  <2>2. PICK q, m : q = push[n] /\ m = notification[n]
    OBVIOUS
  <2>3. PushOK(n, q) /\ NotificationOK(n, m) /\ q # Absent /\ m # Absent
    BY <2>1, <2>2 DEF PushInv, disableDevice
  <2>4. PICK i \in q.gone :
          /\ device' = [device EXCEPT ![tokenOf(n, i)].disabled = TRUE]
          /\ push' = [push EXCEPT ![n] = nextGone(push[n], i)]
          /\ UNCHANGED <<notification, took, reported>>
    BY <2>1, <2>2 DEF disableDevice
  <2>5. PICK t : t = tokenOf(n, i)
    OBVIOUS
  <2>6. t \in reported
    BY <2>2, <2>3, <2>4, <2>5, TokenOfIs DEF PushOK
  <2>7. /\ device' = [y \in DeviceTokens |-> device'[y]]
        /\ \A y \in DeviceTokens : y # t => device'[y] = device[y]
    BY <2>4, <2>5 DEF PushInv
  <2>8. PICK x : x = nextGone(q, i)
    OBVIOUS
  <2>9. push' = [push EXCEPT ![n] = x]
    BY <2>2, <2>4, <2>8
  <2>10. PushOK(n, x)
    <3>1. CASE q.gone = {i}
      BY <2>8, <3>1 DEF PushOK, nextGone
    <3>2. CASE q.gone # {i}
      <4>1. /\ IsPush(x) /\ x.at = q.at /\ x.accepted = q.accepted
            /\ x.gone = q.gone \ {i} /\ x.devices = q.devices
        BY <2>3, <2>8, <3>2 DEF PushOK, IsPush, nextGone
      <4>2. QED
        BY <2>3, <4>1 DEF PushOK, TokenIn
    <3>3. QED
      BY <3>1, <3>2
  <2>11. PICK v : v = push'
    OBVIOUS
  <2>12. v = [k \in NotificationIds |-> v[k]]
         /\ \A k \in NotificationIds : v[k] = IF k = n THEN x ELSE push[k]
    BY <2>9, <2>11 DEF PushInv
  <2>13. ASSUME NEW k \in NotificationIds
         PROVE  /\ v[k] # Absent => notification[k] # Absent
                /\ PushOK(k, v[k]) /\ NotificationOK(k, notification[k])
    BY <2>2, <2>3, <2>10, <2>12 DEF PushInv
  <2>14. ASSUME NEW k \in NotificationIds
         PROVE  PushOK(k, v[k])' /\ NotificationOK(k, notification[k])'
    BY <2>4, <2>13 DEF PushOK, NotificationOK
  <2>15. QED
    BY <2>4, <2>6, <2>7, <2>11, <2>12, <2>13, <2>14 DEF PushInv
<1>2. CASE \E u \in Recipients, t \in DeviceTokens : registerDeviceToken(u, t)
  <2>1. PICK u \in Recipients, t \in DeviceTokens : registerDeviceToken(u, t)
    BY <1>2
  <2>2. PICK y : y = [owner |-> u, disabled |-> FALSE]
    OBVIOUS
  <2>3. /\ device' = [device EXCEPT ![t] = y] /\ y.disabled = FALSE
        /\ reported' = reported \
             {r \in {t} : \A n \in Rows(push) : \A i \in push[n].gone : tokenOf(n, i) # r}
        /\ UNCHANGED <<notification, push, took>>
    BY <2>1, <2>2 DEF registerDeviceToken
  <2>4. ASSUME NEW n \in NotificationIds
        PROVE  PushOK(n, push[n])'
    <3>1. CASE push[n] = Absent
      BY <2>3, <3>1 DEF PushOK
    <3>2. CASE push[n] # Absent
      <4>1. PICK q : q = push[n]
        OBVIOUS
      <4>2. n \in Rows(push)
        BY <3>2 DEF PushInv, Rows
      <4>3. \A i \in q.gone : TokenIn(q, i) \in reported'
        <5>1. \A i \in q.gone : tokenOf(n, i) = TokenIn(q, i) /\ TokenIn(q, i) \in reported
          BY <3>2, <4>1, TokenOfIs DEF PushInv, PushOK
        <5>2. QED
          BY <2>3, <4>1, <4>2, <5>1
      <4>4. PushOK(n, q)'
        BY <2>3, <3>2, <4>1, <4>3 DEF PushInv, PushOK
      <4>5. QED
        BY <2>3, <4>1, <4>4
    <3>3. QED
      BY <3>1, <3>2
  <2>5. \A n \in NotificationIds : NotificationOK(n, notification[n])'
    BY <2>3 DEF PushInv, NotificationOK
  <2>6. \A x \in DeviceTokens : device'[x] # Absent /\ device'[x].disabled => x \in reported'
    BY <2>3 DEF PushInv
  <2>7. device' = [x \in DeviceTokens |-> device'[x]]
    BY <2>3 DEF PushInv
  <2>8. QED
    BY <2>3, <2>4, <2>5, <2>6, <2>7 DEF PushInv
<1>3. QED
  BY <1>1, <1>2

\* However dispatches, crashes and sign-ins interleave: what a dispatch is to
\* write into the two tables, the push service has said.
THEOREM NotificationsInvariance == NotificationsSpec => []PushInv
<1>1. NotificationsInit => PushInv
  BY DEF NotificationsInit, PushInv, PushOK, NotificationOK
<1>2. PushInv /\ [NotificationsNext]_notificationsVars => PushInv'
  <2> SUFFICES ASSUME PushInv, [NotificationsNext]_notificationsVars PROVE PushInv'
    OBVIOUS
  <2>1. CASE UNCHANGED notificationsVars
    <3>1. UNCHANGED <<device, notification, push, took, reported>>
      BY <2>1 DEF notificationsVars
    <3>2. \A n, q : (PushOK(n, q) => PushOK(n, q)')
                    /\ (NotificationOK(n, q) => NotificationOK(n, q)')
      BY <3>1 DEF PushOK, NotificationOK
    <3>3. PICK p, r : p = push /\ r = notification
      OBVIOUS
    <3>4. \A n \in NotificationIds : PushOK(n, p[n]) /\ NotificationOK(n, r[n])
      BY <3>3 DEF PushInv
    <3>5. \A n \in NotificationIds : PushOK(n, p[n])' /\ NotificationOK(n, r[n])'
      BY <3>2, <3>4
    <3>6. QED
      BY <3>1, <3>3, <3>5 DEF PushInv
  <2>2. CASE \E n \in NotificationIds :
               \/ \E u \in Recipients : notify(n, u)
               \/ findDevices(n) \/ postPush(n) \/ recordOutcome(n) \/ pushFails(n)
               \/ losePush(n)
    BY <2>2, DispatchKeeps
  <2>3. CASE \/ \E n \in NotificationIds : disableDevice(n)
             \/ \E u \in Recipients, t \in DeviceTokens : registerDeviceToken(u, t)
    BY <2>3, DeviceStepsKeep
  <2>4. QED
    BY <2>1, <2>2, <2>3 DEF NotificationsNext
<1>3. QED
  BY <1>1, <1>2, PTL DEF NotificationsSpec

\* "sent_at is set only when the push service actually accepted the message",
\* and a device is switched off on a word about it: for any number of each.
THEOREM Delivered == NotificationsSpec => []DeliveryRecordTrue
<1>1. PushInv => DeliveryRecordTrue
  BY DEF PushInv, DeliveryRecordTrue, NotificationOK, Rows
<1>2. QED
  BY <1>1, NotificationsInvariance, PTL

-----------------------------------------------------------------------------
(* Console: decisions and the rows they were made about *)

\* Who has decided and whose decision is not yet recorded.
Auditing == {a \in Admins : decision[a] # Absent /\ decision[a].at = "audit"}

\* A decision is one that the page offers beside the status it was made on.
DecisionOK(d) ==
  d # Absent => /\ d \in Decision
                /\ d.saw \in STATUSES[kind] /\ d.to \in buttons(d.saw)

RowsOK ==
  /\ kind \in KINDS /\ status \in STATUSES[kind]
  /\ seen = [a \in Admins |-> seen[a]]
  /\ answers \in [Admins -> SUBSET STATUSES[kind]]
  /\ \A a \in Admins : seen[a] # Absent => seen[a] \in STATUSES[kind]

DecisionsOK ==
  /\ decision = [a \in Admins |-> decision[a]]
  /\ \A a \in Admins : DecisionOK(decision[a])

\* What is recorded and what is about to be was decided.
RecordOK ==
  /\ audited \in Nat /\ decisions \in Nat
  /\ audited + Cardinality(Auditing) <= decisions

ConsoleInv == RowsOK /\ DecisionsOK /\ RecordOK

\* A page offers a decision beside the one status its handler asks for.
LEMMA OfferedOnce ==
  ASSUME kind \in KINDS, kind \notin {"report", "category"}, NEW a,
         decision[a].saw \in STATUSES[kind], status \in STATUSES[kind],
         decision[a].to \in buttons(decision[a].saw), takesEffect(a)
  PROVE  decision[a].saw = status
<1>1. PICK saw, to : saw = decision[a].saw /\ to = decision[a].to
  OBVIOUS
<1>2. CASE kind = "user"
  <2>1. STATUSES[kind] = {"ACTIVE", "SUSPENDED", "DELETION_REQUESTED"}
    BY <1>2 DEF STATUSES
  <2>2. buttons(saw) = usersPage[saw]
    BY <1>2 DEF buttons
  <2>3. /\ usersPage["ACTIVE"] = {"SUSPENDED"} /\ usersPage["SUSPENDED"] = {"ACTIVE"}
        /\ usersPage["DELETION_REQUESTED"] = {}
    BY DEF usersPage
  <2>4. suspendUser(a) \/ restoreUser(a)
    BY <1>2 DEF takesEffect
  <2>5. QED
    BY <1>1, <2>1, <2>2, <2>3, <2>4 DEF suspendUser, restoreUser
<1>3. CASE kind = "job"
  <2>1. STATUSES[kind] = {"PENDING_REVIEW", "MATCHING", "CANCELLED"}
    BY <1>3 DEF STATUSES
  <2>2. buttons(saw) = reviewQueuePage[saw]
    BY <1>3 DEF buttons
  <2>3. reviewQueuePage["MATCHING"] = {} /\ reviewQueuePage["CANCELLED"] = {}
    BY DEF reviewQueuePage
  <2>4. status = "PENDING_REVIEW"
    BY <1>3 DEF takesEffect, reviewJob
  <2>5. QED
    BY <1>1, <2>1, <2>2, <2>3, <2>4
<1>4. CASE kind = "dispute"
  <2>1. STATUSES[kind] = {"OPEN", "RESOLVED"}
    BY <1>4 DEF STATUSES
  <2>2. buttons(saw) = disputesPage[saw]
    BY <1>4 DEF buttons
  <2>3. disputesPage["RESOLVED"] = {}
    BY DEF disputesPage
  <2>4. status # "RESOLVED"
    BY <1>4 DEF takesEffect, resolveDispute
  <2>5. QED
    BY <1>1, <2>1, <2>2, <2>3, <2>4
<1>5. QED
  BY <1>2, <1>3, <1>4 DEF KINDS

\* It leads to a status of the same row.
LEMMA ButtonsLead ==
  ASSUME kind \in KINDS, NEW saw \in STATUSES[kind]
  PROVE  buttons(saw) \subseteq STATUSES[kind]
<1>1. CASE kind = "user"
  <2>1. STATUSES[kind] = {"ACTIVE", "SUSPENDED", "DELETION_REQUESTED"}
        /\ buttons(saw) = usersPage[saw]
    BY <1>1 DEF STATUSES, buttons
  <2>2. /\ usersPage["ACTIVE"] = {"SUSPENDED"} /\ usersPage["SUSPENDED"] = {"ACTIVE"}
        /\ usersPage["DELETION_REQUESTED"] = {}
    BY DEF usersPage
  <2>3. QED
    BY <2>1, <2>2
<1>2. CASE kind = "job"
  <2>1. STATUSES[kind] = {"PENDING_REVIEW", "MATCHING", "CANCELLED"}
        /\ buttons(saw) = reviewQueuePage[saw]
    BY <1>2 DEF STATUSES, buttons
  <2>2. /\ reviewQueuePage["PENDING_REVIEW"] = {"MATCHING", "CANCELLED"}
        /\ reviewQueuePage["MATCHING"] = {} /\ reviewQueuePage["CANCELLED"] = {}
    BY DEF reviewQueuePage
  <2>3. QED
    BY <2>1, <2>2
<1>3. CASE kind = "dispute"
  <2>1. STATUSES[kind] = {"OPEN", "RESOLVED"} /\ buttons(saw) = disputesPage[saw]
    BY <1>3 DEF STATUSES, buttons
  <2>2. disputesPage["OPEN"] = {"RESOLVED"} /\ disputesPage["RESOLVED"] = {}
    BY DEF disputesPage
  <2>3. QED
    BY <2>1, <2>2
<1>4. CASE kind = "report"
  <2>1. STATUSES[kind] = {"OPEN", "REVIEWED", "ACTIONED", "DISMISSED"}
        /\ buttons(saw) = reportsPage[saw]
    BY <1>4 DEF STATUSES, buttons
  <2>2. /\ reportsPage["OPEN"] = {"REVIEWED", "ACTIONED", "DISMISSED"}
        /\ reportsPage["REVIEWED"] = {} /\ reportsPage["ACTIONED"] = {}
        /\ reportsPage["DISMISSED"] = {}
    BY DEF reportsPage
  <2>3. QED
    BY <2>1, <2>2
<1>5. CASE kind = "category"
  <2>1. STATUSES[kind] = {"enabled", "disabled"} /\ buttons(saw) = categoriesPage[saw]
    BY <1>5 DEF STATUSES, buttons
  <2>2. categoriesPage["enabled"] = {"disabled"} /\ categoriesPage["disabled"] = {"enabled"}
    BY DEF categoriesPage
  <2>3. QED
    BY <2>1, <2>2
<1>6. QED
  BY <1>1, <1>2, <1>3, <1>4, <1>5 DEF KINDS

\* The decision of one administrator becomes d.
LEMMA DecisionMoves ==
  ASSUME DecisionsOK, kind' = kind, NEW a \in Admins, NEW d, DecisionOK(d),
         decision' = [decision EXCEPT ![a] = d]
  PROVE  /\ DecisionsOK'
         /\ Auditing' = IF d # Absent /\ d.at = "audit" THEN Auditing \cup {a}
                                                         ELSE Auditing \ {a}
<1>1. PICK v : v = decision'
  OBVIOUS
<1>2. v = [b \in Admins |-> v[b]]
      /\ \A b \in Admins : v[b] = IF b = a THEN d ELSE decision[b]
  BY <1>1 DEF DecisionsOK
<1>3. \A b \in Admins : DecisionOK(v[b])
  BY <1>2 DEF DecisionsOK
<1>4. \A b \in Admins : DecisionOK(v[b])'
  BY <1>3 DEF DecisionOK, buttons
<1>5. DecisionsOK'
  BY <1>1, <1>2, <1>4 DEF DecisionsOK
<1>6. Auditing' = {b \in Admins : v[b] # Absent /\ v[b].at = "audit"}
  BY <1>1 DEF Auditing
<1>7. QED
  BY <1>2, <1>5, <1>6 DEF Auditing

LEMMA AuditingFinite ==
  IsFiniteSet(Auditing) /\ Cardinality(Auditing) \in Nat
BY AdminsFinite, FS_Subset, FS_CardinalityType DEF Auditing

\* A step after which nobody more waits for a record, and nothing is decided.
LEMMA RecordStays ==
  ASSUME RecordOK, Auditing' \subseteq Auditing, UNCHANGED <<audited, decisions>>
  PROVE  RecordOK'
<1>1. PICK A, B : A = Auditing /\ B = Auditing'
  OBVIOUS
<1>2. IsFiniteSet(A) /\ Cardinality(A) \in Nat
  BY <1>1, AuditingFinite
<1>3. Cardinality(B) \in Nat /\ Cardinality(B) <= Cardinality(A)
  BY <1>1, <1>2, FS_Subset, FS_CardinalityType
<1>4. audited \in Nat /\ decisions \in Nat /\ audited + Cardinality(A) <= decisions
  BY <1>1 DEF RecordOK
<1>5. audited + Cardinality(B) <= decisions
  BY <1>2, <1>3, <1>4
<1>6. QED
  BY <1>1, <1>4, <1>5 DEF RecordOK

LEMMA PageStepKeeps ==
  ASSUME ConsoleInv, NEW a \in Admins,
         \/ load(a) \/ refuse(a) \/ loseDecision(a)
         \/ \E s \in STATUSES[kind] : show(a, s) \/ decideRow(a, s)
  PROVE  ConsoleInv' /\ decisions' = decisions
<1>1. UNCHANGED <<kind, status, audited, decisions>>
  BY DEF load, refuse, loseDecision, show, decideRow
<1>2. CASE \E s \in STATUSES[kind] : show(a, s)
  <2>1. PICK s \in STATUSES[kind] : show(a, s)
    BY <1>2
  <2>2. RowsOK'
    BY <1>1, <2>1 DEF show, ConsoleInv, RowsOK
  <2>3. DecisionsOK' /\ Auditing' = Auditing
    <3>1. PICK v : v = decision
      OBVIOUS
    <3>2. \A b \in Admins : DecisionOK(v[b])
      BY <3>1 DEF ConsoleInv, DecisionsOK
    <3>3. \A b \in Admins : DecisionOK(v[b])'
      BY <1>1, <3>2 DEF DecisionOK, buttons
    <3>4. decision' = v
      BY <2>1, <3>1 DEF show
    <3>5. QED
      BY <3>1, <3>3, <3>4 DEF ConsoleInv, DecisionsOK, Auditing
  <2>4. QED
    BY <1>1, <2>2, <2>3, RecordStays DEF ConsoleInv
<1>3. CASE \E s \in STATUSES[kind] : decideRow(a, s)
  <2>1. PICK s \in STATUSES[kind] : decideRow(a, s)
    BY <1>3
  <2>2. PICK d : d = [to |-> s, saw |-> seen[a], at |-> "sent"]
    OBVIOUS
  <2>3. DecisionOK(d)
    <3>1. kind \in KINDS /\ seen[a] \in STATUSES[kind] /\ s \in buttons(seen[a])
      BY <2>1 DEF decideRow, ConsoleInv, RowsOK
    <3>2. PICK S : S = UNION {STATUSES[k] : k \in KINDS}
      OBVIOUS
    <3>3. s \in S /\ seen[a] \in S
      BY <3>1, <3>2
    <3>4. d \in Decision /\ d.saw = seen[a] /\ d.to = s /\ d.at = "sent"
      BY <2>2, <3>2, <3>3 DEF Decision
    <3>5. QED
      BY <3>1, <3>4 DEF DecisionOK
  <2>4. decision' = [decision EXCEPT ![a] = d]
    BY <2>1, <2>2 DEF decideRow
  <2>5. DecisionsOK' /\ Auditing' = Auditing \ {a}
    <3>1. d.at = "sent"
      BY <2>2
    <3>2. d # Absent => d.at # "audit"
      BY <3>1
    <3>3. DecisionsOK /\ kind' = kind
      BY <1>1 DEF ConsoleInv
    <3>4. /\ DecisionsOK'
          /\ Auditing' = IF d # Absent /\ d.at = "audit" THEN Auditing \cup {a} ELSE Auditing \ {a}
      BY <2>3, <2>4, <3>3, DecisionMoves
    <3>5. QED
      BY <3>2, <3>4
  <2>6. RowsOK'
    BY <1>1, <2>1 DEF decideRow, ConsoleInv, RowsOK
  <2>7. QED
    BY <1>1, <2>5, <2>6, RecordStays DEF ConsoleInv
<1>4. CASE load(a) \/ refuse(a) \/ loseDecision(a)
  <2>1. decision' = [decision EXCEPT ![a] = Absent] /\ seen' = seen
    BY <1>4 DEF load, refuse, loseDecision
  <2>2. DecisionOK(Absent)
    BY DEF DecisionOK
  <2>3. DecisionsOK' /\ Auditing' = Auditing \ {a}
    BY <1>1, <2>1, <2>2, DecisionMoves DEF ConsoleInv
  <2>4. RowsOK'
    BY <1>1, <1>4, <2>1 DEF load, refuse, loseDecision, ConsoleInv, RowsOK
  <2>5. QED
    BY <1>1, <2>3, <2>4, RecordStays DEF ConsoleInv
<1>5. QED
  BY <1>2, <1>3, <1>4

\* A decision takes effect: on the row as it was seen.
LEMMA CarryOutKeeps ==
  ASSUME ConsoleInv, NEW a \in Admins, carryOut(a)
  PROVE  /\ ConsoleInv'
         /\ kind \notin {"report", "category"} =>
              decision'[a] # decision[a] /\ decision[a].saw = status
<1>1. PICK q : q = decision[a]
  OBVIOUS
<1>2. /\ q # Absent /\ q.at = "sent" /\ q \in Decision
      /\ q.saw \in STATUSES[kind] /\ q.to \in buttons(q.saw)
  BY <1>1 DEF carryOut, decisionAt, ConsoleInv, DecisionsOK, DecisionOK
<1>3. PICK d : d = [q EXCEPT !.at = "audit"]
  OBVIOUS
<1>4. d \in Decision /\ d.at = "audit" /\ d.saw = q.saw /\ d.to = q.to
  BY <1>2, <1>3 DEF Decision
<1>5. /\ decision' = [decision EXCEPT ![a] = d] /\ status' = q.to
      /\ decisions' = decisions + 1 /\ UNCHANGED <<kind, seen, answers, audited>>
      /\ takesEffect(a)
  BY <1>1, <1>3 DEF carryOut
<1>6. DecisionOK(d)
  BY <1>2, <1>4 DEF DecisionOK
<1>7. d # Absent
  BY <1>4, AbsentIsNoDecision
<1>8. DecisionsOK' /\ Auditing' = Auditing \cup {a}
  BY <1>4, <1>5, <1>6, <1>7, DecisionMoves DEF ConsoleInv
<1>9. RowsOK'
  <2>1. q.to \in STATUSES[kind]
    BY <1>2, ButtonsLead DEF ConsoleInv, RowsOK
  <2>2. QED
    BY <1>5, <2>1 DEF ConsoleInv, RowsOK
<1>10. RecordOK'
  <2>1. PICK A, B : A = Auditing /\ B = Auditing'
    OBVIOUS
  <2>2. IsFiniteSet(A) /\ Cardinality(A) \in Nat /\ B = A \cup {a} /\ a \notin A
    BY <1>1, <1>2, <1>8, <2>1, AuditingFinite DEF Auditing
  <2>3. Cardinality(B) = Cardinality(A) + 1
    BY <2>2, FS_AddElement
  <2>4. audited \in Nat /\ decisions \in Nat /\ audited + Cardinality(A) <= decisions
    BY <2>1 DEF ConsoleInv, RecordOK
  <2>5. decisions + 1 \in Nat /\ audited + Cardinality(B) <= decisions + 1
    BY <2>2, <2>3, <2>4
  <2>6. QED
    BY <1>5, <2>1, <2>4, <2>5 DEF RecordOK
<1>11. kind \notin {"report", "category"} => q.saw = status
  BY <1>1, <1>2, <1>5, OfferedOnce DEF ConsoleInv, RowsOK
<1>12. decision'[a] = d
  BY <1>5 DEF ConsoleInv, DecisionsOK
<1>13. QED
  BY <1>1, <1>2, <1>4, <1>8, <1>9, <1>10, <1>11, <1>12 DEF ConsoleInv

LEMMA AuditKeeps ==
  ASSUME ConsoleInv, NEW a \in Admins, adminAudit(a)
  PROVE  ConsoleInv' /\ decisions' = decisions
<1>1. PICK q : q = decision[a]
  OBVIOUS
<1>2. /\ q # Absent /\ q.at = "audit" /\ q \in Decision
      /\ q.saw \in STATUSES[kind] /\ q.to \in buttons(q.saw)
  BY <1>1 DEF adminAudit, decisionAt, ConsoleInv, DecisionsOK, DecisionOK
<1>3. PICK d : d = [q EXCEPT !.at = "reload"]
  OBVIOUS
<1>4. d \in Decision /\ d.at = "reload" /\ d.saw = q.saw /\ d.to = q.to
  BY <1>2, <1>3 DEF Decision
<1>5. /\ decision' = [decision EXCEPT ![a] = d]
      /\ audited' = audited + 1 /\ UNCHANGED <<kind, status, seen, answers, decisions>>
  BY <1>1, <1>3 DEF adminAudit
<1>6. DecisionOK(d)
  BY <1>2, <1>4 DEF DecisionOK
<1>7. DecisionsOK' /\ Auditing' = Auditing \ {a}
  BY <1>4, <1>5, <1>6, DecisionMoves DEF ConsoleInv
<1>8. RowsOK'
  BY <1>5 DEF ConsoleInv, RowsOK
<1>9. RecordOK'
  <2>1. PICK A, B : A = Auditing /\ B = Auditing'
    OBVIOUS
  <2>2. IsFiniteSet(A) /\ Cardinality(A) \in Nat /\ B = A \ {a} /\ a \in A
    BY <1>1, <1>2, <1>7, <2>1, AuditingFinite DEF Auditing
  <2>3. Cardinality(B) = Cardinality(A) - 1
    BY <2>2, FS_RemoveElement
  <2>4. audited \in Nat /\ decisions \in Nat /\ audited + Cardinality(A) <= decisions
    BY <2>1 DEF ConsoleInv, RecordOK
  <2>5. audited + 1 \in Nat /\ audited + 1 + Cardinality(B) <= decisions
    BY <2>2, <2>3, <2>4
  <2>6. QED
    BY <1>5, <2>1, <2>4, <2>5 DEF RecordOK
<1>10. QED
  BY <1>5, <1>7, <1>8, <1>9 DEF ConsoleInv

LEMMA RowMovesKeeps ==
  ASSUME ConsoleInv, rowMoves \/ UNCHANGED consoleRowVars
  PROVE  ConsoleInv' /\ decisions' = decisions
<1>1. UNCHANGED <<kind, seen, answers, decision, audited, decisions>>
  BY DEF rowMoves, consoleRowVars
<1>2. status' \in STATUSES[kind]
  <2>1. kind = "user" => {"DELETION_REQUESTED", "ACTIVE"} \subseteq STATUSES[kind]
    BY DEF STATUSES
  <2>2. kind = "job" => "CANCELLED" \in STATUSES[kind]
    BY DEF STATUSES
  <2>3. QED
    BY <2>1, <2>2 DEF rowMoves, consoleRowVars, ConsoleInv, RowsOK
<1>3. RowsOK'
  BY <1>1, <1>2 DEF ConsoleInv, RowsOK
<1>4. DecisionsOK' /\ Auditing' = Auditing
  <2>1. PICK v : v = decision
    OBVIOUS
  <2>2. \A b \in Admins : DecisionOK(v[b])
    BY <2>1 DEF ConsoleInv, DecisionsOK
  <2>3. \A b \in Admins : DecisionOK(v[b])'
    BY <1>1, <2>2 DEF DecisionOK, buttons
  <2>4. QED
    BY <1>1, <2>1, <2>3 DEF ConsoleInv, DecisionsOK, Auditing
<1>5. QED
  BY <1>1, <1>3, <1>4, RecordStays DEF ConsoleInv

\* One step: of a page, of a handler, or of the row under both.
LEMMA ConsoleStep ==
  ASSUME ConsoleInv, [RowNext]_consoleRowVars
  PROVE  /\ ConsoleInv'
         /\ decisions' # decisions /\ kind \notin {"report", "category"} =>
              \E a \in Admins : decision'[a] # decision[a] /\ decision[a].saw = status
         /\ audited' <= decisions'
<1>1. ConsoleInv' => audited' <= decisions'
  <2> SUFFICES ASSUME ConsoleInv' PROVE audited' <= decisions'
    OBVIOUS
  <2>1. PICK B : B = Auditing'
    OBVIOUS
  <2>2. Cardinality(B) \in Nat
    <3>1. B \subseteq Admins
      BY <2>1 DEF Auditing
    <3>2. QED
      BY <3>1, AdminsFinite, FS_Subset, FS_CardinalityType
  <2>3. audited' \in Nat /\ decisions' \in Nat /\ audited' + Cardinality(B) <= decisions'
    BY <2>1 DEF ConsoleInv, RecordOK
  <2>4. QED
    BY <2>2, <2>3
<1>2. CASE \E a \in Admins : carryOut(a)
  BY <1>1, <1>2, CarryOutKeeps
<1>3. CASE \E a \in Admins :
             \/ load(a) \/ refuse(a) \/ loseDecision(a)
             \/ \E s \in STATUSES[kind] : show(a, s) \/ decideRow(a, s)
  BY <1>1, <1>3, PageStepKeeps
<1>4. CASE \E a \in Admins : adminAudit(a)
  BY <1>1, <1>4, AuditKeeps
<1>5. CASE rowMoves \/ UNCHANGED consoleRowVars
  BY <1>1, <1>5, RowMovesKeeps
<1>6. QED
  BY <1>2, <1>3, <1>4, <1>5 DEF RowNext

THEOREM ConsoleInvariance == RowSpec => []ConsoleInv
<1>1. RowInit => ConsoleInv
  <2> SUFFICES ASSUME RowInit PROVE ConsoleInv
    OBVIOUS
  <2>1. status \in STATUSES[kind]
    <3>1. CASE kind = "user"
      BY <3>1 DEF RowInit, STATUSES
    <3>2. CASE kind = "job"
      BY <3>2 DEF RowInit, STATUSES
    <3>3. CASE kind = "dispute"
      BY <3>3 DEF RowInit, STATUSES
    <3>4. CASE kind = "report"
      BY <3>4 DEF RowInit, STATUSES
    <3>5. CASE kind = "category"
      BY <3>5 DEF RowInit, STATUSES
    <3>6. QED
      BY <3>1, <3>2, <3>3, <3>4, <3>5 DEF RowInit, KINDS
  <2>2. RowsOK
    BY <2>1 DEF RowInit, RowsOK
  <2>3. DecisionsOK /\ Auditing = {}
    BY DEF RowInit, DecisionsOK, DecisionOK, Auditing
  <2>4. RecordOK
    <3>1. PICK n : n = Cardinality({})
      OBVIOUS
    <3>2. n = 0
      BY <3>1, FS_EmptySet
    <3>3. QED
      BY <2>3, <3>1, <3>2 DEF RowInit, RecordOK
  <2>5. QED
    BY <2>2, <2>3, <2>4 DEF ConsoleInv
<1>2. ConsoleInv /\ [RowNext]_consoleRowVars => ConsoleInv'
  BY ConsoleStep
<1>3. QED
  BY <1>1, <1>2, PTL DEF RowSpec

\* For any number of administrators: a decision about a user, a job or a
\* dispute meets the row as it was shown, and no record lacks its decision.
THEOREM Decided == RowSpec => DecidedAsShown
<1>1. ConsoleInv /\ [RowNext]_consoleRowVars =>
        [/\ decisions' # decisions /\ kind \notin {"report", "category"} =>
              \E a \in Admins : decision'[a] # decision[a] /\ decision[a].saw = status
         /\ audited' <= decisions']_consoleRowVars
  BY ConsoleStep
<1>2. QED
  BY <1>1, ConsoleInvariance, PTL DEF RowSpec, DecidedAsShown

-----------------------------------------------------------------------------
(* Ratings: the double blind.  No transaction sees the rows of another one    *)
(* that is open; so what it has read is described by what it may show (told    *)
(* already, or its own pair) and by what it may not leave out (the ratings     *)
(* given by transactions that ran alone).                                      *)

\* Both ratings of an assignment are in, given by transactions that ran alone.
Settled(x) ==
  /\ rating[x] # Absent /\ rating[partner(x)] # Absent
  /\ x \notin raced /\ partner(x) \notin raced

Told(x) == rating[x] # Absent /\ Shown(x)

\* What r's transaction will show with its commit, or is shown already.
WillBeTold(r, s, S) ==
  \A x \in S : Told(x) \/ (s.pair /\ x \in {r, partner(r)})

\* A set computed for dir leaves out nothing that had settled.
Complete(dir, S) == \A x \in RatingIds : direction(x) = dir /\ Settled(x) => x \in S

\* Where the transaction s of r is tells what it has found and computed so far.
SubmissionOK(r, s) ==
  /\ s.at = "idle" => s = NoSubmission
  /\ s.at # "idle" => rating[r] = Absent
  /\ s.pair => rating[partner(r)] # Absent
  /\ s.at \notin {"idle", "inserted"} /\ r \notin raced =>
       (s.pair <=> rating[partner(r)] # Absent)
  /\ s.at = "read" /\ s.pair => r \in s.read
  /\ s.at = "readOther" => s.pair /\ partner(r) \in s.read
  /\ s.at \in {"wrote", "readOther", "done"} =>
       s.write[direction(r)] # Absent /\ (s.pair => r \in s.write[direction(r)])
  /\ s.at = "done" =>
       /\ s.pair /\ s.write[opposite(direction(r))] # Absent
       /\ partner(r) \in s.write[opposite(direction(r))]

ComputedOK(r, s) ==
  /\ WillBeTold(r, s, s.read)
  /\ s.at = "read" => Complete(direction(r), s.read)
  /\ s.at = "readOther" => Complete(opposite(direction(r)), s.read)
  /\ \A d \in DIRECTIONS : s.write[d] # Absent =>
       WillBeTold(r, s, s.write[d]) /\ Complete(d, s.write[d])

OverlapRaces ==
  \A r, q \in RatingIds : submission[r].at # "idle" /\ submission[q].at # "idle" =>
    r = q \/ r \in raced

ShownTogether ==
  \A r \in RatingIds : rating[r] = "VISIBLE" => rating[partner(r)] = "VISIBLE"

SettledShown ==
  \A x \in RatingIds : Settled(x) => rating[x] = "VISIBLE" /\ x \in aggregate[direction(x)]

CountedTold == \A d \in DIRECTIONS : \A x \in aggregate[d] : Told(x)

RatingsInv ==
  /\ RatingsTypeOK
  /\ \A r \in RatingIds : SubmissionOK(r, submission[r]) /\ ComputedOK(r, submission[r])
  /\ OverlapRaces /\ ShownTogether /\ SettledShown /\ CountedTold

SubmissionRow == [at : SUBMIT_STEPS, pair : BOOLEAN, read : SUBSET RatingIds,
                  write : [DIRECTIONS -> OrAbsent(SUBSET RatingIds)]]

\* The two ratings of an assignment rate in the two directions.
LEMMA Partners ==
  ASSUME NEW r \in RatingIds
  PROVE  /\ partner(r) \in RatingIds /\ partner(r) # r /\ partner(partner(r)) = r
         /\ direction(r) \in DIRECTIONS /\ opposite(direction(r)) \in DIRECTIONS
         /\ opposite(direction(r)) # direction(r)
         /\ direction(partner(r)) = opposite(direction(r))
         /\ \A d \in DIRECTIONS : d = direction(r) \/ d = opposite(direction(r))
<1>1. r[1] \in Assignments /\ r[2] \in DIRECTIONS /\ r = <<r[1], r[2]>>
  BY DEF RatingIds
<1>2. opposite("CUSTOMER_TO_WORKER") = "WORKER_TO_CUSTOMER"
  BY DEF opposite, DIRECTIONS
<1>3. opposite("WORKER_TO_CUSTOMER") = "CUSTOMER_TO_WORKER"
  BY DEF opposite, DIRECTIONS
<1>4. r[2] = "CUSTOMER_TO_WORKER" \/ r[2] = "WORKER_TO_CUSTOMER"
  BY <1>1 DEF DIRECTIONS
<1>5. QED
  BY <1>1, <1>2, <1>3, <1>4 DEF partner, direction, RatingIds, DIRECTIONS

\* What was true of another transaction stays so while nothing is committed.
LEMMA QuietSubmission ==
  ASSUME RatingsInv, NEW r \in RatingIds, NEW s \in SubmissionRow,
         submission' = [submission EXCEPT ![r] = s],
         rating' = rating, aggregate' = aggregate,
         raced \subseteq raced', raced' \subseteq RatingIds,
         elapsed \subseteq elapsed', elapsed' \subseteq Rows(rating),
         SubmissionOK(r, s)', ComputedOK(r, s)',
         s.at = "idle" \/ submission[r].at # "idle"
           \/ (\A q \in RatingIds \ {r} : submission[q].at # "idle" => q \in raced' /\ r \in raced')
  PROVE  RatingsInv'
<1> USE DEF RatingsInv
<1>1. /\ \A q \in RatingIds : q # r => submission'[q] = submission[q]
      /\ submission'[r] = s
  BY DEF RatingsTypeOK
<1>2. RatingsTypeOK'
  <2>1. submission' \in [RatingIds -> SubmissionRow]
    BY DEF RatingsTypeOK, SubmissionRow
  <2>2. QED
    BY <2>1 DEF RatingsTypeOK, SubmissionRow, Rows
<1>3. \A x : Told(x) => Told(x)'
  BY DEF Told, Shown
<1>4. \A x \in RatingIds : Settled(x)' => Settled(x)
  BY DEF Settled
<1>5. ASSUME NEW q \in RatingIds, NEW t, SubmissionOK(q, t), ComputedOK(q, t)
      PROVE  SubmissionOK(q, t)' /\ ComputedOK(q, t)'
  <2>1. SubmissionOK(q, t)'
    BY <1>5 DEF SubmissionOK
  <2>2. \A S : WillBeTold(q, t, S) => WillBeTold(q, t, S)'
    BY <1>3 DEF WillBeTold
  <2>3. \A d, S : Complete(d, S) => Complete(d, S)'
    BY <1>4 DEF Complete
  <2>4. ComputedOK(q, t)'
    BY <1>5, <2>2, <2>3 DEF ComputedOK
  <2>5. QED
    BY <2>1, <2>4
<1>6. \A q \in RatingIds : (SubmissionOK(q, submission[q]) /\ ComputedOK(q, submission[q]))'
  <2> SUFFICES ASSUME NEW q \in RatingIds
               PROVE  (SubmissionOK(q, submission[q]) /\ ComputedOK(q, submission[q]))'
    OBVIOUS
  <2>1. PICK t : t = submission[q]
    OBVIOUS
  <2>2. SubmissionOK(q, t)' /\ ComputedOK(q, t)'
    BY <1>5, <2>1
  <2>3. CASE q = r
    <3>1. SubmissionOK(q, s)' /\ ComputedOK(q, s)'
      BY <2>3
    <3>2. QED
      BY <1>1, <2>3, <3>1 DEF SubmissionOK, ComputedOK, WillBeTold
  <2>4. CASE q # r
    BY <1>1, <2>1, <2>2, <2>4 DEF SubmissionOK, ComputedOK, WillBeTold
  <2>5. QED
    BY <2>3, <2>4
<1>7. OverlapRaces'
  BY <1>1 DEF OverlapRaces
<1>8. ShownTogether' /\ SettledShown'
  BY <1>4 DEF ShownTogether, SettledShown
<1>9. CountedTold'
  BY <1>3 DEF CountedTold
<1>10. QED
  BY <1>2, <1>6, <1>7, <1>8, <1>9

LEMMA InsertRatingKeeps ==
  ASSUME RatingsInv, NEW r \in RatingIds, insertRating(r)
  PROVE  RatingsInv'
<1>1. NoSubmission \in SubmissionRow
  BY DEF NoSubmission, SubmissionRow, SUBMIT_STEPS, OrAbsent
<1>2. PICK s : s = [NoSubmission EXCEPT !.at = "inserted"]
  OBVIOUS
<1>3. /\ s \in SubmissionRow /\ s.at = "inserted" /\ ~s.pair /\ s.read = {}
      /\ s.write = [d \in DIRECTIONS |-> Absent]
  <2>1. /\ NoSubmission.read = {} /\ ~NoSubmission.pair
        /\ NoSubmission.write = [d \in DIRECTIONS |-> Absent]
    BY DEF NoSubmission
  <2>2. QED
    BY <1>1, <1>2, <2>1 DEF SubmissionRow, SUBMIT_STEPS
<1>4. /\ submission' = [submission EXCEPT ![r] = s]
      /\ rating' = rating /\ aggregate' = aggregate /\ elapsed' = elapsed
      /\ submission[r] = NoSubmission /\ rating[r] = Absent
  BY <1>2 DEF insertRating
<1>5. NoSubmission.at = "idle"
  BY DEF NoSubmission
<1>6. /\ raced \subseteq raced' /\ raced' \subseteq RatingIds
      /\ \A q \in RatingIds \ {r} : submission[q].at # "idle" => q \in raced' /\ r \in raced'
  BY <1>4 DEF insertRating, OpenSubmissions, RatingsInv, RatingsTypeOK
<1>7. SubmissionOK(r, s)'
  BY <1>3, <1>4 DEF SubmissionOK
<1>8. ComputedOK(r, s)'
  BY <1>3 DEF ComputedOK, WillBeTold
<1>9. elapsed \subseteq elapsed' /\ elapsed' \subseteq Rows(rating)
  BY <1>4 DEF RatingsInv, RatingsTypeOK
<1>10. QED
  BY <1>3, <1>4, <1>6, <1>7, <1>8, <1>9, QuietSubmission

LEMMA LookForPairKeeps ==
  ASSUME RatingsInv, NEW r \in RatingIds, lookForPair(r)
  PROVE  RatingsInv'
<1>1. PICK s : s = submission[r]
  OBVIOUS
<1>2. s \in SubmissionRow /\ s.at = "inserted" /\ SubmissionOK(r, s) /\ ComputedOK(r, s)
  BY <1>1 DEF lookForPair, RatingsInv, RatingsTypeOK, SubmissionRow
<1>3. PICK b \in BOOLEAN : b = pairSubmitted(r)
  BY DEF pairSubmitted
<1>4. PICK t : t = [s EXCEPT !.at = "looked", !.pair = b]
  OBVIOUS
<1>5. /\ t \in SubmissionRow /\ t.at = "looked" /\ t.pair = b
      /\ t.read = s.read /\ t.write = s.write
  BY <1>2, <1>4 DEF SubmissionRow, SUBMIT_STEPS
<1>6. /\ submission' = [submission EXCEPT ![r] = t]
      /\ rating' = rating /\ aggregate' = aggregate /\ elapsed' = elapsed /\ raced' = raced
  BY <1>1, <1>3, <1>4 DEF lookForPair, RatingsInv, RatingsTypeOK
<1>7. SubmissionOK(r, t)'
  BY <1>2, <1>3, <1>5, <1>6 DEF SubmissionOK, pairSubmitted
<1>8. ComputedOK(r, t)'
  <2>1. ~s.pair \/ t.pair
    BY <1>2, <1>3, <1>5 DEF SubmissionOK, pairSubmitted
  <2>2. \A x : Told(x) => Told(x)'
    BY <1>6 DEF Told, Shown
  <2>3. \A x \in RatingIds : Settled(x)' => Settled(x)
    BY <1>6 DEF Settled
  <2>4. \A S : WillBeTold(r, s, S) => WillBeTold(r, t, S)'
    BY <2>1, <2>2 DEF WillBeTold
  <2>5. \A d, S : Complete(d, S) => Complete(d, S)'
    BY <2>3 DEF Complete
  <2>6. QED
    BY <1>2, <1>5, <2>4, <2>5 DEF ComputedOK
<1>9. raced' \subseteq RatingIds /\ elapsed' \subseteq Rows(rating)
  BY <1>6 DEF RatingsInv, RatingsTypeOK
<1>10. submission[r].at # "idle"
  BY <1>1, <1>2
<1>11. QED
  BY <1>5, <1>6, <1>7, <1>8, <1>9, <1>10, QuietSubmission

\* What a transaction reads is told, or its own; and nothing settled is left out.
LEMMA ReadsAll ==
  ASSUME RatingsInv, NEW r \in RatingIds, NEW dir \in DIRECTIONS
  PROVE  /\ visibleTo(r, dir) \in SUBSET RatingIds
         /\ WillBeTold(r, submission[r], visibleTo(r, dir))
         /\ Complete(dir, visibleTo(r, dir))
         /\ submission[r].pair =>
              /\ direction(r) = dir => r \in visibleTo(r, dir)
              /\ direction(partner(r)) = dir => partner(r) \in visibleTo(r, dir)
<1> USE DEF RatingsInv
<1>1. Rows(rating) = {x \in RatingIds : rating[x] # Absent}
  BY DEF RatingsTypeOK, Rows
<1>2. visibleTo(r, dir) \in SUBSET RatingIds
  BY <1>1 DEF visibleTo
<1>3. r \notin elapsed \/ rating[r] # Absent
  BY <1>1 DEF RatingsTypeOK
<1>4. Shown(r) => rating[r] # Absent
  BY <1>3, AbsentIsNoRating DEF Shown
<1>5. WillBeTold(r, submission[r], visibleTo(r, dir))
  BY <1>1, <1>4 DEF visibleTo, WillBeTold, Told
<1>6. Complete(dir, visibleTo(r, dir))
  BY <1>1 DEF visibleTo, Complete, Settled, SettledShown, Shown
<1>7. submission[r].pair => partner(r) \in Rows(rating)
  BY <1>1, Partners DEF SubmissionOK
<1>8. QED
  BY <1>2, <1>5, <1>6, <1>7 DEF visibleTo

LEMMA ReadRatingsKeeps ==
  ASSUME RatingsInv, NEW r \in RatingIds, readRatings(r)
  PROVE  RatingsInv'
<1>1. PICK s : s = submission[r]
  OBVIOUS
<1>2. s \in SubmissionRow /\ s.at \in {"looked", "wrote"} /\ SubmissionOK(r, s) /\ ComputedOK(r, s)
  BY <1>1 DEF readRatings, RatingsInv, RatingsTypeOK, SubmissionRow
<1>3. PICK at, dir, S :
        /\ S = visibleTo(r, dir)
        /\ submission' = [submission EXCEPT ![r].at = at, ![r].read = S]
        /\ \/ s.at = "looked" /\ at = "read" /\ dir = direction(r)
           \/ s.at = "wrote" /\ s.pair /\ at = "readOther" /\ dir = opposite(direction(r))
  BY <1>1 DEF readRatings
<1>4. dir \in DIRECTIONS
  BY <1>3, Partners
<1>5. /\ S \in SUBSET RatingIds /\ WillBeTold(r, s, S) /\ Complete(dir, S)
      /\ s.pair => /\ at = "read" => r \in S
                   /\ at = "readOther" => partner(r) \in S
  BY <1>1, <1>3, <1>4, ReadsAll, Partners
<1>6. PICK t : t = [s EXCEPT !.at = at, !.read = S]
  OBVIOUS
<1>7. /\ t \in SubmissionRow /\ t.at = at /\ t.pair = s.pair
      /\ t.read = S /\ t.write = s.write
  BY <1>2, <1>3, <1>5, <1>6 DEF SubmissionRow, SUBMIT_STEPS
<1>8. /\ submission' = [submission EXCEPT ![r] = t]
      /\ rating' = rating /\ aggregate' = aggregate /\ elapsed' = elapsed /\ raced' = raced
  BY <1>1, <1>3, <1>6 DEF readRatings, RatingsInv, RatingsTypeOK
<1>9. SubmissionOK(r, t)'
  BY <1>2, <1>3, <1>5, <1>7, <1>8 DEF SubmissionOK
<1>10. ComputedOK(r, t)'
  <2>1. \A x : Told(x) => Told(x)'
    BY <1>8 DEF Told, Shown
  <2>2. \A x \in RatingIds : Settled(x)' => Settled(x)
    BY <1>8 DEF Settled
  <2>3. \A T : WillBeTold(r, s, T) => WillBeTold(r, t, T)'
    BY <1>7, <2>1 DEF WillBeTold
  <2>4. \A d, T : Complete(d, T) => Complete(d, T)'
    BY <2>2 DEF Complete
  <2>5. QED
    BY <1>2, <1>3, <1>5, <1>7, <2>3, <2>4 DEF ComputedOK
<1>11. raced' \subseteq RatingIds /\ elapsed' \subseteq Rows(rating)
  BY <1>8 DEF RatingsInv, RatingsTypeOK
<1>12. submission[r].at # "idle"
  BY <1>1, <1>2
<1>13. QED
  BY <1>7, <1>8, <1>9, <1>10, <1>11, <1>12, QuietSubmission

LEMMA WriteAggregateKeeps ==
  ASSUME RatingsInv, NEW r \in RatingIds, writeAggregate(r)
  PROVE  RatingsInv'
<1>1. PICK s : s = submission[r]
  OBVIOUS
<1>2. /\ s \in SubmissionRow /\ s.at \in {"read", "readOther"}
      /\ SubmissionOK(r, s) /\ ComputedOK(r, s)
  BY <1>1 DEF writeAggregate, RatingsInv, RatingsTypeOK, SubmissionRow
<1>3. PICK at, dir :
        /\ submission' = [submission EXCEPT ![r].at = at, ![r].write[dir] = submission[r].read]
        /\ \/ s.at = "read" /\ at = "wrote" /\ dir = direction(r)
           \/ s.at = "readOther" /\ at = "done" /\ dir = opposite(direction(r))
  BY <1>1 DEF writeAggregate
<1>4. /\ dir \in DIRECTIONS /\ direction(r) \in DIRECTIONS
      /\ direction(r) # opposite(direction(r))
  BY <1>3, Partners
<1>5. PICK w : w = [s.write EXCEPT ![dir] = s.read]
  OBVIOUS
<1>6. /\ w \in [DIRECTIONS -> OrAbsent(SUBSET RatingIds)] /\ w[dir] = s.read
      /\ \A d \in DIRECTIONS : d # dir => w[d] = s.write[d]
      /\ s.read \in SUBSET RatingIds /\ s.read # Absent
  BY <1>2, <1>4, <1>5, AbsentIsNoRating DEF SubmissionRow, OrAbsent
<1>7. PICK t : t = [s EXCEPT !.at = at, !.write = w]
  OBVIOUS
<1>8. /\ t \in SubmissionRow /\ t.at = at /\ t.pair = s.pair
      /\ t.read = s.read /\ t.write = w
  BY <1>2, <1>3, <1>6, <1>7 DEF SubmissionRow, SUBMIT_STEPS
<1>9. /\ submission' = [submission EXCEPT ![r] = t]
      /\ rating' = rating /\ aggregate' = aggregate /\ elapsed' = elapsed /\ raced' = raced
  BY <1>1, <1>2, <1>3, <1>5, <1>7 DEF writeAggregate, RatingsInv, RatingsTypeOK, SubmissionRow
<1>10. SubmissionOK(r, t)'
  BY <1>2, <1>3, <1>4, <1>6, <1>8, <1>9 DEF SubmissionOK
<1>11. ComputedOK(r, t)'
  <2>1. \A x : Told(x) => Told(x)'
    BY <1>9 DEF Told, Shown
  <2>2. \A x \in RatingIds : Settled(x)' => Settled(x)
    BY <1>9 DEF Settled
  <2>3. \A T : WillBeTold(r, s, T) => WillBeTold(r, t, T)'
    BY <1>8, <2>1 DEF WillBeTold
  <2>4. \A d, T : Complete(d, T) => Complete(d, T)'
    BY <2>2 DEF Complete
  <2>5. WillBeTold(r, s, s.read) /\ Complete(dir, s.read)
    BY <1>2, <1>3 DEF ComputedOK
  <2>6. \A d \in DIRECTIONS : w[d] # Absent => WillBeTold(r, s, w[d]) /\ Complete(d, w[d])
    BY <1>2, <1>6, <2>5 DEF ComputedOK
  <2>7. QED
    BY <1>3, <1>8, <2>3, <2>4, <2>5, <2>6 DEF ComputedOK
<1>12. raced' \subseteq RatingIds /\ elapsed' \subseteq Rows(rating)
  BY <1>9 DEF RatingsInv, RatingsTypeOK
<1>13. submission[r].at # "idle"
  BY <1>1, <1>2
<1>14. QED
  BY <1>8, <1>9, <1>10, <1>11, <1>12, <1>13, QuietSubmission

LEMMA ForgottenKeeps ==
  ASSUME RatingsInv, NEW r \in RatingIds, rollbackRating(r) \/ windowElapses(r)
  PROVE  RatingsInv'
<1>1. PICK s : s = IF rollbackRating(r) THEN NoSubmission ELSE submission[r]
  OBVIOUS
<1>2. NoSubmission \in SubmissionRow
  BY DEF NoSubmission, SubmissionRow, SUBMIT_STEPS, OrAbsent
<1>3. /\ s \in SubmissionRow /\ submission' = [submission EXCEPT ![r] = s]
      /\ rating' = rating /\ aggregate' = aggregate /\ raced' = raced
      /\ elapsed \subseteq elapsed' /\ elapsed' \subseteq Rows(rating)
      /\ raced' \subseteq RatingIds
  BY <1>1, <1>2 DEF rollbackRating, windowElapses, RatingsInv, RatingsTypeOK, SubmissionRow
<1>4. SubmissionOK(r, s) /\ ComputedOK(r, s) /\ (s.at = "idle" \/ submission[r].at # "idle")
  <2>1. SubmissionOK(r, NoSubmission) /\ ComputedOK(r, NoSubmission) /\ NoSubmission.at = "idle"
    BY DEF NoSubmission, SubmissionOK, ComputedOK, WillBeTold
  <2>2. QED
    BY <1>1, <2>1 DEF RatingsInv
<1>5. SubmissionOK(r, s)'
  BY <1>3, <1>4 DEF SubmissionOK
<1>6. ComputedOK(r, s)'
  <2>1. \A x : Told(x) => Told(x)'
    BY <1>3 DEF Told, Shown
  <2>2. \A x \in RatingIds : Settled(x)' => Settled(x)
    BY <1>3 DEF Settled
  <2>3. \A T : WillBeTold(r, s, T) => WillBeTold(r, s, T)'
    BY <2>1 DEF WillBeTold
  <2>4. \A d, T : Complete(d, T) => Complete(d, T)'
    BY <2>2 DEF Complete
  <2>5. QED
    BY <1>4, <2>3, <2>4 DEF ComputedOK
<1>7. QED
  BY <1>3, <1>4, <1>5, <1>6, QuietSubmission

\* The commit.  A transaction that overlaps with it is marked; one that does
\* not has found the other rating, or comes first.
LEMMA CommitKeeps ==
  ASSUME RatingsInv, NEW r \in RatingIds, commitRating(r)
  PROVE  RatingsInv'
<1> USE DEF RatingsInv
<1>1. PICK s, p, back : s = submission[r] /\ p = partner(r) /\ back = opposite(direction(r))
  OBVIOUS
<1>2. /\ s \in SubmissionRow /\ s.at \in {"wrote", "done"} /\ (s.pair <=> s.at = "done")
      /\ SubmissionOK(r, s) /\ ComputedOK(r, s)
  BY <1>1 DEF commitRating, RatingsTypeOK, SubmissionRow, SubmissionOK
<1>3. /\ rating' = [x \in RatingIds |-> IF s.pair /\ x \in {r, p} THEN "VISIBLE"
                                        ELSE IF x = r THEN "HIDDEN" ELSE rating[x]]
      /\ aggregate' = [d \in DIRECTIONS |->
                          IF s.write[d] = Absent THEN aggregate[d] ELSE s.write[d]]
      /\ submission' = [submission EXCEPT ![r] = NoSubmission]
      /\ elapsed' = elapsed /\ raced' = raced
  BY <1>1 DEF commitRating
<1>4. /\ p \in RatingIds /\ p # r /\ partner(p) = r
      /\ direction(r) \in DIRECTIONS /\ back \in DIRECTIONS /\ back # direction(r)
      /\ direction(p) = back
  BY <1>1, Partners
<1>5. rating[r] = Absent /\ r \notin elapsed /\ (s.pair => rating[p] # Absent)
  BY <1>1, <1>2 DEF SubmissionOK, RatingsTypeOK, Rows
<1>6. /\ \A x \in RatingIds : rating'[x] # Absent <=> x = r \/ rating[x] # Absent
      /\ \A x \in RatingIds : x # r /\ x # p => rating'[x] = rating[x]
      /\ ~s.pair => rating'[p] = rating[p]
      /\ s.pair => rating'[r] = "VISIBLE" /\ rating'[p] = "VISIBLE"
      /\ ~s.pair => rating'[r] = "HIDDEN"
  BY <1>3, <1>4, <1>5, AbsentIsNoRating
<1>7. NoSubmission \in SubmissionRow /\ NoSubmission.at = "idle"
  BY DEF NoSubmission, SubmissionRow, SUBMIT_STEPS, OrAbsent
<1>8. /\ \A q \in RatingIds : q # r => submission'[q] = submission[q]
      /\ submission'[r] = NoSubmission
  BY <1>3 DEF RatingsTypeOK
<1>9. RatingsTypeOK'
  <2>1. submission' \in [RatingIds -> SubmissionRow]
    BY <1>3, <1>7 DEF RatingsTypeOK, SubmissionRow
  <2>2. rating' \in [RatingIds -> {Absent, "HIDDEN", "VISIBLE"}]
    BY <1>3 DEF RatingsTypeOK
  <2>3. aggregate' \in [DIRECTIONS -> SUBSET RatingIds]
    BY <1>2, <1>3 DEF RatingsTypeOK, SubmissionRow, OrAbsent
  <2>4. elapsed' \subseteq Rows(rating)'
    BY <1>3, <1>6, <2>2 DEF RatingsTypeOK, Rows
  <2>5. QED
    BY <1>3, <2>1, <2>2, <2>3, <2>4 DEF RatingsTypeOK, SubmissionRow
<1>10. \A x \in RatingIds : Told(x) => Told(x)'
  <2> SUFFICES ASSUME NEW x \in RatingIds, Told(x) PROVE Told(x)'
    OBVIOUS
  <2>1. x # r
    BY <1>5 DEF Told
  <2>2. rating[x] = "VISIBLE" => rating'[x] = "VISIBLE"
    BY <1>6, <2>1
  <2>3. QED
    BY <1>3, <1>6, <2>2 DEF Told, Shown
<1>11. s.pair => Told(r)' /\ Told(p)'
  BY <1>4, <1>6 DEF Told, Shown
<1>12. ASSUME NEW x \in RatingIds, x # r, x # p, Settled(x)' PROVE Settled(x)
  <2>1. partner(x) \in RatingIds /\ partner(partner(x)) = x
    BY Partners
  <2>2. partner(x) # r
    BY <1>1, <1>12, <2>1
  <2>3. QED
    BY <1>3, <1>6, <1>12, <2>1, <2>2 DEF Settled
<1>13. ASSUME NEW q \in RatingIds, q # r, submission[q].at # "idle"
       PROVE  /\ q \in raced /\ r \in raced
              /\ \A x \in RatingIds : Settled(x)' => Settled(x)
  <2>1. q \in raced /\ r \in raced
    BY <1>1, <1>2, <1>13 DEF OverlapRaces
  <2>2. ASSUME NEW x \in RatingIds, Settled(x)' PROVE Settled(x)
    <3>1. x # r /\ x # p
      BY <1>3, <1>4, <2>1, <2>2 DEF Settled
    <3>2. QED
      BY <1>12, <2>2, <3>1
  <2>3. QED
    BY <2>1, <2>2
<1>14. ASSUME NEW q \in RatingIds
       PROVE  (SubmissionOK(q, submission[q]) /\ ComputedOK(q, submission[q]))'
  <2>1. CASE q = r \/ submission[q].at = "idle"
    <3>1. submission'[q] = NoSubmission
      BY <1>8, <2>1 DEF SubmissionOK
    <3>2. (SubmissionOK(q, NoSubmission) /\ ComputedOK(q, NoSubmission))'
      BY DEF NoSubmission, SubmissionOK, ComputedOK, WillBeTold
    <3>3. QED
      BY <3>1, <3>2 DEF SubmissionOK, ComputedOK, WillBeTold
  <2>2. CASE q # r /\ submission[q].at # "idle"
    <3>1. PICK t : t = submission[q]
      OBVIOUS
    <3>2. SubmissionOK(q, t) /\ ComputedOK(q, t) /\ t \in SubmissionRow
      BY <3>1 DEF RatingsTypeOK, SubmissionRow
    <3>3. /\ q \in raced
          /\ \A x \in RatingIds : Settled(x)' => Settled(x)
      BY <1>13, <2>2
    <3>4. rating'[q] = Absent
      BY <1>5, <1>6, <2>2, <3>1, <3>2 DEF SubmissionOK
    <3>5. partner(q) \in RatingIds
      BY Partners
    <3>6. SubmissionOK(q, t)'
      BY <1>3, <1>6, <3>2, <3>3, <3>4, <3>5 DEF SubmissionOK
    <3>7. \A T \in SUBSET RatingIds : WillBeTold(q, t, T) => WillBeTold(q, t, T)'
      BY <1>10 DEF WillBeTold
    <3>8. \A d, T : Complete(d, T) => Complete(d, T)'
      BY <3>3 DEF Complete
    <3>9. /\ t.read \in SUBSET RatingIds
          /\ \A d \in DIRECTIONS : t.write[d] # Absent => t.write[d] \in SUBSET RatingIds
      BY <3>2 DEF SubmissionRow, OrAbsent
    <3>10. ComputedOK(q, t)'
      BY <3>2, <3>7, <3>8, <3>9 DEF ComputedOK
    <3>11. submission'[q] = t
      BY <1>8, <2>2, <3>1
    <3>12. QED
      BY <3>6, <3>10, <3>11 DEF SubmissionOK, ComputedOK, WillBeTold
  <2>3. QED
    BY <2>1, <2>2
<1>15. OverlapRaces'
  BY <1>3, <1>7, <1>8 DEF OverlapRaces
<1>16. ShownTogether'
  <2> SUFFICES ASSUME NEW x \in RatingIds, rating'[x] = "VISIBLE"
               PROVE  rating'[partner(x)] = "VISIBLE"
    BY DEF ShownTogether
  <2>1. CASE x = r \/ x = p
    <3>1. s.pair
      <4>1. CASE x = r
        BY <1>6, <2>1, <4>1
      <4>2. CASE x = p /\ ~s.pair
        <5>1. rating[p] = "VISIBLE"
          BY <1>6, <4>2
        <5>2. rating[r] = "VISIBLE"
          BY <1>4, <5>1 DEF ShownTogether
        <5>3. QED
          BY <1>5, <5>2, AbsentIsNoRating
      <4>3. QED
        BY <2>1, <4>1, <4>2
    <3>2. QED
      BY <1>1, <1>4, <1>6, <2>1, <3>1
  <2>2. CASE x # r /\ x # p
    <3>1. partner(x) \in RatingIds /\ partner(partner(x)) = x
      BY Partners
    <3>2. partner(x) # r /\ partner(x) # p
      BY <1>1, <1>4, <2>2, <3>1
    <3>3. QED
      BY <1>6, <2>2, <3>1, <3>2 DEF ShownTogether
  <2>3. QED
    BY <2>1, <2>2
<1>17. SettledShown'
  <2> SUFFICES ASSUME NEW x \in RatingIds, Settled(x)'
               PROVE  rating'[x] = "VISIBLE" /\ x \in aggregate'[direction(x)]
    BY DEF SettledShown
  <2>1. CASE x = r \/ x = p
    <3>1. r \notin raced /\ rating'[p] # Absent
      BY <1>1, <1>3, <1>4, <2>1 DEF Settled
    <3>2. s.pair
      BY <1>1, <1>2, <1>4, <1>6, <3>1 DEF SubmissionOK
    <3>3. /\ s.write[direction(r)] # Absent /\ r \in s.write[direction(r)]
          /\ s.write[back] # Absent /\ p \in s.write[back]
      BY <1>1, <1>2, <3>2 DEF SubmissionOK
    <3>4. r \in aggregate'[direction(r)] /\ p \in aggregate'[direction(p)]
      BY <1>3, <1>4, <3>3
    <3>5. QED
      BY <1>6, <2>1, <3>2, <3>4
  <2>2. CASE x # r /\ x # p
    <3>1. Settled(x) /\ direction(x) \in DIRECTIONS
      BY <1>12, <2>2, Partners
    <3>2. rating[x] = "VISIBLE" /\ x \in aggregate[direction(x)]
      BY <3>1 DEF SettledShown
    <3>3. s.write[direction(x)] # Absent => x \in s.write[direction(x)]
      BY <1>2, <3>1 DEF ComputedOK, Complete
    <3>4. QED
      BY <1>3, <1>6, <2>2, <3>1, <3>2, <3>3
  <2>3. QED
    BY <2>1, <2>2
<1>18. CountedTold'
  <2> SUFFICES ASSUME NEW d \in DIRECTIONS, NEW x \in aggregate'[d] PROVE Told(x)'
    BY DEF CountedTold
  <2>1. x \in RatingIds
    BY <1>9 DEF RatingsTypeOK
  <2>2. CASE s.write[d] = Absent
    BY <1>3, <1>10, <2>1, <2>2 DEF CountedTold
  <2>3. CASE s.write[d] # Absent
    <3>1. Told(x) \/ (s.pair /\ x \in {r, p})
      BY <1>1, <1>2, <1>3, <2>3 DEF ComputedOK, WillBeTold
    <3>2. QED
      BY <1>10, <1>11, <2>1, <3>1
  <2>4. QED
    BY <2>2, <2>3
<1>19. QED
  BY <1>9, <1>14, <1>15, <1>16, <1>17, <1>18

\* Every step of every submission, however they overlap, keeps what is known
\* of the open transactions, of the rows and of the aggregates.
THEOREM RatingsInvariance == RatingsSpec => []RatingsInv
<1>1. RatingsInit => RatingsInv
  <2> SUFFICES ASSUME RatingsInit PROVE RatingsInv
    OBVIOUS
  <2>1. NoSubmission \in SubmissionRow /\ NoSubmission.at = "idle"
    BY DEF NoSubmission, SubmissionRow, SUBMIT_STEPS, OrAbsent
  <2>2. RatingsTypeOK
    BY <2>1 DEF RatingsInit, RatingsTypeOK, Rows, SubmissionRow
  <2>3. ASSUME NEW r \in RatingIds
        PROVE  SubmissionOK(r, submission[r]) /\ ComputedOK(r, submission[r])
    <3>1. SubmissionOK(r, NoSubmission) /\ ComputedOK(r, NoSubmission)
      BY DEF NoSubmission, SubmissionOK, ComputedOK, WillBeTold
    <3>2. QED
      BY <3>1 DEF RatingsInit
  <2>4. OverlapRaces
    BY <2>1 DEF RatingsInit, OverlapRaces
  <2>5. ShownTogether /\ SettledShown /\ CountedTold
    BY AbsentIsNoRating DEF RatingsInit, ShownTogether, SettledShown, CountedTold, Settled
  <2>6. QED
    BY <2>2, <2>3, <2>4, <2>5 DEF RatingsInv
<1>2. RatingsInv /\ [RatingsNext]_ratingsVars => RatingsInv'
  <2> SUFFICES ASSUME RatingsInv, [RatingsNext]_ratingsVars PROVE RatingsInv'
    OBVIOUS
  <2>1. CASE UNCHANGED ratingsVars
    BY <2>1 DEF ratingsVars, RatingsInv, RatingsTypeOK, SubmissionOK, ComputedOK, WillBeTold,
       Complete, Settled, Told, Shown, OverlapRaces, ShownTogether, SettledShown, CountedTold, Rows
  <2>2. CASE RatingsNext
    <3>1. PICK r \in RatingIds :
            \/ insertRating(r) \/ lookForPair(r) \/ readRatings(r) \/ writeAggregate(r)
            \/ commitRating(r) \/ rollbackRating(r) \/ windowElapses(r)
      BY <2>2 DEF RatingsNext
    <3>2. QED
      BY <3>1, InsertRatingKeeps, LookForPairKeeps, ReadRatingsKeeps, WriteAggregateKeeps,
         CommitKeeps, ForgottenKeeps
  <2>3. QED
    BY <2>1, <2>2
<1>3. QED
  BY <1>1, <1>2, PTL DEF RatingsSpec

\* For any number of assignments and of submissions at once: no rating, and no
\* average, is shown before the other rating is there or the window is over;
\* and what two submissions that ran alone have given is shown and counted.
THEOREM Blind == RatingsSpec => []DoubleBlind
<1>1. RatingsInv => DoubleBlind
  <2> SUFFICES ASSUME RatingsInv PROVE BlindUntilBoth /\ MissedOnlyByOverlap
    BY DEF DoubleBlind
  <2>1. \A r \in RatingIds : partner(r) \in RatingIds
    BY Partners
  <2>2. Rows(rating) = {x \in RatingIds : rating[x] # Absent}
    BY DEF RatingsInv, RatingsTypeOK, Rows
  <2>3. BlindUntilBoth
    BY <2>1, <2>2, AbsentIsNoRating DEF RatingsInv, BlindUntilBoth, ShownTogether, Shown, CountedTold, Told
  <2>4. MissedOnlyByOverlap
    BY <2>1, <2>2 DEF RatingsInv, MissedOnlyByOverlap, SettledShown, Settled
  <2>5. QED
    BY <2>3, <2>4
<1>2. QED
  BY <1>1, RatingsInvariance, PTL
-----------------------------------------------------------------------------
(* The money of one job (Money) *)

\* The partial sums of a function that is c everywhere.
LEMMA SumsExist ==
  ASSUME NEW f, IsFiniteSet(DOMAIN f), NEW c \in Int, \A w \in DOMAIN f : f[w] = c
  PROVE  \E g : g = [s \in SUBSET DOMAIN f |-> IF s = {} THEN 0
                       ELSE f[CHOOSE x \in s : TRUE] + g[s \ {CHOOSE x \in s : TRUE}]]
<1>1. PICK g : g = [s \in SUBSET DOMAIN f |-> c * Cardinality(s)]
  OBVIOUS
<1>2. ASSUME NEW s \in SUBSET DOMAIN f, s # {}
      PROVE  g[s] = f[CHOOSE x \in s : TRUE] + g[s \ {CHOOSE x \in s : TRUE}]
  <2>1. PICK x : x = CHOOSE y \in s : TRUE
    OBVIOUS
  <2>2. x \in s
    BY <1>2, <2>1
  <2>3. IsFiniteSet(s) /\ s \ {x} \in SUBSET DOMAIN f
    BY FS_Subset
  <2>4. Cardinality(s \ {x}) = Cardinality(s) - 1 /\ Cardinality(s) \in Nat
    BY <2>2, <2>3, FS_RemoveElement, FS_CardinalityType
  <2>5. g[s] = c * Cardinality(s) /\ g[s \ {x}] = c * (Cardinality(s) - 1)
    BY <1>1, <2>3, <2>4
  <2>6. g[s] = c + g[s \ {x}]
    BY <2>4, <2>5
  <2>7. QED
    BY <2>1, <2>2, <2>6
<1>3. g[{}] = 0
  BY <1>1, FS_EmptySet
<1>4. \A s \in SUBSET DOMAIN f : g[s] = IF s = {} THEN 0
                       ELSE f[CHOOSE x \in s : TRUE] + g[s \ {CHOOSE x \in s : TRUE}]
  BY <1>2, <1>3
<1>5. g = [s \in SUBSET DOMAIN f |-> IF s = {} THEN 0
                       ELSE f[CHOOSE x \in s : TRUE] + g[s \ {CHOOSE x \in s : TRUE}]]
  BY <1>1, <1>4
<1>6. QED
  BY <1>5

LEMMA SumIsFold ==
  ASSUME NEW f
  PROVE  SumFunction(f) =
           (CHOOSE g : g = [s \in SUBSET DOMAIN f |-> IF s = {} THEN 0
                       ELSE f[CHOOSE x \in s : TRUE] + g[s \ {CHOOSE x \in s : TRUE}]])[DOMAIN f]
BY DEF SumFunction, SumFunctionOnSet, FoldFunctionOnSet, MapThenFoldSet

LEMMA SumUnfolds ==
  ASSUME NEW f, \E g : g = [s \in SUBSET DOMAIN f |-> IF s = {} THEN 0
                       ELSE f[CHOOSE x \in s : TRUE] + g[s \ {CHOOSE x \in s : TRUE}]]
  PROVE  \E g : /\ g = [s \in SUBSET DOMAIN f |-> IF s = {} THEN 0
                       ELSE f[CHOOSE x \in s : TRUE] + g[s \ {CHOOSE x \in s : TRUE}]]
                /\ SumFunction(f) = g[DOMAIN f]
<1>1. PICK g : g = CHOOSE h : h = [s \in SUBSET DOMAIN f |-> IF s = {} THEN 0
                       ELSE f[CHOOSE x \in s : TRUE] + h[s \ {CHOOSE x \in s : TRUE}]]
  OBVIOUS
<1>2. g = [s \in SUBSET DOMAIN f |-> IF s = {} THEN 0
                       ELSE f[CHOOSE x \in s : TRUE] + g[s \ {CHOOSE x \in s : TRUE}]]
  BY <1>1
<1>3. SumFunction(f) = g[DOMAIN f]
  BY <1>1, SumIsFold
<1>4. QED
  BY <1>2, <1>3

\* Whatever function the partial sums are, a constant is summed up as often as
\* there are elements: a smallest set where it is not would have a smaller one.
LEMMA SumsSolved ==
  ASSUME NEW f, IsFiniteSet(DOMAIN f), NEW c \in Int, \A w \in DOMAIN f : f[w] = c, NEW g,
         g = [s \in SUBSET DOMAIN f |-> IF s = {} THEN 0
                ELSE f[CHOOSE x \in s : TRUE] + g[s \ {CHOOSE x \in s : TRUE}]]
  PROVE  g[DOMAIN f] = c * Cardinality(DOMAIN f)
<1> DEFINE T == {s \in SUBSET DOMAIN f : g[s] # c * Cardinality(s)}
<1>1. SUFFICES ASSUME T # {} PROVE FALSE
  OBVIOUS
<1>2. IsWellFoundedOn(StrictSubsetOrdering(DOMAIN f), SUBSET DOMAIN f)
  BY FS_StrictSubsetOrderingWellFounded, FS_FiniteSubsetsOfFinite
<1>3. PICK s \in T : \A y \in T : ~(<<y, s>> \in StrictSubsetOrdering(DOMAIN f))
  <2>1. T \subseteq SUBSET DOMAIN f
    OBVIOUS
  <2> HIDE DEF T
  <2>2. QED
    BY <1>1, <1>2, <2>1, WFMin
<1>4. g[{}] = 0
  OBVIOUS
<1>5. s # {}
  <2>1. c * Cardinality({}) = 0
    BY FS_EmptySet
  <2>2. QED
    BY <1>4, <2>1
<1>6. PICK x : x = CHOOSE y \in s : TRUE
  OBVIOUS
<1>7. x \in s /\ x \in DOMAIN f
  BY <1>5, <1>6
<1>8. IsFiniteSet(s) /\ s \in SUBSET DOMAIN f /\ s \ {x} \in SUBSET DOMAIN f
  BY FS_Subset
<1>9. Cardinality(s \ {x}) = Cardinality(s) - 1 /\ Cardinality(s) \in Nat
  BY <1>7, <1>8, FS_RemoveElement, FS_CardinalityType
<1>10. <<s \ {x}, s>> \in StrictSubsetOrdering(DOMAIN f)
  BY <1>7, <1>8 DEF StrictSubsetOrdering
<1>11. g[s \ {x}] = c * Cardinality(s \ {x})
  BY <1>3, <1>8, <1>10
<1>12. g[s] = c + g[s \ {x}]
  BY <1>5, <1>6, <1>7, <1>8
<1>13. g[s] = c * Cardinality(s)
  BY <1>9, <1>11, <1>12
<1>14. QED
  BY <1>13

\* A sum over a function that is the same everywhere.
LEMMA SumConstant ==
  ASSUME NEW f, IsFiniteSet(DOMAIN f), NEW c \in Int, \A w \in DOMAIN f : f[w] = c
  PROVE  SumFunction(f) = c * Cardinality(DOMAIN f)
<1>1. PICK g : /\ g = [s \in SUBSET DOMAIN f |-> IF s = {} THEN 0
                       ELSE f[CHOOSE x \in s : TRUE] + g[s \ {CHOOSE x \in s : TRUE}]]
               /\ SumFunction(f) = g[DOMAIN f]
  BY SumsExist, SumUnfolds
<1>2. g[DOMAIN f] = c * Cardinality(DOMAIN f)
  BY <1>1, SumsSolved
<1>3. QED
  BY <1>1, <1>2

\* A rounded quotient by each of the divisors in use, and its bounds.
LEMMA RoundedParts ==
  ASSUME NEW a \in Int
  PROVE  /\ rounded(a, 10000) \in Int /\ rounded(a, 60) \in Int /\ rounded(a, 4) \in Int
         /\ 20000 * rounded(a, 10000) <= 2 * a + 10000
         /\ 2 * a + 10000 < 20000 * rounded(a, 10000) + 20000
         /\ a >= 0 => rounded(a, 10000) \in Nat /\ rounded(a, 60) \in Nat /\ rounded(a, 4) \in 0..a
         /\ rounded(a * 10000, 10000) = a
BY DEF rounded

\* What a worker earns.
LEMMA GrossRange ==
  ASSUME NEW t \in PayTerms
  PROVE  grossPerWorker(t) \in Nat
<1>1. PICK a : a = t.pay_cents * t.minutes
  OBVIOUS
<1>2. a \in Nat /\ t.pay_cents \in Nat
  BY <1>1, MoneyAssumption
<1>3. rounded(a, 60) \in Nat
  BY <1>2, RoundedParts
<1>4. QED
  BY <1>1, <1>2, <1>3 DEF grossPerWorker

\* What a row of platform_fees holds.
LEMMA RowRange ==
  ASSUME NEW row \in OrAbsent(FeeRows), row # Absent
  PROVE  row.percent_bps \in Nat /\ row.fixed_cents \in Nat
<1>1. row \in FeeRows
  BY DEF OrAbsent
<1>2. PICK p : p = row.percent_bps
  OBVIOUS
<1>3. p \in 0..10000 /\ row.fixed_cents \in Nat
  BY <1>1, <1>2, MoneyAssumption
<1>4. p \in Nat
  BY <1>3
<1>5. QED
  BY <1>2, <1>3, <1>4

\* The fee is never more than what it is taken from.
LEMMA FeeRange ==
  ASSUME NEW gross \in Nat, NEW row \in OrAbsent(FeeRows)
  PROVE  computeFee(gross, row) \in 0..gross
<1>1. CASE row = Absent
  BY <1>1 DEF computeFee
<1>2. CASE row # Absent
  <2>1. row.percent_bps \in Nat /\ row.fixed_cents \in Nat
    BY <1>2, RowRange
  <2>2. PICK a : a = gross * row.percent_bps
    OBVIOUS
  <2>3. a \in Nat
    BY <2>1, <2>2
  <2>4. rounded(a, 10000) \in Nat
    BY <2>3, RoundedParts
  <2>5. QED
    BY <1>2, <2>1, <2>2, <2>4 DEF computeFee, AtMost
<1>3. QED
  BY <1>1, <1>2

\* Rounded for the crew as a whole or for each of them: a cent each at most.
LEMMA RoundedCrew ==
  ASSUME NEW n \in Nat \ {0}, NEW a \in Nat
  PROVE  rounded(n * a, 10000) <= n * rounded(a, 10000) + n
<1>1. PICK y : y = n * a
  OBVIOUS
<1>2. PICK r : r = rounded(a, 10000)
  OBVIOUS
<1>3. PICK m : m = n * r
  OBVIOUS
<1>4. r \in Int /\ 2 * a + 10000 < 20000 * r + 20000
  BY <1>2, RoundedParts
<1>5. y \in Int /\ m \in Int
  BY <1>1, <1>3, <1>4
<1>6. 2 * y + 10000 * n < 20000 * m + 20000 * n
  <2>1. PICK d : d = 20000 * r + 20000 - (2 * a + 10000)
    OBVIOUS
  <2>2. d \in Nat \ {0}
    BY <1>4, <2>1
  <2>3. n * d \in Nat \ {0}
    BY <2>2
  <2>4. n * d = 20000 * m + 20000 * n - (2 * y + 10000 * n)
    BY <1>1, <1>3, <1>4, <2>1
  <2>5. QED
    BY <1>5, <2>3, <2>4
<1>7. rounded(y, 10000) \in Int /\ 20000 * rounded(y, 10000) <= 2 * y + 10000
  BY <1>5, RoundedParts
<1>8. rounded(y, 10000) <= m + n
  BY <1>5, <1>6, <1>7
<1>9. QED
  BY <1>1, <1>2, <1>3, <1>8

\* The fee of a charge for n workers and the fees of each of them.
LEMMA FeeOfCrew ==
  ASSUME NEW n \in Nat \ {0}, NEW g \in Nat, NEW row \in OrAbsent(FeeRows)
  PROVE  computeFee(g * n, row) <= computeFee(g, row) * n + n
<1>1. CASE row = Absent
  BY <1>1 DEF computeFee
<1>2. CASE row # Absent
  <2>1. PICK p, c : p = row.percent_bps /\ c = row.fixed_cents
    OBVIOUS
  <2>2. p \in Nat /\ c \in Nat
    BY <1>2, <2>1, RowRange
  <2>3. PICK a : a = g * p
    OBVIOUS
  <2>4. a \in Nat /\ (g * n) * p = n * a
    BY <2>2, <2>3
  <2>5. PICK r, R : r = rounded(a, 10000) /\ R = rounded(n * a, 10000)
    OBVIOUS
  <2>6. r \in Nat /\ R <= n * r + n
    BY <2>4, <2>5, RoundedParts, RoundedCrew
  <2>7. R \in Int
    <3>1. n * a \in Int
      BY <2>4
    <3>2. QED
      BY <2>5, <3>1, RoundedParts
  <2>8. computeFee(g * n, row) = AtMost(R + c, g * n)
    BY <1>2, <2>1, <2>4, <2>5 DEF computeFee
  <2>9. computeFee(g, row) = AtMost(r + c, g)
    BY <1>2, <2>1, <2>3, <2>5 DEF computeFee
  <2>10. CASE r + c <= g
    <3>1. computeFee(g, row) * n = n * r + n * c
      BY <2>2, <2>6, <2>9, <2>10 DEF AtMost
    <3>2. c <= n * c
      BY <2>2
    <3>3. computeFee(g * n, row) <= R + c
      BY <2>2, <2>7, <2>8 DEF AtMost
    <3>4. PICK x, y, z : x = n * r /\ y = n * c /\ z = computeFee(g * n, row)
      OBVIOUS
    <3>5. x \in Int /\ y \in Int /\ z \in Int
      BY <2>2, <2>6, <2>7, <2>8, <3>4 DEF AtMost
    <3>6. QED
      BY <2>2, <2>6, <2>7, <3>1, <3>2, <3>3, <3>4, <3>5
  <2>11. CASE ~(r + c <= g)
    <3>1. computeFee(g, row) = g
      BY <2>9, <2>11 DEF AtMost
    <3>2. computeFee(g * n, row) <= g * n
      BY <2>2, <2>7, <2>8 DEF AtMost
    <3>3. computeFee(g * n, row) \in Int
      BY <2>2, <2>7, <2>8 DEF AtMost
    <3>4. QED
      BY <3>1, <3>2, <3>3
  <2>12. QED
    BY <2>10, <2>11
<1>3. QED
  BY <1>1, <1>2

-----------------------------------------------------------------------------
\* What is booked until the job is released or cancelled: the charge covers
\* those who earn, at the pay and the fee of its moment.
Billed ==
  bill # Absent =>
    /\ bill.crew # {}
    /\ Rows(earnings) \subseteq bill.crew
    /\ ~repriced =>
         /\ bill.cents = grossPerWorker(pay) * Cardinality(bill.crew)
         /\ \A w \in Rows(earnings) : earnings[w] = grossPerWorker(pay)
         /\ ~feeMoved => bill.fee = computeFee(bill.cents, feeInForce)

Unbilled == bill = Absent => fate = "open" /\ Rows(earnings) = {}

Unsent == fate = "open" => Rows(sent) = {} /\ returned = 0

MoneyInv == MoneyTypeOK /\ Billed /\ Unbilled /\ Unsent /\ ChargeDividedUp

\* The sums over what was sent, where everyone was sent the same.
LEMMA SentSums ==
  ASSUME NEW s, IsFiniteSet(Rows(s)), NEW c \in Int, NEW d \in Int,
         \A w \in Rows(s) : s[w].cents = c /\ s[w].fee = d
  PROVE  /\ SumFunction([w \in Rows(s) |-> s[w].cents]) = c * Cardinality(Rows(s))
         /\ SumFunction([w \in Rows(s) |-> s[w].fee]) = d * Cardinality(Rows(s))
<1>1. PICK f : f = [w \in Rows(s) |-> s[w].cents]
  OBVIOUS
<1>2. PICK h : h = [w \in Rows(s) |-> s[w].fee]
  OBVIOUS
<1>3. DOMAIN f = Rows(s) /\ DOMAIN h = Rows(s)
  BY <1>1, <1>2
<1>4. (\A w \in Rows(s) : f[w] = c) /\ (\A w \in Rows(s) : h[w] = d)
  BY <1>1, <1>2
<1>5. SumFunction(f) = c * Cardinality(Rows(s))
  BY <1>3, <1>4, SumConstant
<1>6. SumFunction(h) = d * Cardinality(Rows(s))
  BY <1>3, <1>4, SumConstant
<1>7. QED
  BY <1>1, <1>2, <1>5, <1>6

\* The charge, once there is one.
LEMMA BillRange ==
  ASSUME MoneyTypeOK, Billed, bill # Absent
  PROVE  /\ bill.cents \in Nat /\ bill.fee \in Nat /\ bill.crew \subseteq Crew
         /\ IsFiniteSet(bill.crew) /\ Cardinality(bill.crew) \in Nat \ {0}
         /\ grossPerWorker(pay) \in Nat
<1>1. bill.cents \in Nat /\ bill.fee \in Nat /\ bill.crew \in SUBSET Crew
  BY DEF MoneyTypeOK, OrAbsent
<1>2. IsFiniteSet(bill.crew)
  BY <1>1, FS_Subset, MoneyAssumption
<1>3. Cardinality(bill.crew) \in Nat \ {0}
  BY <1>2, FS_CardinalityType, FS_EmptySet DEF Billed
<1>4. grossPerWorker(pay) \in Nat
  BY GrossRange DEF MoneyTypeOK
<1>5. QED
  BY <1>1, <1>2, <1>3, <1>4

\* A release divides the charge.
LEMMA ReleaseDivides ==
  ASSUME MoneyInv, releasePayouts
  PROVE  ChargeDividedUp' /\ sent' \in [Crew -> OrAbsent([cents : Nat, fee : Nat])]
<1> USE DEF MoneyInv
<1>1. bill # Absent /\ bill' = bill /\ returned' = 0 /\ fate' = "released"
      /\ repriced' = repriced /\ feeMoved' = feeMoved
  BY DEF releasePayouts, Unbilled, Unsent
<1>2. /\ bill.cents \in Nat /\ bill.fee \in Nat /\ bill.crew \subseteq Crew
      /\ IsFiniteSet(bill.crew) /\ Cardinality(bill.crew) \in Nat \ {0}
      /\ grossPerWorker(pay) \in Nat
  BY <1>1, BillRange
<1>3. ASSUME NEW w \in Payable
      PROVE  /\ w \in Crew /\ w \in bill.crew /\ earnings[w] \in Nat
             /\ net(w) \in Nat /\ net(w) > 0 /\ earnings[w] - net(w) \in Nat
             /\ earnings[w] - net(w) = computeFee(earnings[w], feeInForce)
  <2>1. w \in Crew /\ earnings[w] \in Nat /\ w \in Rows(earnings)
    BY <1>3 DEF Payable, Rows, MoneyTypeOK, OrAbsent
  <2>2. w \in bill.crew
    BY <1>1, <2>1 DEF Billed
  <2>3. feeInForce \in OrAbsent(FeeRows)
    BY DEF MoneyTypeOK
  <2>4. computeFee(earnings[w], feeInForce) \in 0..earnings[w]
    BY <2>1, <2>3, FeeRange
  <2>5. net(w) > 0
    BY <1>3 DEF releasePayouts
  <2>6. QED
    BY <2>1, <2>2, <2>4, <2>5 DEF net
<1>4. sent' = [w \in Crew |-> IF w \notin Payable THEN Absent
                              ELSE [cents |-> net(w), fee |-> earnings[w] - net(w)]]
  BY DEF releasePayouts
<1>5. sent' \in [Crew -> OrAbsent([cents : Nat, fee : Nat])]
  BY <1>3, <1>4 DEF OrAbsent
<1>6. /\ Rows(sent') \subseteq Payable
      /\ \A w \in Rows(sent') : sent'[w].cents = net(w) /\ sent'[w].fee = earnings[w] - net(w)
  <2>1. ASSUME NEW w \in Rows(sent')
        PROVE  /\ w \in Payable
               /\ sent'[w].cents = net(w) /\ sent'[w].fee = earnings[w] - net(w)
    <3>1. w \in Crew /\ sent'[w] # Absent
      BY <1>4, <2>1 DEF Rows
    <3>2. w \in Payable
      BY <1>4, <3>1
    <3>3. sent'[w] = [cents |-> net(w), fee |-> earnings[w] - net(w)]
      BY <1>4, <3>1, <3>2
    <3>4. QED
      BY <3>2, <3>3
  <2>2. QED
    BY <2>1
<1>7. Rows(sent') \subseteq bill.crew
  BY <1>3, <1>6
<1>8. \A w \in Rows(sent') : sent'[w].cents > 0 /\ sent'[w].fee >= 0
  BY <1>3, <1>6
<1>9. IsFiniteSet(Rows(sent')) /\ Cardinality(Rows(sent')) \in Nat
      /\ Cardinality(Rows(sent')) <= Cardinality(bill.crew)
  BY <1>2, <1>7, FS_Subset, FS_CardinalityType
<1>10. ASSUME ~repriced
       PROVE  /\ toWorkers' + withheld' + returned' <= bill.cents
              /\ Rows(sent') = bill.crew =>
                   /\ toWorkers' + withheld' = bill.cents
                   /\ ~feeMoved => bill.fee <= withheld' + Cardinality(bill.crew)
  <2>1. PICK g, n, k, d : /\ g = grossPerWorker(pay) /\ n = Cardinality(bill.crew)
                          /\ k = Cardinality(Rows(sent')) /\ d = computeFee(g, feeInForce)
    OBVIOUS
  <2>2. g \in Nat /\ n \in Nat \ {0} /\ k \in Nat /\ k <= n
    BY <1>2, <1>9, <2>1
  <2>3. feeInForce \in OrAbsent(FeeRows)
    BY DEF MoneyTypeOK
  <2>4. d \in 0..g
    BY <2>1, <2>2, <2>3, FeeRange
  <2>5. \A w \in Rows(earnings) : earnings[w] = g
    BY <1>1, <1>10, <2>1 DEF Billed
  <2>6. \A w \in Rows(sent') : earnings[w] = g
    BY <1>6, <2>5 DEF Payable
  <2>7. \A w \in Rows(sent') : sent'[w].cents = g - d /\ sent'[w].fee = d
    <3>1. ASSUME NEW w \in Rows(sent')
          PROVE  sent'[w].cents = g - d /\ sent'[w].fee = d
      <4>1. sent'[w].cents = net(w) /\ sent'[w].fee = earnings[w] - net(w)
        BY <1>6, <3>1
      <4>2. earnings[w] = g
        BY <2>6, <3>1
      <4>3. net(w) = g - d
        BY <2>1, <4>2 DEF net
      <4>4. QED
        BY <2>2, <2>4, <4>1, <4>2, <4>3
    <3>2. QED
      BY <3>1
  <2>8. toWorkers' = (g - d) * k /\ withheld' = d * k
    <3>1. g - d \in Int /\ d \in Int
      BY <2>2, <2>4
    <3>2. /\ SumFunction([w \in Rows(sent') |-> sent'[w].cents]) = (g - d) * Cardinality(Rows(sent'))
          /\ SumFunction([w \in Rows(sent') |-> sent'[w].fee]) = d * Cardinality(Rows(sent'))
      BY <1>9, <2>7, <3>1, SentSums
    <3>3. QED
      BY <2>1, <3>2 DEF toWorkers, withheld
  <2>9. toWorkers' + withheld' = g * k
    BY <2>2, <2>4, <2>8
  <2>10. bill.cents = g * n
    BY <1>1, <1>10, <2>1 DEF Billed
  <2>11. g * k <= g * n
    <3>1. g * (n - k) \in Nat
      BY <2>2
    <3>2. g * (n - k) = g * n - g * k
      BY <2>2
    <3>3. g * n \in Nat /\ g * k \in Nat
      BY <2>2
    <3>4. QED
      BY <3>1, <3>2, <3>3
  <2>12. toWorkers' + withheld' + returned' <= bill.cents
    BY <1>1, <2>2, <2>9, <2>10, <2>11
  <2>13. ASSUME ~feeMoved
         PROVE  bill.fee <= d * n + n
    <3>1. bill.fee = computeFee(g * n, feeInForce)
      BY <1>1, <1>10, <2>10, <2>13 DEF Billed
    <3>2. QED
      BY <2>1, <2>2, <2>3, <3>1, FeeOfCrew
  <2>14. Rows(sent') = bill.crew => k = n
    BY <2>1
  <2>15. QED
    BY <2>1, <2>8, <2>9, <2>10, <2>12, <2>13, <2>14
<1>11. QED
  BY <1>1, <1>5, <1>8, <1>10 DEF ChargeDividedUp

\* What a cancellation entails, for any notice and any crew.
LEMMA OutcomeRange ==
  ASSUME pay \in PayTerms, NEW active, NEW travelled \in SUBSET active, NEW notice \in BOOLEAN
  PROVE  LET o == outcome(active, travelled, notice)
         IN  /\ o.refund_bps \in Int /\ o.compensation \in 0..grossPerWorker(pay)
             /\ active # {} /\ travelled # {} => o.refund_bps = 10000
             /\ active = {} \/ travelled = {} => o.compensation = 0
<1>1. grossPerWorker(pay) \in Nat
  BY GrossRange
<1>2. rounded(grossPerWorker(pay), 4) \in 0..grossPerWorker(pay)
  BY <1>1, RoundedParts
<1>3. LateBps \in Int
  BY MoneyAssumption
<1>4. CASE active = {}
  <2>1. travelled = {}
    BY <1>4
  <2>2. outcome(active, travelled, notice) = [refund_bps |-> 10000, compensation |-> 0]
    BY <1>4, <2>1 DEF outcome
  <2>3. QED
    BY <1>1, <1>4, <2>2
<1>5. CASE active # {} /\ travelled # {}
  BY <1>2, <1>5 DEF outcome
<1>6. CASE active # {} /\ travelled = {}
  BY <1>1, <1>3, <1>6 DEF outcome
<1>7. QED
  BY <1>4, <1>5, <1>6

\* A share of the pay of some is less than the pay of all.
LEMMA ShareOfCrew ==
  ASSUME NEW g \in Nat, NEW n \in Nat, NEW k \in 0..n, NEW c \in 0..g
  PROVE  k * c <= g * n
<1>1. (g - c) * n \in Nat /\ c * (n - k) \in Nat /\ k * c \in Nat
  OBVIOUS
<1>2. g * n = (g - c) * n + c * (n - k) + k * c
  OBVIOUS
<1>3. QED
  BY <1>1, <1>2

\* What is left for the customer of what was charged.
LEMMA CustomerPart ==
  ASSUME NEW total \in Nat, NEW paid \in 0..total, NEW bps \in Int
  PROVE  /\ customerPart(total, paid, bps) \in Int
         /\ customerPart(total, paid, bps) <= total - paid
         /\ bps = 10000 => customerPart(total, paid, bps) = total - paid
<1>1. PICK a : a = total * bps
  OBVIOUS
<1>2. a \in Int
  BY <1>1
<1>3. rounded(a, 10000) \in Int
  BY <1>2, RoundedParts
<1>4. bps = 10000 => rounded(a, 10000) = total
  BY <1>1, <1>2, RoundedParts
<1>5. customerPart(total, paid, bps) = AtMost(rounded(a, 10000), total - paid)
  BY <1>1 DEF customerPart
<1>6. QED
  BY <1>3, <1>4, <1>5 DEF AtMost

\* A cancellation divides the charge.
LEMMA CancelDivides ==
  ASSUME MoneyInv, bill # Absent,
         NEW active \in SUBSET (bill.crew \ Rows(earnings)), NEW travelled \in SUBSET active,
         NEW notice \in BOOLEAN, cancelJob(active, travelled, notice)
  PROVE  /\ ChargeDividedUp'
         /\ sent' \in [Crew -> OrAbsent([cents : Nat, fee : Nat])] /\ returned' \in Nat
<1> USE DEF MoneyInv
<1>1. /\ bill.cents \in Nat /\ bill.fee \in Nat /\ bill.crew \subseteq Crew
      /\ IsFiniteSet(bill.crew) /\ Cardinality(bill.crew) \in Nat \ {0}
      /\ grossPerWorker(pay) \in Nat
  BY BillRange
<1>2. PICK o : o = outcome(active, travelled, notice)
  OBVIOUS
<1>3. PICK c, bps : c = o.compensation /\ bps = o.refund_bps
  OBVIOUS
<1>4. PICK g, n, m : /\ g = grossPerWorker(pay) /\ n = Cardinality(bill.crew)
                     /\ m = Cardinality(travelled)
  OBVIOUS
<1>5. PICK refund : refund = customerPart(bill.cents, m * c, bps)
  OBVIOUS
<1>6. /\ bps \in Int /\ c \in 0..g
      /\ travelled # {} => bps = 10000
      /\ travelled = {} => c = 0
  <2>1. pay \in PayTerms
    BY DEF MoneyTypeOK
  <2>2. travelled # {} => active # {}
    OBVIOUS
  <2>3. LET p == outcome(active, travelled, notice)
        IN  /\ p.refund_bps \in Int /\ p.compensation \in 0..grossPerWorker(pay)
            /\ active # {} /\ travelled # {} => p.refund_bps = 10000
            /\ active = {} \/ travelled = {} => p.compensation = 0
    BY <2>1, OutcomeRange
  <2>4. QED
    BY <1>2, <1>3, <1>4, <2>2, <2>3
<1>7. travelled \subseteq bill.crew /\ IsFiniteSet(travelled) /\ m \in Nat /\ m <= n
  BY <1>1, <1>4, FS_Subset, FS_CardinalityType
<1>8. /\ sent' = [w \in Crew |-> IF w \in travelled /\ c > 0
                       THEN [cents |-> c, fee |-> 0] ELSE Absent]
      /\ returned' = IF refund > 0 THEN refund ELSE 0
      /\ fate' = "cancelled" /\ bill' = bill /\ repriced' = repriced /\ feeMoved' = feeMoved
  BY <1>2, <1>3, <1>4, <1>5 DEF cancelJob
<1>9. g \in Nat /\ n \in Nat \ {0} /\ c \in Nat
  BY <1>1, <1>4, <1>6
<1>10. sent' \in [Crew -> OrAbsent([cents : Nat, fee : Nat])]
  BY <1>8, <1>9 DEF OrAbsent
<1>11. /\ Rows(sent') \subseteq travelled
       /\ \A w \in Rows(sent') : c > 0 /\ sent'[w].cents = c /\ sent'[w].fee = 0
  <2>1. ASSUME NEW w \in Rows(sent')
        PROVE  w \in travelled /\ c > 0 /\ sent'[w].cents = c /\ sent'[w].fee = 0
    <3>1. w \in Crew /\ sent'[w] # Absent
      BY <1>8, <2>1 DEF Rows
    <3>2. w \in travelled /\ c > 0
      BY <1>8, <3>1
    <3>3. sent'[w] = [cents |-> c, fee |-> 0]
      BY <1>8, <3>1, <3>2
    <3>4. QED
      BY <3>2, <3>3
  <2>2. QED
    BY <2>1
<1>12. returned' \in Nat
  <2>1. PICK t, p, a : t = bill.cents /\ p = m * c /\ a = t * bps
    OBVIOUS
  <2>2. t \in Nat /\ p \in Nat /\ a \in Int
    BY <1>1, <1>6, <1>7, <1>9, <2>1
  <2>3. rounded(a, 10000) \in Int
    BY <2>2, RoundedParts
  <2>4. refund = AtMost(rounded(a, 10000), t - p)
    BY <1>5, <2>1 DEF customerPart
  <2>5. refund \in Int
    BY <2>2, <2>3, <2>4 DEF AtMost
  <2>6. QED
    BY <1>8, <2>5
<1>13. ASSUME ~repriced
       PROVE  /\ toWorkers' + withheld' + returned' <= bill.cents
              /\ Rows(sent') # {} => toWorkers' + returned' = bill.cents
  <2>1. bill.cents = g * n
    BY <1>4, <1>13 DEF Billed
  <2>2. PICK z, k : z = 0 /\ k = Cardinality(Rows(sent'))
    OBVIOUS
  <2>3. IsFiniteSet(Rows(sent'))
    BY <1>7, <1>11, FS_Subset
  <2>4. toWorkers' = c * k /\ withheld' = z * k
    <3>1. c \in Int /\ z \in Int /\ \A w \in Rows(sent') : sent'[w].cents = c /\ sent'[w].fee = z
      BY <1>9, <1>11, <2>2
    <3>2. /\ SumFunction([w \in Rows(sent') |-> sent'[w].cents]) = c * Cardinality(Rows(sent'))
          /\ SumFunction([w \in Rows(sent') |-> sent'[w].fee]) = z * Cardinality(Rows(sent'))
      BY <2>3, <3>1, SentSums
    <3>3. QED
      BY <2>2, <3>2 DEF toWorkers, withheld
  <2>5. PICK paid : paid = m * c
    OBVIOUS
  <2>6. /\ refund \in Int /\ refund <= bill.cents - paid
        /\ bill.cents \in Nat /\ paid \in 0..bill.cents
        /\ bps = 10000 => refund = bill.cents - paid
    <3>1. m \in 0..n /\ n \in Nat /\ bps \in Int /\ c \in 0..g /\ g \in Nat
      BY <1>6, <1>7, <1>9
    <3>2. m * c <= g * n
      BY <3>1, ShareOfCrew
    <3>3. bill.cents \in Nat /\ paid \in 0..bill.cents
      BY <1>1, <1>7, <1>9, <2>1, <2>5, <3>2
    <3>4. /\ customerPart(bill.cents, paid, bps) \in Int
          /\ customerPart(bill.cents, paid, bps) <= bill.cents - paid
          /\ bps = 10000 => customerPart(bill.cents, paid, bps) = bill.cents - paid
      <4>1. PICK total : total = bill.cents
        OBVIOUS
      <4>2. total \in Nat /\ paid \in 0..total /\ bps \in Int
        BY <3>1, <3>3, <4>1
      <4>3. customerPart(total, paid, bps) \in Int
        BY <4>2, CustomerPart
      <4>4. customerPart(total, paid, bps) <= total - paid
        BY <4>2, CustomerPart
      <4>5. bps = 10000 => customerPart(total, paid, bps) = total - paid
        BY <4>2, CustomerPart
      <4>6. QED
        BY <4>1, <4>3, <4>4, <4>5
    <3>5. refund = customerPart(bill.cents, paid, bps)
      BY <1>5, <2>5
    <3>6. QED
      BY <3>3, <3>4, <3>5
  <2>7. CASE Rows(sent') = {}
    <3>1. k = 0
      BY <2>2, <2>7, FS_EmptySet
    <3>2. toWorkers' = 0 /\ withheld' = 0
      BY <1>9, <2>2, <2>4, <3>1
    <3>3. QED
      BY <1>8, <2>6, <2>7, <3>2
  <2>8. CASE Rows(sent') # {}
    <3>1. PICK v : v \in Rows(sent')
      BY <2>8
    <3>2. c > 0 /\ [cents |-> c, fee |-> 0] # Absent /\ travelled # {}
      <4>1. v \in Crew /\ sent'[v] # Absent /\ v \in travelled /\ c > 0
        BY <1>8, <1>11, <3>1 DEF Rows
      <4>2. QED
        BY <1>8, <4>1
    <3>3. Rows(sent') = travelled
      <4>1. travelled \subseteq Crew
        BY <1>1, <1>7
      <4>2. ASSUME NEW w \in travelled
            PROVE  w \in Rows(sent')
        BY <1>8, <3>2, <4>1, <4>2 DEF Rows
      <4>3. QED
        BY <1>11, <4>2
    <3>4. k = m
      BY <1>4, <2>2, <3>3
    <3>5. withheld' = 0
      BY <1>7, <2>2, <2>4, <3>4
    <3>6. toWorkers' = paid
      BY <1>7, <1>9, <2>4, <2>5, <3>4
    <3>7. refund = bill.cents - paid
      BY <1>6, <2>6, <3>2
    <3>8. returned' = refund
      BY <1>8, <2>6, <3>7
    <3>9. QED
      BY <2>6, <3>5, <3>6, <3>7, <3>8
  <2>9. QED
    BY <2>7, <2>8
<1>14. \A w \in Rows(sent') : sent'[w].cents > 0 /\ sent'[w].fee >= 0
  BY <1>11
<1>15. ChargeDividedUp'
  BY <1>8, <1>13, <1>14 DEF ChargeDividedUp
<1>16. QED
  BY <1>10, <1>12, <1>15

\* While the job is open nothing is sent, whatever is booked and changed.
LEMMA OpenSteps ==
  ASSUME MoneyInv, UNCHANGED <<sent, returned, fate>>, fate = "open", MoneyTypeOK'
  PROVE  Unsent' /\ ChargeDividedUp'
<1>1. Rows(sent') = {} /\ returned' = 0 /\ fate' = "open"
  BY DEF MoneyInv, Unsent
<1>2. toWorkers' = 0 /\ withheld' = 0
  <2>1. PICK z : z = 0
    OBVIOUS
  <2>2. IsFiniteSet(Rows(sent')) /\ Cardinality(Rows(sent')) = 0
    BY <1>1, FS_EmptySet
  <2>3. z \in Int /\ \A w \in Rows(sent') : sent'[w].cents = z /\ sent'[w].fee = z
    BY <1>1, <2>1
  <2>4. /\ SumFunction([w \in Rows(sent') |-> sent'[w].cents]) = z * Cardinality(Rows(sent'))
        /\ SumFunction([w \in Rows(sent') |-> sent'[w].fee]) = z * Cardinality(Rows(sent'))
    BY <2>2, <2>3, SentSums
  <2>5. QED
    BY <2>1, <2>2, <2>4 DEF toWorkers, withheld
<1>3. bill' # Absent => bill'.cents \in Nat
  BY DEF MoneyTypeOK, OrAbsent
<1>4. QED
  BY <1>1, <1>2, <1>3 DEF Unsent, ChargeDividedUp

\* Every step keeps the books of a job.
LEMMA MoneyStep ==
  ASSUME MoneyInv, [MoneyNext]_jobMoneyVars
  PROVE  MoneyInv'
<1> USE DEF MoneyInv
<1>1. ASSUME NEW committed \in SUBSET Crew, chargeForJob(committed)
      PROVE  MoneyInv'
  <2>1. PICK n, g : n = Cardinality(committed) /\ g = grossPerWorker(pay)
    OBVIOUS
  <2>2. IsFiniteSet(committed)
    BY FS_Subset, MoneyAssumption
  <2>3. n \in Nat /\ g \in Nat /\ g * n \in Nat
    <3>1. n \in Nat
      BY <2>1, <2>2, FS_CardinalityType
    <3>2. g \in Nat
      BY <2>1, GrossRange DEF MoneyTypeOK
    <3>3. QED
      BY <3>1, <3>2
  <2>4. computeFee(g * n, feeInForce) \in 0..(g * n)
    BY <2>3, FeeRange DEF MoneyTypeOK
  <2>5. /\ bill' = [cents |-> g * n, fee |-> computeFee(g * n, feeInForce), crew |-> committed]
        /\ UNCHANGED <<pay, feeInForce, earnings, sent, returned, fate, repriced, feeMoved>>
        /\ fate = "open" /\ bill = Absent /\ committed # {}
    BY <1>1, <2>1 DEF chargeForJob
  <2>6. MoneyTypeOK'
    <3>1. bill' \in [cents : Nat, fee : Nat, crew : SUBSET Crew]
      BY <2>3, <2>4, <2>5
    <3>2. QED
      BY <2>5, <3>1 DEF MoneyTypeOK, OrAbsent
  <2>7. Unsent' /\ ChargeDividedUp'
    BY <2>5, <2>6, OpenSteps
  <2>8. bill'.crew = committed /\ bill'.cents = g * n
        /\ bill'.fee = computeFee(g * n, feeInForce)
    BY <2>5
  <2>9. Rows(earnings') = {}
    BY <2>5 DEF Unbilled
  <2>10. Billed'
    BY <2>1, <2>5, <2>8, <2>9 DEF Billed, grossPerWorker
  <2>11. Unbilled'
    BY <2>5, <2>9 DEF Unbilled
  <2>12. QED
    BY <2>6, <2>7, <2>10, <2>11
<1>2. ASSUME NEW w \in Crew, setEarnings(w)
      PROVE  MoneyInv'
  <2>1. PICK g : g = grossPerWorker(pay)
    OBVIOUS
  <2>2. g \in Nat
    BY <2>1, GrossRange DEF MoneyTypeOK
  <2>3. /\ earnings' = [earnings EXCEPT ![w] = g]
        /\ UNCHANGED <<pay, feeInForce, bill, sent, returned, fate, repriced, feeMoved>>
        /\ fate = "open" /\ bill # Absent /\ w \in bill.crew
    BY <1>2, <2>1 DEF setEarnings
  <2>4. MoneyTypeOK'
    BY <2>2, <2>3 DEF MoneyTypeOK, OrAbsent
  <2>5. Unsent' /\ ChargeDividedUp'
    BY <2>3, <2>4, OpenSteps
  <2>6. Rows(earnings') \subseteq Rows(earnings) \cup {w}
        /\ \A v \in Rows(earnings') : v = w \/ earnings'[v] = earnings[v]
    BY <2>3 DEF Rows, MoneyTypeOK
  <2>7. earnings'[w] = g
    BY <2>3 DEF MoneyTypeOK
  <2>8. Rows(earnings') \subseteq bill.crew
    BY <2>3, <2>6 DEF Billed
  <2>9. ~repriced => \A v \in Rows(earnings') : earnings'[v] = g
    BY <2>1, <2>3, <2>6, <2>7 DEF Billed
  <2>10. Billed'
    BY <2>1, <2>3, <2>8, <2>9 DEF Billed, grossPerWorker
  <2>11. Unbilled'
    BY <2>3 DEF Unbilled
  <2>12. QED
    BY <2>4, <2>5, <2>10, <2>11
<1>3. CASE releasePayouts
  <2>1. ChargeDividedUp' /\ sent' \in [Crew -> OrAbsent([cents : Nat, fee : Nat])]
    BY <1>3, ReleaseDivides
  <2>2. UNCHANGED <<pay, feeInForce, bill, earnings, returned, repriced, feeMoved>>
        /\ fate' = "released" /\ bill # Absent
    BY <1>3 DEF releasePayouts, Unbilled
  <2>3. MoneyTypeOK'
    BY <2>1, <2>2 DEF MoneyTypeOK
  <2>4. Billed' /\ Unbilled' /\ Unsent'
    BY <2>2 DEF Billed, Unbilled, Unsent, grossPerWorker
  <2>5. QED
    BY <2>1, <2>3, <2>4
<1>4. ASSUME bill # Absent, NEW active \in SUBSET (bill.crew \ Rows(earnings)),
             NEW notice \in BOOLEAN, NEW travelled \in SUBSET active,
             cancelJob(active, travelled, notice)
      PROVE  MoneyInv'
  <2>1. /\ ChargeDividedUp'
        /\ sent' \in [Crew -> OrAbsent([cents : Nat, fee : Nat])] /\ returned' \in Nat
    BY <1>4, CancelDivides
  <2>2. UNCHANGED <<pay, feeInForce, bill, earnings, repriced, feeMoved>>
        /\ fate' = "cancelled"
    BY <1>4 DEF cancelJob
  <2>3. MoneyTypeOK'
    BY <2>1, <2>2 DEF MoneyTypeOK
  <2>4. Billed' /\ Unbilled' /\ Unsent'
    BY <1>4, <2>2 DEF Billed, Unbilled, Unsent, grossPerWorker
  <2>5. QED
    BY <2>1, <2>3, <2>4
<1>5. ASSUME NEW t \in PayTerms, changePay(t)
      PROVE  MoneyInv'
  <2>1. /\ pay' = t /\ repriced' = TRUE
        /\ UNCHANGED <<feeInForce, bill, earnings, sent, returned, fate, feeMoved>>
        /\ fate = "open" /\ bill # Absent
    BY <1>5 DEF changePay
  <2>2. MoneyTypeOK'
    BY <2>1 DEF MoneyTypeOK
  <2>3. Unsent' /\ ChargeDividedUp'
    BY <2>1, <2>2, OpenSteps
  <2>4. Billed' /\ Unbilled'
    BY <2>1 DEF Billed, Unbilled
  <2>5. QED
    BY <2>2, <2>3, <2>4
<1>6. ASSUME NEW row \in OrAbsent(FeeRows), feeChanges(row)
      PROVE  MoneyInv'
  <2>1. /\ feeInForce' = row /\ feeMoved' = TRUE
        /\ UNCHANGED <<pay, bill, earnings, sent, returned, fate, repriced>>
        /\ fate = "open" /\ bill # Absent
    BY <1>6 DEF feeChanges
  <2>2. MoneyTypeOK'
    BY <2>1 DEF MoneyTypeOK
  <2>3. Unsent' /\ ChargeDividedUp'
    BY <2>1, <2>2, OpenSteps
  <2>4. Billed' /\ Unbilled'
    BY <2>1 DEF Billed, Unbilled, grossPerWorker
  <2>5. QED
    BY <2>2, <2>3, <2>4
<1>7. CASE UNCHANGED jobMoneyVars
  <2>1. UNCHANGED <<pay, feeInForce, bill, earnings, sent, returned, fate, repriced, feeMoved>>
    BY <1>7 DEF jobMoneyVars
  <2>2. MoneyTypeOK'
    BY <2>1 DEF MoneyTypeOK
  <2>3. Billed' /\ Unbilled' /\ Unsent'
    BY <2>1 DEF Billed, Unbilled, Unsent, grossPerWorker
  <2>4. ChargeDividedUp'
    BY <2>1 DEF ChargeDividedUp, toWorkers, withheld
  <2>5. QED
    BY <2>2, <2>3, <2>4
<1>8. QED
  BY <1>1, <1>2, <1>3, <1>4, <1>5, <1>6, <1>7 DEF MoneyNext

\* The books of a job agree with its pay, its fee and its crew until it is
\* released or cancelled, and what is sent then divides the charge.
THEOREM MoneyInvariance == MoneySpec => []MoneyInv
<1>1. MoneyInit => MoneyInv
  <2>1. ASSUME MoneyInit
        PROVE  MoneyTypeOK
    <3>1. earnings \in [Crew -> OrAbsent(Nat)]
      BY <2>1 DEF MoneyInit, OrAbsent
    <3>2. sent \in [Crew -> OrAbsent([cents : Nat, fee : Nat])]
      BY <2>1 DEF MoneyInit, OrAbsent
    <3>3. bill \in OrAbsent([cents : Nat, fee : Nat, crew : SUBSET Crew])
      BY <2>1 DEF MoneyInit, OrAbsent
    <3>4. returned \in Nat /\ fate \in {"open", "released", "cancelled"}
      BY <2>1 DEF MoneyInit
    <3>5. repriced \in BOOLEAN /\ feeMoved \in BOOLEAN
      BY <2>1, Zenon DEF MoneyInit
    <3>6. pay \in PayTerms /\ feeInForce \in OrAbsent(FeeRows)
      BY <2>1, Zenon DEF MoneyInit
    <3>7. QED
      BY <3>1, <3>2, <3>3, <3>4, <3>5, <3>6 DEF MoneyTypeOK
  <2>2. MoneyInit => Rows(earnings) = {} /\ Rows(sent) = {}
    BY DEF MoneyInit, Rows
  <2>3. MoneyInit => Billed /\ ChargeDividedUp
    BY DEF MoneyInit, Billed, ChargeDividedUp
  <2>4. MoneyInit => Unbilled /\ Unsent
    BY <2>2 DEF MoneyInit, Unbilled, Unsent
  <2>5. QED
    BY <2>1, <2>3, <2>4 DEF MoneyInv
<1>2. MoneyInv /\ [MoneyNext]_jobMoneyVars => MoneyInv'
  BY MoneyStep
<1>3. QED
  BY <1>1, <1>2, PTL DEF MoneySpec

\* What a customer was charged is divided up to the cent among the workers, the
\* fee and what is given back.
THEOREM DividedUp == MoneySpec => []ChargeDividedUp
<1>1. MoneyInv => ChargeDividedUp
  BY DEF MoneyInv
<1>2. QED
  BY <1>1, MoneyInvariance, PTL
-----------------------------------------------------------------------------
(* Access: the pages may call what they call *)

\* What the roles of the marketplace and of the administrators grant.
LEMMA RolesGrant ==
  ASSUME NEW R
  PROVE  /\ "CUSTOMER" \in R => {"customer_profile:write", "job:create"} \subseteq permissionsForRoles(R)
         /\ "WORKER" \in R => {"worker_profile:write", "job:accept"} \subseteq permissionsForRoles(R)
         /\ "ADMIN" \in R => "admin:access" \in permissionsForRoles(R)
BY DEF permissionsForRoles, ROLE_PERMISSIONS

\* A declared route may be called by whoever has what it needs.
LEMMA DeclaredMayCall ==
  ASSUME NEW R, NEW S, NEW need \in {"public", "signed in"} \cup permissionsForRoles(R),
         S \X {need} \subseteq Routes
  PROVE  \A r \in S : mayCall(R, r)
BY DEF mayCall

publicCalls == {"POST /auth/login", "POST /auth/register", "POST /auth/logout",
                "GET /categories", "GET /skills"}

\* The routes of the pages that anybody may call.
LEMMA PublicCalls == \A R : \A r \in publicCalls : mayCall(R, r)
<1>1. publicCalls \X {"public"} \subseteq AuthController \cup CatalogController
  BY DEF publicCalls, AuthController, CatalogController, needs
<1>2. publicCalls \X {"public"} \subseteq Routes
  BY <1>1 DEF Routes
<1>3. QED
  BY <1>2, DeclaredMayCall

signedInCalls ==
  {"GET /jobs/mine", "GET /jobs/:id", "GET /discovery/jobs", "GET /assignments/mine",
   "GET /me/payment-profile", "GET /me/payments", "GET /me/payout-account", "GET /me/earnings",
   "POST /disputes", "GET /conversations", "POST /conversations",
   "GET /conversations/:id/messages", "POST /conversations/:id/messages",
   "POST /conversations/:id/read", "GET /notifications", "POST /notifications/read",
   "GET /me/worker-profile", "POST /assignments/:id/rating", "POST /files",
   "GET /files/:id/content", "POST /auth/2fa/setup", "POST /auth/2fa/enable"}

\* Those for which it is enough to be signed in.
LEMMA SignedInCalls == \A R : \A r \in signedInCalls : mayCall(R, r)
<1>1. /\ {"GET /jobs/mine", "GET /jobs/:id"} \X {"signed in"} \subseteq JobsController
      /\ {"GET /discovery/jobs", "GET /assignments/mine"} \X {"signed in"}
           \subseteq AssignmentsController
      /\ {"GET /me/payment-profile", "GET /me/payments", "GET /me/payout-account",
          "GET /me/earnings"} \X {"signed in"} \subseteq PaymentsController
  BY DEF JobsController, AssignmentsController, PaymentsController, needs
<1>2. /\ {"POST /disputes"} \X {"signed in"} \subseteq DisputesController
      /\ {"GET /conversations", "POST /conversations", "GET /conversations/:id/messages",
          "POST /conversations/:id/messages", "POST /conversations/:id/read"} \X {"signed in"}
           \subseteq MessagingController
      /\ {"GET /notifications", "POST /notifications/read"} \X {"signed in"}
           \subseteq NotificationsController
  BY DEF DisputesController, MessagingController, NotificationsController, needs
<1>3. /\ {"GET /me/worker-profile"} \X {"signed in"} \subseteq WorkersController
      /\ {"POST /assignments/:id/rating"} \X {"signed in"} \subseteq RatingsController
      /\ {"POST /files", "GET /files/:id/content"} \X {"signed in"} \subseteq FilesController
      /\ {"POST /auth/2fa/setup", "POST /auth/2fa/enable"} \X {"signed in"}
           \subseteq AuthController
  BY DEF WorkersController, RatingsController, FilesController, AuthController, needs
<1>4. signedInCalls \X {"signed in"} \subseteq
        JobsController \cup AssignmentsController \cup PaymentsController
        \cup DisputesController \cup MessagingController \cup NotificationsController
        \cup WorkersController \cup RatingsController \cup FilesController \cup AuthController
  BY <1>1, <1>2, <1>3 DEF signedInCalls
<1>5. signedInCalls \X {"signed in"} \subseteq Routes
  BY <1>4 DEF Routes
<1>6. QED
  BY <1>5, DeclaredMayCall

createCalls ==
  {"POST /jobs", "POST /jobs/:id/confirm-completion", "POST /jobs/:id/cancel",
   "POST /jobs/:id/retry-payment", "POST /jobs/:id/tip", "POST /jobs/:id/photos"}
cardCalls == {"POST /me/payment-methods/setup-intent", "POST /me/payment-methods/sync-setup-intent"}

\* Those of a customer.
LEMMA CustomerCalls ==
  ASSUME NEW R, "CUSTOMER" \in R
  PROVE  \A r \in createCalls \cup cardCalls : mayCall(R, r)
<1>1. createCalls \X {"job:create"} \subseteq JobsController \cup PaymentsController \cup FilesController
  BY DEF createCalls, JobsController, PaymentsController, FilesController, needs
<1>2. cardCalls \X {"customer_profile:write"} \subseteq PaymentsController
  BY DEF cardCalls, PaymentsController, needs
<1>3. createCalls \X {"job:create"} \subseteq Routes /\ cardCalls \X {"customer_profile:write"} \subseteq Routes
  BY <1>1, <1>2 DEF Routes
<1>4. {"customer_profile:write", "job:create"} \subseteq permissionsForRoles(R)
  BY RolesGrant
<1>5. \A r \in createCalls : mayCall(R, r)
  BY <1>3, <1>4, DeclaredMayCall
<1>6. \A r \in cardCalls : mayCall(R, r)
  BY <1>3, <1>4, DeclaredMayCall
<1>7. QED
  BY <1>5, <1>6

workCalls ==
  {"POST /jobs/:id/accept", "POST /assignments/:id/en-route", "POST /assignments/:id/arrived",
   "POST /assignments/:id/start", "POST /assignments/:id/complete"}
profileCalls ==
  {"PUT /me/worker-profile", "PUT /me/worker-profile/skills",
   "PUT /me/worker-profile/categories", "PUT /me/availability",
   "POST /me/payout-account/onboarding-link", "POST /me/payout-account/refresh"}

\* Those of a worker.
LEMMA WorkerCalls ==
  ASSUME NEW R, "WORKER" \in R
  PROVE  \A r \in workCalls \cup profileCalls : mayCall(R, r)
<1>1. workCalls \X {"job:accept"} \subseteq AssignmentsController
  BY DEF workCalls, AssignmentsController, needs
<1>2. profileCalls \X {"worker_profile:write"} \subseteq WorkersController \cup PaymentsController
  BY DEF profileCalls, WorkersController, PaymentsController, needs
<1>3. workCalls \X {"job:accept"} \subseteq Routes /\ profileCalls \X {"worker_profile:write"} \subseteq Routes
  BY <1>1, <1>2 DEF Routes
<1>4. {"worker_profile:write", "job:accept"} \subseteq permissionsForRoles(R)
  BY RolesGrant
<1>5. \A r \in workCalls : mayCall(R, r)
  BY <1>3, <1>4, DeclaredMayCall
<1>6. \A r \in profileCalls : mayCall(R, r)
  BY <1>3, <1>4, DeclaredMayCall
<1>7. QED
  BY <1>5, <1>6

adminCalls ==
  {"GET /admin/metrics/overview", "GET /admin/jobs", "GET /admin/jobs/:id",
   "GET /admin/payments", "GET /admin/payouts", "GET /admin/audit-logs",
   "GET /admin/settings/:key", "PUT /admin/settings/:key", "GET /admin/review-queue",
   "POST /admin/jobs/:id/review", "GET /admin/users", "POST /admin/users/:id/suspend",
   "POST /admin/users/:id/restore", "GET /admin/disputes", "GET /admin/disputes/:id",
   "POST /admin/disputes/:id/resolve", "GET /admin/reports", "POST /admin/reports/:id/review",
   "GET /admin/categories", "PATCH /admin/categories/:id", "POST /admin/categories"}

\* Those of an administrator.
LEMMA AdminCalls ==
  ASSUME NEW R, "ADMIN" \in R
  PROVE  \A r \in adminCalls : mayCall(R, r)
<1>1. /\ {"GET /admin/metrics/overview", "GET /admin/jobs", "GET /admin/jobs/:id",
          "GET /admin/payments", "GET /admin/payouts", "GET /admin/audit-logs",
          "GET /admin/users", "POST /admin/users/:id/suspend",
          "POST /admin/users/:id/restore"} \X {"admin:access"} \subseteq AdminController
      /\ {"GET /admin/settings/:key", "PUT /admin/settings/:key"} \X {"admin:access"}
           \subseteq SettingsAdminController
      /\ {"GET /admin/review-queue", "POST /admin/jobs/:id/review"} \X {"admin:access"}
           \subseteq JobsAdminController
  BY DEF AdminController, SettingsAdminController, JobsAdminController, needs
<1>2. /\ {"GET /admin/disputes", "GET /admin/disputes/:id",
          "POST /admin/disputes/:id/resolve"} \X {"admin:access"} \subseteq DisputesAdminController
      /\ {"GET /admin/reports", "POST /admin/reports/:id/review"} \X {"admin:access"}
           \subseteq ReportsController
      /\ {"GET /admin/categories", "PATCH /admin/categories/:id", "POST /admin/categories"}
           \X {"admin:access"} \subseteq CatalogAdminController
  BY DEF DisputesAdminController, ReportsController, CatalogAdminController, needs
<1>3. adminCalls \X {"admin:access"} \subseteq
        AdminController \cup SettingsAdminController \cup JobsAdminController
        \cup DisputesAdminController \cup ReportsController \cup CatalogAdminController
  BY <1>1, <1>2 DEF adminCalls
<1>4. adminCalls \X {"admin:access"} \subseteq Routes
  BY <1>3 DEF Routes
<1>5. "admin:access" \in permissionsForRoles(R)
  BY RolesGrant
<1>6. QED
  BY <1>4, <1>5, DeclaredMayCall

\* The pages for which one must be a customer, and those for workers.
PageFits(p, R) ==
  /\ p \in {"customerHome", "myJobs", "postJob", "ownJob"} => "CUSTOMER" \in R
  /\ p \in {"workerHome", "workerJobs", "workerSetup", "myWork"} => "WORKER" \in R

\* A page that fits the roles shown makes only requests that the roles grant.
LEMMA PageMayCall ==
  ASSUME page \in PAGES, PageFits(page, user.roles), mode \in user.roles,
         NEW R, user.roles \subseteq R
  PROVE  \A r \in requests : mayCall(R, r)
<1> DEFINE ok == publicCalls \cup signedInCalls
                 \cup (IF "CUSTOMER" \in R THEN createCalls \cup cardCalls ELSE {})
                 \cup (IF "WORKER" \in R THEN workCalls \cup profileCalls ELSE {})
<1>1. \A r \in ok : mayCall(R, r)
  BY PublicCalls, SignedInCalls, CustomerCalls, WorkerCalls
<1>2. CASE page \in {"front", "profile", "customerHome", "myJobs", "messages", "activity", "conversation"}
  <2>1. requests \subseteq publicCalls \cup signedInCalls
    BY <1>2 DEF requests, customerHome, myJobs, messagesTab, activity, conversationPage,
       publicCalls, signedInCalls
  <2>2. QED
    BY <1>1, <2>1
<1>3. CASE page \in {"workerHome", "workerJobs", "workerSetup", "myWork"}
  <2>1. "WORKER" \in R
    BY <1>3 DEF PageFits
  <2>2. requests \subseteq publicCalls \cup signedInCalls \cup workCalls \cup profileCalls
    BY <1>3 DEF requests, workerHome, workerJobs, workerSetup, myWork, jobPage,
       publicCalls, signedInCalls, workCalls, profileCalls
  <2>3. QED
    BY <1>1, <2>1, <2>2
<1>4. CASE page \in {"postJob", "ownJob"}
  <2>1. "CUSTOMER" \in R
    BY <1>4 DEF PageFits
  <2>2. requests \subseteq publicCalls \cup signedInCalls \cup createCalls
    BY <1>4 DEF requests, postJob, ownJob, jobPage, publicCalls, signedInCalls, createCalls
  <2>3. QED
    BY <1>1, <2>1, <2>2
<1>5. CASE page = "paymentMethods"
  <2>1. requests = paymentMethods(user.roles)
    BY <1>5 DEF requests
  <2>2. ASSUME NEW r \in requests
        PROVE  r \in ok
    <3>1. CASE r \in signedInCalls
      BY <3>1
    <3>2. CASE r \in cardCalls /\ "CUSTOMER" \in user.roles
      BY <3>2
    <3>3. CASE r \in profileCalls /\ "WORKER" \in user.roles
      BY <3>3
    <3>4. QED
      BY <2>1, <2>2, <3>1, <3>2, <3>3 DEF paymentMethods, signedInCalls, cardCalls, profileCalls
  <2>3. QED
    BY <1>1, <2>2
<1>6. CASE page = "openJob"
  <2>1. requests = openJob(mode)
    BY <1>6 DEF requests
  <2>2. ASSUME NEW r \in requests
        PROVE  r \in ok
    <3>1. CASE r \in signedInCalls
      BY <3>1
    <3>2. CASE r \in workCalls /\ mode = "WORKER"
      BY <3>2
    <3>3. QED
      BY <2>1, <2>2, <3>1, <3>2 DEF openJob, jobPage, signedInCalls, workCalls
  <2>3. QED
    BY <1>1, <2>2
<1>7. QED
  BY <1>2, <1>3, <1>4, <1>5, <1>6 DEF PAGES

\* The pages of the console make only requests of administrators.
LEMMA ConsoleMayCall ==
  ASSUME NEW R, "ADMIN" \in R, NEW p \in DOMAIN ConsolePages
  PROVE  \A r \in ConsolePages[p] : mayCall(R, r)
<1>1. p \in {"overview", "reviewQueue", "users", "jobs", "disputes", "reports", "payments",
            "categories", "settings", "audit"}
  BY DEF ConsolePages
<1>2. /\ overviewPage \cup jobsPage \cup jobDetailPage \cup paymentsPage \cup auditPage \cup settingsPage
           \subseteq adminCalls
      /\ twoFactorPanel \subseteq signedInCalls
  BY DEF overviewPage, jobsPage, jobDetailPage, paymentsPage, auditPage, settingsPage,
     twoFactorPanel, adminCalls, signedInCalls
<1>3. /\ ConsolePages["overview"] = overviewPage /\ ConsolePages["jobs"] = jobsPage \cup jobDetailPage
      /\ ConsolePages["payments"] = paymentsPage /\ ConsolePages["audit"] = auditPage
      /\ ConsolePages["settings"] = settingsPage \cup twoFactorPanel
  BY DEF ConsolePages
<1>4. /\ ConsolePages["reviewQueue"] \subseteq adminCalls /\ ConsolePages["users"] \subseteq adminCalls
      /\ ConsolePages["disputes"] \subseteq adminCalls /\ ConsolePages["reports"] \subseteq adminCalls
      /\ ConsolePages["categories"] \subseteq adminCalls
  BY DEF ConsolePages, adminCalls
<1>5. \A q \in {"overview", "reviewQueue", "users", "jobs", "disputes", "reports", "payments",
                "categories", "settings", "audit"} :
        ConsolePages[q] \subseteq adminCalls \cup signedInCalls
  BY <1>2, <1>3, <1>4
<1>6. QED
  BY <1>1, <1>5, AdminCalls, SignedInCalls

-----------------------------------------------------------------------------
\* What was told of an account is true of it: roles are only added.
RolesTold ==
  /\ user # Absent => user.roles \subseteq roles[user.account]
  /\ \A l \in LOADS : loading[l] # Absent =>
       /\ loading[l].told # Absent => loading[l].told \subseteq roles[loading[l].account]
       /\ loading[l].signedUp # Absent =>
            /\ loading[l].signedUp \in roles[loading[l].account]
            /\ loading[l].told # Absent => loading[l].signedUp \in loading[l].told

\* One question at a time, asked with the tokens that are stored, and while it
\* is open nobody is shown.
OneQuestion ==
  ~overtaken =>
    /\ loading["start"] = Absent \/ loading["form"] = Absent
    /\ \A l \in LOADS : loading[l] # Absent =>
         user = Absent /\ page = "front" /\ session \in {loading[l].account, Absent}

ShownFits ==
  user # Absent /\ ~overtaken /\ user.roles \cap MARKETPLACE_ROLES # {} =>
    /\ session \in {user.account, Absent}
    /\ mode \in user.roles
    /\ PageFits(page, user.roles)

AdminsOnly == console # Absent => "ADMIN" \in roles[console]

AccessInv == AccessTypeOK /\ RolesTold /\ OneQuestion /\ ShownFits /\ AdminsOnly

\* The invariant gives the property.
LEMMA FitsMayCall == AccessInv => PagesMayCall
<1> SUFFICES ASSUME AccessInv
             PROVE  PagesMayCall
  OBVIOUS
<1>1. ASSUME user # Absent, ~overtaken, user.roles \cap MARKETPLACE_ROLES # {}
      PROVE  /\ session \in {user.account, Absent}
             /\ \A r \in requests : mayCall(roles[user.account], r)
  <2>1. /\ session \in {user.account, Absent} /\ mode \in user.roles
        /\ PageFits(page, user.roles)
    BY <1>1 DEF AccessInv, ShownFits
  <2>2. user.roles \subseteq roles[user.account]
    BY <1>1 DEF AccessInv, RolesTold
  <2>3. page \in PAGES
    BY DEF AccessInv, AccessTypeOK
  <2>4. QED
    BY <2>1, <2>2, <2>3, PageMayCall
<1>2. ASSUME console # Absent, consolePage # "login"
      PROVE  \A r \in ConsolePages[consolePage] : mayCall(roles[console], r)
  <2>1. "ADMIN" \in roles[console]
    BY <1>2 DEF AccessInv, AdminsOnly
  <2>2. consolePage \in DOMAIN ConsolePages
    BY <1>2 DEF AccessInv, AccessTypeOK
  <2>3. QED
    BY <2>1, <2>2, ConsoleMayCall
<1>3. QED
  BY <1>1, <1>2 DEF PagesMayCall

\* Who is registered or given a role: what was told before stays true.
LEMMA RolesGrow ==
  ASSUME AccessInv, NEW a \in Accounts, NEW more \in SUBSET ROLES,
         roles' = [roles EXCEPT ![a] = more], roles[a] \subseteq more
  PROVE  /\ roles' \in [Accounts -> SUBSET ROLES]
         /\ \A b \in Accounts : roles[b] \subseteq roles'[b]
BY DEF AccessInv, AccessTypeOK

\* The home of a mode fits it, and so do its tabs.
LEMMA HomeFits ==
  ASSUME NEW m \in MARKETPLACE_ROLES, NEW R, m \in R
  PROVE  /\ home(m) \in PAGES /\ PageFits(home(m), R)
         /\ \A p \in tabs(m) : p \in PAGES /\ PageFits(p, R)
BY DEF home, tabs, PageFits, PAGES, MARKETPLACE_ROLES

\* The links of a page that fits lead to pages that fit.
LEMMA LinksFit ==
  ASSUME PageFits(page, user.roles), NEW p \in links
  PROVE  PageFits(p, user.roles)
BY DEF links, jobLinks, PageFits

\* The mode chosen for an account is one it has, if it has any.
LEMMA ModeFits ==
  ASSUME AccessInv, NEW R \in SUBSET ROLES, R \cap MARKETPLACE_ROLES # {}
  PROVE  modeFor(R) \in R /\ modeFor(R) \in MARKETPLACE_ROLES
BY AbsentIsNoRole DEF modeFor, AccessInv, AccessTypeOK, OrAbsent, MARKETPLACE_ROLES, ROLES

\* Tokens are stored by a form: nobody is shown, and one question is open.
LEMMA StoreStep ==
  ASSUME AccessInv, NEW a \in Accounts, NEW r \in OrAbsent(MARKETPLACE_ROLES), storeTokens(a, r),
         roles' \in [Accounts -> SUBSET ROLES], \A b \in Accounts : roles[b] \subseteq roles'[b],
         r # Absent => r \in roles'[a]
  PROVE  AccessInv'
<1> USE DEF AccessInv
<1>1. PICK new : new = [account |-> a, told |-> Absent, signedUp |-> r]
  OBVIOUS
<1>2. /\ new \in Loading /\ new.account = a /\ new.told = Absent /\ new.signedUp = r
  BY <1>1 DEF Loading, OrAbsent
<1>3. /\ page = "front" /\ user = Absent /\ loading["form"] = Absent /\ session' = a
      /\ loading' = [loading EXCEPT !["form"] = new]
      /\ overtaken' = (overtaken \/ loading["start"] # Absent)
      /\ UNCHANGED <<user, mode, page, console, consolePage>>
  BY <1>1 DEF storeTokens, consoleVars
<1>4. loading' \in [LOADS -> OrAbsent(Loading)]
      /\ loading'["form"] = new /\ loading'["start"] = loading["start"]
  BY <1>2, <1>3 DEF AccessTypeOK, OrAbsent, LOADS
<1>5. AccessTypeOK'
  <2>1. overtaken' \in BOOLEAN
    BY <1>3 DEF AccessTypeOK
  <2>2. session' \in OrAbsent(Accounts)
    BY <1>3 DEF OrAbsent
  <2>3. QED
    BY <1>3, <1>4, <2>1, <2>2 DEF AccessTypeOK
<1>6. RolesTold'
  <2>1. ASSUME NEW l \in LOADS, loading'[l] # Absent
        PROVE  /\ loading'[l].told # Absent => loading'[l].told \subseteq roles'[loading'[l].account]
               /\ loading'[l].signedUp # Absent =>
                    /\ loading'[l].signedUp \in roles'[loading'[l].account]
                    /\ loading'[l].told # Absent => loading'[l].signedUp \in loading'[l].told
    <3>1. CASE l = "form"
      BY <1>2, <1>4, <3>1
    <3>2. CASE l = "start"
      <4>1. loading[l] # Absent /\ loading'[l] = loading[l]
        BY <1>4, <2>1, <3>2
      <4>2. loading[l].account \in Accounts
        BY <4>1 DEF AccessTypeOK, OrAbsent, Loading
      <4>3. roles[loading[l].account] \subseteq roles'[loading[l].account]
        BY <4>2
      <4>4. QED
        BY <4>1, <4>3 DEF RolesTold
    <3>3. QED
      BY <3>1, <3>2 DEF LOADS
  <2>2. user' = Absent
    BY <1>3
  <2>3. QED
    BY <2>1, <2>2 DEF RolesTold
<1>7. OneQuestion'
  <2>1. ASSUME ~overtaken'
        PROVE  loading["start"] = Absent
    BY <1>3, <2>1
  <2>2. QED
    BY <1>2, <1>3, <1>4, <2>1 DEF OneQuestion, LOADS
<1>8. ShownFits'
  BY <1>3 DEF ShownFits
<1>9. AdminsOnly'
  <2>1. console' = console /\ (console # Absent => console \in Accounts)
    BY <1>3 DEF AccessTypeOK, OrAbsent
  <2>2. QED
    BY <2>1 DEF AdminsOnly
<1>10. QED
  BY <1>5, <1>6, <1>7, <1>8, <1>9

\* The answer to GET /me is shown.
LEMMA ShowStep ==
  ASSUME AccessInv, NEW l \in LOADS, loadMe(l)
  PROVE  AccessInv'
<1> USE DEF AccessInv
<1>1. PICK q : q = loading[l]
  OBVIOUS
<1>2. q # Absent /\ q.told # Absent /\ q \in Loading
  BY <1>1 DEF loadMe, AccessTypeOK, OrAbsent
<1>3. q.account \in Accounts /\ q.told \in SUBSET ROLES /\ q.signedUp \in OrAbsent(MARKETPLACE_ROLES)
  BY <1>2 DEF Loading, OrAbsent
<1>4. PICK R : R = q.told
  OBVIOUS
<1>5. /\ user' = [account |-> q.account, roles |-> R]
      /\ mode' = IF q.signedUp # Absent THEN q.signedUp ELSE modeFor(R)
      /\ page' = IF page \in STACK \/ (page # "front" /\ mode' = mode) THEN page ELSE home(mode')
      /\ loading' = [loading EXCEPT ![l] = Absent]
      /\ UNCHANGED <<roles, session, overtaken, console, consolePage>>
  BY <1>1, <1>4 DEF loadMe, consoleVars
<1>6. user' \in Account /\ user'.account = q.account /\ user'.roles = R
  BY <1>3, <1>4, <1>5 DEF Account
<1>7. mode' \in MARKETPLACE_ROLES
  <2>1. modeFor(R) \in MARKETPLACE_ROLES
    BY <1>3, <1>4, AbsentIsNoRole DEF modeFor, AccessTypeOK, OrAbsent, MARKETPLACE_ROLES, ROLES
  <2>2. QED
    BY <1>3, <1>5, <2>1 DEF OrAbsent
<1>8. R \cap MARKETPLACE_ROLES # {} => mode' \in R
  <2>1. q.signedUp # Absent => q.signedUp \in R
    BY <1>1, <1>2, <1>4 DEF RolesTold
  <2>2. R \cap MARKETPLACE_ROLES # {} => modeFor(R) \in R
    BY <1>3, <1>4, ModeFits
  <2>3. QED
    BY <1>5, <2>1, <2>2
<1>9. loading' \in [LOADS -> OrAbsent(Loading)]
      /\ \A k \in LOADS : loading'[k] = IF k = l THEN Absent ELSE loading[k]
  BY <1>5 DEF AccessTypeOK, OrAbsent
<1>10. AccessTypeOK'
  <2>1. page' \in PAGES
    BY <1>5 DEF AccessTypeOK, home, PAGES
  <2>2. QED
    BY <1>5, <1>6, <1>7, <1>9, <2>1 DEF AccessTypeOK, OrAbsent
<1>11. RolesTold'
  <2>1. R \subseteq roles[q.account]
    BY <1>1, <1>2, <1>4 DEF RolesTold
  <2>2. user'.roles \subseteq roles'[user'.account]
    BY <1>5, <1>6, <2>1
  <2>3. ASSUME NEW k \in LOADS, loading'[k] # Absent
        PROVE  loading'[k] = loading[k]
    BY <1>9, <2>3
  <2>4. QED
    BY <1>5, <2>2, <2>3 DEF RolesTold
<1>12. ~overtaken => page = "front" /\ session \in {q.account, Absent}
                     /\ \A k \in LOADS : loading'[k] = Absent
  BY <1>1, <1>2, <1>9 DEF OneQuestion, LOADS
<1>13. OneQuestion'
  BY <1>5, <1>12 DEF OneQuestion, LOADS
<1>14. ShownFits'
  <2>1. ASSUME ~overtaken, R \cap MARKETPLACE_ROLES # {}
        PROVE  session' \in {q.account, Absent} /\ mode' \in R /\ PageFits(page', R)
    <3>1. page' = home(mode')
      BY <1>5, <1>12, <2>1 DEF STACK
    <3>2. mode' \in R
      BY <1>8, <2>1
    <3>3. PageFits(home(mode'), R)
      BY <1>7, <3>2, HomeFits
    <3>4. QED
      BY <1>5, <1>12, <2>1, <3>1, <3>2, <3>3
  <2>2. QED
    BY <1>5, <1>6, <2>1 DEF ShownFits
<1>15. AdminsOnly'
  BY <1>5 DEF AdminsOnly
<1>16. QED
  BY <1>10, <1>11, <1>13, <1>14, <1>15

\* No answer, or a refusal.
LEMMA ShowNobodyStep ==
  ASSUME AccessInv, NEW l \in LOADS, loadMeFails(l)
  PROVE  AccessInv'
<1> USE DEF AccessInv
<1>1. PICK q : q = loading[l]
  OBVIOUS
<1>2. q \in Loading
  BY <1>1 DEF loadMeFails, AccessTypeOK, OrAbsent
<1>3. q.signedUp \in OrAbsent(MARKETPLACE_ROLES)
  BY <1>2 DEF Loading
<1>4. /\ user' = Absent
      /\ mode' = IF q.signedUp # Absent THEN q.signedUp ELSE mode
      /\ page' = IF page \in STACK THEN page ELSE "front"
      /\ loading' = [loading EXCEPT ![l] = Absent]
      /\ UNCHANGED <<roles, session, overtaken, console, consolePage>>
  BY <1>1 DEF loadMeFails, consoleVars
<1>5. loading' \in [LOADS -> OrAbsent(Loading)]
      /\ \A k \in LOADS : loading'[k] = IF k = l THEN Absent ELSE loading[k]
  BY <1>4 DEF AccessTypeOK, OrAbsent
<1>6. AccessTypeOK'
  <2>1. mode' \in OrAbsent(MARKETPLACE_ROLES) /\ page' \in PAGES /\ user' \in OrAbsent(Account)
    BY <1>3, <1>4 DEF AccessTypeOK, PAGES, OrAbsent
  <2>2. QED
    BY <1>4, <1>5, <2>1 DEF AccessTypeOK
<1>7. RolesTold'
  BY <1>4, <1>5 DEF RolesTold
<1>8. OneQuestion'
  <2>1. ~overtaken => page' = "front"
    BY <1>1, <1>4 DEF OneQuestion, loadMeFails, STACK
  <2>2. QED
    BY <1>4, <1>5, <2>1 DEF OneQuestion, LOADS
<1>9. ShownFits'
  BY <1>4 DEF ShownFits
<1>10. AdminsOnly'
  BY <1>4 DEF AdminsOnly
<1>11. QED
  BY <1>6, <1>7, <1>8, <1>9, <1>10

\* The app is started.
LEMMA StartStep ==
  ASSUME AccessInv, startApp
  PROVE  AccessInv'
<1> USE DEF AccessInv
<1>1. PICK q : q = IF session = Absent THEN Absent
                   ELSE [account |-> session, told |-> Absent, signedUp |-> Absent]
  OBVIOUS
<1>2. /\ q \in OrAbsent(Loading)
      /\ q # Absent => q.account = session /\ q.told = Absent /\ q.signedUp = Absent
  BY <1>1 DEF AccessTypeOK, OrAbsent, Loading
<1>3. /\ user' = Absent /\ mode' = Absent /\ page' = "front"
      /\ loading' = [start |-> q, form |-> Absent]
      /\ overtaken' = FALSE
      /\ UNCHANGED <<roles, session, console, consolePage>>
  BY <1>1 DEF startApp, consoleVars
<1>4. /\ loading' \in [LOADS -> OrAbsent(Loading)]
      /\ loading'["start"] = q /\ loading'["form"] = Absent
  BY <1>2, <1>3 DEF LOADS, OrAbsent
<1>5. AccessTypeOK'
  <2>1. overtaken' \in BOOLEAN
    BY <1>3
  <2>2. QED
    BY <1>3, <1>4, <2>1 DEF AccessTypeOK, OrAbsent, PAGES
<1>6. RolesTold'
  BY <1>2, <1>3, <1>4 DEF RolesTold, LOADS
<1>7. OneQuestion'
  BY <1>2, <1>3, <1>4 DEF OneQuestion, LOADS
<1>8. ShownFits' /\ AdminsOnly'
  BY <1>3 DEF ShownFits, AdminsOnly
<1>9. QED
  BY <1>5, <1>6, <1>7, <1>8

\* The server tells of an account what its roles are now.
LEMMA AnswerStep ==
  ASSUME AccessInv, NEW l \in LOADS, me(l)
  PROVE  AccessInv'
<1> USE DEF AccessInv
<1>1. PICK q : q = loading[l]
  OBVIOUS
<1>2. q # Absent /\ q \in Loading
  BY <1>1 DEF me, AccessTypeOK, OrAbsent
<1>3. PICK new : new = [q EXCEPT !.told = roles[q.account]]
  OBVIOUS
<1>4. /\ new.account = q.account /\ new.told = roles[q.account] /\ new.signedUp = q.signedUp
      /\ new \in Loading
  BY <1>2, <1>3 DEF Loading, OrAbsent, AccessTypeOK
<1>5. /\ loading' = [loading EXCEPT ![l] = new]
      /\ UNCHANGED <<roles, session, user, mode, page, overtaken, console, consolePage>>
  BY <1>1, <1>3 DEF me, consoleVars
<1>6. loading' \in [LOADS -> OrAbsent(Loading)]
      /\ \A k \in LOADS : loading'[k] = IF k = l THEN new ELSE loading[k]
  BY <1>4, <1>5 DEF AccessTypeOK, OrAbsent
<1>7. AccessTypeOK'
  BY <1>5, <1>6 DEF AccessTypeOK
<1>8. RolesTold'
  <2>1. q.signedUp # Absent => q.signedUp \in roles[q.account]
    BY <1>1, <1>2 DEF RolesTold
  <2>2. ASSUME NEW k \in LOADS, loading'[k] # Absent
        PROVE  /\ loading'[k].told # Absent => loading'[k].told \subseteq roles[loading'[k].account]
               /\ loading'[k].signedUp # Absent =>
                    /\ loading'[k].signedUp \in roles[loading'[k].account]
                    /\ loading'[k].told # Absent => loading'[k].signedUp \in loading'[k].told
    <3>1. CASE k = l
      BY <1>4, <1>6, <2>1, <3>1
    <3>2. CASE k # l
      BY <1>6, <2>2, <3>2 DEF RolesTold
    <3>3. QED
      BY <3>1, <3>2
  <2>3. QED
    BY <1>5, <2>2 DEF RolesTold
<1>9. OneQuestion'
  BY <1>1, <1>2, <1>4, <1>5, <1>6 DEF OneQuestion, LOADS
<1>10. ShownFits' /\ AdminsOnly'
  BY <1>5 DEF ShownFits, AdminsOnly, PageFits
<1>11. QED
  BY <1>7, <1>8, <1>9, <1>10

\* Moving between pages and modes, and losing the tokens.
LEMMA PageStep ==
  ASSUME AccessInv, \/ forgetTokens \/ signOutHere \/ switchMode
                    \/ \E p \in PAGES : goTo(p)
  PROVE  AccessInv'
<1> USE DEF AccessInv
<1>1. CASE forgetTokens
  <2>1. session' = Absent /\ UNCHANGED <<roles, user, mode, page, loading, overtaken, console, consolePage>>
    BY <1>1 DEF forgetTokens, consoleVars
  <2>2. QED
    BY <2>1 DEF AccessTypeOK, OrAbsent, RolesTold, OneQuestion, ShownFits, AdminsOnly, PageFits
<1>2. CASE signOutHere
  <2>1. /\ session' = Absent /\ user' = Absent /\ mode' = Absent /\ page' = "front"
        /\ UNCHANGED <<roles, loading, overtaken, console, consolePage>>
    BY <1>2 DEF signOutHere, consoleVars
  <2>2. AccessTypeOK'
    BY <2>1 DEF AccessTypeOK, OrAbsent, PAGES
  <2>3. QED
    BY <2>1, <2>2 DEF RolesTold, OneQuestion, ShownFits, AdminsOnly
<1>3. CASE switchMode
  <2>1. /\ page = "profile" /\ MARKETPLACE_ROLES \subseteq user.roles
        /\ mode' \in MARKETPLACE_ROLES
        /\ page' = home(mode')
        /\ UNCHANGED <<roles, session, user, loading, overtaken, console, consolePage>>
    BY <1>3 DEF switchMode, consoleVars, MARKETPLACE_ROLES
  <2>2. page' \in PAGES /\ PageFits(page', user.roles)
    BY <2>1, HomeFits
  <2>3. AccessTypeOK'
    BY <2>1, <2>2 DEF AccessTypeOK, OrAbsent
  <2>4. RolesTold' /\ AdminsOnly'
    BY <2>1 DEF RolesTold, AdminsOnly
  <2>5. OneQuestion'
    BY <2>1 DEF OneQuestion
  <2>6. ShownFits'
    BY <2>1, <2>2 DEF ShownFits, PageFits
  <2>7. QED
    BY <2>3, <2>4, <2>5, <2>6
<1>4. ASSUME NEW p \in PAGES, goTo(p)
      PROVE  AccessInv'
  <2>1. /\ IF user # Absent THEN p \in links \cup tabs(mode) ELSE p = "front"
        /\ page' = p
        /\ UNCHANGED <<roles, session, user, mode, loading, overtaken, console, consolePage>>
    BY <1>4 DEF goTo, consoleVars
  <2>2. AccessTypeOK'
    BY <2>1 DEF AccessTypeOK
  <2>3. RolesTold' /\ AdminsOnly'
    BY <2>1 DEF RolesTold, AdminsOnly
  <2>4. OneQuestion'
    BY <2>1 DEF OneQuestion
  <2>5. ShownFits'
    <3>1. ASSUME user # Absent, ~overtaken, user.roles \cap MARKETPLACE_ROLES # {}
          PROVE  /\ session \in {user.account, Absent} /\ mode \in user.roles
                 /\ PageFits(p, user.roles)
      <4>1. session \in {user.account, Absent} /\ mode \in user.roles /\ PageFits(page, user.roles)
        BY <3>1 DEF ShownFits
      <4>2. mode \in MARKETPLACE_ROLES
        <5>1. user.roles \in SUBSET ROLES
          BY <3>1 DEF AccessTypeOK, OrAbsent, Account
        <5>2. QED
          BY <4>1, <5>1, AbsentIsNoRole DEF AccessTypeOK, OrAbsent
      <4>3. CASE p \in links
        BY <4>1, <4>3, LinksFit
      <4>4. CASE p \in tabs(mode)
        BY <4>1, <4>2, <4>4, HomeFits
      <4>5. QED
        BY <2>1, <3>1, <4>1, <4>3, <4>4
    <3>2. QED
      BY <2>1, <3>1 DEF ShownFits, PageFits
  <2>6. QED
    BY <2>2, <2>3, <2>4, <2>5
<1>5. QED
  BY <1>1, <1>2, <1>3, <1>4

\* Every step of the app, the console and the accounts keeps it.
LEMMA AccessStep ==
  ASSUME AccessInv, [AccessNext]_accessVars
  PROVE  AccessInv'
<1>1. ASSUME NEW a \in Accounts, signIn(a)
      PROVE  AccessInv'
  <2>1. storeTokens(a, Absent) /\ roles' = roles
    BY <1>1 DEF signIn
  <2>2. Absent \in OrAbsent(MARKETPLACE_ROLES)
    BY DEF OrAbsent
  <2>3. roles' \in [Accounts -> SUBSET ROLES] /\ \A b \in Accounts : roles[b] \subseteq roles'[b]
    BY <2>1 DEF AccessInv, AccessTypeOK
  <2>4. QED
    BY <2>1, <2>2, <2>3, StoreStep
<1>2. ASSUME NEW a \in Accounts, NEW r \in MARKETPLACE_ROLES, signUp(a, r)
      PROVE  AccessInv'
  <2>1. storeTokens(a, r) /\ roles[a] = {} /\ roles' = [roles EXCEPT ![a] = {r}]
    BY <1>2 DEF signUp, register
  <2>2. r \in OrAbsent(MARKETPLACE_ROLES) /\ {r} \in SUBSET ROLES
    BY DEF OrAbsent, ROLES
  <2>3. roles' \in [Accounts -> SUBSET ROLES] /\ \A b \in Accounts : roles[b] \subseteq roles'[b]
    BY <2>1, <2>2, RolesGrow
  <2>4. r \in roles'[a]
    BY <2>1 DEF AccessInv, AccessTypeOK
  <2>5. QED
    BY <2>1, <2>2, <2>3, <2>4, StoreStep
<1>3. ASSUME NEW a \in Accounts, NEW r \in MARKETPLACE_ROLES, addRole(a, r)
      PROVE  AccessInv'
  <2>1. /\ roles' = [roles EXCEPT ![a] = roles[a] \cup {r}]
        /\ UNCHANGED <<session, user, mode, page, loading, overtaken, console, consolePage>>
    BY <1>3 DEF addRole, appVars, consoleVars
  <2>2. roles[a] \cup {r} \in SUBSET ROLES
    BY DEF AccessInv, AccessTypeOK, ROLES
  <2>3. roles' \in [Accounts -> SUBSET ROLES] /\ \A b \in Accounts : roles[b] \subseteq roles'[b]
    BY <2>1, <2>2, RolesGrow
  <2>4. AccessTypeOK'
    BY <2>1, <2>3 DEF AccessInv, AccessTypeOK
  <2>5. RolesTold'
    <3>1. user # Absent => user.roles \subseteq roles'[user.account]
      <4>1. user # Absent => user.account \in Accounts
        BY DEF AccessInv, AccessTypeOK, OrAbsent, Account
      <4>2. QED
        BY <2>3, <4>1 DEF AccessInv, RolesTold
    <3>2. ASSUME NEW l \in LOADS, loading[l] # Absent
          PROVE  /\ loading[l].told # Absent => loading[l].told \subseteq roles'[loading[l].account]
                 /\ loading[l].signedUp # Absent =>
                      /\ loading[l].signedUp \in roles'[loading[l].account]
                      /\ loading[l].told # Absent => loading[l].signedUp \in loading[l].told
      <4>1. loading[l].account \in Accounts
        BY <3>2 DEF AccessInv, AccessTypeOK, OrAbsent, Loading
      <4>2. roles[loading[l].account] \subseteq roles'[loading[l].account]
        BY <2>3, <4>1
      <4>3. QED
        BY <3>2, <4>2 DEF AccessInv, RolesTold
    <3>3. QED
      BY <2>1, <3>1, <3>2 DEF RolesTold
  <2>6. OneQuestion' /\ ShownFits'
    BY <2>1 DEF AccessInv, OneQuestion, ShownFits, PageFits
  <2>7. AdminsOnly'
    <3>1. console # Absent => console \in Accounts
      BY DEF AccessInv, AccessTypeOK, OrAbsent
    <3>2. QED
      BY <2>1, <2>3, <3>1 DEF AccessInv, AdminsOnly
  <2>8. QED
    BY <2>4, <2>5, <2>6, <2>7 DEF AccessInv
<1>4. CASE ConsoleNext
  <2>1. UNCHANGED <<roles, session, user, mode, page, loading, overtaken>>
    BY <1>4 DEF ConsoleNext, loginConsole, goToConsole, clearSession, appVars
  <2>2. console' \in OrAbsent(Accounts) /\ consolePage' \in {"login"} \cup DOMAIN ConsolePages
    <3>1. "overview" \in DOMAIN ConsolePages
      BY DEF ConsolePages
    <3>2. QED
      BY <1>4, <3>1 DEF ConsoleNext, loginConsole, goToConsole, clearSession,
         AccessInv, AccessTypeOK, OrAbsent
  <2>3. console' # Absent => "ADMIN" \in roles[console']
    BY <1>4 DEF ConsoleNext, loginConsole, goToConsole, clearSession, AccessInv, AdminsOnly
  <2>4. AccessTypeOK'
    BY <2>1, <2>2 DEF AccessInv, AccessTypeOK
  <2>5. RolesTold' /\ OneQuestion' /\ ShownFits'
    BY <2>1 DEF AccessInv, RolesTold, OneQuestion, ShownFits, PageFits
  <2>6. AdminsOnly'
    BY <2>1, <2>3 DEF AdminsOnly
  <2>7. QED
    BY <2>4, <2>5, <2>6 DEF AccessInv
<1>5. CASE UNCHANGED accessVars
  <2>1. UNCHANGED <<roles, session, user, mode, page, loading, overtaken, console, consolePage>>
    BY <1>5 DEF accessVars, appVars, consoleVars
  <2>2. AccessTypeOK'
    BY <2>1 DEF AccessInv, AccessTypeOK
  <2>3. RolesTold' /\ OneQuestion' /\ ShownFits' /\ AdminsOnly'
    BY <2>1 DEF AccessInv, RolesTold, OneQuestion, ShownFits, AdminsOnly, PageFits
  <2>4. QED
    BY <2>2, <2>3 DEF AccessInv
<1>6. QED
  BY <1>1, <1>2, <1>3, <1>4, <1>5, AnswerStep, ShowStep, ShowNobodyStep, StartStep, PageStep
     DEF AccessNext, AppNext

\* The account shown is the one whose tokens are stored, with roles it has, on
\* a page that fits them, as long as no answer was overtaken.
THEOREM AccessInvariance == AccessSpec => []AccessInv
<1>1. AccessInit => AccessInv
  <2>1. ASSUME AccessInit
        PROVE  AccessTypeOK
    <3>1. roles \in [Accounts -> SUBSET ROLES]
      BY <2>1 DEF AccessInit, ROLES
    <3>2. loading \in [LOADS -> OrAbsent(Loading)]
      BY <2>1 DEF AccessInit, OrAbsent
    <3>3. overtaken \in BOOLEAN
      BY <2>1 DEF AccessInit
    <3>4. QED
      BY <2>1, <3>1, <3>2, <3>3 DEF AccessInit, AccessTypeOK, OrAbsent, PAGES
  <2>2. AccessInit => RolesTold /\ OneQuestion /\ ShownFits /\ AdminsOnly
    BY DEF AccessInit, RolesTold, OneQuestion, ShownFits, AdminsOnly, LOADS
  <2>3. QED
    BY <2>1, <2>2 DEF AccessInv
<1>2. AccessInv /\ [AccessNext]_accessVars => AccessInv'
  BY AccessStep
<1>3. QED
  BY <1>1, <1>2, PTL DEF AccessSpec

\* Whoever the app or the console leads to a page may make its requests.
THEOREM PagesServed == AccessSpec => []PagesMayCall
<1>1. AccessInv => PagesMayCall
  BY FitsMayCall
<1>2. QED
  BY <1>1, AccessInvariance, PTL

-----------------------------------------------------------------------------
(* Services: the parts side by side *)

(* A step of the services is a step of each of them, or leaves it alone. *)
LEMMA EachMoves ==
  ASSUME [ServicesNext]_allVars
  PROVE /\ [SessionsNext]_sessionVars
        /\ [VerificationNext]_verificationVars
        /\ [TwoFactorNext]_twoFactorVars
        /\ [RatingsNext]_ratingsVars
        /\ [MessagingNext]_messagingVars
        /\ [NotificationsNext]_notificationsVars
        /\ [WalletsNext]_walletVars
        /\ [TipsNext]_tipVars
        /\ [MoneyNext]_jobMoneyVars
        /\ [PhotosNext]_photoVars
        /\ [MatchingNext]_matchingVars
        /\ [AccessNext]_accessVars
        /\ [RowNext]_consoleRowVars
<1>1. CASE UNCHANGED allVars
  BY <1>1 DEF allVars, accountVars, talkVars, moneyVars, pageVars
<1>2. CASE AccountNext
  BY <1>2 DEF AccountNext, accountVars, talkVars, moneyVars, pageVars
<1>3. CASE TalkNext
  BY <1>3 DEF TalkNext, accountVars, talkVars, moneyVars, pageVars
<1>4. CASE PaymentsNext
  BY <1>4 DEF PaymentsNext, accountVars, talkVars, moneyVars, pageVars
<1>5. CASE WorkNext
  BY <1>5 DEF WorkNext, accountVars, talkVars, moneyVars, pageVars
<1>6. CASE PagesNext
  BY <1>6 DEF PagesNext, accountVars, talkVars, moneyVars, pageVars, AccessNext, accessVars
<1> QED  BY <1>1, <1>2, <1>3, <1>4, <1>5, <1>6 DEF ServicesNext

(* Whichever part moves, every service behaves as its own specification says, *)
(* the others by standing still: what is proved of each alone holds here too. *)
THEOREM EachService ==
  ServicesSpec => /\ SessionsSpec
                  /\ VerificationSpec
                  /\ TwoFactorSpec
                  /\ RatingsSpec
                  /\ MessagingSpec
                  /\ NotificationsSpec
                  /\ WalletsSpec
                  /\ TipsSpec
                  /\ MoneySpec
                  /\ PhotosSpec
                  /\ MatchingSpec
                  /\ AccessSpec
                  /\ RowSpec
<1>1. ServicesInit => /\ SessionsInit
                      /\ VerificationInit
                      /\ TwoFactorInit
                      /\ RatingsInit
                      /\ MessagingInit
                      /\ NotificationsInit
                      /\ WalletsInit
                      /\ TipsInit
                      /\ MoneyInit
                      /\ PhotosInit
                      /\ MatchingInit
                      /\ AccessInit
                      /\ RowInit
  BY DEF ServicesInit
<1>2. [ServicesNext]_allVars => /\ [SessionsNext]_sessionVars
                                /\ [VerificationNext]_verificationVars
                                /\ [TwoFactorNext]_twoFactorVars
                                /\ [RatingsNext]_ratingsVars
                                /\ [MessagingNext]_messagingVars
                                /\ [NotificationsNext]_notificationsVars
                                /\ [WalletsNext]_walletVars
                                /\ [TipsNext]_tipVars
                                /\ [MoneyNext]_jobMoneyVars
                                /\ [PhotosNext]_photoVars
                                /\ [MatchingNext]_matchingVars
                                /\ [AccessNext]_accessVars
                                /\ [RowNext]_consoleRowVars
  BY EachMoves
<1> QED  BY <1>1, <1>2, PTL DEF ServicesSpec, SessionsSpec, VerificationSpec, TwoFactorSpec, RatingsSpec, MessagingSpec, NotificationsSpec, WalletsSpec, TipsSpec, MoneySpec, PhotosSpec, MatchingSpec, AccessSpec, RowSpec
-----------------------------------------------------------------------------
(* Every table of every service keeps its type *)

(* Matching: one step of the workers, of the job or of the fan-out. *)
LEMMA MatchingTypesKept ==
  ASSUME MatchingTypeOK, FanOutInv, [MatchingNext]_matchingVars
  PROVE  MatchingTypeOK'
<1>1. CASE UNCHANGED matchingVars
  BY <1>1 DEF matchingVars, MatchingTypeOK
<1>2. CASE \E w \in Candidates, yes \in BOOLEAN :
             setAvailability(w, yes) \/ upsertProfile(w, yes) \/ setCategories(w, yes)
  <2>1. PICK w \in Candidates, facts \in SUBSET PROFILE :
          profile' = [profile EXCEPT ![w] = facts]
    BY <1>2 DEF MatchingTypeOK, PROFILE, setAvailability, upsertProfile, setCategories
  <2>2. profile' \in [Candidates -> SUBSET PROFILE]
    BY <2>1 DEF MatchingTypeOK
  <2>3. QED
    BY <1>2, <2>2 DEF MatchingTypeOK, setAvailability, upsertProfile, setCategories
<1>3. CASE \E w \in Candidates, yes \in BOOLEAN :
             setVerification(w, yes) \/ setBlocked(w, yes)
  BY <1>3 DEF MatchingTypeOK, setVerification, setBlocked
<1>4. CASE \/ \E w \in Candidates, facts \in SUBSET ACCOUNT : setAccount(w, facts)
           \/ \E facts \in SUBSET CATEGORY : updateCategory(facts)
  BY <1>4 DEF MatchingTypeOK, setAccount, updateCategory
<1>5. fanOutRun.batch \in SUBSET Candidates
  BY DEF MatchingTypeOK
<1>6. reopens => /\ opening' = "MATCHING"
                 /\ fanOutRun' \in [at : {"done", "start", "find", "tell"},
                                    batch : SUBSET Candidates]
  BY <1>5 DEF reopens, MatchingTypeOK
<1>7. CASE (\E w \in Candidates : acceptJob(w) \/ cancelAssignment(w)) \/ othersMove
  BY <1>6, <1>7 DEF MatchingTypeOK, acceptJob, cancelAssignment, othersMove, peopleVars
<1>8. CASE \/ \E w \in Candidates : notifyNext(w)
           \/ readOpening \/ endFanOut
           \/ \E batch \in SUBSET Candidates : findCandidates(batch)
  <2>1. fanOutRun' \in [at : {"done", "start", "find", "tell"}, batch : SUBSET Candidates]
    <3>1. CASE readOpening \/ endFanOut
      BY <1>5, <3>1 DEF MatchingTypeOK, readOpening, endFanOut
    <3>2. CASE \E batch \in SUBSET Candidates : findCandidates(batch)
      BY <3>2 DEF findCandidates
    <3>3. CASE \E w \in Candidates : notifyNext(w)
      <4>1. PICK w \in Candidates, rest \in SUBSET Candidates :
              fanOutRun' = [fanOutRun EXCEPT !.batch = rest]
        BY <1>5, <3>3 DEF notifyNext
      <4>2. QED
        BY <4>1 DEF MatchingTypeOK
    <3>4. QED
      BY <1>8, <3>1, <3>2, <3>3
  <2>2. QED
    BY <1>8, <2>1 DEF MatchingTypeOK, notifyNext, readOpening, endFanOut, findCandidates, peopleVars
<1>9. QED
  BY <1>1, <1>2, <1>3, <1>4, <1>7, <1>8 DEF MatchingNext

\* The profile, the opening, the fan-out and what was sent of matching.service keep their types.
THEOREM MatchingTyped == MatchingSpec => []MatchingTypeOK
<1>1. MatchingInit => MatchingTypeOK
  BY DEF MatchingInit, MatchingTypeOK, ACCOUNT, CATEGORY
<1>2. FanOutInv /\ MatchingTypeOK /\ [MatchingNext]_matchingVars => MatchingTypeOK'
  BY MatchingTypesKept
<1>3. QED
  BY <1>1, <1>2, FanOutInvariance, PTL DEF MatchingSpec

(* TwoFactor: a request to set a secret holds one. *)
FactorTypes ==
  /\ TwoFactorTypeOK
  /\ \A r \in FactorCalls : factorCall[r].at = "setup" => factorCall[r].on \in Secrets

\* A request of the second factor moves to a step that is one of its own.
LEMMA FactorCallTyped ==
  ASSUME FactorTypes, NEW r \in FactorCalls, NEW c \in FactorCall \cup {NoFactorCall},
         c.at = "setup" => c.on \in Secrets,
         factorCall' = [factorCall EXCEPT ![r] = c]
  PROVE  /\ factorCall' \in [FactorCalls -> FactorCall \cup {NoFactorCall}]
         /\ \A s \in FactorCalls : factorCall'[s].at = "setup" => factorCall'[s].on \in Secrets
BY DEF FactorTypes, TwoFactorTypeOK

\* No step of setup, confirm, disable or the mailed code leaves these types.
LEMMA FactorTypesKept ==
  ASSUME FactorTypes, [TwoFactorNext]_twoFactorVars
  PROVE  FactorTypes'
<1> DEFINE CallsTyped == /\ factorCall' \in [FactorCalls -> FactorCall \cup {NoFactorCall}]
                         /\ \A s \in FactorCalls :
                              factorCall'[s].at = "setup" => factorCall'[s].on \in Secrets
<1>1. CASE UNCHANGED twoFactorVars
  BY <1>1 DEF twoFactorVars, totpVars, mailVars, FactorTypes, TwoFactorTypeOK
<1>2. CASE \E t \in ResetTokens : forgotPassword(t)
  BY <1>2 DEF forgotPassword, totpVars, FactorTypes, TwoFactorTypeOK
<1>3. ASSUME NEW r \in FactorCalls, NEW at, NEW on,
             at \in {"setup", "enable", "verified", "reset"},
             on \in OrAbsent(Secrets \cup ResetTokens),
             at = "setup" => on \in Secrets, factorCallBegins(r, at, on)
      PROVE  CallsTyped
  <2>1. PICK c : c = [at |-> at, on |-> on]
    OBVIOUS
  <2>2. c \in FactorCall /\ c.at = at /\ c.on = on
    BY <1>3, <2>1 DEF FactorCall
  <2>3. factorCall' = [factorCall EXCEPT ![r] = c]
    BY <1>3, <2>1 DEF factorCallBegins
  <2>4. QED
    BY <1>3, <2>2, <2>3, FactorCallTyped
<1>4. ASSUME NEW r \in FactorCalls, factorCallEnds(r)
      PROVE  CallsTyped
  <2>1. PICK c : c = NoFactorCall
    OBVIOUS
  <2>2. c.at = "idle" /\ factorCall' = [factorCall EXCEPT ![r] = c]
    BY <1>4, <2>1 DEF factorCallEnds, NoFactorCall
  <2>3. QED
    BY <2>1, <2>2, FactorCallTyped
<1>5. CASE \E r \in FactorCalls, secret \in Secrets : setup(r, secret)
  <2>1. PICK r \in FactorCalls, secret \in Secrets : setup(r, secret)
    BY <1>5
  <2>2. CallsTyped
    BY <1>3, <2>1 DEF setup, OrAbsent
  <2>3. QED
    BY <2>1, <2>2 DEF setup, totpVars, mailVars, FactorTypes, TwoFactorTypeOK
<1>6. CASE \E r \in FactorCalls, t \in ResetTokens \cup {EMAIL_VERIFY} :
             consumeOneTimeToken(r, t)
  <2>1. PICK r \in FactorCalls, t \in ResetTokens \cup {EMAIL_VERIFY} :
          consumeOneTimeToken(r, t)
    BY <1>6
  <2>2. CallsTyped
    BY <1>3, <2>1 DEF consumeOneTimeToken, OrAbsent
  <2>3. QED
    BY <2>1, <2>2 DEF consumeOneTimeToken, totpVars, FactorTypes, TwoFactorTypeOK
<1>7. CASE \E r \in FactorCalls : enable(r)
  <2>1. PICK r \in FactorCalls : enable(r)
    BY <1>7
  <2>2. totpSecret \in Secrets
    BY <2>1 DEF enable, FactorTypes, TwoFactorTypeOK, OrAbsent
  <2>3. CallsTyped
    BY <1>3, <2>1, <2>2 DEF enable, OrAbsent
  <2>4. QED
    BY <2>1, <2>2, <2>3 DEF enable, mailVars, FactorTypes, TwoFactorTypeOK
<1>8. CASE \E r \in FactorCalls :
             setSecret(r) \/ setEnabled(r) \/ setEmailVerified(r) \/ setPasswordHash(r)
             \/ loseFactorCall(r)
  <2>1. PICK r \in FactorCalls :
          setSecret(r) \/ setEnabled(r) \/ setEmailVerified(r) \/ setPasswordHash(r)
          \/ loseFactorCall(r)
    BY <1>8
  <2>2. CallsTyped
    BY <1>4, <2>1 DEF setSecret, setEnabled, setEmailVerified, setPasswordHash, loseFactorCall
  <2>3. totpSecret' \in OrAbsent(Secrets)
    BY <2>1 DEF setSecret, setEnabled, setEmailVerified, setPasswordHash, loseFactorCall,
       totpVars, FactorTypes, TwoFactorTypeOK, OrAbsent
  <2>4. overlapped' \in BOOLEAN /\ totpEnabled' \in BOOLEAN /\ emailVerified' \in BOOLEAN
    BY <2>1, Zenon DEF setSecret, setEnabled, setEmailVerified, setPasswordHash, loseFactorCall,
       totpVars, mailVars, FactorTypes, TwoFactorTypeOK, InFlight
  <2>5. QED
    BY <2>1, <2>2, <2>3, <2>4 DEF setSecret, setEnabled, setEmailVerified, setPasswordHash,
       loseFactorCall, totpVars, mailVars, FactorTypes, TwoFactorTypeOK
<1>9. QED
  BY <1>1, <1>2, <1>5, <1>6, <1>7, <1>8 DEF TwoFactorNext

\* The secrets, the mailed codes and the requests of the second factor keep their types.
THEOREM TwoFactorTyped == TwoFactorSpec => []TwoFactorTypeOK
<1>1. TwoFactorInit => FactorTypes
  <2>1. NoFactorCall.at = "idle"
    BY DEF NoFactorCall
  <2>2. QED
    BY <2>1 DEF TwoFactorInit, FactorTypes, TwoFactorTypeOK, OrAbsent
<1>2. FactorTypes /\ [TwoFactorNext]_twoFactorVars => FactorTypes'
  BY FactorTypesKept
<1>3. FactorTypes => TwoFactorTypeOK
  BY DEF FactorTypes
<1>4. QED
  BY <1>1, <1>2, <1>3, PTL DEF TwoFactorSpec

(* Verification: only a phone that some request brought is ever entered. *)
EnteredTyped == entered \subseteq Phones

\* No step of the phone's verification enters a phone no request brought.
LEMMA EnteredTypedKept ==
  ASSUME VerificationInv, EnteredTyped, [VerificationNext]_verificationVars
  PROVE  EnteredTyped'
<1> USE DEF EnteredTyped
<1>1. CASE UNCHANGED verificationVars
  BY <1>1 DEF verificationVars
<1>2. CASE \E r \in PhoneCalls : compareCode(r)
  <2>1. PICK r \in PhoneCalls : compareCode(r)
    BY <1>2
  <2>2. phoneCall[r] \in {NoPhoneCall} \cup PhoneCall /\ phoneCall[r].at = "compare"
    BY <2>1 DEF compareCode, VerificationInv, CodesOK
  <2>3. phoneCall[r].phone \in Phones
    BY <2>2, IdlePhoneCall DEF PhoneCall
  <2>4. QED
    BY <2>1, <2>3 DEF compareCode
<1>3. CASE \E r \in PhoneCalls :
             \/ \E p \in Phones : requestPhoneCode(r, p)
             \/ \E c \in Codes : insertCode(r, c)
             \/ \E p \in Phones, right \in BOOLEAN : confirmPhone(r, p, right)
             \/ supersede(r) \/ countAttempt(r) \/ consumeCode(r)
             \/ setPhoneVerified(r) \/ losePhoneCall(r)
  BY <1>3 DEF requestPhoneCode, insertCode, confirmPhone, supersede, countAttempt, consumeCode,
     setPhoneVerified, losePhoneCall
<1>4. QED
  BY <1>1, <1>2, <1>3 DEF VerificationNext

\* The codes, the requests and the phones of the verification keep their types.
THEOREM VerificationTyped == VerificationSpec => []VerificationTypeOK
<1>1. VerificationInit => EnteredTyped
  BY DEF VerificationInit, EnteredTyped
<1>2. VerificationInv /\ EnteredTyped /\ [VerificationNext]_verificationVars => EnteredTyped'
  BY EnteredTypedKept
<1>3. VerificationInv /\ EnteredTyped => VerificationTypeOK
  BY DEF VerificationInv, CodesOK, PhoneCall, VerificationTypeOK, EnteredTyped
<1>4. QED
  BY <1>1, <1>2, <1>3, VerificationInvariance, PTL DEF VerificationSpec

(* Messaging: what its invariant leaves open. *)
MessagingTypes ==
  /\ conversation \in BOOLEAN
  /\ blockers \subseteq People
  /\ access \in ACCESSES
  /\ sending \in [People -> {Absent, "unblocked", "writable"}]
  /\ marking <= MaxMarks
  /\ markLost \in BOOLEAN

\* No step of a message sent, a page read or a thread marked leaves these types.
LEMMA MessagingTypesKept ==
  ASSUME MessagingInv, MessagingTypes, [MessagingNext]_messagingVars
  PROVE  MessagingTypes'
<1>1. CASE UNCHANGED messagingVars
  BY <1>1 DEF messagingVars, screenVars, MessagingTypes
<1>2. CASE \E p \in People :
             \/ sendMessage(p) \/ assertConversationWritable(p) \/ insertMessage(p)
             \/ loseMessage(p)
  <2>1. PICK p \in People : \/ sendMessage(p) \/ assertConversationWritable(p)
                           \/ insertMessage(p) \/ loseMessage(p)
    BY <1>2
  <2>2. PICK at \in {Absent, "unblocked", "writable"} :
          sending' = [sending EXCEPT ![p] = at]
    BY <2>1 DEF sendMessage, assertConversationWritable, insertMessage, loseMessage
  <2>3. UNCHANGED <<conversation, blockers, access, marking, markLost>>
    BY <2>1 DEF sendMessage, assertConversationWritable, insertMessage, loseMessage, screenVars
  <2>4. QED
    BY <2>2, <2>3 DEF MessagingTypes
<1>3. CASE \/ ensureConversation \/ \E to \in ACCESSES : jobMoves(to)
           \/ \E p \in People : blockUser(p) \/ unblockUser(p)
  BY <1>3 DEF ensureConversation, jobMoves, blockUser, unblockUser, screenVars, MessagingTypes
<1>4. CASE listMessages \/ showMessages \/ markRead \/ loseMark
  <2>1. marking' <= MaxMarks
    BY <1>4, MarksBounded DEF listMessages, showMessages, markRead, loseMark, MessagingTypes,
       MessagingInv, ConversationOK
  <2>2. markLost' \in BOOLEAN
    BY <1>4, Zenon DEF listMessages, showMessages, markRead, loseMark, MessagingTypes
  <2>3. UNCHANGED <<conversation, blockers, access, sending>>
    BY <1>4 DEF listMessages, showMessages, markRead, loseMark
  <2>4. QED
    BY <2>1, <2>2, <2>3 DEF MessagingTypes
<1>5. QED
  BY <1>1, <1>2, <1>3, <1>4 DEF MessagingNext

\* The thread, its messages, the pages and the mark of messaging.service keep their types.
THEOREM MessagingTyped == MessagingSpec => []MessagingTypeOK
<1>1. MessagingInit => MessagingTypes
  <2> SUFFICES ASSUME MessagingInit PROVE MessagingTypes
    OBVIOUS
  <2>1. conversation \in BOOLEAN /\ markLost \in BOOLEAN
    BY Zenon DEF MessagingInit
  <2>2. marking <= MaxMarks
    BY MarksBounded DEF MessagingInit
  <2>3. sending \in [People -> {Absent, "unblocked", "writable"}]
    BY DEF MessagingInit
  <2>4. QED
    BY <2>1, <2>2, <2>3 DEF MessagingInit, MessagingTypes, ACCESSES
<1>2. MessagingInv /\ MessagingTypes /\ [MessagingNext]_messagingVars => MessagingTypes'
  BY MessagingTypesKept
<1>3. MessagingInv /\ MessagingTypes => MessagingTypeOK
  BY MarksBounded DEF MessagingInv, ConversationOK, PagesInOrder, Message, MessagingTypes,
     MessagingTypeOK, OrAbsent
<1>4. QED
  BY <1>1, <1>2, <1>3, MessagingInvariance, PTL DEF MessagingSpec

(* Notifications: the list of the tokens, and what a dispatch holds.       *)
(* Of any set of tokens one list in their order exists: a smallest set     *)
(* without one would, less its first token, have one.                      *)
Ordered(list, S) ==
  /\ list \in [1 .. Cardinality(S) -> S]
  /\ \A i, j \in 1 .. Cardinality(S) : i < j => list[i] < list[j]

\* A set of numbers that is not empty has a first.
LEMMA FirstOf ==
  ASSUME NEW S, S \subseteq Nat, S # {}
  PROVE  \E x \in S : \A y \in S : x <= y
<1>1. PICK x \in S : \A y \in S : ~(<<y, x>> \in OpToRel(<, Nat))
  BY NatLessThanWellFounded, WFMin
<1>2. ASSUME NEW y \in S, y < x PROVE FALSE
  <2>1. <<y, x>> \in Nat \X Nat
    OBVIOUS
  <2>2. <<y, x>> \in OpToRel(<, Nat)
    BY <1>2, <2>1 DEF OpToRel
  <2>3. QED
    BY <1>1, <2>2
<1>3. QED
  BY <1>2

\* A list of all but the first of a set becomes a list of the set: the first, then the rest.
LEMMA OrderedOneMore ==
  ASSUME NEW S, IsFiniteSet(S), S \subseteq Nat, NEW x \in S, \A y \in S : x <= y,
         NEW rest, Ordered(rest, S \ {x})
  PROVE  \E list : Ordered(list, S)
<1> DEFINE n == Cardinality(S \ {x})
<1>1. IsFiniteSet(S \ {x}) /\ n = Cardinality(S) - 1
  BY FS_RemoveElement
<1>2. n \in Nat /\ Cardinality(S) \in Nat /\ Cardinality(S) = n + 1
  BY <1>1, FS_CardinalityType
<1> HIDE DEF n
<1>3. /\ rest \in [1 .. n -> S \ {x}]
      /\ \A i, j \in 1 .. n : i < j => rest[i] < rest[j]
  BY DEF Ordered, n
<1>4. PICK list : list = [i \in 1 .. n + 1 |-> IF i = 1 THEN x ELSE rest[i - 1]]
  OBVIOUS
<1>5. \A i \in 1 .. n + 1 : i # 1 => i - 1 \in 1 .. n /\ list[i] = rest[i - 1]
  BY <1>2, <1>4
<1>6. list[1] = x /\ 1 \in 1 .. n + 1
  BY <1>2, <1>4
<1>7. ASSUME NEW i \in 1 .. n + 1 PROVE list[i] \in S /\ (i # 1 => x < list[i])
  <2>1. CASE i = 1
    BY <1>6, <2>1
  <2>2. CASE i # 1
    <3>1. PICK k \in 1 .. n : k = i - 1
      BY <1>5, <2>2
    <3>2. rest[k] \in S \ {x}
      BY <1>3
    <3>3. QED
      <4>1. list[i] = rest[k]
        BY <1>5, <2>2, <3>1
      <4>2. x <= rest[k] /\ x # rest[k] /\ x \in Nat /\ rest[k] \in Nat
        BY <3>2
      <4>3. QED
        BY <2>2, <3>2, <4>1, <4>2
  <2>3. QED
    BY <2>1, <2>2
<1>8. list \in [1 .. n + 1 -> S]
  BY <1>4, <1>7
<1>9. \A i, j \in 1 .. n + 1 : i < j => list[i] < list[j]
  BY <1>3, <1>5, <1>6, <1>7
<1>10. QED
  BY <1>2, <1>8, <1>9 DEF Ordered

\* Any finite set of numbers has a list in their order.
LEMMA OrderedExists ==
  ASSUME NEW S, IsFiniteSet(S), S \subseteq Nat
  PROVE  \E list : Ordered(list, S)
<1> DEFINE T == {s \in SUBSET S : ~ \E list : Ordered(list, s)}
<1>1. SUFFICES ASSUME T # {} PROVE FALSE
  OBVIOUS
<1>2. IsWellFoundedOn(StrictSubsetOrdering(S), SUBSET S)
  BY FS_StrictSubsetOrderingWellFounded, FS_FiniteSubsetsOfFinite
<1>3. PICK s \in T : \A y \in T : ~(<<y, s>> \in StrictSubsetOrdering(S))
  <2>1. T \subseteq SUBSET S
    OBVIOUS
  <2> HIDE DEF T
  <2>2. QED
    BY <1>1, <1>2, <2>1, WFMin
<1>4. IsFiniteSet(s) /\ s \in SUBSET S /\ s \subseteq Nat
  BY FS_Subset
<1>5. s # {}
  <2>1. Cardinality({}) = 0
    BY FS_EmptySet
  <2>2. PICK none : none = [i \in 1 .. 0 |-> 0]
    OBVIOUS
  <2>3. Ordered(none, {})
    BY <2>1, <2>2 DEF Ordered
  <2>4. QED
    BY <2>3
<1>6. PICK x \in s : \A y \in s : x <= y
  BY <1>4, <1>5, FirstOf
<1>7. s \ {x} \in SUBSET S /\ <<s \ {x}, s>> \in StrictSubsetOrdering(S)
  BY <1>4, <1>6 DEF StrictSubsetOrdering
<1>8. PICK rest : Ordered(rest, s \ {x})
  BY <1>3, <1>7
<1>9. QED
  BY <1>4, <1>6, <1>8, OrderedOneMore

\* So the list of tokens a dispatch posts holds each token once, in their order.
LEMMA ListOfIs ==
  ASSUME NEW S, IsFiniteSet(S), S \subseteq Nat
  PROVE  Ordered(ListOf(S), S)
<1>1. \E list : Ordered(list, S)
  BY OrderedExists
<1>2. QED
  BY <1>1 DEF ListOf, Ordered

(* What a dispatch holds are rows, and places in their list. *)
PushTyped(q) ==
  q # Absent =>
    /\ q \in Push
    /\ \A t \in q.devices : device[t] # Absent
    /\ q.gone \subseteq 1 .. Cardinality(q.devices \cap ExpoTokens)
    /\ q.at = "lookup" => q.gone = {}

NotificationTypes ==
  /\ device \in [DeviceTokens -> OrAbsent(Device)]
  /\ push = [n \in NotificationIds |-> push[n]]
  /\ \A n \in NotificationIds : PushTyped(push[n])
  /\ took \subseteq NotificationIds
  /\ reported \subseteq DeviceTokens

\* A place in the answer of the gateway is a device the dispatch looked up.
LEMMA TicketIsOfDevice ==
  ASSUME NEW q \in Push, NEW i \in 1 .. Cardinality(q.devices \cap ExpoTokens)
  PROVE  TokenIn(q, i) \in q.devices /\ TokenIn(q, i) \in DeviceTokens
<1>1. PICK S : S = q.devices \cap ExpoTokens
  OBVIOUS
<1>2. S \subseteq DeviceTokens /\ S \subseteq Nat /\ IsFiniteSet(S)
  BY <1>1, TokensAreNumbered, TokensFinite, FS_Subset
<1>3. Ordered(ListOf(S), S)
  BY <1>2, ListOfIs
<1>4. ListOf(S)[i] \in S
  BY <1>1, <1>3 DEF Ordered
<1>5. QED
  BY <1>1, <1>2, <1>4 DEF TokenIn

\* A step of one dispatch alone keeps the types of the others.
LEMMA PushTypedMoves ==
  ASSUME NotificationTypes, NEW n \in NotificationIds, NEW q, PushTyped(q),
         push' = [push EXCEPT ![n] = q], device' = device,
         took' \subseteq NotificationIds, reported' \subseteq DeviceTokens
  PROVE  NotificationTypes'
<1>1. PICK p : p = push'
  OBVIOUS
<1>2. p = [k \in NotificationIds |-> p[k]]
  BY <1>1 DEF NotificationTypes
<1>3. \A k \in NotificationIds : PushTyped(p[k])
  BY <1>1 DEF NotificationTypes
<1>4. \A k \in NotificationIds : PushTyped(p[k])'
  BY <1>3 DEF PushTyped
<1>5. QED
  BY <1>1, <1>2, <1>4 DEF NotificationTypes

\* A dispatch begins, looks up its devices, posts, records what came back, or is lost.
LEMMA DispatchTyped ==
  ASSUME NotificationTypes, NEW n \in NotificationIds,
         \/ \E u \in Recipients : notify(n, u)
         \/ findDevices(n) \/ postPush(n) \/ recordOutcome(n) \/ pushFails(n) \/ losePush(n)
  PROVE  NotificationTypes'
<1>1. PICK q : q = push[n]
  OBVIOUS
<1>2. PushTyped(q) /\ PushTyped(Absent)
  BY <1>1 DEF NotificationTypes, PushTyped
<1>3. took \subseteq NotificationIds /\ reported \subseteq DeviceTokens
  BY DEF NotificationTypes
<1>4. CASE \E u \in Recipients : notify(n, u)
  <2>1. PICK x : x = [at |-> "lookup", devices |-> {}, accepted |-> FALSE, gone |-> {}]
    OBVIOUS
  <2>2. push' = [push EXCEPT ![n] = x] /\ UNCHANGED <<device, took, reported>>
    BY <1>4, <2>1 DEF notify
  <2>3. x \in Push /\ x.devices = {} /\ x.gone = {}
    BY <2>1 DEF Push
  <2>4. PushTyped(x)
    BY <2>3 DEF PushTyped
  <2>5. QED
    BY <1>3, <2>2, <2>4, PushTypedMoves
<1>5. CASE pushFails(n) \/ losePush(n)
  <2>1. push' = [push EXCEPT ![n] = Absent] /\ UNCHANGED <<device, took, reported>>
    BY <1>5 DEF pushFails, losePush
  <2>2. QED
    BY <1>2, <1>3, <2>1, PushTypedMoves
<1>6. CASE findDevices(n)
  <2>1. PICK mine : /\ mine = {t \in Rows(device) : device[t].owner = notification[n].user
                                                    /\ ~device[t].disabled}
                    /\ push' = [push EXCEPT ![n] =
                         IF mine \cap ExpoTokens = {} THEN Absent
                         ELSE [@ EXCEPT !.at = "post", !.devices = mine]]
                    /\ UNCHANGED <<device, took, reported>>
                    /\ q # Absent /\ q.at = "lookup"
    BY <1>1, <1>6 DEF findDevices
  <2>2. mine \subseteq DeviceTokens /\ \A t \in mine : device[t] # Absent
    BY <2>1 DEF Rows, NotificationTypes
  <2>3. CASE mine \cap ExpoTokens = {}
    BY <1>2, <1>3, <2>1, <2>3, PushTypedMoves
  <2>4. CASE mine \cap ExpoTokens # {}
    <3>1. PICK x : x = [[q EXCEPT !.at = "post"] EXCEPT !.devices = mine]
      OBVIOUS
    <3>2. push' = [push EXCEPT ![n] = x]
      BY <1>1, <2>1, <2>4, <3>1
    <3>3. QED
      <4>1. x \in Push /\ x.devices = mine /\ x.gone = q.gone /\ x.at = "post"
        BY <1>2, <2>1, <2>2, <3>1 DEF PushTyped, Push
      <4>2. q.gone = {}
        BY <1>2, <2>1 DEF PushTyped
      <4>3. PushTyped(x)
        BY <2>2, <4>1, <4>2 DEF PushTyped
      <4>4. QED
        BY <1>3, <2>1, <3>2, <4>3, PushTypedMoves
  <2>5. QED
    BY <2>3, <2>4
<1>7. CASE postPush(n)
  <2>1. q # Absent /\ q \in Push /\ UNCHANGED device
    BY <1>1, <1>2, <1>7 DEF postPush, PushTyped
  <2>2. PICK size : size = Cardinality(q.devices \cap ExpoTokens)
    OBVIOUS
  <2>3. PICK tickets \in {<<>>} \cup [1 .. size -> {"ok", "gone", "error"}] :
          LET gone == {i \in DOMAIN tickets : tickets[i] = "gone"}
          IN  /\ push' = [push EXCEPT ![n].at = "record", ![n].gone = gone,
                                      ![n].accepted = accepts(n, tickets)]
              /\ took' = IF \E i \in DOMAIN tickets : tickets[i] = "ok"
                           THEN took \cup {n} ELSE took
              /\ reported' = reported \cup {ListOf(Valid(n))[i] : i \in gone}
    BY <1>1, <1>7, <2>2 DEF postPush, Valid
  <2>4. PICK gone, yes : /\ gone = {i \in DOMAIN tickets : tickets[i] = "gone"}
                         /\ yes = accepts(n, tickets)
    OBVIOUS
  <2>5. gone \subseteq 1 .. size /\ yes \in BOOLEAN
    <3>1. gone \subseteq 1 .. size
      <4>1. CASE tickets = <<>>
        BY <2>4, <4>1
      <4>2. CASE tickets \in [1 .. size -> {"ok", "gone", "error"}]
        BY <2>4, <4>2
      <4>3. QED
        BY <2>3, <4>1, <4>2
    <3>2. yes \in BOOLEAN
      BY <2>4, Zenon DEF accepts
    <3>3. QED
      BY <3>1, <3>2
  <2>6. PICK x : x = [[[q EXCEPT !.at = "record"] EXCEPT !.gone = gone] EXCEPT !.accepted = yes]
    OBVIOUS
  <2>7. push' = [push EXCEPT ![n] = x]
    BY <1>1, <2>3, <2>4, <2>6
  <2>8. x \in Push /\ x.devices = q.devices /\ x.gone = gone /\ x.at = "record"
    <3>1. x = [at |-> "record", devices |-> q.devices, accepted |-> yes, gone |-> gone]
      BY <2>1, <2>6 DEF Push
    <3>2. gone \in SUBSET Nat
      BY <2>5
    <3>3. q.devices \in SUBSET DeviceTokens
      BY <2>1 DEF Push
    <3>4. x \in Push
      BY <2>5, <3>1, <3>2, <3>3 DEF Push
    <3>5. QED
      BY <3>1, <3>4
  <2>9. PushTyped(x)
    BY <1>2, <2>1, <2>2, <2>5, <2>8 DEF PushTyped
  <2>10. reported' \subseteq DeviceTokens
    <3>1. \A i \in gone : ListOf(Valid(n))[i] = TokenIn(q, i)
      BY <1>1 DEF Valid, TokenIn
    <3>2. \A i \in gone : TokenIn(q, i) \in DeviceTokens
      BY <2>1, <2>2, <2>5, TicketIsOfDevice
    <3>3. QED
      BY <1>3, <2>3, <2>4, <3>1, <3>2
  <2>11. took' \subseteq NotificationIds
    BY <1>3, <2>3
  <2>12. QED
    BY <2>1, <2>7, <2>9, <2>10, <2>11, PushTypedMoves
<1>8. CASE recordOutcome(n)
  <2>1. q # Absent /\ q \in Push /\ UNCHANGED <<device, took, reported>>
    BY <1>1, <1>2, <1>8 DEF recordOutcome, PushTyped
  <2>2. CASE q.gone = {}
    <3>1. push' = [push EXCEPT ![n] = Absent]
      BY <1>1, <1>8, <2>2 DEF recordOutcome
    <3>2. QED
      BY <1>2, <1>3, <2>1, <3>1, PushTypedMoves
  <2>3. CASE q.gone # {}
    <3>1. PICK x : x = [q EXCEPT !.at = "disable"]
      OBVIOUS
    <3>2. push' = [push EXCEPT ![n] = x]
      BY <1>1, <1>8, <2>3, <3>1 DEF recordOutcome
    <3>3. x \in Push /\ x.devices = q.devices /\ x.gone = q.gone /\ x.at = "disable"
      BY <2>1, <3>1 DEF Push
    <3>4. PushTyped(x)
      BY <1>2, <2>1, <3>3 DEF PushTyped
    <3>5. QED
      BY <1>3, <2>1, <3>2, <3>4, PushTypedMoves
  <2>4. QED
    BY <2>2, <2>3
<1>9. QED
  BY <1>4, <1>5, <1>6, <1>7, <1>8

\* A token is disabled, or registered for a user: what a dispatch holds is still a row.
LEMMA DeviceStepsTyped ==
  ASSUME NotificationTypes,
         \/ \E n \in NotificationIds : disableDevice(n)
         \/ \E u \in Recipients, t \in DeviceTokens : registerDeviceToken(u, t)
  PROVE  NotificationTypes'
<1>1. ASSUME NEW t \in DeviceTokens, NEW row \in Device,
             device' = [device EXCEPT ![t] = row], NEW q, PushTyped(q)
      PROVE  PushTyped(q)'
  BY <1>1, AbsentIsNoNotice DEF PushTyped, NotificationTypes
<1>2. CASE \E n \in NotificationIds : disableDevice(n)
  <2>1. PICK n \in NotificationIds : disableDevice(n)
    BY <1>2
  <2>2. PICK p, q : p = push /\ q = push[n]
    OBVIOUS
  <2>3. q # Absent /\ PushTyped(q) /\ UNCHANGED <<took, reported>>
    BY <2>1, <2>2 DEF disableDevice, NotificationTypes
  <2>4. PICK i \in q.gone : /\ device' = [device EXCEPT ![tokenOf(n, i)].disabled = TRUE]
                           /\ push' = [push EXCEPT ![n] = nextGone(q, i)]
    BY <2>1, <2>2 DEF disableDevice
  <2>5. PICK t \in DeviceTokens : t = tokenOf(n, i) /\ device[t] # Absent
    <3>1. q \in Push /\ i \in 1 .. Cardinality(q.devices \cap ExpoTokens)
      BY <2>3, <2>4 DEF PushTyped
    <3>2. TokenIn(q, i) \in q.devices /\ TokenIn(q, i) \in DeviceTokens
      BY <3>1, TicketIsOfDevice
    <3>3. QED
      BY <2>2, <2>3, <3>2, TokenOfIs DEF PushTyped
  <2>6. PICK row : row = [device[t] EXCEPT !.disabled = TRUE]
    OBVIOUS
  <2>7. row \in Device /\ device' = [device EXCEPT ![t] = row]
    BY <2>4, <2>5, <2>6 DEF NotificationTypes, OrAbsent, Device
  <2>8. PICK x : x = nextGone(q, i)
    OBVIOUS
  <2>9. PushTyped(x)
    <3>1. CASE q.gone = {i}
      BY <2>8, <3>1 DEF PushTyped, nextGone
    <3>2. CASE q.gone # {i}
      <4>1. x \in Push /\ x.devices = q.devices /\ x.gone = q.gone \ {i} /\ x.at = q.at
        BY <2>3, <2>8, <3>2 DEF PushTyped, Push, nextGone
      <4>2. QED
        BY <2>3, <4>1 DEF PushTyped
    <3>3. QED
      BY <3>1, <3>2
  <2>10. PICK v : v = push'
    OBVIOUS
  <2>11. /\ v = [k \in NotificationIds |-> v[k]]
         /\ \A k \in NotificationIds : PushTyped(v[k])
    BY <2>2, <2>4, <2>8, <2>9, <2>10 DEF NotificationTypes
  <2>12. \A k \in NotificationIds : PushTyped(v[k])'
    BY <1>1, <2>7, <2>11
  <2>13. device' \in [DeviceTokens -> OrAbsent(Device)]
    BY <2>7 DEF NotificationTypes, OrAbsent
  <2>14. QED
    BY <2>3, <2>10, <2>11, <2>12, <2>13 DEF NotificationTypes
<1>3. CASE \E u \in Recipients, t \in DeviceTokens : registerDeviceToken(u, t)
  <2>1. PICK u \in Recipients, t \in DeviceTokens : registerDeviceToken(u, t)
    BY <1>3
  <2>2. PICK row : row = [owner |-> u, disabled |-> FALSE]
    OBVIOUS
  <2>3. row \in Device /\ device' = [device EXCEPT ![t] = row]
    BY <2>1, <2>2 DEF registerDeviceToken, Device
  <2>4. reported' \subseteq reported /\ UNCHANGED <<push, took>>
    BY <2>1 DEF registerDeviceToken
  <2>5. PICK v : v = push'
    OBVIOUS
  <2>6. /\ v = [k \in NotificationIds |-> v[k]]
        /\ \A k \in NotificationIds : PushTyped(v[k])
    BY <2>4, <2>5 DEF NotificationTypes
  <2>7. \A k \in NotificationIds : PushTyped(v[k])'
    BY <1>1, <2>3, <2>6
  <2>8. device' \in [DeviceTokens -> OrAbsent(Device)]
    BY <2>3 DEF NotificationTypes, OrAbsent
  <2>9. QED
    BY <2>4, <2>5, <2>6, <2>7, <2>8 DEF NotificationTypes
<1>4. QED
  BY <1>2, <1>3

\* The devices, the dispatches and what was taken or reported keep their types.
THEOREM NotificationsTyped == NotificationsSpec => []NotificationsTypeOK
<1>1. NotificationsInit => NotificationTypes
  BY DEF NotificationsInit, NotificationTypes, PushTyped, OrAbsent
<1>2. NotificationTypes /\ [NotificationsNext]_notificationsVars => NotificationTypes'
  <2> SUFFICES ASSUME NotificationTypes, [NotificationsNext]_notificationsVars
               PROVE  NotificationTypes'
    OBVIOUS
  <2>1. CASE UNCHANGED notificationsVars
    <3>1. UNCHANGED <<device, push, took, reported>>
      BY <2>1 DEF notificationsVars
    <3>2. PICK p : p = push
      OBVIOUS
    <3>3. \A n \in NotificationIds : PushTyped(p[n])
      BY <3>2 DEF NotificationTypes
    <3>4. \A n \in NotificationIds : PushTyped(p[n])'
      BY <3>1, <3>3 DEF PushTyped
    <3>5. QED
      BY <3>1, <3>2, <3>4 DEF NotificationTypes
  <2>2. CASE \E n \in NotificationIds :
               \/ \E u \in Recipients : notify(n, u)
               \/ findDevices(n) \/ postPush(n) \/ recordOutcome(n) \/ pushFails(n)
               \/ losePush(n)
    BY <2>2, DispatchTyped
  <2>3. CASE \/ \E n \in NotificationIds : disableDevice(n)
             \/ \E u \in Recipients, t \in DeviceTokens : registerDeviceToken(u, t)
    BY <2>3, DeviceStepsTyped
  <2>4. QED
    BY <2>1, <2>2, <2>3 DEF NotificationsNext
<1>3. PushInv /\ NotificationTypes => NotificationsTypeOK
  <2> SUFFICES ASSUME PushInv, NotificationTypes PROVE NotificationsTypeOK
    OBVIOUS
  <2>1. push \in [NotificationIds -> OrAbsent(Push)]
    BY DEF NotificationTypes, PushTyped, OrAbsent
  <2>2. notification \in [NotificationIds -> OrAbsent(Notification)]
    BY DEF PushInv, NotificationOK, OrAbsent
  <2>3. QED
    BY <2>1, <2>2 DEF NotificationTypes, NotificationsTypeOK
<1>4. QED
  BY <1>1, <1>2, <1>3, NotificationsInvariance, PTL DEF NotificationsSpec

(* Tips: what its invariant leaves open. *)
PayoutsEnabledTyped == payouts_enabled \in BOOLEAN

\* Only the gateway's answer sets whether payouts are enabled, and to yes or no.
LEMMA PayoutsEnabledKept ==
  ASSUME PayoutsEnabledTyped, [TipsNext]_tipVars
  PROVE  PayoutsEnabledTyped'
<1> USE DEF PayoutsEnabledTyped
<1>1. CASE UNCHANGED tipVars
  BY <1>1 DEF tipVars
<1>2. CASE setPayoutsEnabled
  BY <1>2, Zenon DEF setPayoutsEnabled
<1>3. ASSUME NEW k \in TipCalls,
             \/ \E a \in CompletedWork : BeginTip(k, a)
             \/ \E p \in TipRows : insertTip(k, p)
             \/ \E reply \in {"succeeded", "declined"}, arrives \in BOOLEAN :
                  chargeTip(k, reply, arrives)
             \/ \E made, arrives \in BOOLEAN : transferTip(k, made, arrives)
             \/ \E fails \in BOOLEAN : recordTransfer(k, fails)
             \/ recordCharge(k) \/ insertPayout(k) \/ readAccount(k)
             \/ recordFailure(k) \/ emitReleased(k) \/ failTip(k)
      PROVE  UNCHANGED payouts_enabled
  BY <1>3 DEF BeginTip, insertTip, chargeTip, transferTip, recordTransfer, recordCharge,
     insertPayout, readAccount, recordFailure, emitReleased, failTip
<1>4. CASE \E a \in CompletedWork : reverseTransfer(a) \/ transferReversed(a)
  BY <1>4 DEF reverseTransfer, transferReversed
<1>5. QED
  BY <1>1, <1>2, <1>3, <1>4 DEF TipsNext

\* The rows, the requests and the payouts of a tip keep their types.
THEOREM TipsTyped == TipsSpec => []TipsTypeOK
<1>1. TipsInit => PayoutsEnabledTyped
  BY DEF TipsInit, PayoutsEnabledTyped
<1>2. PayoutsEnabledTyped /\ [TipsNext]_tipVars => PayoutsEnabledTyped'
  BY PayoutsEnabledKept
<1>3. TipsInv /\ PayoutsEnabledTyped => TipsTypeOK
  BY DEF TipsInv, TipCallsOK, TipRowsOK, PayoutsOK, TipRow, TipsTypeOK, PayoutsEnabledTyped
<1>4. QED
  BY <1>1, <1>2, <1>3, TipsInvariance, PTL DEF TipsSpec

(* Console: decisions are counted up to the bound. *)
DecisionsCounted == decisions <= MaxDecisions

\* A decision is carried out only below the bound.
LEMMA DecisionsCountedKept ==
  ASSUME ConsoleInv, DecisionsCounted, [RowNext]_consoleRowVars
  PROVE  DecisionsCounted'
<1>1. CASE \E a \in Admins : carryOut(a)
  BY <1>1, DecisionsBounded DEF carryOut, DecisionsCounted, ConsoleInv, RecordOK
<1>2. CASE \E a \in Admins :
             \/ load(a) \/ refuse(a) \/ loseDecision(a) \/ adminAudit(a)
             \/ \E s \in STATUSES[kind] : show(a, s) \/ decideRow(a, s)
  BY <1>2 DEF load, refuse, loseDecision, adminAudit, show, decideRow, DecisionsCounted
<1>3. CASE rowMoves \/ UNCHANGED consoleRowVars
  BY <1>3 DEF rowMoves, consoleRowVars, DecisionsCounted
<1>4. QED
  BY <1>1, <1>2, <1>3 DEF RowNext

\* With it the rows, the decisions and the audit record are of their types.
LEMMA ConsoleTypes ==
  ASSUME ConsoleInv, DecisionsCounted
  PROVE  ConsoleTypeOK
<1>1. audited \in 0 .. MaxDecisions /\ decisions \in 0 .. MaxDecisions
  <2>1. PICK n \in Nat : n = Cardinality(Auditing)
    BY AuditingFinite
  <2>2. audited \in Nat /\ decisions \in Nat /\ audited + n <= decisions
    BY <2>1 DEF ConsoleInv, RecordOK
  <2>3. QED
    BY <2>2, DecisionsBounded DEF DecisionsCounted
<1>2. seen \in [Admins -> OrAbsent(STATUSES[kind])]
  BY DEF ConsoleInv, RowsOK, OrAbsent
<1>3. decision \in [Admins -> OrAbsent(Decision)]
  BY DEF ConsoleInv, DecisionsOK, DecisionOK, OrAbsent
<1>4. QED
  BY <1>1, <1>2, <1>3 DEF ConsoleInv, RowsOK, ConsoleTypeOK

\* The row under decision, what each administrator sees and the audit record keep their types.
THEOREM ConsoleTyped == RowSpec => []ConsoleTypeOK
<1>1. RowInit => DecisionsCounted
  BY DecisionsBounded DEF RowInit, DecisionsCounted
<1>2. ConsoleInv /\ DecisionsCounted /\ [RowNext]_consoleRowVars => DecisionsCounted'
  BY DecisionsCountedKept
<1>3. ConsoleInv /\ DecisionsCounted => ConsoleTypeOK
  BY ConsoleTypes
<1>4. QED
  BY <1>1, <1>2, <1>3, ConsoleInvariance, PTL DEF RowSpec

(* JobPhotos: while the form attaches a photo, it has a posting. *)
PhotosTypes ==
  /\ bytes \subseteq Photos
  /\ photoIds \subseteq Photos
  /\ upload \in [Photos -> {Absent, "put", "insert", "answer"}]
  /\ job \in [JobIds -> {Absent, "OPEN", "STAFFED"}]
  /\ posting \in OrAbsent(Posting)
  /\ \A r \in AttachCalls :
       attachCall[r] # Absent /\ attachCall[r].form =>
         posting \in Posting /\ posting.at \in {"attach", "left"}

\* The form picks, uploads, posts and leaves: each step keeps these types.
LEMMA PhotoFormTyped ==
  ASSUME PhotosTypes,
         \/ \E p \in Photos : \/ pickPhoto(p) \/ putBytes(p) \/ insertFile(p)
                              \/ addPhoto(p) \/ uploadFails(p) \/ attachRefused(p)
         \/ submit \/ createAnswered \/ createFails \/ leaveForm
         \/ \E j \in JobIds : createPosted(j) \/ jobIsStaffed(j)
  PROVE  PhotosTypes'
<1>1. attachCall' = attachCall
  BY DEF pickPhoto, putBytes, insertFile, addPhoto, uploadFails, attachRefused, submit,
         createAnswered, createFails, leaveForm, createPosted, jobIsStaffed, jobVars
<1>2. CASE \E p \in Photos : pickPhoto(p) \/ putBytes(p) \/ insertFile(p) \/ addPhoto(p)
                             \/ uploadFails(p)
  BY <1>1, <1>2 DEF pickPhoto, putBytes, insertFile, addPhoto, uploadFails, formVars, jobVars,
     PhotosTypes
<1>3. CASE \E j \in JobIds : jobIsStaffed(j)
  BY <1>1, <1>3 DEF jobIsStaffed, fileVars, formVars, PhotosTypes
<1>4. CASE submit
  <2>1. PICK x : x = [at |-> "create", job |-> Absent, left |-> photoIds]
    OBVIOUS
  <2>2. x \in Posting
    BY <2>1 DEF Posting, PhotosTypes, OrAbsent
  <2>3. posting' = x /\ posting = Absent
    BY <1>4, <2>1 DEF submit, mayPress
  <2>4. QED
    BY <1>1, <1>4, <2>2, <2>3, AbsentIsNoPosting DEF submit, fileVars, jobVars, PhotosTypes, OrAbsent
<1>5. CASE createFails
  BY <1>1, <1>5 DEF createFails, fileVars, jobVars, PhotosTypes, OrAbsent
<1>6. CASE \/ createAnswered \/ leaveForm
           \/ \E j \in JobIds : createPosted(j)
           \/ \E p \in Photos : attachRefused(p)
  <2>1. PICK old : old = posting
    OBVIOUS
  <2>2. old \in Posting
    BY <1>6, <2>1 DEF createAnswered, leaveForm, createPosted, attachRefused, PhotosTypes, OrAbsent
  <2>3. CASE createAnswered \/ leaveForm
    <3>1. PICK at \in {"attach", "left"} : posting' = [old EXCEPT !.at = at]
      BY <2>1, <2>3 DEF createAnswered, leaveForm
    <3>2. posting' \in Posting /\ posting'.at \in {"attach", "left"}
      BY <2>2, <3>1 DEF Posting
    <3>3. QED
      BY <1>1, <2>3, <3>2 DEF createAnswered, leaveForm, fileVars, jobVars, PhotosTypes, OrAbsent
  <2>4. CASE \E j \in JobIds : createPosted(j)
    <3>1. PICK j \in JobIds : createPosted(j)
      BY <2>4
    <3>2. posting' = [old EXCEPT !.at = "answer", !.job = j] /\ old.at = "create"
      BY <2>1, <3>1 DEF createPosted
    <3>3. posting' \in Posting
      BY <2>2, <3>2 DEF Posting, OrAbsent
    <3>4. QED
      BY <1>1, <2>1, <3>1, <3>2, <3>3 DEF createPosted, fileVars, PhotosTypes, OrAbsent
  <2>5. CASE \E p \in Photos : attachRefused(p)
    <3>1. PICK p \in Photos : attachRefused(p)
      BY <2>5
    <3>2. posting' = [old EXCEPT !.left = old.left \ {p}]
      BY <2>1, <3>1 DEF attachRefused
    <3>3. posting' \in Posting /\ posting'.at = old.at
      BY <2>2, <3>2 DEF Posting
    <3>4. QED
      BY <1>1, <2>1, <3>1, <3>3 DEF attachRefused, fileVars, jobVars, PhotosTypes, OrAbsent
  <2>6. QED
    BY <1>6, <2>3, <2>4, <2>5
<1>7. QED
  BY <1>2, <1>3, <1>4, <1>5, <1>6

\* A request to attach is begun, counts, inserts or fails: each step keeps these types.
LEMMA PhotoAttachTyped ==
  ASSUME PhotosTypes, AttachedOK, NEW r \in AttachCalls,
         \/ \E j \in JobIds, p \in Photos, form \in BOOLEAN : beginAttach(r, j, p, form)
         \/ countPhotos(r) \/ insertPhoto(r) \/ attachFails(r)
  PROVE  PhotosTypes'
<1>1. UNCHANGED <<bytes, upload, photoIds, job>>
  BY DEF beginAttach, countPhotos, insertPhoto, attachFails, attachEnds, fileVars, formVars
<1>2. CASE \E j \in JobIds, p \in Photos, form \in BOOLEAN : beginAttach(r, j, p, form)
  <2>1. PICK j \in JobIds, p \in Photos, form \in BOOLEAN : beginAttach(r, j, p, form)
    BY <1>2
  <2>2. PICK c : c = [job |-> j, file |-> p, counted |-> Absent, form |-> form]
    OBVIOUS
  <2>3. attachCall' = [attachCall EXCEPT ![r] = c] /\ posting' = posting /\ c.form = form
    BY <2>1, <2>2 DEF beginAttach, formVars
  <2>4. form => posting \in Posting /\ posting.at = "attach"
    BY <2>1 DEF beginAttach, PhotosTypes, OrAbsent
  <2>5. QED
    BY <1>1, <2>3, <2>4 DEF PhotosTypes, AttachedOK
<1>3. CASE countPhotos(r)
  <2>1. PICK n, c : c = attachCall[r] /\ attachCall' = [attachCall EXCEPT ![r].counted = n]
    BY <1>3 DEF countPhotos
  <2>2. PICK d : d = [c EXCEPT !.counted = n]
    OBVIOUS
  <2>3. attachCall' = [attachCall EXCEPT ![r] = d] /\ c \in AttachCall /\ c # Absent
    BY <1>3, <2>1, <2>2 DEF countPhotos, AttachedOK
  <2>4. d.form = c.form
    BY <2>2, <2>3 DEF AttachCall
  <2>5. posting' = posting
    BY <1>3 DEF countPhotos, formVars
  <2>6. QED
    BY <1>1, <2>1, <2>3, <2>4, <2>5 DEF PhotosTypes, AttachedOK
<1>4. CASE insertPhoto(r) \/ attachFails(r)
  <2>1. PICK c, old : c = attachCall[r] /\ old = posting
    OBVIOUS
  <2>2. /\ attachCall' = [attachCall EXCEPT ![r] = Absent] /\ c # Absent
        /\ posting' = IF c.form THEN [old EXCEPT !.left = old.left \ {c.file}] ELSE old
    BY <1>4, <2>1 DEF insertPhoto, attachFails, attachEnds
  <2>3. c.form => old \in Posting
    BY <2>1, <2>2 DEF PhotosTypes
  <2>4. posting' \in OrAbsent(Posting)
        /\ (old \in Posting => posting' \in Posting /\ posting'.at = old.at)
    <3>1. CASE c.form
      BY <2>2, <2>3, <3>1 DEF Posting, OrAbsent
    <3>2. CASE ~c.form
      BY <2>1, <2>2, <3>2 DEF PhotosTypes
    <3>3. QED
      BY <3>1, <3>2
  <2>5. QED
    BY <1>1, <2>1, <2>2, <2>4 DEF PhotosTypes, AttachedOK
<1>5. QED
  BY <1>2, <1>3, <1>4

\* The files, the jobs, the form and the requests to attach keep their types.
THEOREM PhotosTyped == PhotosSpec => []PhotosTypeOK
<1>1. PhotosInit => PhotosTypes
  BY DEF PhotosInit, PhotosTypes, OrAbsent
<1>2. PhotosInv /\ PhotosTypes /\ [PhotosNext]_photoVars => PhotosTypes'
  <2> SUFFICES ASSUME PhotosInv, PhotosTypes, [PhotosNext]_photoVars PROVE PhotosTypes'
    OBVIOUS
  <2>1. CASE UNCHANGED photoVars
    BY <2>1 DEF photoVars, PhotosTypes
  <2>2. AttachedOK
    BY DEF PhotosInv
  <2>3. QED
    BY <2>1, <2>2, PhotoFormTyped, PhotoAttachTyped DEF PhotosNext
<1>3. PhotosInv /\ PhotosTypes => PhotosTypeOK
  BY DEF PhotosInv, AttachedOK, BytesFirst, PhotosTypes, PhotosTypeOK, OrAbsent
<1>4. QED
  BY <1>1, <1>2, <1>3, PhotosInvariance, PTL DEF PhotosSpec

(* Sessions: every request but those that end sessions names its device. *)
DeviceNamed(c) == c.at \notin {"idle", "delete", "endAll", "ending"} => c.device \in Devices

SessionTypes ==
  /\ account \in ACCOUNT_STATUSES
  /\ disturbed \subseteq Devices
  /\ \A r \in Calls : DeviceNamed(call[r])

\* One request begins, goes on or ends.
LEMMA SessionTypesMove ==
  ASSUME SessionTypes, CallsOK, NEW r \in Calls, NEW c, DeviceNamed(c),
         call' = [call EXCEPT ![r] = c],
         account' \in ACCOUNT_STATUSES, disturbed' \subseteq Devices
  PROVE  SessionTypes'
BY DEF SessionTypes, CallsOK, DeviceNamed

\* A request past its first step has a device, and the fields of a request.
LEMMA SessionGoesOn ==
  ASSUME SessionTypes, CallsOK, NEW r \in Calls,
         call[r].at \notin {"idle", "delete", "endAll", "ending"}
  PROVE  \E c : /\ c = call[r] /\ c.device \in Devices
               /\ c \in [at : CALL_STEPS, device : OrAbsent(Devices),
                         token : OrAbsent(Tokens), targets : SUBSET Tokens]
<1>1. NoCall.at = "idle"
  BY DEF NoCall
<1>2. QED
  BY <1>1 DEF SessionTypes, CallsOK, DeviceNamed

\* A device begins a refresh or a sign-out, or takes an answer: each keeps these types.
LEMMA DeviceStepTyped ==
  ASSUME SessionTypes, CallsOK, NEW r \in Calls, DeviceSteps(r)
  PROVE  SessionTypes'
<1>1. NoCall.at = "idle" /\ DeviceNamed(NoCall)
  BY DEF NoCall, DeviceNamed
<1>2. account \in ACCOUNT_STATUSES /\ disturbed \subseteq Devices
  BY DEF SessionTypes
<1>3. CASE \E d \in Devices : tryRefresh(r, d) \/ signOut(r, d)
  <2>1. PICK d \in Devices : tryRefresh(r, d) \/ signOut(r, d)
    BY <1>3
  <2>2. PICK c :
          /\ c \in {[at |-> "refresh", device |-> d, token |-> stored[d], targets |-> {}],
                    [at |-> "logout", device |-> d, token |-> stored[d], targets |-> {}]}
          /\ call' = [call EXCEPT ![r] = c]
    BY <2>1 DEF tryRefresh, signOut, BeginCall
  <2>3. DeviceNamed(c)
    BY <2>2 DEF DeviceNamed
  <2>4. account' = account /\ disturbed' \subseteq Devices
    BY <1>2, <2>1 DEF tryRefresh, signOut
  <2>5. QED
    BY <1>2, <2>2, <2>3, <2>4, SessionTypesMove
<1>4. CASE receive(r) \/ storeSignIn(r) \/ clearTokens(r) \/ loseCall(r)
  <2>1. call' = [call EXCEPT ![r] = NoCall] /\ account' = account
    BY <1>4 DEF receive, storeSignIn, clearTokens, loseCall, EndCall
  <2>2. disturbed' \subseteq Devices
    <3>1. CASE receive(r) \/ clearTokens(r)
      BY <1>2, <3>1 DEF receive, clearTokens
    <3>2. CASE storeSignIn(r)
      BY <1>2, <3>2, SessionGoesOn DEF storeSignIn
    <3>3. CASE loseCall(r)
      BY <1>2, <3>3, SessionGoesOn DEF loseCall
    <3>4. QED
      BY <1>4, <3>1, <3>2, <3>3
  <2>3. QED
    BY <1>1, <1>2, <2>1, <2>2, SessionTypesMove
<1>5. QED
  BY <1>3, <1>4 DEF DeviceSteps

\* The server's step of a request, from the token taken to the tokens ended, keeps these types.
LEMMA ServerStepTyped ==
  ASSUME SessionTypes, CallsOK, NEW r \in Calls, SessionServerSteps(r)
  PROVE  SessionTypes'
<1>1. NoCall.at = "idle" /\ DeviceNamed(NoCall)
  BY DEF NoCall, DeviceNamed
<1>2. account \in ACCOUNT_STATUSES /\ disturbed \subseteq Devices
      /\ {"ACTIVE", "SUSPENDED", "DELETION_REQUESTED"} = ACCOUNT_STATUSES
  BY DEF SessionTypes, ACCOUNT_STATUSES
<1>3. CASE \/ takeToken(r) \/ reactivate(r) \/ logout(r)
           \/ \E u : rotate(r, u) \/ issueTokenPair(r, u)
           \/ revoke(r) /\ call[r].at = "reuse"
  <2>1. PICK old : /\ old = call[r] /\ old.device \in Devices
                   /\ old \in [at : CALL_STEPS, device : OrAbsent(Devices),
                               token : OrAbsent(Tokens), targets : SUBSET Tokens]
    <3>1. call[r].at \notin {"idle", "delete", "endAll", "ending"}
      BY <1>3 DEF takeToken, reactivate, logout, rotate, issueTokenPair
    <3>2. QED
      BY <3>1, SessionGoesOn
  <2>2. \E at, t, S :
          \/ call' = [call EXCEPT ![r].at = at]
          \/ call' = [call EXCEPT ![r].at = at, ![r].token = t]
          \/ call' = [call EXCEPT ![r].at = at, ![r].targets = S]
    BY <1>3 DEF takeToken, reactivate, logout, rotate, issueTokenPair, revoke, CallAt
  <2>3. PICK c : call' = [call EXCEPT ![r] = c] /\ c.device = old.device
    <3>1. PICK at, t, S :
            \/ call' = [call EXCEPT ![r].at = at]
            \/ call' = [call EXCEPT ![r].at = at, ![r].token = t]
            \/ call' = [call EXCEPT ![r].at = at, ![r].targets = S]
      BY <2>2
    <3>2. PICK x, y, z : /\ x = [old EXCEPT !.at = at]
                         /\ y = [old EXCEPT !.at = at, !.token = t]
                         /\ z = [old EXCEPT !.at = at, !.targets = S]
      OBVIOUS
    <3>3. x.device = old.device /\ y.device = old.device /\ z.device = old.device
      BY <2>1, <3>2
    <3>4. call' = [call EXCEPT ![r] = x] \/ call' = [call EXCEPT ![r] = y]
          \/ call' = [call EXCEPT ![r] = z]
      BY <2>1, <3>1, <3>2
    <3>5. QED
      BY <3>3, <3>4
  <2>4. account' \in ACCOUNT_STATUSES /\ disturbed' = disturbed
    BY <1>2, <1>3 DEF takeToken, reactivate, logout, rotate, issueTokenPair, revoke
  <2>5. DeviceNamed(c)
    BY <2>1, <2>3 DEF DeviceNamed
  <2>6. QED
    BY <1>2, <2>3, <2>4, <2>5, SessionTypesMove
<1>4. CASE revoke(r) /\ call[r].at # "reuse"
  <2>1. call' = [call EXCEPT ![r] = NoCall] /\ UNCHANGED <<account, disturbed>>
    BY <1>4 DEF revoke, EndCall
  <2>2. QED
    BY <1>1, <1>2, <2>1, SessionTypesMove
<1>5. CASE \E d \in Devices : login(r, d)
  <2>1. PICK d, at, c :
          /\ d \in Devices
          /\ c = [at |-> at, device |-> d, token |-> Absent, targets |-> {}]
          /\ call' = [call EXCEPT ![r] = c] /\ UNCHANGED <<account, disturbed>>
    BY <1>5 DEF login, BeginCall
  <2>2. DeviceNamed(c)
    BY <2>1 DEF DeviceNamed
  <2>3. QED
    BY <1>2, <2>1, <2>2, SessionTypesMove
<1>6. CASE beginDeletion(r) \/ suspend(r) \/ resetPassword(r)
  <2>1. PICK c :
          /\ c \in {[at |-> "delete", device |-> Absent, token |-> Absent, targets |-> {}],
                    [at |-> "endAll", device |-> Absent, token |-> Absent, targets |-> {}]}
          /\ call' = [call EXCEPT ![r] = c]
    BY <1>6 DEF beginDeletion, suspend, resetPassword, BeginCall
  <2>2. DeviceNamed(c)
    BY <2>1 DEF DeviceNamed
  <2>3. account' \in ACCOUNT_STATUSES /\ disturbed' = disturbed
    BY <1>2, <1>6 DEF beginDeletion, suspend, resetPassword
  <2>4. QED
    BY <1>2, <2>1, <2>2, <2>3, SessionTypesMove
<1>7. CASE requestDeletion(r) \/ revokeAllSessions(r)
  <2>1. PICK old : /\ old = call[r]
                   /\ old \in [at : CALL_STEPS, device : OrAbsent(Devices),
                               token : OrAbsent(Tokens), targets : SUBSET Tokens]
    BY <1>1, <1>7 DEF requestDeletion, revokeAllSessions, CallsOK
  <2>2. PICK c : call' = [call EXCEPT ![r] = c] /\ c.at \in {"endAll", "ending"}
    <3>1. PICK x, y : /\ x = [old EXCEPT !.at = "endAll"]
                      /\ y = [old EXCEPT !.at = "ending", !.targets = LiveTokens]
      OBVIOUS
    <3>2. x.at = "endAll" /\ y.at = "ending"
      BY <2>1, <3>1
    <3>3. call' = [call EXCEPT ![r] = x] \/ call' = [call EXCEPT ![r] = y]
      BY <1>7, <2>1, <3>1 DEF requestDeletion, revokeAllSessions, CallAt
    <3>4. QED
      BY <3>2, <3>3
  <2>3. DeviceNamed(c)
    BY <2>2 DEF DeviceNamed
  <2>4. account' \in ACCOUNT_STATUSES /\ disturbed' \subseteq Devices
    BY <1>2, <1>7 DEF requestDeletion, revokeAllSessions
  <2>5. QED
    BY <2>2, <2>3, <2>4, SessionTypesMove
<1>8. QED
  BY <1>3, <1>4, <1>5, <1>6, <1>7 DEF SessionServerSteps

\* The tokens, the account, the requests and what a device stores keep their types.
THEOREM SessionsTyped == SessionsSpec => []SessionsTypeOK
<1>1. SessionsInit => SessionTypes
  <2>1. NoCall.at = "idle"
    BY DEF NoCall
  <2>2. QED
    BY <2>1 DEF SessionsInit, SessionTypes, DeviceNamed, ACCOUNT_STATUSES
<1>2. SessionsInv /\ SessionTypes /\ [SessionsNext]_sessionVars => SessionTypes'
  <2> SUFFICES ASSUME SessionsInv, SessionTypes, [SessionsNext]_sessionVars PROVE SessionTypes'
    OBVIOUS
  <2>1. CASE UNCHANGED sessionVars
    BY <2>1 DEF sessionVars, SessionTypes, DeviceNamed
  <2>2. CASE restore
    BY <2>2 DEF restore, SessionTypes, DeviceNamed, ACCOUNT_STATUSES
  <2>3. CallsOK
    BY DEF SessionsInv
  <2>4. QED
    BY <2>1, <2>2, <2>3, DeviceStepTyped, ServerStepTyped DEF SessionsNext
<1>3. SessionsInv /\ SessionTypes => SessionsTypeOK
  BY DEF SessionsInv, TokensOK, CallsOK, StoredOK, SessionTypes, SessionsTypeOK
<1>4. QED
  BY <1>1, <1>2, <1>3, SessionsInvariance, PTL DEF SessionsSpec

(* Wallets: what its invariant leaves open. *)
ReadyTyped == ready \subseteq GatewayIds

\* Only an account of the gateway becomes ready.
LEMMA ReadyKept ==
  ASSUME WalletsInv, ReadyTyped, [WalletsNext]_walletVars
  PROVE  ReadyTyped'
<1> USE DEF ReadyTyped
<1>1. CASE UNCHANGED walletVars
  BY <1>1 DEF walletVars, gatewayVars
<1>2. CASE \E u \in Users : completeOnboarding(u)
  BY <1>2 DEF completeOnboarding, WalletsInv, StoredRowsOK, AccountRow
<1>3. ASSUME NEW k \in WalletCalls,
             \/ \E u \in Users, purpose \in PURPOSES, c \in OrAbsent(Cards) :
                  BeginWallet(k, u, purpose, c)
             \/ \E id \in GatewayIds : createAtGateway(k, id)
             \/ \E c \in Cards : createSetupIntent(k, c)
             \/ readRow(k) \/ insertRow(k) \/ checkCard(k) \/ setDefaultPaymentMethod(k)
             \/ onboard(k) \/ readStatus(k) \/ updatePayoutAccount(k) \/ failWallet(k)
      PROVE  UNCHANGED ready
  BY <1>3 DEF BeginWallet, createAtGateway, createSetupIntent, readRow, insertRow, checkCard,
     setDefaultPaymentMethod, onboard, readStatus, updatePayoutAccount, failWallet, gatewayVars
<1>4. CASE \/ \E u \in Users, enabled \in BOOLEAN : accountUpdated(u, enabled)
           \/ \E c \in Cards : confirmSetup(c)
  BY <1>4 DEF accountUpdated, confirmSetup, gatewayVars
<1>5. QED
  BY <1>1, <1>2, <1>3, <1>4 DEF WalletsNext

\* The rows, the gateway's accounts and the requests of a wallet keep their types.
THEOREM WalletsTyped == WalletsSpec => []WalletsTypeOK
<1>1. WalletsInit => ReadyTyped
  BY DEF WalletsInit, ReadyTyped
<1>2. WalletsInv /\ ReadyTyped /\ [WalletsNext]_walletVars => ReadyTyped'
  BY ReadyKept
<1>3. WalletsInv /\ ReadyTyped => WalletsTypeOK
  <2> SUFFICES ASSUME WalletsInv, ReadyTyped PROVE WalletsTypeOK
    OBVIOUS
  <2>1. walletCall \in [WalletCalls -> OrAbsent(WalletCall)]
    BY DEF WalletsInv, WalletCallsOK, WalletCallOK, OrAbsent
  <2>2. QED
    BY <2>1 DEF WalletsInv, GatewayOK, StoredRowsOK, ReadyTyped, WalletsTypeOK
<1>4. QED
  BY <1>1, <1>2, <1>3, WalletsInvariance, PTL DEF WalletsSpec

(* The services together: each behaves as it does alone, and so every      *)
(* table of every one of them keeps its type.                              *)
THEOREM ServicesTyped == ServicesSpec => []ServicesTypeOK
<1>1. ServicesInit => part \in PARTS
  BY DEF ServicesInit
<1>2. part \in PARTS /\ [ServicesNext]_allVars => (part \in PARTS)'
  BY DEF ServicesNext, allVars
<1>3. ServicesSpec => [](part \in PARTS)
  BY <1>1, <1>2, PTL DEF ServicesSpec
<1>4. /\ RatingsInv => RatingsTypeOK
      /\ MoneyInv => MoneyTypeOK
      /\ AccessInv => AccessTypeOK
  BY DEF RatingsInv, MoneyInv, AccessInv
<1>5. /\ part \in PARTS
      /\ SessionsTypeOK /\ VerificationTypeOK /\ TwoFactorTypeOK
      /\ RatingsTypeOK /\ MessagingTypeOK /\ NotificationsTypeOK
      /\ WalletsTypeOK /\ TipsTypeOK /\ MoneyTypeOK
      /\ PhotosTypeOK /\ MatchingTypeOK /\ AccessTypeOK /\ ConsoleTypeOK
      => ServicesTypeOK
  BY DEF ServicesTypeOK
<1>6. QED
  BY <1>3, <1>4, <1>5, EachService, SessionsTyped, VerificationTyped, TwoFactorTyped,
     RatingsInvariance, MessagingTyped, NotificationsTyped, WalletsTyped, TipsTyped,
     MoneyInvariance, PhotosTyped, MatchingTyped, AccessInvariance, ConsoleTyped, PTL
=============================================================================
