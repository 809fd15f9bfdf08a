---------------------------- MODULE Verification ----------------------------
(***************************************************************************)
(* How one account proves its phone number: the codes among                *)
(* one_time_tokens, and users.phone.                                       *)
(*                                                                         *)
(* None of these handlers opens a transaction: each statement commits by   *)
(* itself, and a request may end, or its server die, after any of them.    *)
(* Requests of the same account run side by side.  Times are left out: a   *)
(* code that has expired is one nobody uses any more.                      *)
(***************************************************************************)
EXTENDS Tables

CONSTANTS
  Phones,       \* phone numbers
  Codes,        \* 1..n: rows of type PHONE_CODE, in the order of created_at
  PhoneCalls,   \* requests about the phone in flight
  PHONE_CODE_MAX_ATTEMPTS

ASSUME CodesAreNumbered == Codes \subseteq Nat
ASSUME PhoneCallsFinite == IsFiniteSet(PhoneCalls)
ASSUME AttemptsPositive == PHONE_CODE_MAX_ATTEMPTS \in Nat \ {0}

VARIABLES
  code,       \* rows of type PHONE_CODE: what was hashed, attempts, consumed
  phone,      \* users.phone, set together with phone_verified_at
  phoneCall,  \* the requests in flight
  entered     \* history: the phones for which a code sent to them was entered

verificationVars == <<code, phone, phoneCall, entered>>

CodeRow == [phone : Phones, attempts : Nat, consumed : BOOLEAN]

ASSUME AbsentIsNoCode == Absent \notin CodeRow /\ Absent \notin Phones

\* right: the digits that a confirmation brings are those of the code it read.
NoPhoneCall == [at |-> "idle", phone |-> Absent, right |-> FALSE, row |-> Absent]
PHONE_STEPS == {"insert", "supersede", "attempt", "compare", "consume", "set"}

VerificationTypeOK ==
  /\ code \in [Codes -> OrAbsent(CodeRow)]
  /\ phone \in OrAbsent(Phones)
  /\ phoneCall \in [PhoneCalls -> {NoPhoneCall} \cup
                      [at : PHONE_STEPS, phone : Phones, right : BOOLEAN,
                       row : OrAbsent(Codes)]]
  /\ entered \subseteq Phones

VerificationInit ==
  /\ code = [c \in Codes |-> Absent]
  /\ phone = Absent
  /\ phoneCall = [r \in PhoneCalls |-> NoPhoneCall]
  /\ entered = {}

-----------------------------------------------------------------------------
Unconsumed == {c \in Rows(code) : ~code[c].consumed}
Latest(c, S) == c \in S /\ \A d \in S : d <= c

phoneCallAt(r, at) == phoneCall' = [phoneCall EXCEPT ![r].at = at]
phoneCallEnds(r) == phoneCall' = [phoneCall EXCEPT ![r] = NoPhoneCall]

(* Faults: definitions of this module as a plausible slip would have       *)
(* written them, used only to see that the properties below notice them.   *)

\* The phone is not part of what was hashed.
Fault_matchesDigits(r) == phoneCall[r].right

\* What was hashed is what the request brings.
matches(r) ==
  LET q == phoneCall[r]
  IN  q.right /\ code[q.row].phone = q.phone

mayTry(c) == code[c].attempts < PHONE_CODE_MAX_ATTEMPTS

-----------------------------------------------------------------------------
(* requestPhoneCode *)

\* Refused when another account has the phone.
requestPhoneCode(r, p) ==
  /\ phoneCall[r] = NoPhoneCall
  /\ phoneCall' = [phoneCall EXCEPT ![r] = [NoPhoneCall EXCEPT !.at = "insert", !.phone = p]]
  /\ UNCHANGED <<code, phone, entered>>

\* The next row, with digits nobody can foresee.
insertCode(r, c) ==
  /\ phoneCall[r].at = "insert"
  /\ code[c] = Absent /\ \A d \in Codes : d < c => code[d] # Absent
  /\ code' = [code EXCEPT ![c] = [phone |-> phoneCall[r].phone, attempts |-> 0,
                                  consumed |-> FALSE]]
  /\ phoneCallAt(r, "supersede")
  /\ UNCHANGED <<phone, entered>>

\* All but the latest are consumed, then the code is sent.
supersede(r) ==
  /\ phoneCall[r].at = "supersede"
  /\ code' = [c \in Codes |->
                IF c \in Unconsumed /\ ~Latest(c, Rows(code))
                  THEN [code[c] EXCEPT !.consumed = TRUE] ELSE code[c]]
  /\ phoneCallEnds(r)
  /\ UNCHANGED <<phone, entered>>

-----------------------------------------------------------------------------
(* confirmPhone: read, count the attempt, compare, consume, set the phone *)

confirmPhone(r, p, right) ==
  /\ phoneCall[r] = NoPhoneCall
  /\ \E c \in Codes :
       /\ Latest(c, Unconsumed)
       /\ mayTry(c)
       /\ phoneCall' = [phoneCall EXCEPT ![r] = [at |-> "attempt", phone |-> p,
                                                 right |-> right, row |-> c]]
  /\ UNCHANGED <<code, phone, entered>>

countAttempt(r) ==
  /\ phoneCall[r].at = "attempt"
  /\ code' = [code EXCEPT ![phoneCall[r].row].attempts = @ + 1]
  /\ phoneCallAt(r, "compare")
  /\ UNCHANGED <<phone, entered>>

compareCode(r) ==
  /\ phoneCall[r].at = "compare"
  /\ IF matches(r) THEN phoneCallAt(r, "consume") ELSE phoneCallEnds(r)
  /\ entered' = IF matches(r) /\ code[phoneCall[r].row].phone = phoneCall[r].phone
                  THEN entered \cup {phoneCall[r].phone} ELSE entered
  /\ UNCHANGED <<code, phone>>

consumeCode(r) ==
  /\ phoneCall[r].at = "consume"
  /\ code' = [code EXCEPT ![phoneCall[r].row].consumed = TRUE]
  /\ phoneCallAt(r, "set")
  /\ UNCHANGED <<phone, entered>>

\* users.phone is UNIQUE: refused when another account has taken the phone
\* meanwhile, and the code is spent all the same.
setPhoneVerified(r) ==
  /\ phoneCall[r].at = "set"
  /\ phone' \in {phone, phoneCall[r].phone}
  /\ phoneCallEnds(r)
  /\ UNCHANGED <<code, entered>>

\* The request fails between two statements.
losePhoneCall(r) ==
  /\ phoneCall[r] # NoPhoneCall
  /\ phoneCallEnds(r)
  /\ UNCHANGED <<code, phone, entered>>

VerificationNext ==
  \E r \in PhoneCalls :
    \/ \E p \in Phones : requestPhoneCode(r, p)
    \/ \E c \in Codes : insertCode(r, c)
    \/ \E p \in Phones, right \in BOOLEAN : confirmPhone(r, p, right)
    \/ supersede(r) \/ countAttempt(r) \/ compareCode(r) \/ consumeCode(r)
    \/ setPhoneVerified(r) \/ losePhoneCall(r)

VerificationSpec == VerificationInit /\ [][VerificationNext]_verificationVars

-----------------------------------------------------------------------------
(* What must hold *)

PhoneWasProven == phone # Absent => phone \in entered

TriesBounded ==
  \A c \in Rows(code) :
    code[c].attempts <= PHONE_CODE_MAX_ATTEMPTS + Cardinality(PhoneCalls) - 1

\* Comment: "the code only confirms the number it was sent to"
\* (auth.service.ts): however requests for several numbers and their
\* confirmations overlap, the account's phone is one whose own code was
\* entered.  And the limit of attempts on a code is exceeded by no more than
\* the requests that ran at the same time: the read of the count and its
\* increment are two statements, and each request in flight may have read it
\* before the others counted.
CodesHold == PhoneWasProven /\ TriesBounded
=============================================================================
