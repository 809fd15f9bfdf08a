------------------------------ MODULE Wallets -------------------------------
(***************************************************************************)
(* How people are known to the payment gateway: a customer and the card    *)
(* that is charged by default, a worker and the account that is paid       *)
(* (payments.service.ts, with the calls it makes of stripe.gateway.ts).    *)
(*                                                                         *)
(* Whoever is not known yet is made known: read the row, create at the     *)
(* gateway, insert the row unless another call was faster.  The call goes  *)
(* on with what it created, not with what is stored, and nothing is locked *)
(* in between.  A call may fail or its server die after any step.          *)
(***************************************************************************)
EXTENDS Tables

CONSTANTS
  Users,       \* each is a customer and a worker
  GatewayIds,  \* what the gateway may create: customers and accounts
  Cards,       \* payment methods, each coming from one setup intent
  WalletCalls  \* requests in flight

VARIABLES
  createdFor, \* gateway: the idempotency key a customer or account was made with
  intentOf,   \* gateway: the customer each setup intent is for
  attachedTo, \* gateway: the customer each card is attached to
  ready,      \* gateway: accounts to which transfers may be made
  paymentCustomer, \* rows of payment_customers
  payoutAccount,   \* rows of payout_accounts
  walletCall       \* the requests in flight

gatewayVars == <<createdFor, intentOf, attachedTo, ready>>
rowVars == <<paymentCustomer, payoutAccount>>
walletVars == <<gatewayVars, rowVars, walletCall>>

Keys == {"customer", "account"} \X Users
CustomerRow == [customer : GatewayIds, default_payment_method : OrAbsent(Cards)]
AccountRow == [account : GatewayIds, payouts_enabled : BOOLEAN]

ASSUME AbsentIsNoId ==
  Absent \notin GatewayIds \cup Keys \cup CustomerRow \cup AccountRow

\* What a request wants: to set up a card, to use one by default, to be led
\* through the onboarding of the payout account, to look at its status.
PURPOSES == {"setup", "default", "onboard", "refresh"}
WalletCall ==
  [user : Users, purpose : PURPOSES, card : OrAbsent(Cards),
   at : {"read", "create", "insert", "use", "store"},
   id : OrAbsent(GatewayIds), status : BOOLEAN]

WalletsTypeOK ==
  /\ createdFor \in [GatewayIds -> OrAbsent(Keys)]
  /\ intentOf \in [Cards -> OrAbsent(GatewayIds)]
  /\ attachedTo \in [Cards -> OrAbsent(GatewayIds)]
  /\ ready \subseteq GatewayIds
  /\ paymentCustomer \in [Users -> OrAbsent(CustomerRow)]
  /\ payoutAccount \in [Users -> OrAbsent(AccountRow)]
  /\ walletCall \in [WalletCalls -> OrAbsent(WalletCall)]

WalletsInit ==
  /\ createdFor = [i \in GatewayIds |-> Absent]
  /\ intentOf = [c \in Cards |-> Absent]
  /\ attachedTo = [c \in Cards |-> Absent]
  /\ ready = {}
  /\ paymentCustomer = [u \in Users |-> Absent]
  /\ payoutAccount = [u \in Users |-> Absent]
  /\ walletCall = [k \in WalletCalls |-> Absent]

-----------------------------------------------------------------------------
(* Faults: definitions of this module as a plausible slip would have       *)
(* written them, used only to see that the property below notices them.    *)

\* Nothing is sent along that would let the gateway recognise a repetition.
Fault_alwaysNew(key, id) == createdFor[id] = Absent

\* createCustomer and createExpressAccount: the key names the user, so the
\* gateway answers a repetition with what it made the first time.
answersWith(key, id) ==
  \/ createdFor[id] = key
  \/ createdFor[id] = Absent /\ \A i \in GatewayIds : createdFor[i] # key

\* setDefaultPaymentMethod asks whose card it is; syncFromSetupIntent asks for
\* whom the setup was and whether it is done, which is the same answer.
belongsTo(c, customer) == attachedTo[c] = customer

-----------------------------------------------------------------------------
\* The table of a purpose, and the id stored there.
inCustomers(k) == walletCall[k].purpose \in {"setup", "default"}
keyOf(k) == <<IF inCustomers(k) THEN "customer" ELSE "account", walletCall[k].user>>
storedId(k) ==
  LET u == walletCall[k].user
  IN  IF inCustomers(k)
        THEN IF paymentCustomer[u] = Absent THEN Absent ELSE paymentCustomer[u].customer
        ELSE IF payoutAccount[u] = Absent THEN Absent ELSE payoutAccount[u].account

walletAt(k, at) == walletCall[k] # Absent /\ walletCall[k].at = at
endWallet(k) == walletCall' = [walletCall EXCEPT ![k] = Absent]

BeginWallet(k, u, purpose, c) ==
  /\ walletCall[k] = Absent
  /\ purpose = "default" <=> c # Absent
  /\ walletCall' = [walletCall EXCEPT ![k] =
       [user |-> u, purpose |-> purpose, card |-> c, at |-> "read", id |-> Absent,
        status |-> FALSE]]
  /\ UNCHANGED <<gatewayVars, rowVars>>

\* ensureStripeCustomer, and the same lines for accounts.  Only a refresh is
\* refused when there is no account yet.
readRow(k) ==
  /\ walletAt(k, "read")
  /\ IF storedId(k) # Absent
       THEN walletCall' = [walletCall EXCEPT ![k].at = "use", ![k].id = storedId(k)]
       ELSE IF walletCall[k].purpose = "refresh"
              THEN endWallet(k)
              ELSE walletCall' = [walletCall EXCEPT ![k].at = "create"]
  /\ UNCHANGED <<gatewayVars, rowVars>>

createAtGateway(k, id) ==
  /\ walletAt(k, "create")
  /\ answersWith(keyOf(k), id)
  /\ createdFor' = [createdFor EXCEPT ![id] = keyOf(k)]
  /\ walletCall' = [walletCall EXCEPT ![k].at = "insert", ![k].id = id]
  /\ UNCHANGED <<intentOf, attachedTo, ready, rowVars>>

\* INSERT ... ON CONFLICT DO NOTHING.
insertRow(k) ==
  LET q == walletCall[k] IN
  /\ walletAt(k, "insert")
  /\ walletCall' = [walletCall EXCEPT ![k].at = "use"]
  /\ IF storedId(k) # Absent THEN UNCHANGED rowVars
     ELSE IF inCustomers(k)
       THEN /\ paymentCustomer' = [paymentCustomer EXCEPT ![q.user] =
                                     [customer |-> q.id, default_payment_method |-> Absent]]
            /\ UNCHANGED payoutAccount
       ELSE /\ payoutAccount' = [payoutAccount EXCEPT ![q.user] =
                                   [account |-> q.id, payouts_enabled |-> FALSE]]
            /\ UNCHANGED paymentCustomer
  /\ UNCHANGED gatewayVars

\* createSetupIntent: the app shows the card sheet for it.
createSetupIntent(k, c) ==
  /\ walletAt(k, "use") /\ walletCall[k].purpose = "setup"
  /\ intentOf[c] = Absent
  /\ intentOf' = [intentOf EXCEPT ![c] = walletCall[k].id]
  /\ endWallet(k)
  /\ UNCHANGED <<createdFor, attachedTo, ready, rowVars>>

\* The card's owner is asked for, and the default set in a second step.
checkCard(k) ==
  /\ walletAt(k, "use") /\ walletCall[k].purpose = "default"
  /\ IF belongsTo(walletCall[k].card, walletCall[k].id)
       THEN walletCall' = [walletCall EXCEPT ![k].at = "store"]
       ELSE endWallet(k)
  /\ UNCHANGED <<gatewayVars, rowVars>>

setDefaultPaymentMethod(k) ==
  LET q == walletCall[k] IN
  /\ walletAt(k, "store") /\ q.purpose = "default"
  /\ paymentCustomer[q.user] # Absent
  /\ paymentCustomer' = [paymentCustomer EXCEPT ![q.user].default_payment_method = q.card]
  /\ endWallet(k)
  /\ UNCHANGED <<gatewayVars, payoutAccount>>

\* createOnboardingLink: a link to the account the call knows.
onboard(k) ==
  /\ walletAt(k, "use") /\ walletCall[k].purpose = "onboard"
  /\ endWallet(k)
  /\ UNCHANGED <<gatewayVars, rowVars>>

\* refreshPayoutAccountStatus: what the gateway said is stored later, and may
\* be older by then than what a webhook has stored.
readStatus(k) ==
  /\ walletAt(k, "use") /\ walletCall[k].purpose = "refresh"
  /\ walletCall' = [walletCall EXCEPT ![k].at = "store",
                                      ![k].status = walletCall[k].id \in ready]
  /\ UNCHANGED <<gatewayVars, rowVars>>

updatePayoutAccount(k) ==
  LET q == walletCall[k] IN
  /\ walletAt(k, "store") /\ q.purpose = "refresh"
  /\ payoutAccount' = [payoutAccount EXCEPT ![q.user].payouts_enabled = q.status]
  /\ endWallet(k)
  /\ UNCHANGED <<gatewayVars, paymentCustomer>>

\* The webhook account.updated; deliveries may come late and out of order.
accountUpdated(u, enabled) ==
  /\ payoutAccount[u] # Absent
  /\ enabled => payoutAccount[u].account \in ready
  /\ payoutAccount' = [payoutAccount EXCEPT ![u].payouts_enabled = enabled]
  /\ UNCHANGED <<gatewayVars, paymentCustomer, walletCall>>

\* The gateway or a statement fails, or the server dies.
failWallet(k) ==
  /\ walletCall[k] # Absent
  /\ endWallet(k)
  /\ UNCHANGED <<gatewayVars, rowVars>>

\* The person completes the card sheet, or the onboarding.
confirmSetup(c) ==
  /\ intentOf[c] # Absent /\ attachedTo[c] = Absent
  /\ attachedTo' = [attachedTo EXCEPT ![c] = intentOf[c]]
  /\ UNCHANGED <<createdFor, intentOf, ready, rowVars, walletCall>>

completeOnboarding(u) ==
  /\ payoutAccount[u] # Absent
  /\ ready' = ready \cup {payoutAccount[u].account}
  /\ UNCHANGED <<createdFor, intentOf, attachedTo, rowVars, walletCall>>

WalletsNext ==
  \/ \E k \in WalletCalls :
       \/ \E u \in Users, purpose \in PURPOSES, c \in OrAbsent(Cards) :
            BeginWallet(k, u, purpose, c)
       \/ \E id \in GatewayIds : createAtGateway(k, id)
       \/ \E c \in Cards : createSetupIntent(k, c)
       \/ readRow(k) \/ insertRow(k) \/ checkCard(k) \/ setDefaultPaymentMethod(k)
       \/ onboard(k) \/ readStatus(k) \/ updatePayoutAccount(k) \/ failWallet(k)
  \/ \E u \in Users : (\E enabled \in BOOLEAN : accountUpdated(u, enabled))
                      \/ completeOnboarding(u)
  \/ \E c \in Cards : confirmSetup(c)

WalletsSpec == WalletsInit /\ [][WalletsNext]_walletVars

-----------------------------------------------------------------------------
(* What must hold *)

\* The card charged by default is one of the customer who is stored, so a
\* charge with both is never refused for that: however two calls that found no
\* row raced, what they created, set up and led people to is what is stored.
KnownAsStored ==
  /\ \A u \in Rows(paymentCustomer) :
       LET row == paymentCustomer[u] IN
       row.default_payment_method # Absent =>
         attachedTo[row.default_payment_method] = row.customer
  /\ \A k \in Rows(walletCall) :
       walletCall[k].at = "use" => walletCall[k].id = storedId(k)
=============================================================================
