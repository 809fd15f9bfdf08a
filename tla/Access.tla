------------------------------- MODULE Access --------------------------------
(***************************************************************************)
(* Who may call what, and what the pages call: the permissions that the    *)
(* routes of the API declare, one table for each controller, and the pages *)
(* of the app and of the admin console with the requests they make and the *)
(* links by which one leads to another.  Whether the job, the conversation *)
(* or the file a request names is the caller's own is not a matter of the  *)
(* guards, and is left out; so are pages opened by typing their address.   *)
(*                                                                         *)
(* The session of the app is what state/auth.tsx makes of it: tokens that  *)
(* are stored, and the account that is shown, which are set apart and are  *)
(* the same only if the answers come in order.                             *)
(***************************************************************************)
EXTENDS Tables

CONSTANT Accounts

VARIABLES
  roles,       \* users.roles; {}: nobody has registered this account
  session,     \* the account whose tokens the app has stored
  user, mode,  \* the account the app shows, with the roles it has been told
  page,        \* the page that is open
  loading,     \* the requests GET /me under way: of the start, of a form
  overtaken,   \* history: somebody signed in before the start's was answered
  console,     \* the account whose tokens the admin console has stored
  consolePage  \* the page that is open there

appVars == <<session, user, mode, page, loading, overtaken>>
consoleVars == <<console, consolePage>>
accessVars == <<roles, appVars, consoleVars>>

-----------------------------------------------------------------------------
(* The guards *)

MARKETPLACE_ROLES == {"CUSTOMER", "WORKER"}
ROLES == MARKETPLACE_ROLES \cup {"ADMIN"}

ASSUME AbsentIsNoRole == Absent \notin ROLES

ROLE_PERMISSIONS ==
  [CUSTOMER |-> {"customer_profile:write", "job:create"},
   WORKER |-> {"worker_profile:write", "job:accept"},
   ADMIN |-> {"admin:access"}]

permissionsForRoles(R) == UNION {ROLE_PERMISSIONS[r] : r \in R}

\* What a route needs: nothing, a session, or a permission.
needs(need, routes) == routes \X {need}

-----------------------------------------------------------------------------
(* The routes *)

JobsController ==
  needs("job:create", {"POST /jobs", "POST /jobs/:id/post", "POST /jobs/:id/duplicate",
    "POST /jobs/:id/cancel", "POST /jobs/:id/confirm-completion", "POST /jobs/:id/changes"})
  \cup needs("signed in", {"GET /jobs/mine", "GET /jobs/:id", "GET /jobs/:id/timeline",
       "GET /jobs/:id/cancellation-preview", "GET /jobs/:id/changes"})

JobChangesController ==
  needs("job:accept", {"POST /job-changes/:id/approve", "POST /job-changes/:id/decline"})

AssignmentsController ==
  needs("job:accept", {"POST /jobs/:id/accept", "POST /assignments/:id/en-route",
    "POST /assignments/:id/arrived", "POST /assignments/:id/start",
    "POST /assignments/:id/complete", "POST /assignments/:id/cancel"})
  \cup needs("signed in", {"GET /discovery/jobs", "GET /discovery/jobs/map",
       "GET /pricing/suggestion", "GET /assignments/mine", "GET /assignments/:id"})

PaymentsController ==
  needs("customer_profile:write", {"POST /me/payment-methods/setup-intent",
    "POST /me/payment-methods/default", "POST /me/payment-methods/sync-setup-intent"})
  \cup needs("worker_profile:write", {"POST /me/payout-account/onboarding-link",
       "POST /me/payout-account/refresh"})
  \cup needs("job:create", {"POST /jobs/:id/retry-payment", "POST /jobs/:id/tip"})
  \cup needs("signed in", {"GET /me/payment-profile", "GET /me/payments",
       "GET /me/payout-account", "GET /me/payouts", "GET /me/earnings"})
  \cup needs("public", {"POST /webhooks/stripe"})

DisputesController ==
  needs("signed in", {"POST /disputes", "GET /disputes/mine", "GET /disputes/:id",
    "POST /disputes/:id/evidence"})

MessagingController ==
  needs("signed in", {"GET /conversations", "POST /conversations",
    "GET /conversations/:id/messages", "POST /conversations/:id/messages",
    "POST /conversations/:id/read", "POST /messages/:id/report",
    "POST /users/:id/block", "DELETE /users/:id/block"})

NotificationsController ==
  needs("signed in", {"GET /notifications", "POST /notifications/read",
    "GET /me/notification-preferences", "PUT /me/notification-preferences",
    "POST /me/device-tokens"})

AuthController ==
  needs("public", {"POST /auth/register", "POST /auth/login", "POST /auth/refresh",
    "POST /auth/logout", "POST /auth/verify-email", "POST /auth/password/forgot",
    "POST /auth/password/reset"})
  \cup needs("signed in", {"POST /auth/2fa/setup", "POST /auth/2fa/enable",
       "POST /auth/phone/request", "POST /auth/phone/confirm"})

UsersController ==
  needs("signed in", {"GET /me", "GET /me/onboarding", "POST /me/roles", "DELETE /me"})

PublicProfileController == needs("signed in", {"GET /users/:id/public"})

WorkersController ==
  needs("worker_profile:write", {"PUT /me/worker-profile", "PUT /me/worker-profile/skills",
    "PUT /me/worker-profile/categories", "PUT /me/availability"})
  \cup needs("signed in", {"GET /me/worker-profile", "GET /me/availability",
       "POST /me/agreements", "GET /me/agreements"})

CustomersController ==
  needs("customer_profile:write", {"PUT /me/customer-profile", "POST /me/addresses",
    "DELETE /me/addresses/:id"})
  \cup needs("signed in", {"GET /me/customer-profile", "GET /me/addresses"})

RatingsController ==
  needs("signed in", {"POST /assignments/:id/rating", "GET /me/ratings",
    "GET /me/ratings/pending"})

FilesController ==
  needs("job:create", {"POST /jobs/:id/photos"})
  \cup needs("signed in", {"POST /files", "GET /files/:id/content", "POST /me/profile-photo"})

CatalogController == needs("public", {"GET /categories", "GET /skills"})
GeoController == needs("signed in", {"POST /geo/geocode"})

ReportsController ==
  needs("admin:access", {"GET /admin/reports", "POST /admin/reports/:id/review"})
  \cup needs("signed in", {"POST /reports"})

JobsAdminController ==
  needs("admin:access", {"GET /admin/review-queue", "POST /admin/jobs/:id/review"})

DisputesAdminController ==
  needs("admin:access", {"GET /admin/disputes", "GET /admin/disputes/:id",
    "POST /admin/disputes/:id/resolve"})

CatalogAdminController ==
  needs("admin:access", {"GET /admin/categories", "POST /admin/categories",
    "PATCH /admin/categories/:id", "GET /admin/skills", "POST /admin/skills"})

SettingsAdminController ==
  needs("admin:access", {"GET /admin/settings/:key", "PUT /admin/settings/:key"})

AdminController ==
  needs("admin:access", {"GET /admin/metrics/overview", "GET /admin/users",
    "GET /admin/users/:id", "POST /admin/users/:id/suspend",
    "POST /admin/users/:id/restore", "GET /admin/jobs", "GET /admin/jobs/:id",
    "GET /admin/payments", "GET /admin/payouts", "GET /admin/audit-logs"})

HealthController == needs("public", {"GET /healthz", "GET /readyz"})

Routes ==
  HealthController \cup JobsController \cup JobChangesController
  \cup AssignmentsController \cup PaymentsController
  \cup DisputesController \cup MessagingController \cup NotificationsController
  \cup AuthController \cup UsersController \cup PublicProfileController \cup WorkersController
  \cup CustomersController \cup RatingsController \cup FilesController \cup CatalogController
  \cup GeoController \cup ReportsController \cup JobsAdminController
  \cup DisputesAdminController \cup CatalogAdminController \cup SettingsAdminController
  \cup AdminController

\* Public, for everybody who is signed in, or for those with a permission.
mayCall(R, route) ==
  \E need \in {"public", "signed in"} \cup permissionsForRoles(R) : <<route, need>> \in Routes

-----------------------------------------------------------------------------
(* The pages of the app: what each may request while it is open *)

customerHome == {"GET /jobs/mine", "GET /me/payment-profile"}
myJobs == {"GET /jobs/mine"}
workerHome == {"GET /me/worker-profile", "GET /me/earnings", "GET /discovery/jobs",
               "PUT /me/availability"}
workerJobs == {"GET /assignments/mine"}
messagesTab == {"GET /conversations"}
activity == {"GET /notifications", "POST /notifications/read"}
conversationPage ==
  {"GET /conversations/:id/messages", "POST /conversations/:id/messages",
   "POST /conversations/:id/read"}
workerSetup ==
  {"GET /me/worker-profile", "GET /categories", "GET /skills", "PUT /me/worker-profile",
   "PUT /me/worker-profile/skills", "PUT /me/worker-profile/categories"}
postJob == {"GET /categories", "POST /files", "POST /jobs", "POST /jobs/:id/photos",
            "GET /files/:id/content"}

\* The sections follow the roles of the account shown, not the mode.
paymentMethods(R) ==
  {"GET /me/payment-profile"}
  \cup (IF "CUSTOMER" \in R
          THEN {"POST /me/payment-methods/setup-intent",
                "POST /me/payment-methods/sync-setup-intent"} ELSE {})
  \cup (IF "WORKER" \in R
          THEN {"GET /me/payout-account", "POST /me/payout-account/onboarding-link",
                "POST /me/payout-account/refresh"} ELSE {})

\* Of one's own job, of one that one works on, of any other.
jobPage == {"GET /jobs/:id", "GET /files/:id/content"}
ownJob == jobPage \cup
  {"GET /me/payments", "POST /jobs/:id/confirm-completion", "POST /disputes",
   "POST /conversations", "POST /assignments/:id/rating", "POST /jobs/:id/retry-payment",
   "POST /jobs/:id/tip", "POST /jobs/:id/cancel"}
myWork == jobPage \cup
  {"POST /assignments/:id/en-route", "POST /assignments/:id/arrived",
   "POST /assignments/:id/start", "POST /assignments/:id/complete",
   "POST /conversations", "POST /assignments/:id/rating"}
openJob(m) == jobPage \cup (IF m = "WORKER" THEN {"POST /jobs/:id/accept"} ELSE {})

PAGES == {"front", "customerHome", "myJobs", "workerHome", "workerJobs", "messages",
          "activity", "profile", "conversation", "workerSetup", "postJob",
          "paymentMethods", "ownJob", "myWork", "openJob"}

\* Opened over the tabs, whose layouts they do not share.
STACK == {"conversation", "workerSetup", "postJob", "paymentMethods", "ownJob",
          "myWork", "openJob"}

\* The front: landing page and sign-in forms.
requests ==
  CASE page = "front" -> {"POST /auth/login", "POST /auth/register"}
    [] page = "profile" -> {"POST /auth/logout"}
    [] page = "customerHome" -> customerHome
    [] page = "myJobs" -> myJobs
    [] page = "workerHome" -> workerHome
    [] page = "workerJobs" -> workerJobs
    [] page = "messages" -> messagesTab
    [] page = "activity" -> activity
    [] page = "conversation" -> conversationPage
    [] page = "workerSetup" -> workerSetup
    [] page = "postJob" -> postJob
    [] page = "paymentMethods" -> paymentMethods(user.roles)
    [] page = "ownJob" -> ownJob
    [] page = "myWork" -> myWork
    [] page = "openJob" -> openJob(mode)

\* The tabs of a mode; the other group's layout sends back to one's own.
tabs(m) ==
  {"messages", "activity", "profile"}
  \cup (IF m = "WORKER" THEN {"workerHome", "workerJobs"} ELSE {"customerHome", "myJobs"})

\* Index: the home of the mode.
home(m) == IF m = "WORKER" THEN "workerHome" ELSE "customerHome"

\* Lists only hold what the account has: a job of one's own was posted with the
\* permission to post, work was accepted with the permission to accept.
jobLinks ==
  {"openJob"} \cup (IF "CUSTOMER" \in user.roles THEN {"ownJob"} ELSE {})
  \cup (IF "WORKER" \in user.roles THEN {"myWork"} ELSE {})

links ==
  CASE page = "customerHome" -> {"postJob", "paymentMethods", "ownJob"}
    [] page = "myJobs" -> {"ownJob"}
    [] page = "workerHome" -> jobLinks
    [] page = "workerJobs" -> {"myWork"}
    [] page = "messages" -> {"conversation"}
    [] page = "profile" ->
         {"paymentMethods"} \cup (IF "WORKER" \in user.roles THEN {"workerSetup"} ELSE {})
    [] page = "postJob" -> {"ownJob"}
    [] page = "ownJob" -> {"conversation", "paymentMethods"}
    [] page = "myWork" -> {"conversation"}
    [] OTHER -> {}

-----------------------------------------------------------------------------
(* The pages of the console *)

overviewPage == {"GET /admin/metrics/overview"}
jobsPage == {"GET /admin/jobs"}
jobDetailPage == {"GET /admin/jobs/:id"}
paymentsPage == {"GET /admin/payments", "GET /admin/payouts"}
auditPage == {"GET /admin/audit-logs"}
settingsPage == {"GET /admin/settings/:key", "PUT /admin/settings/:key"}
twoFactorPanel == {"POST /auth/2fa/setup", "POST /auth/2fa/enable"}

ConsolePages ==
  [overview |-> overviewPage,
   reviewQueue |-> {"GET /admin/review-queue", "POST /admin/jobs/:id/review"},
   users |-> {"GET /admin/users", "POST /admin/users/:id/suspend",
              "POST /admin/users/:id/restore"},
   jobs |-> jobsPage \cup jobDetailPage,
   disputes |-> {"GET /admin/disputes", "GET /admin/disputes/:id",
                 "POST /admin/disputes/:id/resolve"},
   reports |-> {"GET /admin/reports", "POST /admin/reports/:id/review"},
   payments |-> paymentsPage,
   categories |-> {"GET /admin/categories", "PATCH /admin/categories/:id",
                   "POST /admin/categories"},
   settings |-> settingsPage \cup twoFactorPanel,
   audit |-> auditPage]

-----------------------------------------------------------------------------
Account == [account : Accounts, roles : SUBSET ROLES]
LOADS == {"start", "form"}

\* told: the answer of GET /me, once the server has given it.
Loading == [account : Accounts, told : OrAbsent(SUBSET ROLES),
            signedUp : OrAbsent(MARKETPLACE_ROLES)]

AccessTypeOK ==
  /\ roles \in [Accounts -> SUBSET ROLES]
  /\ session \in OrAbsent(Accounts)
  /\ user \in OrAbsent(Account)
  /\ mode \in OrAbsent(MARKETPLACE_ROLES)
  /\ page \in PAGES
  /\ loading \in [LOADS -> OrAbsent(Loading)]
  /\ overtaken \in BOOLEAN
  /\ console \in OrAbsent(Accounts)
  /\ consolePage \in {"login"} \cup DOMAIN ConsolePages

\* Only the role of an administrator is given by other means than these.
AccessInit ==
  /\ roles \in [Accounts -> {{}, {"ADMIN"}}]
  /\ session = Absent /\ user = Absent /\ mode = Absent
  /\ page = "front"
  /\ loading = [l \in LOADS |-> Absent]
  /\ overtaken = FALSE
  /\ console = Absent /\ consolePage = "login"

-----------------------------------------------------------------------------
(* Faults: definitions of this module as a plausible slip would have       *)
(* written them, used only to see that the property below notices them.    *)

\* The mode that was active is kept for whoever is shown next.
Fault_modeFor(R) ==
  IF mode # Absent THEN mode ELSE IF "WORKER" \in R THEN "WORKER" ELSE "CUSTOMER"

\* loadMe: the mode stays if the account has it; workers start as workers.
modeFor(R) ==
  IF mode \in R THEN mode ELSE IF "WORKER" \in R THEN "WORKER" ELSE "CUSTOMER"

-----------------------------------------------------------------------------
(* Accounts *)

register(a, r) ==
  /\ roles[a] = {}
  /\ roles' = [roles EXCEPT ![a] = {r}]

\* From another device: the app has no button for it.
addRole(a, r) ==
  /\ roles[a] # {}
  /\ r \notin roles[a]
  /\ roles' = [roles EXCEPT ![a] = @ \cup {r}]
  /\ UNCHANGED <<appVars, consoleVars>>

-----------------------------------------------------------------------------
(* The app *)

\* The app starts, or its site is loaded anew; stored tokens are tried.
startApp ==
  /\ user' = Absent /\ mode' = Absent /\ page' = "front"
  /\ loading' = [start |-> IF session = Absent THEN Absent
                           ELSE [account |-> session, told |-> Absent, signedUp |-> Absent],
                 form |-> Absent]
  /\ overtaken' = FALSE
  /\ UNCHANGED <<roles, session, consoleVars>>

\* The answer to a form has arrived: its tokens are stored, and the account
\* is asked for.  While nobody is shown the forms are open, even if the start
\* has not been answered yet.
storeTokens(a, r) ==
  /\ page = "front" /\ user = Absent
  /\ loading["form"] = Absent
  /\ session' = a
  /\ loading' = [loading EXCEPT !["form"] =
                   [account |-> a, told |-> Absent, signedUp |-> r]]
  /\ overtaken' = (overtaken \/ loading["start"] # Absent)
  /\ UNCHANGED <<user, mode, page, consoleVars>>

signIn(a) ==
  /\ roles[a] # {}
  /\ storeTokens(a, Absent)
  /\ UNCHANGED roles

signUp(a, r) == register(a, r) /\ storeTokens(a, r)

\* GET /me: the roles of the account as they are now.
me(l) ==
  /\ loading[l] # Absent /\ loading[l].told = Absent
  /\ loading' = [loading EXCEPT ![l].told = roles[loading[l].account]]
  /\ UNCHANGED <<roles, session, user, mode, page, overtaken, consoleVars>>

loadMe(l) ==
  LET q == loading[l] IN
  /\ q # Absent /\ q.told # Absent
  /\ user' = [account |-> q.account, roles |-> q.told]
  /\ mode' = IF q.signedUp # Absent THEN q.signedUp ELSE modeFor(q.told)
  /\ page' = IF page \in STACK \/ (page # "front" /\ mode' = mode) THEN page
              ELSE home(mode')
  /\ loading' = [loading EXCEPT ![l] = Absent]
  /\ UNCHANGED <<roles, session, overtaken, consoleVars>>

\* No answer, or a refusal: nobody is shown, though the tokens may be there.
loadMeFails(l) ==
  /\ loading[l] # Absent
  /\ user' = Absent
  /\ mode' = IF loading[l].signedUp # Absent THEN loading[l].signedUp ELSE mode
  /\ page' = IF page \in STACK THEN page ELSE "front"
  /\ loading' = [loading EXCEPT ![l] = Absent]
  /\ UNCHANGED <<roles, session, overtaken, consoleVars>>

\* A refresh is refused; what is shown stays.
forgetTokens ==
  /\ session # Absent
  /\ session' = Absent
  /\ UNCHANGED <<roles, user, mode, page, loading, overtaken, consoleVars>>

signOutHere ==
  /\ page = "profile"
  /\ session' = Absent /\ user' = Absent /\ mode' = Absent /\ page' = "front"
  /\ UNCHANGED <<roles, loading, overtaken, consoleVars>>

\* Offered to those with both roles.
switchMode ==
  /\ page = "profile"
  /\ MARKETPLACE_ROLES \subseteq user.roles
  /\ mode' = IF mode = "WORKER" THEN "CUSTOMER" ELSE "WORKER"
  /\ page' = home(mode')
  /\ UNCHANGED <<roles, session, user, loading, overtaken, consoleVars>>

\* Along a link, or back to the tabs; with nobody to show, to the front.
goTo(p) ==
  /\ IF user # Absent THEN p \in links \cup tabs(mode) ELSE p = "front"
  /\ page' = p
  /\ UNCHANGED <<roles, session, user, mode, loading, overtaken, consoleVars>>

-----------------------------------------------------------------------------
(* The console *)

loginConsole(a) ==
  /\ consolePage = "login"
  /\ "ADMIN" \in roles[a]
  /\ console' = a /\ consolePage' = "overview"
  /\ UNCHANGED <<roles, appVars>>

\* NAV, for as long as a session is stored.
goToConsole(p) ==
  /\ consolePage # "login"
  /\ consolePage' = IF console = Absent THEN "login" ELSE p
  /\ UNCHANGED <<roles, appVars, console>>

\* Signed out, or a refresh was refused.
clearSession ==
  /\ console # Absent
  /\ console' = Absent
  /\ consolePage' \in {consolePage, "login"}
  /\ UNCHANGED <<roles, appVars>>

AppNext ==
  \/ \E a \in Accounts :
       \/ signIn(a)
       \/ \E r \in MARKETPLACE_ROLES : signUp(a, r) \/ addRole(a, r)
  \/ \E l \in LOADS : me(l) \/ loadMe(l) \/ loadMeFails(l)
  \/ startApp \/ forgetTokens \/ signOutHere \/ switchMode
  \/ \E p \in PAGES : goTo(p)

ConsoleNext ==
  \/ \E a \in Accounts : loginConsole(a)
  \/ \E p \in DOMAIN ConsolePages : goToConsole(p)
  \/ clearSession

AccessNext == AppNext \/ ConsoleNext

AccessSpec == AccessInit /\ [][AccessNext]_accessVars

-----------------------------------------------------------------------------
(* What must hold *)

\* Whoever is led to a page by the app may make the requests it makes: the
\* tokens are those of the account shown, and its roles grant what every route
\* the page calls asks for.  Except after a sign-in that overtook the question
\* of the start, whose late answer shows the account that was there before;
\* and except for an account that has neither role of the marketplace, which
\* the app shows as a customer.  The console's pages, likewise, call only what
\* its session may.
PagesMayCall ==
  /\ user # Absent /\ ~overtaken /\ user.roles \cap MARKETPLACE_ROLES # {} =>
       /\ session \in {user.account, Absent}
       /\ \A r \in requests : mayCall(roles[user.account], r)
  /\ console # Absent /\ consolePage # "login" =>
       \A r \in ConsolePages[consolePage] :
         mayCall(roles[console], r)
=============================================================================
