------------------------------ MODULE Services ------------------------------
(***************************************************************************)
(* The services around the jobs, side by side.  They share no state that   *)
(* their models keep, so that they are run one at a time: the initial      *)
(* state picks the part that moves, and the others stay where they start.  *)
(***************************************************************************)
EXTENDS Sessions, Verification, TwoFactor, Ratings, Messaging, Notifications,
        JobPhotos, Wallets, Tips, Money, Matching, Access, Console

VARIABLE part

accountVars == <<sessionVars, verificationVars, twoFactorVars>>
talkVars == <<ratingsVars, messagingVars, notificationsVars>>
moneyVars == <<walletVars, tipVars, jobMoneyVars>>
pageVars == <<accessVars, consoleRowVars>>
allVars ==
  <<accountVars, talkVars, moneyVars, photoVars, matchingVars, pageVars, part>>

PARTS == {"Sessions", "Verification", "TwoFactor", "Ratings", "Messaging",
          "Notifications", "JobPhotos", "Wallets", "Tips", "Money", "Matching",
          "App", "Console", "Decisions"}

ServicesInit ==
  /\ part \in PARTS
  /\ SessionsInit /\ VerificationInit /\ TwoFactorInit
  /\ RatingsInit /\ MessagingInit /\ NotificationsInit
  /\ WalletsInit /\ TipsInit /\ MoneyInit
  /\ PhotosInit /\ MatchingInit
  /\ AccessInit /\ RowInit
  /\ part \notin {"App", "Console"} => \A a \in Accounts : roles[a] = {}
  /\ part # "Decisions" => kind = "user"
  /\ part # "Money" => pay.pay_type = "FLAT" /\ feeInForce = Absent

AccountNext ==
  /\ \/ /\ part = "Sessions" /\ SessionsNext
        /\ UNCHANGED <<verificationVars, twoFactorVars>>
     \/ /\ part = "Verification" /\ VerificationNext
        /\ UNCHANGED <<sessionVars, twoFactorVars>>
     \/ /\ part = "TwoFactor" /\ TwoFactorNext
        /\ UNCHANGED <<sessionVars, verificationVars>>
  /\ UNCHANGED <<talkVars, moneyVars, photoVars, matchingVars, pageVars>>

TalkNext ==
  /\ \/ /\ part = "Ratings" /\ RatingsNext
        /\ UNCHANGED <<messagingVars, notificationsVars>>
     \/ /\ part = "Messaging" /\ MessagingNext
        /\ UNCHANGED <<ratingsVars, notificationsVars>>
     \/ /\ part = "Notifications" /\ NotificationsNext
        /\ UNCHANGED <<ratingsVars, messagingVars>>
  /\ UNCHANGED <<accountVars, moneyVars, photoVars, matchingVars, pageVars>>

PaymentsNext ==
  /\ \/ part = "Wallets" /\ WalletsNext /\ UNCHANGED <<tipVars, jobMoneyVars>>
     \/ part = "Tips" /\ TipsNext /\ UNCHANGED <<walletVars, jobMoneyVars>>
     \/ part = "Money" /\ MoneyNext /\ UNCHANGED <<walletVars, tipVars>>
  /\ UNCHANGED <<accountVars, talkVars, photoVars, matchingVars, pageVars>>

WorkNext ==
  /\ \/ part = "JobPhotos" /\ PhotosNext /\ UNCHANGED matchingVars
     \/ part = "Matching" /\ MatchingNext /\ UNCHANGED photoVars
  /\ UNCHANGED <<accountVars, talkVars, moneyVars, pageVars>>

\* The app and the console share only the roles, and no step of either changes
\* who is an administrator.
PagesNext ==
  /\ \/ part = "App" /\ AppNext /\ UNCHANGED consoleRowVars
     \/ part = "Console" /\ ConsoleNext /\ UNCHANGED consoleRowVars
     \/ part = "Decisions" /\ RowNext /\ UNCHANGED accessVars
  /\ UNCHANGED <<accountVars, talkVars, moneyVars, photoVars, matchingVars>>

ServicesNext ==
  /\ AccountNext \/ TalkNext \/ PaymentsNext \/ WorkNext \/ PagesNext
  /\ UNCHANGED part

ServicesSpec == ServicesInit /\ [][ServicesNext]_allVars

\* Every table of every service keeps its type.
ServicesTypeOK ==
  /\ part \in PARTS
  /\ SessionsTypeOK /\ VerificationTypeOK /\ TwoFactorTypeOK
  /\ RatingsTypeOK /\ MessagingTypeOK /\ NotificationsTypeOK
  /\ WalletsTypeOK /\ TipsTypeOK /\ MoneyTypeOK
  /\ PhotosTypeOK /\ MatchingTypeOK
  /\ AccessTypeOK /\ ConsoleTypeOK
=============================================================================
