\* One account; its devices, codes and secrets; two people; two assignments.
SPECIFICATION ServicesSpec
CONSTANTS
  Absent = Absent
  Devices = {d1, d2}
  SingleFlight = {d1}
  Calls = {r1, r2}
  Tokens = {t1, t2, t3}
  Phones = {p1, p2}
  Codes = {1, 2}
  PhoneCalls = {k1, k2}
  PHONE_CODE_MAX_ATTEMPTS = 2
  Secrets = {x1, x2}
  FactorCalls = {k1, k2}
  ResetTokens = {m1}
  Assignments = {a1, a2}
  Reader = "WORKER"
  PageSize = 2
  MaxMessages = 3
  MaxMarks = 2
  Recipients = {u1, u2}
  DeviceTokens = {1, 2}
  ExpoTokens = {2}
  NotificationIds = {n1, n2}
  Photos = {f1, f2, f3}
  JobIds = {j1}
  AttachCalls = {k1, k2}
  MAX_PHOTOS = 1
  Users = {u1}
  GatewayIds = {g1, g2, g3}
  Cards = {c1}
  WalletCalls = {k1, k2}
  CompletedWork = {a1, a2}
  TipRows = {p1, p2}
  TipCalls = {k1, k2}
  PayTerms <- MCPayTerms
  FeeRows <- MCFeeRows
  LateBps = 2500
  Crew = {u1, u2}
  Candidates = {w1}
  BatchSize = 1
  Accounts = {u1, u2}
  Admins = {u3, u4}
  MaxDecisions = 2
CHECK_DEADLOCK FALSE
INVARIANTS
  ServicesTypeOK
  OneLivePerFamily
  UndisturbedSignedIn
  CodesHold
  EnforcedIsProven
  DoubleBlind
  
  DeliveryRecordTrue
  PhotosBounded
  TipsBacked
  ChargeDividedUp
  KnownAsStored
  

  
  
