SPECIFICATION ServerSpec
CONSTANTS
  Browsers = {b1, b2}
  Calls = {r1, r2}
  MaxTokens = 3
  MaxAccounts = 2
  MaxCallFaults = 1
  Pushes = {p1, p2, p3}
  PushKeys = {r1, r2}
  Days = {"monday", "friday"}
  Changes <- SomeChanges
  MaxVersion = 3
  Senders = {r1, r2}
  Verifiers = {b1, b2}
  Limits = {1, 2}
  LimitOf <- TwoLimits
  MaxAttempts = 2
  MaxCodes = 2
  Subjects = {"g1", "g2", "p1"}
  ProviderOf <- SomeProviders
  Emails = {"e1"}
  SignIns = {r1, r2}
  MaxUsers = 2
SYMMETRY ServerSymmetry
INVARIANTS
  ServerTypeOK
  OneLivePerFamily CookieWorksWhenCalm DeletedAccountLeavesNothing
  SerialPushes NewestStampWins
  CodesAreLimited
PROPERTIES
  DeadStaysDead IdentityNeverMoves SerialIdentities
CHECK_DEADLOCK FALSE
