SPECIFICATION FairSpec
CHECK_DEADLOCK FALSE
CONSTANTS
  Sockets = {s1, s2, s3}
  Loops = {l1, l2}
  Caller = caller
  None = None
  MaxAttempts = 3
  MaxConnects = 2
  MaxDisconnects = 0
  AutoReconnect = TRUE
  CleanCloses = TRUE
  Unreadables = TRUE
  DropsInHandshake = FALSE
  LoginFails = FALSE
INVARIANTS
  NoLeak
  AuthenticatedIsReal
  FailuresBounded
  GiveUpIsEarned
PROPERTIES
  LossIsRepaired
  KeepsLink
