SPECIFICATION FairSpec
CHECK_DEADLOCK FALSE
CONSTANTS
  Sockets = {s1, s2}
  Loops = {l1, l2}
  Caller = caller
  None = None
  MaxAttempts = 2
  MaxConnects = 1
  MaxDisconnects = 0
  AutoReconnect = TRUE
  CleanCloses = TRUE
  Unreadables = FALSE
  DropsInHandshake = FALSE
  LoginFails = FALSE
PROPERTIES LinkIsRestored
