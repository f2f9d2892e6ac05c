SPECIFICATION Spec
CHECK_DEADLOCK FALSE
CONSTANTS
  Sockets = {s1, s2}
  Loops = {l1, l2}
  Caller = caller
  None = None
  MaxAttempts = 1
  MaxConnects = 2
  MaxDisconnects = 1
  AutoReconnect = TRUE
  CleanCloses = TRUE
  Unreadables = TRUE
  DropsInHandshake = TRUE
  LoginFails = TRUE
SYMMETRY Anonymous
INVARIANTS
  TypeOK
  ListenerIsCurrent
  KeepaliveRuns
PROPERTIES
  QuietDisconnect
