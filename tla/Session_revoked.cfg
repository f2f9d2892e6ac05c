SPECIFICATION Spec
CHECK_DEADLOCK FALSE
CONSTANTS
  Ticketers = {w1}
  Traders = {g1}
  None = None
  Closed = Closed
  MaxTgts = 2
  MaxDelay = 1
  TgtLife = 3
  Margin = 2
  SessionFile = TRUE
  JwtLife = 3
  JwtValid = 3
INVARIANTS RefreshIsTransparent
