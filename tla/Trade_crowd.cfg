SPECIFICATION FairSpec
CHECK_DEADLOCK FALSE
CONSTANTS
  t1 = t1
  t2 = t2
  t3 = t3
  pre = pre
  other = other
  eur = eur
  cig = cig
  None = None
  Symbols = {eur, cig}
  Trades = {t1, t2, t3}
  Strangers = {pre, other}
  Req <- CrowdReq
  Listing <- LooseListing
  RbacPlaces = FALSE
  SnapshotLag = TRUE
  IdsAlways = TRUE
INVARIANTS
  CleanRefusal
  FilledIsOwn
  FilledIsBacked
PROPERTIES
  EveryTradeReports
  KeepsPromise
