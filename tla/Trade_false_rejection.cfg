SPECIFICATION Spec
CHECK_DEADLOCK FALSE
CONSTANTS
  t1 = t1
  t2 = t2
  t3 = t3
  pre = pre
  other = other
  eur = eur
  cig = cig
  None = None
  Symbols = {eur, cig}
  Trades = {t1}
  Strangers = {}
  Req <- LoneReq
  Listing <- ExactListing
  RbacPlaces = FALSE
  SnapshotLag = TRUE
  IdsAlways = TRUE
INVARIANTS NoFalseRejection
