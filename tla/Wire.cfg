SPECIFICATION Spec
CONSTANTS
  None = None
  Asks <- SomeAsks
  Numbers <- SomeNumbers
  Statuses = {7, 10}
  Uuids <- SomeUuids
  Jwts <- SomeJwts
INVARIANTS
  TypeOK
  RequestArrives
  SuccessIsReal
  CancelledIsReal
  WholeAnswerIsUnderstood
