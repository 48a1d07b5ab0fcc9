SPECIFICATION FairSpec
CONSTANTS
  o1 = o1
  o2 = o2
  p1 = p1
  p2 = p2
  nobody = nobody
  None = nobody
  Order = {o1}
  V4 = {}
  Legacy = {}
  Reopenable = {o1}
  Run = {p1, p2}
  MaxAttempts = 2
CHECK_DEADLOCK FALSE
INVARIANTS
  TypeOK
  RefundsAgree
  ReportIsCharged
PROPERTIES
  DecidedIsFinal
  WebhooksDoNotRewind
  StaleRunDecidesNothing
  PromiseKept
