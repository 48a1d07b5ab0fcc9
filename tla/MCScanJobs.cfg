CONSTANTS
  w1 = w1
  w2 = w2
  k1 = k1
  k2 = k2
  Job = {1, 2}
  Worker <- MCWorkers
  Key = {k1, k2}
  None = None
  TierOf <- OneLane
  LaneOf <- OneLane
  OneShot = {w2}
  KeyOf <- OwnKeys
  Ordered = {1}
  Credits <- OneCredit
  MaxAttempts = 2
  MaxRevision = 1
SPECIFICATION Spec
INVARIANTS
  TypeOK
  RowsAgree
  HolderIsFresh
  CreditFollowsOutcome
PROPERTIES
  TerminalIsFinal
  LostLeaseWritesNothing
  OneShotKeepsToItsJob
