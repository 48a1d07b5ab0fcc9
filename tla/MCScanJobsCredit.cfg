CONSTANTS
  w1 = w1
  w2 = w2
  k1 = k1
  k2 = k2
  Job = {1, 2}
  Worker <- MCWorkers
  Key = {k1}
  None = None
  TierOf <- OneLane
  LaneOf <- OneLane
  OneShot = {w2}
  KeyOf <- OneKey
  Ordered = {}
  Credits <- TwoCredits
  MaxAttempts = 1
  MaxRevision = 1
SPECIFICATION Spec
INVARIANTS
  CreditConserved
