CONSTANTS
  w1 = w1
  w2 = w2
  Worker = {w1, w2}
  None = None
  MaxAttempts = 3
SPECIFICATION FairSpec
INVARIANTS
  TypeOK
  PublishedIsActive
PROPERTY KeepsItsPromise
CHECK_DEADLOCK FALSE
