CONSTANTS
  Job = {1, 2}
  Lane = {w1}
  Reservation = {}
  None = None
  Credits = 0
  MaxAttempts = 1
  Dispatcher = {d1}
  PaidJob = {2}
  FreeRows = 1
  Batch = 2
SPECIFICATION FairSpec
INVARIANTS
  TypeOK
CHECK_DEADLOCK FALSE
PROPERTIES PaidJobEnds
