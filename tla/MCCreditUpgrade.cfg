CONSTANTS
  k1 = k1
  k2 = k2
  r1 = r1
  r2 = r2
  r3 = r3
  Job = {1, 2}
  Lane = {w1}
  Reservation <- MCReservations
  None = None
  Credits = 1
  MaxAttempts = 1
  Request <- MCRequests
  KeyOf <- MCKeyOf
  WantsOf <- MCWants
SPECIFICATION Spec
INVARIANTS
  TypeOK
  CreditBounded
  PaidIffCompleted
  AuditFindsNothing
CHECK_DEADLOCK FALSE
