SPECIFICATION Spec
CONSTANTS
  o1 = o1
  o2 = o2
  p1 = p1
  p2 = p2
  nobody = nobody
  None = nobody
  Order = {o1, o2}
  V4 = {o1}
  Legacy = {o2}
  Reopenable = {o1}
  Run = {p1}
  MaxAttempts = 1
CHECK_DEADLOCK FALSE
INVARIANTS
  MoneyGoesBack
  CreditAccounted
