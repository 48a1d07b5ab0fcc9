SPECIFICATION Spec
CONSTANTS
  w1 = w1
  w2 = w2
  p1 = p1
  p2 = p2
  None = None
  Worker = {w1, w2}
  Page = {p1, p2}
  Questions = 1
  MaxAttempts = 2
CHECK_DEADLOCK FALSE
SYMMETRY Symmetric
INVARIANTS
  TypeOK
  ProviderBudget
  AttemptsAgree
  ReportIsCheckpointed
