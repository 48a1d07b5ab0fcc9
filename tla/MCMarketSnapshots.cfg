SPECIFICATION FairSpec
CONSTANTS
  w1 = w1
  w2 = w2
  q1 = q1
  q2 = q2
  None = None
  Worker = {w1, w2}
  Query = {q1, q2}
  Kind = {"standard_question", "candidate_verification"}
  MaxRuns = 2
CHECK_DEADLOCK FALSE
INVARIANTS
  TypeOK
  PendingIsNewest
PROPERTIES
  StaleWorkerWritesNothing
  ResolveEnds
