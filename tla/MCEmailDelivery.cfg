SPECIFICATION FairSpec
CONSTANTS
  outcome = outcome
  reissue = reissue
  p1 = p1
  None = None
  Email = {outcome, reissue}
  Outcome = outcome
  Fulfillment = "completed"
  Run = {p1}
  Event = {1, 2}
  EventOf <- OutcomeEvents
  MaxAttempts = 2
CHECK_DEADLOCK FALSE
INVARIANTS
  TypeOK
  OrderFollowsMail
  EventsAgree
PROPERTIES
  StaleRunMarksNothing
  QueuedIsSent
