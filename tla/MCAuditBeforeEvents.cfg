CONSTANTS
  MaxRuns = 1
  NumEvents = 1
  MaxAttempts = 1
  Retries = 1
  MaxFaults = 2
  MaxUuid = 2
  PiiIds <- NoPiiIds

SPECIFICATION DeliverySpec

INVARIANT AuditTopicPrecedesEvents

CHECK_DEADLOCK FALSE
