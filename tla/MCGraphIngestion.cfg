CONSTANTS
  e1 = e1
  e2 = e2
  Entities <- TwoEntities
  NumMessages <- TwoAndOne
  MaxMessages = 1
  MaxFaults = 2

SPECIFICATION FairSpec

INVARIANTS
  TypeOK
PROPERTIES
  EventsAreReached
  LogsKept

CHECK_DEADLOCK FALSE
