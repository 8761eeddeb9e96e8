CONSTANTS
  c1 = c1
  c2 = c2
  Nobody = Nobody
  Consumers <- TwoConsumers
  NumMessages = 3
  MaxFaults = 3

SPECIFICATION FairSpec

INVARIANTS
  TypeOK
PROPERTIES
  EveryEventIsHandled
  LogKept

CHECK_DEADLOCK FALSE
