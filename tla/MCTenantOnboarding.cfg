CONSTANTS
  t1 = t1
  t2 = t2
  a1 = a1
  a2 = a2
  m1 = m1
  m2 = m2
  r1 = r1
  r2 = r2
  None = None
  Tenants = {t1, t2}
  Nodes = {a1, a2, m1, m2}
  Runs = {r1, r2}
  NodesOf <- MCNodesOf
  NumEvents = 2
  Retries = 1
  MaxRequests = 1
  MaxFaults = 1
SPECIFICATION MCFairSpec
INVARIANTS TypeOK AnswersHold HistoriesAreApart WelcomeTellsTrue
PROPERTY ValidatedIsWelcomed
CHECK_DEADLOCK FALSE
