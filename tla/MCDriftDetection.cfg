CONSTANTS
  a = a
  e = e
  t1 = t1
  chained = chained
  called = called
  eval1 = eval1
  home = home
  odd = odd
  None = None
  Accounts = {a, e}
  Customers = {a}
  Candidates = {a}
  Tenants = {t1}
  Shapes = {home, odd}
  Jobs = {chained, called, eval1}
  Mode <- MCMode
  Account <- MCAccount
  Tenant <- MCTenant
  Behaviour <- MCBehaviour
  EvalJobs <- MCEvalJobs
  Similarity <- MCSimilarity
  Threshold <- MCThreshold
  Suspicion = 80
  Copies = {0, 1}
  StubHistory = home
  StubPatterns = {odd}
  MaxRetries = 1
  MaxBuilds = 1
  MaxFaults = 2
SPECIFICATION MCFairSpec
INVARIANTS TypeOK ProfilesStayApart OneEventPerDelivery PassedOnPatterns
PROPERTY ChainsEnd
CHECK_DEADLOCK FALSE
