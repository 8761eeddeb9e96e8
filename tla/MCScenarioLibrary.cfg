CONSTANTS
  phishing = phishing
  romance = romance
  slash = slash
  Known = {phishing}
  Invented = {romance}
  Unwritable = slash
  NumAgents = 2
  PerAgent = 2
  Budget = 3
  Estimate = 1
  MaxCost = 2
  Calls = 2
  Retries = 1
  Shipped = 1
  MaxDays = 2
  MaxRuns = 2
  MaxFaults = 1
SPECIFICATION FairSpec
INVARIANTS TypeOK SpendBounded
PROPERTIES ReportAddsUp RunsRunDown RunsEnd
CHECK_DEADLOCK FALSE
