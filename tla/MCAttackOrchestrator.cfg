CONSTANTS
  MaxRuns = 2
  NumEvents = 2
  MaxAttempts = 2
  Retries = 1
  MaxFaults = 1
  MaxUuid = 2
  PiiIds <- SomePiiIds

SPECIFICATION FairSpec

INVARIANTS
  TypeOK
  OneScenarioPerRun
  AuditedInjectionIsComplete
  SkippedRunIsInert
  EveryAttemptIsAudited
  NothingWithoutEnv
PROPERTIES
  InjectionIsAudited
  LedgerKept

CHECK_DEADLOCK FALSE
