CONSTANTS
  Api <- OneApi
  Dag <- OneDag
  NumTypes = 2
  Ttl = 2
  Window = 3
  DemoCovered <- SomeCovered
  MaxCalls = 3
  MaxOutages = 1

SPECIFICATION Spec

INVARIANTS
  TypeOK
  OnlyRacesReviveScores
  StaleScoresHaveACause
PROPERTIES
  TestedOutlivesRecall
