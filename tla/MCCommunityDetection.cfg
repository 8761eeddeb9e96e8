CONSTANTS
  live = live
  injected = injected
  None = None
  Groups <- OneOfEach
  Injected <- OnlyInjected
  Size <- SizeThree
  Profiles <- SomeProfiles
  MinSize = 3
  AlertThreshold = 8500
  Retries = 1

SPECIFICATION FairSpec

INVARIANTS
  TypeOK
  OnlyInjectedRingsAreAlerted
  OnlyLiveRingsFailTheRule
  TagsAreTrue
PROPERTIES
  DetectableIsStored
