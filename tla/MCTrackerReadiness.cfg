CONSTANTS
  a = a
  b = b
  Lighthouse = {a, b}
  Health <- MCHealth
  Sample <- MCSample
  Elapsed = {1, 4}
  CohortStable = 2
  MapStable = 3
  StableWindow = 2
  SampleKeep = 2
  StableSamples = 3
  PoseSpread = 1
  MapDelta = 1
  MaxReadiness = 3
  None = None
SPECIFICATION Spec
INVARIANTS TypeOK LeaseDescribesMap WindowOfOneMap
PROPERTIES ImplementsLease CalmBecomesReady
