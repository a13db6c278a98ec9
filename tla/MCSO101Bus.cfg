CONSTANTS
  c1 = c1
  c2 = c2
  k1 = k1
  k2 = k2
  s = s
  None = None
  Caller = {c1}
  Calibration = {k1, k2}
  Session = s
  Call <- OneOfEach
  Servers <- BothServers
  Overlap = {}
SPECIFICATION FairSpec
INVARIANTS TypeOK OneOnBus LockHasOneReleaser
PROPERTIES PoisonBlamesStuckCall StuckCallPoisons CalibrationEnds
