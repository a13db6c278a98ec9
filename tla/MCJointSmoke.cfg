CONSTANTS
  t1 = t1
  t2 = t2
  Joints = 2
  Position <- MCPosition
  Rest <- MCRest
  Thread = {t1, t2}
  Lag = 1
  Limit <- MCLimit
  Margin = 1
  Tiers <- MCTiers
  Opening = 1
  MaxStep = 1
  Tolerance = 0
  Attempts = 2
  WholeTick = TRUE
SPECIFICATION FairSpec
INVARIANTS TypeOK CommandsStayInRange PassMeansHome
PROPERTIES CommandsAreSmall StreamRecovers ScanEnds
CHECK_DEADLOCK FALSE
