CONSTANTS
  t1 = t1
  t2 = t2
  t3 = t3
  None = None
  Pairs = 4
  Place <- MCPlace
  Thread = {t1, t2, t3}
  MaxDeaths = 2
  MaxFaults = 2
SPECIFICATION FairSpec
INVARIANTS TypeOK UsedPointsAreTrue CalibratedIsTrue StepsInOrder
PROPERTIES DialogueEnds
