CONSTANTS
  t1 = t1
  t2 = t2
  Joints = 2
  Position <- MCPosition
  Rest <- MCRestOpen
  Thread = {t1, t2}
  Lag = 1
  Limit <- MCLimit
  Margin = 1
  Tiers <- MCTiers
  Opening = 1
  MaxStep = 1
  Tolerance = 0
  Attempts = 2
  WholeTick = FALSE
SPECIFICATION Spec
PROPERTY CommandsAreSmall
CHECK_DEADLOCK FALSE
