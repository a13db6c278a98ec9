CONSTANTS
  MaxHand = 1
  MaxFailures = 2
  Worlds <- MCWorlds
SPECIFICATION FairSpec
INVARIANTS TypeOK FollowingIsPaired LossNeedsReference HoldFreezesArm
PROPERTIES CarefulEngageGetsReference
