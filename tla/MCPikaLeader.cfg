CONSTANTS
  MaxPose = 2
  Soft = 0
  Absolute = 1
  Confirm = 2
  Recheck = 2
  Modes <- MCModes
  Pausing = FALSE
  MaxContext = 2
  MaxOffset = 2
  None = None
SPECIFICATION FairSpec
INVARIANTS TypeOK FollowingInOneContext
PROPERTIES GapInvalidatesReference PublishedMotionBounded EngageKeepsTarget RestartEnds
