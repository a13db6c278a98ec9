CONSTANTS
  MaxPose = 1
  Soft = 0
  Absolute = 1
  Confirm = 3
  Recheck = 2
  Modes <- MCModes
  Pausing = TRUE
  MaxContext = 1
  MaxOffset = 1
  None = None
SPECIFICATION Spec
PROPERTIES GapInvalidatesReference
