CONSTANTS
  MaxJoint = 3
  Grip = {0, 1}
  FK <- MCFK
  Workspace <- MCWorkspace
  Clearance <- MCClearance
  MaxStep = 1
  JumpReset = 1
  EntryMargin = 1
  ReleaseMargin = 2
  None = None
  Invalid = Invalid
  Home <- MCHome
  Delta <- MCDelta
  ResetOnConnect = FALSE
  MaxEpoch = 2
  MaxHolds = 1
SPECIFICATION Spec
PROPERTIES HeldFrameKeepsCommand
