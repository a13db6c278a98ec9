CONSTANTS
  MaxHand = 1
  MaxFailures = 2
  Worlds <- MissedEdge
SPECIFICATION FairSpec
PROPERTIES EngageGetsReference
