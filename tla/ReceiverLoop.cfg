CONSTANTS
  SF = 12
  LowDataRate = FALSE
  NFrames = 3
  Scenarios <- MCScenarios
SPECIFICATION FairSpec
CHECK_DEADLOCK FALSE
INVARIANTS TypeOK FrameIntegrity BlocksAligned StarvationExplained WindowsKept
PROPERTIES ReceptionEnds RefinesController EveryFrameDelivered
