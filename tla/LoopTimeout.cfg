CONSTANTS
  SF = 9
  LowDataRate = TRUE
  NFrames = 2
  Scenarios <- Overlapping
SPECIFICATION Spec
CHECK_DEADLOCK FALSE
PROPERTY NoSymbolsBeforeStart
