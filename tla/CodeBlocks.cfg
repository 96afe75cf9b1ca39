CONSTANTS
  SF = 7
  SymbolSlots = 24
  NibbleSlots = 16
  Scenarios <- MCScenarios
SPECIFICATION FairSpec
CHECK_DEADLOCK FALSE
INVARIANTS StreamTypeOK ResidueExplained NibblesReceived StarvationExplained
PROPERTY EveryFrameReceived
