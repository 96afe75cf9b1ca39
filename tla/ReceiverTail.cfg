CONSTANTS
  Scenarios <- MCScenarios
SPECIFICATION FairSpec
CHECK_DEADLOCK FALSE
INVARIANTS TypeOK Dewhitened CrcOfOneFrame SpacedDisturbance
PROPERTY EveryFrameChecked
