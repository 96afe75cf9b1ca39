CONSTANTS
  decimation = 3
  maxSamplesToRead = 6
  MaxSamples = 21
SPECIFICATION Spec
CHECK_DEADLOCK FALSE
INVARIANTS TypeOK InputsDrift WindowLength OneWindowPerRise
PROPERTY BeyondExplained
