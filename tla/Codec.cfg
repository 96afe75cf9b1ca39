CONSTANTS
  SF = 7
  HeaderCases <- MCHeaders
  PayloadCases <- MCPayloads
SPECIFICATION Spec
CHECK_DEADLOCK FALSE
INVARIANTS TypeOK RoundTrip ErrorsSpread HeaderErrorsDetected
