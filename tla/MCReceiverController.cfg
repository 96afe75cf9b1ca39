CONSTANTS
  SF = 9
  LowDataRate = TRUE
  MaxLen = 9
  MaxNibbles = 34
  Headers <- MCHeaders
  Occupancies <- MCOccupancies
SPECIFICATION Spec
INVARIANTS TypeOK RequestIsExact ReadsWhatIsSent
