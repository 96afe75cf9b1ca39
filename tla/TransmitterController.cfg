CONSTANTS
  Params <- MCParams
  Sizes = {0, 1, 2, 4, 300}
  MessageSizes = {0, 2, 5, 300}
  Crcs = {c1, c2}
  MaxNibbles = 12
  LargeSize = 300
  Occupancies <- MCOccupancies
SPECIFICATION Spec
CHECK_DEADLOCK FALSE
INVARIANTS TypeOK WholeFrame
PROPERTY FaultExplained
