CONSTANTS
  P <- SF9
  Lengths = {1, 2}
  NFrames = 3
  Sources = {"spaced", "uniform"}
SPECIFICATION FairSpec
CHECK_DEADLOCK FALSE
INVARIANTS TypeOK FrameIntegrity CrcAtMostOneBehind StartsAccounted
PROPERTY EveryFrameTransmitted
