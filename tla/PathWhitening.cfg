CONSTANTS
  P <- SF9
  Lengths = {1, 3}
  NFrames = 3
  Sources = {"mixed"}
SPECIFICATION Spec
CHECK_DEADLOCK FALSE
INVARIANT ResetAtEndOfFrame
