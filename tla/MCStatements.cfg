SPECIFICATION Spec
CONSTANTS
  MaxQuads = 9
  MaxLocals = 2
INVARIANTS TypeOK ExitsArrive JumpsStayInFunction FramesHoldLocals RefusedRightly
CHECK_DEADLOCK FALSE
