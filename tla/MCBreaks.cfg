SPECIFICATION Spec
CONSTANTS
  MaxQuads = 9
  MaxLocals = 2
INVARIANT BreaksExitTheLoop
CHECK_DEADLOCK FALSE
