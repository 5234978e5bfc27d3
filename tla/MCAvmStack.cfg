SPECIFICATION Spec
CONSTANTS
  STACK_SIZE = 17
  program_var_count = 5
  LibVars = 4
  Margin = 5
  Sites <- MCSites
  Other <- MCOther
  UNDEF = UNDEF
  NIL = NIL
  LIB = LIB
  table = table
  Values <- MCValues
  MaxArgs = 2
  MaxLocals = 1
CONSTRAINT NotExhausted
INVARIANTS TypeOK FramesIntact NoCorruption GlobalsBelow WildReadOnlyWithoutActuals
PROPERTY ImplementsCallStack
VIEW LiveCells
CHECK_DEADLOCK FALSE
