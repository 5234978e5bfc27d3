SPECIFICATION Spec
CONSTANTS
  STACK_SIZE = 18
  program_var_count = 5
  LibVars = 4
  Margin = 5
  Sites <- MCSites
  Other <- MCOther
  UNDEF = UNDEF
  NIL = NIL
  LIB = LIB
  table = table
  Values <- MCValues
  MaxArgs = 2
  MaxLocals = 1
INVARIANT ExhaustionReported
CHECK_DEADLOCK FALSE
