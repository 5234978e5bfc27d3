SPECIFICATION Spec
CONSTANTS
  FirstQuad = 1
  Kinds <- VariablesOnly
  MaxQuads = 12
  MaxOperands = 3
INVARIANT ExpressionsAreRight
CHECK_DEADLOCK FALSE
