SPECIFICATION Spec
CONSTANTS
  FirstQuad = 1
  Kinds <- AllKinds
  MaxQuads = 12
  MaxOperands = 3
INVARIANTS TypeOK JumpsAreListed SoundExpressionsAreRight
CHECK_DEADLOCK FALSE
