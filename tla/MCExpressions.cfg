SPECIFICATION Spec
CONSTANTS
  Unit = 2
  MaxNumber = 2
  Vars = {x, t}
  Global = x
  Arities = {1, 2}
  Constants = {2}
  MaxOperands = 3
INVARIANTS TypeOK OperandsApart
PROPERTY ImplementsEvaluation
CHECK_DEADLOCK FALSE
