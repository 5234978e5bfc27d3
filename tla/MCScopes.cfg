SPECIFICATION Spec
CONSTANTS
  Names = {"x", "print"}
  Library = {"print"}
  TempNames <- MCTempNames
  Formals <- MCFormals
  MaxEntries = 4
  MaxOpen = 2
INVARIANTS TypeOK ResolvesToInnermost AcceptedAreOwn CellsAreDistinct
PROPERTY ImplementsEnvironments
CHECK_DEADLOCK FALSE
