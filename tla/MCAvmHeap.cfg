SPECIFICATION Spec
CONSTANTS
  Tables = {t1, t2}
  Cells = {c1, c2}
  TableKeys = {t1, t2}
  UNDEF = UNDEF
  NIL = NIL
  Scalars <- MCScalars
  Literals = {0}
  Keys <- MCKeys
  MaxRefs = 3
  MaxMembers = 2
INVARIANTS TypeOK CountsCover HeldIsLive CrashNeedsDeadKey
PROPERTY ImplementsObjectStore
SYMMETRY Interchangeable
CHECK_DEADLOCK FALSE
