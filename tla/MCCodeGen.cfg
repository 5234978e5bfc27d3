SPECIFICATION Spec
CONSTANTS
  Names = {"f", "g"}
  Relops = {"if_noteq", "if_lesseq"}
  Numbers = {1}
  MaxQuads = 8
  MaxInstructions = 11
  MaxNesting = 2
  MAX_EXEC_STEPS = 12
INVARIANTS TypeOK JumpsResolved NamesReachTheirFunction EnteredByCallsOnly
PROPERTIES ImplementsQuads EveryRunEnds
CONSTRAINT FirstIsF
CHECK_DEADLOCK FALSE
