SPECIFICATION PrintSpec
CONSTANTS
  s = s
  print = print
  libprint = libprint
  nan = nan
  zero = zero
  one = one
  undef = undef
  half = half
  x = x
  empty = empty
  mixed = mixed
  array = array
  cycle = cycle
  Keys <- MCKeys
  Values <- MCValues
  NIL = NIL
  NAN = nan
  Chains = 3
  Hash <- MCHash
  StringOf <- MCStringOf
  COLLECTED = 2
  MaxPairs = 3
  Inner <- MCInner
  IndexOf <- MCIndexOf
  Whole <- MCWhole
  MaxDepth = 5
INVARIANTS TypeOK OneBindingPerKey CopyFaithful UndisturbedPrintedWhole CrashNeedsCycle
PROPERTIES ImplementsTableMap LibraryCallsEnd
CHECK_DEADLOCK FALSE
