\* Six inputs, three in flight at most, four in flight or buffered.
SPECIFICATION Spec
CONSTANTS
  NInputs = 6
  MaxConcurrent = 3
  MaxBuffered = 4
INVARIANTS WaiterIsOwed ResolvedIsComplete
PROPERTY ImplementsOrderedReduce
CHECK_DEADLOCK FALSE
