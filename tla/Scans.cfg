CONSTANTS
  UnitLength = 2
  Exprs <- MCExprs
  IndexedExprs <- MCIndexedExprs
  IsoTexts = {102, 104}
  Columns <- MCColumns
  Paths <- MCPaths
  Calls <- AggregateCalls
  RunLength = 2
  ItemBytes = 3
  GroupBytes = 4
SPECIFICATION MCSpec
INVARIANTS PruningIsSound ScanIsExact AggregateIsOfTheRows BudgetIsOfTheRows UnitsCoverOnce
CHECK_DEADLOCK FALSE
