CONSTANTS
  MaxFiles = 3
  MaxSnapshots = 3
  Contents <- MCContents
  Partitions <- MCPartitions
  Wheres <- MCWheres
  NullPartition = "null"
  Absolute = FALSE
SPECIFICATION ScanSpec
INVARIANTS DeletedRowsStayHidden LostRowsAreExplained
CHECK_DEADLOCK FALSE
