CONSTANTS
  MaxFiles = 3
  MaxSnapshots = 3
  Contents <- MCContents
  Partitions <- MCPartitions
  Wheres <- MCWheres
  NullPartition = "null"
  Absolute = TRUE
SPECIFICATION ScanSpec
INVARIANTS DeletedRowsStayHidden
CHECK_DEADLOCK FALSE
