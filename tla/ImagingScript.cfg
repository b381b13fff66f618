\* Three runs, each with REUSE=0 or 1; the last one may stop for good.
CONSTANTS
  NTables = 2
  MaxRuns = 3
  DiskMayFill = TRUE
SPECIFICATION Spec
INVARIANTS
  TypeOK
  WrongImageOnlyFromCutHeader
CHECK_DEADLOCK FALSE
