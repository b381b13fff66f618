\* The same map, asked whether each write-back finds its list.
CONSTANTS
  CellCount = 2
  Batches <- BatchesValue
  GrowBy = 1
  EntryWords = 16
  CacheLimits <- LimitsValue
  ByteOrders = {"native"}
  MaxFold = 6
  MaxWords = 10
SPECIFICATION Spec
INVARIANTS
  WriteBackHasItsList
