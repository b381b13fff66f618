\* Two cells and a cache that holds both until one of them has a list, in
\* both byte orders.
CONSTANTS
  CellCount = 2
  Batches <- BatchesValue
  GrowBy = 7
  EntryWords = 16
  CacheLimits <- LimitsValue
  ByteOrders = {"native", "swapped"}
  MaxFold = 8
  MaxWords = 9
SPECIFICATION Spec
INVARIANTS
  TypeOK
  BlocksAreDisjoint
PROPERTY ImplementsCellMap
