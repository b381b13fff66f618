\* Three workers, five sources, two blocks; any source may fail.
CONSTANTS
  w1 = w1
  w2 = w2
  w3 = w3
  Workers <- MCWorkers
  Sources = 5
  Blocks = 2
SPECIFICATION Spec
INVARIANT TypeOK
PROPERTIES
  WrittenTablesAreComplete
  SolverEnds
