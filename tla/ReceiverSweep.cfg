\* Two shots, three frequencies, so that swapped indices show; up to five
\* blocks; two workers read the store.
CONSTANTS
  MCNz = 10
  Infos <- MCInfos
  Shots = 2
  Frequencies = 3
  DepthChunks = {2, 4}
  MaximumCachedGeometries = 2
  Loaders = {l1, l2}
  NoLoader = none
SYMMETRY WorkerSymmetry
SPECIFICATION StoreSpec
INVARIANTS
  TypeOK
  DatumChain
  SeamFromBlockAbove
  LoadsReturnTheirTiles
  MatchingInputIsAccepted
  OwnTablesMatch
  OverlappedRowsCountOnce
PROPERTY TreesSurviveFrequencies
