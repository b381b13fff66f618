\* Without overlap and without Scheme A.
CONSTANTS
  MCNz = 10
  Infos <- MCInfos
  Shots = 1
  Frequencies = 1
  DepthChunks = {4}
  MaximumCachedGeometries = 2
  Loaders = {l1}
  NoLoader = none
SPECIFICATION StoreSpec
INVARIANT NoRowIsCountedTwice
