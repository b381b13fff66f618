\* A slot for every worker: gmres_frequency_threads not above the
\* memory-safe count.
CONSTANTS
  Workers = {w1, w2, w3}
  FrequencyCount = 4
  ShotCount = 1
  ConcurrentFrequencies = 3
  WritePerShot = TRUE
SPECIFICATION FairSpec
INVARIANT NobodyWaitsForASlot
PROPERTY EveryFrequencyCommits
