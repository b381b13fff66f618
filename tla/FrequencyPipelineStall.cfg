\* One memory-safe slot, two requested frequency threads, as
\* memory_bounded_frequency_count returns when memory is short.
CONSTANTS
  Workers = {w1, w2}
  FrequencyCount = 2
  ShotCount = 1
  ConcurrentFrequencies = 1
  WritePerShot = FALSE
SPECIFICATION FairSpec
PROPERTY EveryFrequencyCommits
CHECK_DEADLOCK FALSE
