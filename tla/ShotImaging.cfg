\* Two threads and two shots; intervals that divide the last step and that
\* do not, longer than the run, and not positive; two runs in a directory.
CONSTANTS
  Threads = {t1, t2}
  Shots = 2
  Steps = {4, 5}
  Intervals = {0, 2, 3, 7}
  Ranges <- RangesValue
  MaxRuns = 2
SPECIFICATION Spec
INVARIANTS
  ImagePairsSameTimes
  StackIsOfThisRun
PROPERTY EveryRunEnds
