\* A grid of three columns and two rows, every source cell, four times.
CONSTANTS
  Nz = 2
  Nx = 3
  MaxTime = 3
SPECIFICATION Spec
INVARIANTS
  TypeOK
  BandIsTheFront
  BandIsSorted
  TimesSpreadFromTheSource
  EveryPointIsReached
PROPERTY TimesOnlyImprove
