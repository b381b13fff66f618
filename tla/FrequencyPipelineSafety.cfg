\* Four workers, three memory-safe slots, per-shot images on.
CONSTANTS
  Workers = {w1, w2, w3, w4}
  FrequencyCount = 4
  ShotCount = 2
  ConcurrentFrequencies = 3
  WritePerShot = TRUE
SPECIFICATION Spec
INVARIANTS
  TypeOK
  ImageInLegacyOrder
  OperatorsWithinBudget
  TurnIsNotified
  FreeSlotIsNotified
  WrittenImagesAreComplete
PROPERTY LegacyOrder
\* The slots can run out while the frequency whose turn it is waits for one.
CHECK_DEADLOCK FALSE
