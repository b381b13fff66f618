\* Models of up to ten rows: up to five blocks, every legal overlap.
CONSTANT MaxNz = 10
SPECIFICATION Spec
INVARIANTS
  TypeOK
  MakerIsAccepted
  UneditedFileIsWhole
  RowsArePartitioned
  DatumIsComputed
  OverlapsAreDisjoint
