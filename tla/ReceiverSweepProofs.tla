------------------------ MODULE ReceiverSweepProofs ------------------------
(***************************************************************************)
(* Proofs about the receiver sweep and the loads from its store, for every *)
(* accepted block file, every number of shots, frequencies and workers,    *)
(* and chunks of any depth.                                                *)
(***************************************************************************)
EXTENDS ReceiverSweepProperties, FiniteSetTheorems, WellFoundedInduction, TLAPS

(***************************************************************************)
(* Two indices packed into one.                                            *)
(***************************************************************************)
LEMMA PackedRange ==
  ASSUME NEW A \in Nat \ {0}, NEW B \in Nat \ {0},
         NEW x \in 0 .. A - 1, NEW y \in 0 .. B - 1
  PROVE  y * A + x \in 0 .. A * B - 1
  <1>1. y * A \in Nat
    OBVIOUS
  <1>2. (B - 1 - y) * A \in Nat
    <2>1. B - 1 - y \in Nat
      OBVIOUS
    <2>2. QED
      BY <2>1
  <1>3. (B - 1 - y) * A = A * B - A - y * A
    OBVIOUS
  <1>4. A * B \in Nat
    OBVIOUS
  <1>5. QED
    BY <1>1, <1>2, <1>3, <1>4

LEMMA PackedDiffer ==
  ASSUME NEW A \in Nat \ {0}, NEW x \in 0 .. A - 1, NEW u \in 0 .. A - 1,
         NEW y \in Nat, NEW v \in Nat, y < v
  PROVE  y * A + x < v * A + u
  <1>1. v - y - 1 \in Nat
    OBVIOUS
  <1>2. (v - y - 1) * A \in Nat
    BY <1>1
  <1>3. (v - y - 1) * A = v * A - y * A - A
    OBVIOUS
  <1>4. y * A \in Nat /\ v * A \in Nat
    OBVIOUS
  <1>5. QED
    BY <1>2, <1>3, <1>4

LEMMA PackedOnce ==
  ASSUME NEW A \in Nat \ {0}, NEW x \in 0 .. A - 1, NEW u \in 0 .. A - 1,
         NEW y \in Nat, NEW v \in Nat, y * A + x = v * A + u
  PROVE  x = u /\ y = v
  <1>1. ~(y < v)
    <2>1. y * A + x \in Int /\ v * A + u \in Int
      OBVIOUS
    <2>2. QED
      BY <2>1, PackedDiffer
  <1>2. ~(v < y)
    <2>1. y * A + x \in Int /\ v * A + u \in Int
      OBVIOUS
    <2>2. QED
      BY <2>1, PackedDiffer
  <1>3. y = v
    BY <1>1, <1>2
  <1>4. y * A \in Int
    OBVIOUS
  <1>5. QED
    BY <1>3, <1>4

(***************************************************************************)
(* Each shot and frequency has a record and a cache entry of its own.      *)
(***************************************************************************)
LEMMA Indexed ==
  ASSUME NEW s \in Shot, NEW f \in Frequency
  PROVE  Record(s, f) \in Records /\ CacheEntry(s, f) \in Records
  <1>1. Shots * Frequencies = Frequencies * Shots
    BY SizesAssumption
  <1>2. f * Shots + s \in 0 .. Shots * Frequencies - 1
    BY SizesAssumption, PackedRange DEF Shot, Frequency
  <1>3. s * Frequencies + f \in 0 .. Frequencies * Shots - 1
    BY SizesAssumption, PackedRange DEF Shot, Frequency
  <1>4. QED
    BY <1>1, <1>2, <1>3 DEF Record, CacheEntry, Records

LEMMA IndexedOnce ==
  ASSUME NEW s \in Shot, NEW f \in Frequency, NEW t \in Shot, NEW g \in Frequency
  PROVE  /\ Record(s, f) = Record(t, g) => s = t /\ f = g
         /\ CacheEntry(s, f) = CacheEntry(t, g) => s = t /\ f = g
  <1>1. /\ s \in 0 .. Shots - 1 /\ t \in 0 .. Shots - 1
        /\ f \in 0 .. Frequencies - 1 /\ g \in 0 .. Frequencies - 1
        /\ s \in Nat /\ t \in Nat /\ f \in Nat /\ g \in Nat
    BY SizesAssumption DEF Shot, Frequency
  <1>2. Record(s, f) = Record(t, g) => s = t /\ f = g
    BY <1>1, SizesAssumption, PackedOnce DEF Record
  <1>3. CacheEntry(s, f) = CacheEntry(t, g) => s = t /\ f = g
    BY <1>1, SizesAssumption, PackedOnce DEF CacheEntry
  <1>4. QED
    BY <1>2, <1>3

(***************************************************************************)
(* The rows of the blocks of an accepted file.                             *)
(***************************************************************************)
LEMMA BlockTypes ==
  ASSUME NEW i \in Infos, NEW k \in 1 .. Len(i.blocks)
  PROVE  /\ i.nz \in Int /\ i.block_rows \in Int /\ i.overlap_rows \in Int
         /\ 2 <= i.block_rows /\ 0 <= i.overlap_rows
         /\ i.overlap_rows < i.block_rows
         /\ i.blocks[k].source_iz \in Int
         /\ i.blocks[k].target_start_iz \in Int
         /\ i.blocks[k].target_end_iz \in Int
         /\ i.blocks[k].halo_end_iz \in Int
  <1>1. /\ i.nz \in Int /\ i.block_rows \in Int /\ i.overlap_rows \in Int
        /\ i.blocks \in Seq(Block)
    BY InfosAssumption DEF BlockInfo
  <1>2. i.blocks[k] \in Block
    BY <1>1
  <1>3. QED
    BY <1>1, <1>2, InfosAssumption DEF Block, HeaderValid, OverlapAllowed

LEMMA BlockCount ==
  ASSUME NEW i \in Infos
  PROVE  Len(i.blocks) \in Nat /\ Len(i.blocks) >= 2
  BY InfosAssumption DEF BlockInfo, HeaderValid

\* A block below the first starts under the row above it.
LEMMA BlockBelow ==
  ASSUME NEW i \in Infos, NEW k \in 2 .. Len(i.blocks)
  PROVE  LET b == i.blocks[k]
             p == i.blocks[k - 1].target_end_iz
         IN  /\ k - 1 \in 1 .. Len(i.blocks) /\ k \in 1 .. Len(i.blocks)
             /\ p \in Int /\ 1 <= p
             /\ b.source_iz = Higher(1, p - i.overlap_rows)
             /\ b.target_start_iz = p + 1
             /\ b.target_end_iz = Lower(i.nz - 1, p + i.block_rows)
             /\ b.target_start_iz <= b.target_end_iz
             /\ b.target_end_iz <= b.halo_end_iz
             /\ b.halo_end_iz < i.nz
  <1> DEFINE b == i.blocks[k]
             a == i.blocks[k - 1]
             p == a.target_end_iz
  <1>1. k - 1 \in 1 .. Len(i.blocks) /\ k \in 1 .. Len(i.blocks) /\ k > 1
    BY BlockCount
  <1>2. BlockValid(i, k) /\ BlockValid(i, k - 1)
    BY <1>1, InfosAssumption
  <1>3. /\ b = NextBlock(i, p)
        /\ b.source_iz + 1 <= a.halo_end_iz /\ 1 <= b.source_iz
        /\ InsideModel(i, b)
    BY <1>1, <1>2 DEF BlockValid
  <1>4. /\ b.source_iz = Higher(1, p - i.overlap_rows)
        /\ b.target_start_iz = p + 1
        /\ b.target_end_iz = Lower(i.nz - 1, p + i.block_rows)
    BY <1>3 DEF NextBlock, MakeBlock
  <1>5. a.halo_end_iz = HaloEnd(i, p)
    <2>1. CASE k - 1 = 1
      BY <1>2, <2>1 DEF BlockValid
    <2>2. CASE k - 1 > 1
      BY <1>2, <2>2 DEF BlockValid, NextBlock, MakeBlock
    <2>3. QED
      BY <1>1, <2>1, <2>2
  <1>6. /\ i.nz \in Int /\ p \in Int /\ b.source_iz \in Int
    BY <1>1, BlockTypes
  <1>7. HaloEnd(i, p) <= p + 1 /\ HaloEnd(i, p) \in Int
    BY <1>6 DEF HaloEnd, Lower
  <1>8. /\ b.target_start_iz <= b.target_end_iz
        /\ b.target_end_iz <= b.halo_end_iz
        /\ b.halo_end_iz < i.nz
    BY <1>3 DEF InsideModel
  <1>9. 1 <= p
    <2>1. 2 <= a.halo_end_iz
      BY <1>1, <1>3, <1>6, BlockTypes
    <2> HIDE DEF p
    <2>2. QED
      BY <1>5, <1>6, <1>7, <2>1
  <1>10. QED
    BY <1>1, <1>4, <1>6, <1>8, <1>9

LEMMA RowsAreAnInterval ==
  ASSUME NEW i \in Infos, NEW k \in 1 .. Len(i.blocks), NEW e
  PROVE  \E a, z \in Int : ComputedRows(i, k, e) = a .. z
  <1> DEFINE b == i.blocks[k]
  <1>1. /\ b.source_iz \in Int /\ b.target_start_iz \in Int
        /\ b.target_end_iz \in Int /\ b.halo_end_iz \in Int
    BY BlockTypes
  <1> HIDE DEF b
  <1>2. ImagingBlock(i, k).target_start_iz \in Int
        /\ ImagingBlock(i, k).halo_end_iz \in Int
    BY <1>1 DEF ImagingBlock, MakeBlock, b
  <1>3. ImagingBlock(i, k).source_iz \in Int
    BY <1>1 DEF ImagingBlock, MakeBlock, b
  <1>4. SchemeABlock(i, k).target_start_iz \in Int
        /\ SchemeABlock(i, k).halo_end_iz \in Int
    BY <1>2, <1>3 DEF SchemeABlock, MakeBlock
  <1>5. QED
    BY <1>2, <1>4 DEF ComputedRows, TargetRows

\* The block above always computes the row of the next datum.
LEMMA DatumComputed ==
  ASSUME NEW i \in Infos, NEW k \in 1 .. Len(i.blocks), k + 1 \in 1 .. Len(i.blocks),
         NEW e
  PROVE  i.blocks[k + 1].source_iz \in ComputedRows(i, k, e)
  <1> DEFINE b == i.blocks[k]
             te == b.target_end_iz
             s == i.blocks[k + 1].source_iz
             ov == i.overlap_rows
             rows == i.block_rows
             p == i.blocks[k - 1].target_end_iz
  <1>1. /\ i.nz \in Int /\ rows \in Int /\ ov \in Int
        /\ 2 <= rows /\ 0 <= ov /\ ov < rows
        /\ te \in Int /\ b.halo_end_iz \in Int /\ s \in Int
    BY BlockTypes
  <1>2. /\ s = Higher(1, te - ov) /\ 1 <= te
        /\ te + 1 <= Lower(i.nz - 1, te + rows)
    <2>1. k + 1 \in 2 .. Len(i.blocks) /\ (k + 1) - 1 = k
      BY BlockCount
    <2>2. QED
      BY <2>1, BlockBelow
  <1>3. te <= i.nz - 2
    <2> HIDE DEF te, rows, ov, s
    <2>1. QED
      BY <1>1, <1>2 DEF Lower
  <1>4. 1 <= s /\ s <= te /\ te - ov <= s
    <2> HIDE DEF te, rows, ov, s
    <2>1. QED
      BY <1>1, <1>2 DEF Higher
  <1>5. CASE k = 1
    <2>1. te <= b.halo_end_iz
      BY InfosAssumption DEF BlockValid, InsideModel
    <2>2. /\ ImagingBlock(i, k).target_start_iz = 1
          /\ ImagingBlock(i, k).halo_end_iz = te
      BY <1>5 DEF ImagingBlock, MakeBlock
    <2>3. SchemeABlock(i, k) = ImagingBlock(i, k)
      BY <1>5 DEF SchemeABlock
    <2>4. QED
      BY <1>1, <1>4, <2>2, <2>3 DEF ComputedRows, TargetRows
  <1>6. CASE k > 1
    <2>1. k \in 2 .. Len(i.blocks)
      BY <1>6
    <2>2. /\ p \in Int /\ 1 <= p
          /\ b.source_iz = Higher(1, p - ov) /\ b.target_start_iz = p + 1
          /\ te = Lower(i.nz - 1, p + rows)
          /\ te <= b.halo_end_iz
      BY <2>1, BlockBelow
    <2>3. te = p + rows
      <3> HIDE DEF te, rows, ov, s, p
      <3>1. QED
        BY <1>1, <1>3, <2>2 DEF Lower
    <2>4. /\ p + 1 <= s /\ b.source_iz + 1 <= s /\ b.source_iz \in Int
          /\ s <= b.halo_end_iz
      <3> HIDE DEF te, rows, ov, s, p, b
      <3>1. p + 1 <= s
        BY <1>1, <1>4, <2>2, <2>3
      <3>2. b.source_iz <= p /\ b.source_iz \in Int
        BY <1>1, <2>2 DEF Higher
      <3>3. te <= b.halo_end_iz
        BY <2>2
      <3>4. QED
        BY <1>1, <1>4, <2>2, <3>1, <3>2, <3>3
    <2>5. ImagingBlock(i, k) = b
      BY <1>6 DEF ImagingBlock
    <2>6. \/ TargetRows(SchemeABlock(i, k)) = TargetRows(b)
          \/ TargetRows(SchemeABlock(i, k)) = (b.source_iz + 1) .. b.halo_end_iz
      BY <2>5 DEF SchemeABlock, TargetRows, MakeBlock
    <2>7. /\ s \in b.target_start_iz .. b.halo_end_iz
          /\ s \in (b.source_iz + 1) .. b.halo_end_iz
      BY <1>1, <2>2, <2>4
    <2>8. QED
      BY <2>5, <2>6, <2>7 DEF ComputedRows, TargetRows
  <1>7. QED
    BY <1>5, <1>6

LEMMA RowsAreFinite ==
  ASSUME Typed
  PROVE  /\ Rows(iblock) \subseteq Int /\ IsFiniteSet(Rows(iblock))
         /\ \A row \in Rows(iblock) :
              LocalDepth(row) \in Nat /\ LocalDepth(row) < Cardinality(Rows(iblock))
         /\ Cardinality(Rows(iblock)) \in Nat
  <1>1. info \in Infos /\ iblock \in 1 .. Len(info.blocks)
    BY DEF Typed, Blocks
  <1>2. PICK a \in Int, z \in Int : Rows(iblock) = a .. z
    BY <1>1, RowsAreAnInterval DEF Rows
  <1>3. Rows(iblock) \subseteq Int /\ IsFiniteSet(Rows(iblock))
    BY <1>2, FS_Interval
  <1>4. ASSUME NEW row \in Rows(iblock)
        PROVE  /\ LocalDepth(row) \in Nat
               /\ LocalDepth(row) < Cardinality(Rows(iblock))
    <2> DEFINE above == {q \in Rows(iblock) : q < row}
    <2>1. above \subseteq Rows(iblock) /\ above # Rows(iblock)
      <3>1. row \notin above
        BY <1>3
      <3>2. QED
        BY <3>1
    <2>2. /\ IsFiniteSet(above)
          /\ Cardinality(above) <= Cardinality(Rows(iblock))
          /\ Cardinality(above) # Cardinality(Rows(iblock))
      BY <1>3, <2>1, FS_Subset
    <2>3. Cardinality(above) \in Nat /\ Cardinality(Rows(iblock)) \in Nat
      BY <1>3, <2>2, FS_CardinalityType
    <2>4. Cardinality(above) < Cardinality(Rows(iblock))
      BY <2>2, <2>3
    <2>5. QED
      BY <2>3, <2>4 DEF LocalDepth
  <1>5. Cardinality(Rows(iblock)) \in Nat
    BY <1>3, FS_CardinalityType
  <1>6. QED
    BY <1>3, <1>4, <1>5

(***************************************************************************)
(* The configuration of a run does not change.                             *)
(***************************************************************************)
LEMMA SameConfig ==
  ASSUME UNCHANGED config
  PROVE  /\ info' = info /\ seam' = seam /\ depth_chunk' = depth_chunk
         /\ tables' = tables /\ overlap_in_tables' = overlap_in_tables
         /\ Blocks' = Blocks
         /\ \A k : Rows(k)' = Rows(k) /\ CommonRows(k)' = CommonRows(k)
         /\ \A k, s, f : DatumField(k, s, f)' = DatumField(k, s, f)
         /\ \A k, s, f, t : TileOf(k, s, f, t)' <=> TileOf(k, s, f, t)
         /\ \A c, k, s, f : HoldsOverlap(c, k, s, f)' <=> HoldsOverlap(c, k, s, f)
         /\ PreviewAccepted' <=> PreviewAccepted
  <1>1. /\ info' = info /\ seam' = seam /\ depth_chunk' = depth_chunk
        /\ tables' = tables /\ overlap_in_tables' = overlap_in_tables
    BY DEF config
  <1>2. Blocks' = Blocks
    BY <1>1 DEF Blocks
  <1>3. \A k : Rows(k)' = Rows(k)
    BY <1>1 DEF Rows
  <1>4. \A k : CommonRows(k)' = CommonRows(k)
    BY <1>3 DEF CommonRows
  <1>5. \A k, s, f : DatumField(k, s, f)' = DatumField(k, s, f)
    BY <1>1 DEF DatumField
  <1>6. \A k, s, f, t : TileOf(k, s, f, t)' <=> TileOf(k, s, f, t)
    BY <1>1, <1>3, <1>4, <1>5 DEF TileOf
  <1>7. \A c, k, s, f : HoldsOverlap(c, k, s, f)' <=> HoldsOverlap(c, k, s, f)
    BY DEF HoldsOverlap
  <1>8. PreviewAccepted' <=> PreviewAccepted
    BY <1>1, <1>4 DEF PreviewAccepted
  <1>9. QED
    BY <1>1, <1>2, <1>3, <1>4, <1>5, <1>6, <1>7, <1>8

LEMMA Positive ==
  /\ Shots \in Nat /\ Shots >= 1 /\ Frequencies \in Nat /\ Frequencies >= 1
  /\ 0 \in Shot /\ 0 \in Frequency /\ Shot \subseteq Nat /\ Frequency \subseteq Nat
  /\ \A c \in DepthChunks : c \in Nat /\ c >= 1
  BY SizesAssumption DEF Shot, Frequency

(***************************************************************************)
(* The stage begins, or is refused.                                        *)
(***************************************************************************)
LEMMA InitInv ==
  ASSUME Init
  PROVE  SweepInv
  <1>1. /\ info \in Infos /\ Len(info.blocks) \in Nat /\ Len(info.blocks) >= 2
        /\ iblock = 1 /\ pc = "preview" /\ ishot = 0 /\ ifrequency = 0
    BY BlockCount DEF Init
  <1>2. Typed
    BY <1>1, Positive DEF Init, Typed, Blocks
  <1>3. Loops
    BY <1>1 DEF Loops
  <1>4. DatumFields
    <2>1. info.blocks[1].source_iz = 0
      BY <1>1, InfosAssumption DEF BlockValid
    <2>2. \A s \in Shot, f \in Frequency :
            ~Done(s, f) /\ FieldAt(0, 0, s, f) = DatumField(iblock, s, f)
      BY <1>1, <2>1 DEF Done, InBlock, DatumField
    <2>3. boundary = [s \in Shot |-> [f \in Frequency |-> FieldAt(0, 0, s, f)]]
      BY DEF Init
    <2>4. QED
      BY <2>2, <2>3 DEF DatumFields
  <1>5. Propagated /\ OverlapCaches
    BY <1>1 DEF Propagated, OverlapCaches, InBlock
  <1>6. Tiles
    <2>1. store = << >>
      BY DEF Init
    <2>2. store \in Seq([Records -> TileRecord \union {<< >>}]) /\ Len(store) = 0
      BY <2>1
    <2>3. QED
      BY <1>1, <2>2 DEF Tiles, InBlock
  <1>7. QED
    BY <1>2, <1>3, <1>4, <1>5, <1>6 DEF SweepInv

\* The step leaves loops, buffers and tiles as they are.
LEMMA PreviewStep ==
  ASSUME SweepInv, Preview \/ RefusePreview \/ RefuseBlock
  PROVE  SweepInv'
  <1>1. /\ UNCHANGED config /\ iblock' = iblock /\ ifrequency' = ifrequency
        /\ ishot' = ishot /\ boundary' = boundary /\ depth_begin' = depth_begin
        /\ store' = store /\ previous_overlap' = previous_overlap
        /\ pc \in {"preview", "begin"}
        /\ pc' = "failed" \/ (pc' = "begin" /\ pc = "preview" /\ PreviewAccepted)
    BY DEF Preview, RefusePreview, RefuseBlock, Fail, chunkVars
  <1>2. Typed /\ Loops /\ DatumFields /\ Propagated /\ OverlapCaches /\ Tiles
    BY DEF SweepInv
  <1>3. \A s, f : ~Done(s, f) /\ ~Done(s, f)'
    BY <1>1 DEF Done, InBlock
  <1>4. Typed'
    BY <1>1, <1>2, SameConfig DEF Typed
  <1>5. Loops'
    BY <1>1, <1>2, SameConfig DEF Loops
  <1>6. DatumFields'
    BY <1>1, <1>2, <1>3, SameConfig DEF DatumFields, LastBlock
  <1>7. Propagated'
    BY <1>1, <1>2 DEF Propagated
  <1>8. Tiles'
    BY <1>1, <1>2, <1>3, SameConfig DEF Tiles, InBlock
  <1>9. OverlapCaches'
    BY <1>1, <1>2, SameConfig DEF OverlapCaches, Loops
  <1>10. QED
    BY <1>4, <1>5, <1>6, <1>7, <1>8, <1>9 DEF SweepInv

(***************************************************************************)
(* A block begins with an empty row of tiles.                              *)
(***************************************************************************)
LEMMA BeginStep ==
  ASSUME SweepInv, BeginBlock
  PROVE  SweepInv'
  <1>1. /\ UNCHANGED config /\ iblock' = iblock /\ ifrequency' = 0 /\ ishot' = 0
        /\ boundary' = boundary /\ depth_begin' = depth_begin
        /\ store' = Append(store, [r \in Records |-> << >>])
        /\ previous_overlap' = previous_overlap
        /\ next_overlap' = IF seam /\ ~LastBlock
                           THEN MakeOverlapCache(CommonRows(iblock)) ELSE NoCache
        /\ pc = "begin" /\ pc' = "propagate" /\ BlockAccepted
    BY DEF BeginBlock, chunkVars
  <1>2. Typed /\ Loops /\ DatumFields /\ Propagated /\ OverlapCaches /\ Tiles
    BY DEF SweepInv
  <1>3. \A s \in Shot, f \in Frequency : ~Done(s, f) /\ ~Done(s, f)'
    BY <1>1, Positive DEF Done, InBlock
  <1>4. Typed'
    BY <1>1, <1>2, Positive, SameConfig DEF Typed
  <1>5. Loops'
    BY <1>1, <1>2, Positive, SameConfig DEF Loops
  <1>6. DatumFields'
    BY <1>1, <1>2, <1>3, SameConfig DEF DatumFields, LastBlock
  <1>7. Propagated'
    BY <1>1 DEF Propagated
  <1>8. OverlapCaches'
    <2> SUFFICES ASSUME seam PROVE OverlapCaches'
      BY <1>1, SameConfig DEF OverlapCaches
    <2>1. iblock > 1 => previous_overlap.depths = CommonRows(iblock - 1)
      BY <1>1 DEF BlockAccepted
    <2>2. iblock > 1 => \A s \in Shot, f \in Frequency :
                          HoldsOverlap(previous_overlap, iblock - 1, s, f)
      BY <1>1, <1>2 DEF OverlapCaches
    <2>3. ~LastBlock => /\ next_overlap'.depths = CommonRows(iblock)
                        /\ DOMAIN next_overlap'.entries = Records
      BY <1>1 DEF MakeOverlapCache
    <2>4. LastBlock' <=> LastBlock
      BY <1>1, SameConfig DEF LastBlock
    <2>5. QED
      BY <1>1, <1>3, <2>1, <2>2, <2>3, <2>4, SameConfig DEF OverlapCaches
  <1>9. Tiles'
    <2> DEFINE new == [r \in Records |-> << >>]
               n == Len(store)
    <2>1. /\ store \in Seq([Records -> TileRecord \union {<< >>}])
          /\ n = iblock - 1 /\ iblock \in Nat /\ n \in Nat
      BY <1>1, <1>2, BlockCount DEF Tiles, InBlock, Typed, Blocks
    <2>2. new \in [Records -> TileRecord \union {<< >>}]
      OBVIOUS
    <2> HIDE DEF new
    <2>3. /\ store' \in Seq([Records -> TileRecord \union {<< >>}])
          /\ Len(store') = n + 1 /\ store'[n + 1] = new
          /\ \A k \in 1 .. n : store'[k] = store[k]
      BY <1>1, <2>1, <2>2 DEF new
    <2>4. ASSUME NEW k \in 1 .. n
          PROVE  /\ \A r \in Records :
                      \/ store'[k][r] = << >>
                      \/ \E s \in Shot, f \in Frequency :
                           TileOf(k, s, f, store'[k][r])
                 /\ \A s \in Shot, f \in Frequency :
                      TileOf(k, s, f, store'[k][Record(s, f)])
      <3>1. store'[k] = store[k]
        BY <2>3
      <3>2. k \in 1 .. Len(store) /\ k < iblock
        <4> HIDE DEF n
        <4>1. k < iblock
          BY <2>1
        <4>2. QED
          BY <4>1 DEF n
      <3>3. QED
        BY <1>2, <3>1, <3>2 DEF Tiles
    <2>5. \A r \in Records : store'[n + 1][r] = << >>
      BY <2>3 DEF new
    <2>6. \A k \in 1 .. Len(store') : k \in 1 .. n \/ k = n + 1
      BY <2>1, <2>3
    <2>7. n + 1 = iblock /\ ~(n + 1 < iblock)
      BY <2>1
    <2> HIDE DEF n
    <2>8. Len(store') = iblock
      BY <2>3, <2>7
    <2>9. InBlock'
      BY <1>1 DEF InBlock
    <2>10. ASSUME NEW k \in 1 .. Len(store')
           PROVE  /\ \A r \in Records :
                       \/ store'[k][r] = << >>
                       \/ \E s \in Shot, f \in Frequency :
                            TileOf(k, s, f, store[k][r])'
                  /\ \A s \in Shot, f \in Frequency :
                       k < iblock' \/ Done(s, f)'
                         => TileOf(k, s, f, store[k][Record(s, f)])'
      <3>1. CASE k = n + 1
        BY <1>1, <1>3, <2>5, <2>7, <3>1
      <3>2. CASE k \in 1 .. n
        BY <2>4, <3>2, SameConfig, <1>1
      <3>3. QED
        BY <2>6, <3>1, <3>2
    <2>11. QED
      BY <1>1, <2>3, <2>8, <2>9, <2>10 DEF Tiles, TileRecord
  <1>10. QED
    BY <1>4, <1>5, <1>6, <1>7, <1>8, <1>9 DEF SweepInv

(***************************************************************************)
(* A step within the propagation of a frequency leaves the loops, the      *)
(* fields, the caches and the tiles as they are.                           *)
(***************************************************************************)
LEMMA Unchanged ==
  ASSUME SweepInv, UNCHANGED <<config, iblock, ifrequency, ishot, boundary,
                               previous_overlap, next_overlap, store>>,
         pc \in {"propagate", "chunk"}, pc' \in {"chunk", "post"}
  PROVE  DatumFields' /\ OverlapCaches' /\ Tiles'
  <1>1. /\ UNCHANGED config /\ iblock' = iblock /\ ifrequency' = ifrequency
        /\ ishot' = ishot /\ boundary' = boundary /\ store' = store
        /\ previous_overlap' = previous_overlap /\ next_overlap' = next_overlap
    OBVIOUS
  <1>2. DatumFields /\ OverlapCaches /\ Tiles
    BY DEF SweepInv
  <1>3. /\ InBlock /\ InBlock' /\ (LastBlock' <=> LastBlock)
        /\ \A s, f : Done(s, f)' <=> Done(s, f)
    BY <1>1, SameConfig DEF Done, InBlock, LastBlock
  <1>4. DatumFields'
    <2>1. boundary = [s \in Shot |-> [f \in Frequency |->
            IF Done(s, f) /\ ~LastBlock THEN DatumField(iblock + 1, s, f)
                                       ELSE DatumField(iblock, s, f)]]
      BY <1>2 DEF DatumFields
    <2>2. boundary' = [s \in Shot |-> [f \in Frequency |->
            IF Done(s, f)' /\ ~LastBlock' THEN DatumField(iblock + 1, s, f)'
                                         ELSE DatumField(iblock, s, f)']]
      BY <1>1, <1>3, <2>1, SameConfig
    <2>3. QED
      BY <2>2 DEF DatumFields
  <1>5. OverlapCaches'
    BY <1>1, <1>2, <1>3, SameConfig DEF OverlapCaches
  <1>6. Tiles'
    BY <1>1, <1>2, <1>3, SameConfig DEF Tiles
  <1>7. QED
    BY <1>4, <1>5, <1>6

\* The datum fields are copied before any of them is overwritten.
LEMMA PropagateStep ==
  ASSUME SweepInv, Propagate
  PROVE  SweepInv'
  <1>1. /\ UNCHANGED config /\ iblock' = iblock /\ ifrequency' = ifrequency
        /\ ishot' = ishot /\ boundary' = boundary /\ store' = store
        /\ previous_overlap' = previous_overlap /\ next_overlap' = next_overlap
        /\ depth_begin' = 0 /\ propagated' = {}
        /\ pc = "propagate"
        /\ iblock > 1 => /\ pc' = "chunk"
                         /\ rhs' = [s \in Shot |-> boundary[s][ifrequency]]
        /\ ~(iblock > 1) => pc' = "post"
    BY DEF Propagate
  <1>2. Typed /\ Loops /\ DatumFields
    BY DEF SweepInv
  <1>3. DatumFields' /\ OverlapCaches' /\ Tiles'
    BY <1>1, Unchanged
  <1>4. Typed'
    BY <1>1, <1>2, SameConfig DEF Typed
  <1>5. Loops'
    BY <1>1, <1>2, SameConfig DEF Loops
  <1>6. Propagated'
    <2> SUFFICES ASSUME iblock > 1 PROVE Propagated'
      BY <1>1 DEF Propagated
    <2>1. \A s \in Shot : ~Done(s, ifrequency)
      BY <1>1, <1>2, Positive DEF Loops, Done, Typed
    <2>2. ifrequency \in Frequency
      BY <1>1, <1>2, SizesAssumption DEF Loops, Typed, Frequency
    <2>3. rhs' = [s \in Shot |-> DatumField(iblock, s, ifrequency)]
      BY <1>1, <1>2, <2>1, <2>2 DEF DatumFields
    <2>4. {row \in Rows(iblock) : LocalDepth(row) < 0} = {}
      BY <1>2, RowsAreFinite
    <2>5. \A row : LocalDepth(row)' = LocalDepth(row)
      BY <1>1, SameConfig DEF LocalDepth
    <2>6. QED
      BY <1>1, <2>3, <2>4, <2>5, SameConfig DEF Propagated
  <1>7. QED
    BY <1>3, <1>4, <1>5, <1>6 DEF SweepInv

\* A chunk fills the depths that follow, and the last one all that are left.
LEMMA ChunkStep ==
  ASSUME SweepInv, ApplyChunk
  PROVE  SweepInv'
  <1>1. /\ UNCHANGED config /\ iblock' = iblock /\ ifrequency' = ifrequency
        /\ ishot' = ishot /\ boundary' = boundary /\ store' = store /\ rhs' = rhs
        /\ previous_overlap' = previous_overlap /\ next_overlap' = next_overlap
        /\ depth_begin' = depth_begin + depth_chunk
        /\ propagated' = propagated \union ChunkRows
        /\ pc = "chunk" /\ pc' \in {"chunk", "post"}
        /\ pc' = "post" => ~(depth_begin' < Cardinality(Rows(iblock)))
    BY DEF ApplyChunk, NextChunk
  <1>2. Typed /\ Loops /\ Propagated
    BY DEF SweepInv
  <1>3. DatumFields' /\ OverlapCaches' /\ Tiles'
    BY <1>1, Unchanged
  <1>4. depth_begin \in Nat /\ depth_chunk \in Nat /\ depth_chunk >= 1
    BY <1>2, Positive DEF Typed
  <1>5. Typed'
    BY <1>1, <1>2, <1>4, SameConfig DEF Typed
  <1>6. Loops'
    BY <1>1, <1>2, SameConfig DEF Loops
  <1>7. Propagated'
    <2>1. iblock > 1
      BY <1>1, <1>2 DEF Loops
    <2>2. propagated = {row \in Rows(iblock) : LocalDepth(row) < depth_begin}
      BY <1>1, <1>2, <2>1 DEF Propagated
    <2>3. ASSUME NEW row \in Rows(iblock)
          PROVE  row \in propagated' <=> LocalDepth(row) < depth_begin'
      <3>1. LocalDepth(row) \in Nat
        BY <1>2, RowsAreFinite
      <3>2. row \in ChunkRows <=>
              LocalDepth(row) \in depth_begin .. depth_begin + depth_chunk - 1
        BY DEF ChunkRows
      <3>3. QED
        BY <1>1, <1>4, <2>2, <3>1, <3>2
    <2>4. propagated' \subseteq Rows(iblock)
      BY <1>1, <2>2 DEF ChunkRows
    <2>5. propagated' = {row \in Rows(iblock) : LocalDepth(row) < depth_begin'}
      BY <2>3, <2>4
    <2>6. \A row : LocalDepth(row)' = LocalDepth(row)
      BY <1>1, SameConfig DEF LocalDepth
    <2>7. pc' = "post" => propagated' = Rows(iblock)
      <3> SUFFICES ASSUME pc' = "post", NEW row \in Rows(iblock)
                   PROVE  row \in propagated'
        BY <2>4
      <3>1. /\ LocalDepth(row) \in Nat /\ Cardinality(Rows(iblock)) \in Nat
            /\ LocalDepth(row) < Cardinality(Rows(iblock))
        BY <1>2, RowsAreFinite
      <3>2. LocalDepth(row) < depth_begin'
        BY <1>1, <1>4, <3>1
      <3>3. QED
        BY <2>3, <3>2
    <2>8. rhs' = [s \in Shot |-> DatumField(iblock, s, ifrequency)]
      BY <1>1, <1>2, <2>1 DEF Propagated
    <2>9. QED
      BY <1>1, <2>5, <2>6, <2>7, <2>8, SameConfig DEF Propagated
  <1>8. QED
    BY <1>3, <1>5, <1>6, <1>7 DEF SweepInv

(***************************************************************************)
(* The tile that a shot leaves.                                            *)
(***************************************************************************)
LEMMA FieldTypes ==
  /\ NoField \in Field
  /\ \A k \in Nat, row \in Int, s \in Shot, f \in Frequency :
       FieldAt(k, row, s, f) \in Field
  BY Positive DEF NoField, Field, FieldAt

LEMMA DatumFieldType ==
  ASSUME Typed, NEW k \in Blocks, NEW s \in Shot, NEW f \in Frequency
  PROVE  DatumField(k, s, f) \in Field
  <1>1. info \in Infos /\ k \in 1 .. Len(info.blocks) /\ k - 1 \in Nat
    BY DEF Typed, Blocks
  <1>2. info.blocks[k].source_iz \in Int
    BY <1>1, BlockTypes
  <1>3. QED
    BY <1>1, <1>2, FieldTypes DEF DatumField

LEMMA SharedRowsAreThere ==
  ASSUME Typed, PreviewAccepted, seam, iblock > 1
  PROVE  CommonRows(iblock - 1) # {}
  <1>1. /\ info.overlap_rows > 0
        /\ \A k \in 1 .. Len(info.blocks) - 1 :
             Cardinality(CommonRows(k)) = info.overlap_rows
    BY DEF PreviewAccepted
  <1>2. /\ iblock - 1 \in 1 .. Len(info.blocks) - 1
    BY BlockCount DEF Typed, Blocks
  <1>3. Cardinality(CommonRows(iblock - 1)) # 0
    BY <1>1, <1>2
  <1>4. QED
    BY <1>3, FS_EmptySet

LEMMA TileIsRight ==
  ASSUME SweepInv, pc = "post"
  PROVE  /\ Tile \in TileRecord
         /\ TileOf(iblock, ishot, ifrequency, Tile)
  <1>1. /\ Typed /\ Loops /\ DatumFields /\ Propagated /\ OverlapCaches
        /\ info \in Infos /\ iblock \in Blocks /\ ishot \in Shot
        /\ ifrequency \in Frequency
        /\ PreviewAccepted /\ iblock \in Nat /\ iblock >= 1 /\ seam \in BOOLEAN
    BY SizesAssumption DEF SweepInv, Typed, Loops, Frequency, Blocks
  <1>2. ~Done(ishot, ifrequency)
    BY <1>1, Positive DEF Done
  <1>3. boundary[ishot][ifrequency] = DatumField(iblock, ishot, ifrequency)
    BY <1>1, <1>2 DEF DatumFields
  <1>4. /\ Tile.shot = ishot /\ Tile.frequency = ifrequency
        /\ Tile.rows = Rows(iblock)
        /\ Tile.datum = DatumField(iblock, ishot, ifrequency)
    <2>1. CASE iblock > 1
      BY <1>1, <2>1 DEF Tile, Propagated
    <2>2. CASE ~(iblock > 1)
      BY <1>3, <2>2 DEF Tile
    <2>3. QED
      BY <2>1, <2>2
  <1>5. seam /\ iblock > 1 =>
          /\ Tile.blended = FieldAt(iblock - 1, -1, ishot, ifrequency)
          /\ Tile.blended_rows = CommonRows(iblock - 1)
    <2> SUFFICES ASSUME seam, iblock > 1
                 PROVE  /\ Tile.blended
                             = FieldAt(iblock - 1, -1, ishot, ifrequency)
                        /\ Tile.blended_rows = CommonRows(iblock - 1)
      OBVIOUS
    <2>1. /\ previous_overlap.depths = CommonRows(iblock - 1)
          /\ HoldsOverlap(previous_overlap, iblock - 1, ishot, ifrequency)
      BY <1>1 DEF OverlapCaches
    <2>2. previous_overlap.depths # {}
      BY <1>1, <2>1, SharedRowsAreThere
    <2>3. CommonRows(iblock - 1) \intersect Rows(iblock) = CommonRows(iblock - 1)
      <3>1. (iblock - 1) + 1 = iblock
        BY <1>1
      <3>2. QED
        BY <3>1 DEF CommonRows
    <2>4. QED
      BY <2>1, <2>2, <2>3 DEF Tile, HoldsOverlap
  <1>6. ~(seam /\ iblock > 1) =>
          Tile.blended = NoField /\ Tile.blended_rows = {}
    BY DEF Tile
  <1>7. Tile # << >>
    <2>1. "shot" \in DOMAIN Tile
      BY DEF Tile
    <2>2. DOMAIN << >> = {}
      OBVIOUS
    <2>3. QED
      BY <2>1, <2>2
  <1>8. TileOf(iblock, ishot, ifrequency, Tile)
    BY <1>1, <1>4, <1>5, <1>6, <1>7 DEF TileOf
  <1>9. Tile \in TileRecord
    <2>1. Rows(iblock) \subseteq Int
      BY <1>1, RowsAreFinite
    <2>2. DatumField(iblock, ishot, ifrequency) \in Field
      BY <1>1, DatumFieldType
    <2>3. /\ iblock > 1 => FieldAt(iblock - 1, -1, ishot, ifrequency) \in Field
          /\ NoField \in Field
      BY <1>1, FieldTypes
    <2>4. iblock > 1 => CommonRows(iblock - 1) \subseteq Int
      BY <1>1, <2>1 DEF CommonRows
    <2>5. /\ Tile.blended \in Field /\ Tile.blended_rows \subseteq Int
      BY <1>1, <1>5, <1>6, <2>3, <2>4
    <2>6. Tile = [shot |-> Tile.shot, frequency |-> Tile.frequency,
                  rows |-> Tile.rows, datum |-> Tile.datum,
                  blended |-> Tile.blended, blended_rows |-> Tile.blended_rows]
      BY DEF Tile
    <2>7. QED
      BY <1>1, <1>4, <2>1, <2>2, <2>5, <2>6 DEF TileRecord
  <1>10. QED
    BY <1>8, <1>9

(***************************************************************************)
(* One shot of the loop after the propagation.                             *)
(***************************************************************************)
LEMMA NextShotLoops ==
  ASSUME Typed, Loops, NextShot, pc = "post", UNCHANGED <<config, iblock, depth_begin>>
  PROVE  /\ Typed' /\ Loops' /\ InBlock'
         /\ \A s \in Shot, f \in Frequency :
              Done(s, f)' <=> Done(s, f) \/ (s = ishot /\ f = ifrequency)
         /\ pc' \in {"post", "propagate", "end"}
         /\ pc' = "post" => ifrequency' = ifrequency
  <1>1. /\ UNCHANGED config /\ iblock' = iblock /\ depth_begin' = depth_begin
        /\ ishot \in 0 .. Shots - 1 /\ ifrequency \in 0 .. Frequencies - 1
        /\ Shots \in Nat /\ Frequencies \in Nat /\ Shots >= 1 /\ Frequencies >= 1
        /\ InBlock
    BY Positive DEF Typed, Loops, Shot, InBlock
  <1>2. CASE ishot < Shots - 1
    <2>1. ishot' = ishot + 1 /\ pc' = "post" /\ ifrequency' = ifrequency
      BY <1>2 DEF NextShot
    <2>2. ishot' \in Shot
      BY <1>1, <1>2, <2>1 DEF Shot
    <2>3. ASSUME NEW s \in Shot, NEW f \in Frequency
          PROVE  Done(s, f)' <=> Done(s, f) \/ (s = ishot /\ f = ifrequency)
      <3>1. s \in Int /\ f \in Int
        BY DEF Shot, Frequency
      <3>2. InBlock'
        BY <2>1 DEF InBlock
      <3>3. QED
        BY <1>1, <2>1, <3>1, <3>2 DEF Done
    <2>4. Typed'
      BY <1>1, <2>1, <2>2, SameConfig DEF Typed
    <2>5. Loops'
      BY <1>1, <2>1, SameConfig DEF Loops
    <2>6. QED
      BY <2>1, <2>3, <2>4, <2>5 DEF InBlock
  <1>3. CASE ~(ishot < Shots - 1)
    <2>1. /\ ishot' = 0 /\ ifrequency' = ifrequency + 1
          /\ pc' = IF ifrequency < Frequencies - 1 THEN "propagate" ELSE "end"
      BY <1>3 DEF NextShot
    <2>2. ishot' \in Shot /\ ifrequency' \in 0 .. Frequencies
      BY <1>1, <2>1 DEF Shot
    <2>3. ASSUME NEW s \in Shot, NEW f \in Frequency
          PROVE  Done(s, f)' <=> Done(s, f) \/ (s = ishot /\ f = ifrequency)
      <3>1. /\ s \in Int /\ f \in Int /\ 0 <= s /\ s <= ishot
        BY <1>1, <1>3 DEF Shot, Frequency
      <3>2. InBlock'
        BY <2>1 DEF InBlock
      <3>3. QED
        BY <1>1, <2>1, <3>1, <3>2 DEF Done
    <2>4. Typed'
      BY <1>1, <2>1, <2>2, SameConfig DEF Typed
    <2>5. Loops'
      <3>1. pc' = "propagate" => ifrequency' < Frequencies
        BY <1>1, <2>1
      <3>2. pc' = "end" => ifrequency' = Frequencies
        BY <1>1, <2>1
      <3>3. pc' \in {"propagate", "end"}
        BY <2>1
      <3>4. QED
        BY <1>1, <2>1, <3>1, <3>2, <3>3, SameConfig DEF Loops
    <2>6. QED
      BY <2>1, <2>3, <2>4, <2>5 DEF InBlock
  <1>4. QED
    BY <1>2, <1>3

LEMMA PostStep ==
  ASSUME SweepInv, PostShot
  PROVE  SweepInv'
  <1>1. /\ UNCHANGED config /\ iblock' = iblock /\ depth_begin' = depth_begin
        /\ propagated' = propagated /\ rhs' = rhs
        /\ previous_overlap' = previous_overlap
        /\ store' = [store EXCEPT ![iblock][Record(ishot, ifrequency)] = Tile]
        /\ StoreNextOverlap /\ ExtractNextBoundary /\ NextShot /\ pc = "post"
    BY DEF PostShot, chunkVars
  <1>2. /\ Typed /\ Loops /\ DatumFields /\ Propagated /\ OverlapCaches /\ Tiles
        /\ info \in Infos /\ iblock \in 1 .. Len(info.blocks) /\ ishot \in Shot
        /\ ifrequency \in Frequency /\ PreviewAccepted
    BY <1>1, SizesAssumption DEF SweepInv, Typed, Loops, Frequency, Blocks
  <1>3. /\ Typed' /\ Loops' /\ InBlock'
        /\ \A s \in Shot, f \in Frequency :
             Done(s, f)' <=> Done(s, f) \/ (s = ishot /\ f = ifrequency)
        /\ pc' \in {"post", "propagate", "end"}
        /\ pc' = "post" => ifrequency' = ifrequency
    BY <1>1, <1>2, NextShotLoops
  <1>4. LastBlock' <=> LastBlock
    BY <1>1, SameConfig DEF LastBlock
  <1>5. DatumFields'
    <2>1. boundary = [s \in Shot |-> [f \in Frequency |->
            IF Done(s, f) /\ ~LastBlock THEN DatumField(iblock + 1, s, f)
                                       ELSE DatumField(iblock, s, f)]]
      BY <1>1, <1>2 DEF DatumFields
    <2>2. CASE LastBlock
      <3>1. boundary' = boundary
        BY <1>1, <2>2 DEF ExtractNextBoundary
      <3>2. QED
        BY <1>1, <1>4, <2>1, <2>2, <3>1, SameConfig DEF DatumFields
    <2>3. CASE ~LastBlock
      <3>1. iblock + 1 \in 1 .. Len(info.blocks)
        BY <1>2, <2>3, BlockCount DEF LastBlock
      <3>2. NextDatum(iblock) \in Rows(iblock)
        BY <1>2, <3>1, DatumComputed DEF NextDatum, Rows
      <3>3. (iblock + 1) - 1 = iblock
        BY <1>2
      <3>4. FieldAt(iblock, NextDatum(iblock), ishot, ifrequency)
              = DatumField(iblock + 1, ishot, ifrequency)
        BY <3>3 DEF NextDatum, DatumField
      <3>5. boundary' = [boundary EXCEPT ![ishot][ifrequency] =
                           DatumField(iblock + 1, ishot, ifrequency)]
        BY <1>1, <2>3, <3>2, <3>4 DEF ExtractNextBoundary
      <3>6. boundary' = [s \in Shot |-> [f \in Frequency |->
              IF s = ishot /\ f = ifrequency
              THEN DatumField(iblock + 1, ishot, ifrequency)
              ELSE boundary[s][f]]]
        BY <1>2, <2>1, <3>5
      <3>7. boundary' = [s \in Shot |-> [f \in Frequency |->
              IF Done(s, f)' THEN DatumField(iblock + 1, s, f)
                             ELSE DatumField(iblock, s, f)]]
        BY <1>2, <1>3, <2>1, <2>3, <3>6
      <3>8. QED
        BY <1>1, <1>4, <2>3, <3>7, SameConfig DEF DatumFields
    <2>4. QED
      BY <2>2, <2>3
  <1>6. Propagated'
    BY <1>1, <1>2, <1>3, SameConfig DEF Propagated
  <1>7. OverlapCaches'
    <2> SUFFICES ASSUME seam PROVE OverlapCaches'
      BY <1>1, SameConfig DEF OverlapCaches
    <2> DEFINE e == CacheEntry(ishot, ifrequency)
    <2>1. iblock > 1 =>
            /\ previous_overlap.depths = CommonRows(iblock - 1)
            /\ \A s \in Shot, f \in Frequency :
                 HoldsOverlap(previous_overlap, iblock - 1, s, f)
      BY <1>1, <1>2 DEF OverlapCaches
    <2>2. ~LastBlock =>
            /\ next_overlap'.depths = CommonRows(iblock)
            /\ DOMAIN next_overlap'.entries = Records
            /\ \A s \in Shot, f \in Frequency :
                 Done(s, f)' => HoldsOverlap(next_overlap', iblock, s, f)
      <3> SUFFICES ASSUME ~LastBlock
                   PROVE  /\ next_overlap'.depths = CommonRows(iblock)
                          /\ DOMAIN next_overlap'.entries = Records
                          /\ \A s \in Shot, f \in Frequency :
                               Done(s, f)' => HoldsOverlap(next_overlap', iblock,
                                                           s, f)
        OBVIOUS
      <3>1. /\ next_overlap.depths = CommonRows(iblock)
            /\ DOMAIN next_overlap.entries = Records
            /\ \A s \in Shot, f \in Frequency :
                 Done(s, f) => HoldsOverlap(next_overlap, iblock, s, f)
        BY <1>1, <1>2 DEF OverlapCaches
      <3>2. CommonRows(iblock) # {}
        <4>1. iblock \in 1 .. Len(info.blocks) - 1
          BY <1>2, BlockCount DEF LastBlock
        <4>2. Cardinality(CommonRows(iblock)) = info.overlap_rows
              /\ info.overlap_rows > 0
          BY <1>2, <4>1 DEF PreviewAccepted
        <4>3. Cardinality(CommonRows(iblock)) # 0
          BY <1>2, <4>2, BlockTypes
        <4>4. QED
          BY <4>3, FS_EmptySet
      <3>3. next_overlap' = [next_overlap EXCEPT
              !.entries[e] = FieldAt(iblock, -1, ishot, ifrequency)]
        BY <1>1, <3>1, <3>2 DEF StoreNextOverlap
      <3>4. /\ next_overlap'.depths = CommonRows(iblock)
            /\ next_overlap'.entries = [next_overlap.entries EXCEPT
                 ![e] = FieldAt(iblock, -1, ishot, ifrequency)]
        BY <3>1, <3>3
      <3>5. e \in Records
        BY <1>2, Indexed
      <3>6. ASSUME NEW s \in Shot, NEW f \in Frequency, Done(s, f)'
            PROVE  HoldsOverlap(next_overlap', iblock, s, f)
        <4>1. CASE s = ishot /\ f = ifrequency
          BY <3>1, <3>4, <3>5, <4>1 DEF HoldsOverlap
        <4>2. CASE ~(s = ishot /\ f = ifrequency)
          <5>1. Done(s, f)
            BY <1>3, <3>6, <4>2
          <5>2. CacheEntry(s, f) # e /\ CacheEntry(s, f) \in Records
            BY <1>2, <4>2, Indexed, IndexedOnce
          <5>3. next_overlap'.entries[CacheEntry(s, f)]
                  = next_overlap.entries[CacheEntry(s, f)]
            BY <3>1, <3>4, <5>2
          <5>4. QED
            BY <3>1, <5>1, <5>3 DEF HoldsOverlap
        <4>3. QED
          BY <4>1, <4>2
      <3>7. QED
        BY <3>1, <3>4, <3>5, <3>6
    <2>3. QED
      BY <1>1, <1>3, <1>4, <2>1, <2>2, SameConfig DEF OverlapCaches, HoldsOverlap
  <1>8. Tiles'
    <2> DEFINE r0 == Record(ishot, ifrequency)
    <2>1. /\ store \in Seq([Records -> TileRecord \union {<< >>}])
          /\ Len(store) = iblock /\ iblock \in 1 .. Len(store)
          /\ r0 \in Records
      BY <1>1, <1>2, Indexed DEF Tiles, InBlock
    <2>2. Tile \in TileRecord /\ TileOf(iblock, ishot, ifrequency, Tile)
      BY <1>1, TileIsRight
    <2> DEFINE row == [store[iblock] EXCEPT ![r0] = Tile]
    <2>3. store' = [store EXCEPT ![iblock] = row]
      BY <1>1
    <2>4. /\ row \in [Records -> TileRecord \union {<< >>}]
          /\ row[r0] = Tile
          /\ \A r \in Records : r # r0 => row[r] = store[iblock][r]
      BY <2>1, <2>2
    <2> HIDE DEF row, r0
    <2>5. /\ store' \in Seq([Records -> TileRecord \union {<< >>}])
          /\ Len(store') = iblock
          /\ store'[iblock] = row
          /\ \A k \in 1 .. Len(store) : k # iblock => store'[k] = store[k]
      BY <2>1, <2>3, <2>4
    <2>6. ASSUME NEW k \in 1 .. Len(store'), NEW r \in Records
          PROVE  \/ store'[k][r] = << >>
                 \/ \E s \in Shot, f \in Frequency : TileOf(k, s, f, store[k][r])'
      <3>1. CASE k = iblock /\ r = r0
        BY <1>1, <1>2, <2>2, <2>4, <2>5, <3>1, SameConfig
      <3>2. CASE ~(k = iblock /\ r = r0)
        <4>1. k \in 1 .. Len(store)
          BY <2>1, <2>5
        <4>2. store'[k][r] = store[k][r]
          BY <2>4, <2>5, <3>2, <4>1
        <4>3. \/ store[k][r] = << >>
              \/ \E s \in Shot, f \in Frequency : TileOf(k, s, f, store[k][r])
          BY <1>2, <4>1 DEF Tiles
        <4>4. QED
          BY <1>1, <4>2, <4>3, SameConfig
      <3>3. QED
        BY <3>1, <3>2
    <2>7. ASSUME NEW k \in 1 .. Len(store'), NEW s \in Shot, NEW f \in Frequency,
                 k < iblock \/ Done(s, f)'
          PROVE  TileOf(k, s, f, store[k][Record(s, f)])'
      <3>0. Record(s, f) \in Records /\ k \in 1 .. Len(store)
        BY <2>1, <2>5, Indexed
      <3>1. CASE k = iblock /\ s = ishot /\ f = ifrequency
        BY <1>1, <2>2, <2>4, <2>5, <3>1, SameConfig DEF r0
      <3>2. CASE ~(k = iblock /\ s = ishot /\ f = ifrequency)
        <4>1. Record(s, f) = r0 => s = ishot /\ f = ifrequency
          BY <1>2, IndexedOnce DEF r0
        <4>2. store'[k][Record(s, f)] = store[k][Record(s, f)]
          BY <2>4, <2>5, <3>0, <3>2, <4>1
        <4>3. k < iblock \/ Done(s, f)
          <5>1. k <= iblock
            BY <2>1, <3>0
          <5>2. CASE k = iblock
            <6>1. ~(k < iblock)
              BY <1>2, <5>2
            <6>2. QED
              BY <1>3, <2>7, <3>2, <5>2, <6>1
          <5>3. CASE k # iblock
            <6>1. k < iblock
              BY <1>2, <3>0, <5>1, <5>3
            <6>2. QED
              BY <6>1
          <5>4. QED
            BY <5>2, <5>3
        <4>4. TileOf(k, s, f, store[k][Record(s, f)])
          BY <1>2, <3>0, <4>3 DEF Tiles
        <4>5. QED
          BY <1>1, <4>2, <4>4, SameConfig DEF Record
      <3>3. QED
        BY <3>1, <3>2
    <2>8. QED
      BY <1>1, <1>3, <2>5, <2>6, <2>7 DEF Tiles, TileRecord
  <1>9. QED
    BY <1>3, <1>5, <1>6, <1>7, <1>8 DEF SweepInv

(***************************************************************************)
(* The end of a block, when every shot is done at every frequency.         *)
(***************************************************************************)
LEMMA EndStep ==
  ASSUME SweepInv, EndBlock
  PROVE  SweepInv'
  <1>1. /\ UNCHANGED config /\ ifrequency' = ifrequency /\ ishot' = ishot
        /\ boundary' = boundary /\ store' = store /\ depth_begin' = 0
        /\ previous_overlap' = IF seam THEN next_overlap ELSE NoCache
        /\ LastBlock => iblock' = iblock /\ pc' = "finalized"
        /\ ~LastBlock => iblock' = iblock + 1 /\ pc' = "begin"
        /\ pc = "end"
    BY DEF EndBlock
  <1>2. /\ Typed /\ Loops /\ DatumFields /\ OverlapCaches /\ Tiles
        /\ info \in Infos /\ iblock \in 1 .. Len(info.blocks)
        /\ ifrequency = Frequencies
    BY <1>1 DEF SweepInv, Typed, Loops, Blocks
  <1>3. \A s \in Shot, f \in Frequency : Done(s, f)
    BY <1>1, <1>2, SizesAssumption DEF Done, InBlock, Frequency
  <1>4. ~LastBlock => iblock + 1 \in 1 .. Len(info.blocks) /\ (iblock + 1) - 1 = iblock
    BY <1>2, BlockCount DEF LastBlock
  <1>5. Typed'
    <2>1. iblock' \in 1 .. Len(info.blocks)
      BY <1>1, <1>2, <1>4
    <2>2. pc' \in {"begin", "finalized"}
      BY <1>1
    <2>3. QED
      BY <1>1, <1>2, <2>1, <2>2, SameConfig DEF Typed, Blocks
  <1>6. Loops'
    BY <1>1, <1>2, SameConfig DEF Loops, LastBlock
  <1>7. DatumFields'
    <2>1. CASE LastBlock
      BY <1>1, <2>1 DEF DatumFields
    <2>2. CASE ~LastBlock
      <3>1. boundary = [s \in Shot |-> [f \in Frequency |->
                          DatumField(iblock + 1, s, f)]]
        BY <1>1, <1>2, <1>3, <2>2 DEF DatumFields
      <3>2. \A s, f : ~Done(s, f)'
        BY <1>1, <2>2 DEF Done, InBlock
      <3>3. QED
        BY <1>1, <2>2, <3>1, <3>2, SameConfig DEF DatumFields
    <2>3. QED
      BY <2>1, <2>2
  <1>8. Propagated'
    BY <1>1 DEF Propagated
  <1>9. OverlapCaches'
    <2>1. CASE LastBlock
      BY <1>1, <2>1 DEF OverlapCaches
    <2>2. CASE ~LastBlock
      <3> SUFFICES ASSUME seam PROVE OverlapCaches'
        BY <1>1, SameConfig DEF OverlapCaches
      <3>1. \A s \in Shot, f \in Frequency :
              HoldsOverlap(previous_overlap', iblock' - 1, s, f)
        BY <1>1, <1>2, <1>3, <1>4, <2>2 DEF OverlapCaches
      <3>2. previous_overlap'.depths = CommonRows(iblock' - 1)
        BY <1>1, <1>2, <1>4, <2>2 DEF OverlapCaches
      <3>3. pc' = "begin"
        BY <1>1, <2>2
      <3>4. CommonRows(iblock' - 1) = CommonRows(iblock - 1)'
        BY <1>1, SameConfig
      <3>5. QED
        BY <3>1, <3>2, <3>3, <3>4 DEF OverlapCaches, HoldsOverlap
    <2>3. QED
      BY <2>1, <2>2
  <1>10. Tiles'
    <2>1. /\ store \in Seq([Records -> TileRecord \union {<< >>}])
          /\ Len(store) = iblock
          /\ \A k \in 1 .. Len(store) :
               /\ \A r \in Records :
                    \/ store[k][r] = << >>
                    \/ \E s \in Shot, f \in Frequency : TileOf(k, s, f, store[k][r])
               /\ \A s \in Shot, f \in Frequency :
                    TileOf(k, s, f, store[k][Record(s, f)])
      <3>1. \A k \in 1 .. Len(store) : \A s \in Shot, f \in Frequency :
              k < iblock \/ Done(s, f)
        BY <1>3
      <3>2. QED
        BY <1>1, <1>2, <3>1 DEF Tiles, InBlock
    <2>2. Len(store) = (IF InBlock' THEN iblock' ELSE iblock' - 1)
      BY <1>1, <1>2, <1>4, <2>1 DEF InBlock
    <2>3. QED
      BY <1>1, <2>1, <2>2, SameConfig DEF Tiles, TileRecord, Record
  <1>11. QED
    BY <1>5, <1>6, <1>7, <1>8, <1>9, <1>10 DEF SweepInv

LEMMA SweepStep ==
  ASSUME SweepInv, [Next]_vars
  PROVE  SweepInv'
  <1>1. CASE UNCHANGED vars
    <2>1. /\ UNCHANGED config /\ iblock' = iblock /\ ifrequency' = ifrequency
          /\ ishot' = ishot /\ boundary' = boundary /\ rhs' = rhs
          /\ depth_begin' = depth_begin /\ propagated' = propagated
          /\ previous_overlap' = previous_overlap /\ next_overlap' = next_overlap
          /\ store' = store /\ pc' = pc
      BY <1>1 DEF vars, chunkVars
    <2>2. /\ Typed /\ Loops /\ DatumFields /\ Propagated /\ OverlapCaches /\ Tiles
      BY DEF SweepInv
    <2>3. /\ InBlock' <=> InBlock
          /\ LastBlock' <=> LastBlock
          /\ \A s, f : Done(s, f)' <=> Done(s, f)
          /\ \A row : LocalDepth(row)' = LocalDepth(row)
      BY <2>1, SameConfig DEF InBlock, LastBlock, Done, LocalDepth
    <2>4. Typed' /\ Loops'
      BY <2>1, <2>2, <2>3, SameConfig DEF Typed, Loops
    <2>5. DatumFields'
      <3>1. CASE pc \in {"finalized", "failed"}
        BY <2>1, <3>1 DEF DatumFields
      <3>2. CASE pc \notin {"finalized", "failed"}
        <4>1. boundary = [s \in Shot |-> [f \in Frequency |->
                IF Done(s, f) /\ ~LastBlock THEN DatumField(iblock + 1, s, f)
                                           ELSE DatumField(iblock, s, f)]]
          BY <2>2, <3>2 DEF DatumFields
        <4>2. boundary' = [s \in Shot |-> [f \in Frequency |->
                IF Done(s, f)' /\ ~LastBlock' THEN DatumField(iblock + 1, s, f)'
                                             ELSE DatumField(iblock, s, f)']]
          BY <2>1, <2>3, <4>1, SameConfig
        <4>3. QED
          BY <4>2 DEF DatumFields
      <3>3. QED
        BY <3>1, <3>2
    <2>6. Propagated'
      BY <2>1, <2>2, <2>3, SameConfig DEF Propagated
    <2>7. OverlapCaches'
      BY <2>1, <2>2, <2>3, SameConfig DEF OverlapCaches
    <2>8. Tiles'
      BY <2>1, <2>2, <2>3, SameConfig DEF Tiles
    <2>9. QED
      BY <2>4, <2>5, <2>6, <2>7, <2>8 DEF SweepInv
  <1>2. CASE Ended
    <2>1. UNCHANGED vars
      BY <1>2 DEF Ended
    <2>2. QED
      BY <1>1, <2>1
  <1>3. CASE Preview \/ RefusePreview \/ RefuseBlock
    BY <1>3, PreviewStep
  <1>4. CASE BeginBlock
    BY <1>4, BeginStep
  <1>5. CASE Propagate
    BY <1>5, PropagateStep
  <1>6. CASE ApplyChunk
    BY <1>6, ChunkStep
  <1>7. CASE PostShot
    BY <1>7, PostStep
  <1>8. CASE EndBlock
    BY <1>8, EndStep
  <1>9. QED
    BY <1>1, <1>2, <1>3, <1>4, <1>5, <1>6, <1>7, <1>8 DEF Next

(***************************************************************************)
(* The loads of the workers.                                               *)
(***************************************************************************)
LEMMA AppendNext ==
  ASSUME NEW S, NEW n \in Nat, NEW g, \A k \in 1 .. n + 1 : g[k] \in S
  PROVE  /\ Len([k \in 1 .. n |-> g[k]]) = n
         /\ Append([k \in 1 .. n |-> g[k]], g[n + 1]) = [k \in 1 .. n + 1 |-> g[k]]
  <1> DEFINE a == [k \in 1 .. n |-> g[k]]
             b == [k \in 1 .. n + 1 |-> g[k]]
  <1>1. a \in Seq(S) /\ Len(a) = n /\ b \in Seq(S) /\ Len(b) = n + 1
    OBVIOUS
  <1>2. \A k \in 1 .. n + 1 : Append(a, g[n + 1])[k] = b[k]
    OBVIOUS
  <1>3. Append(a, g[n + 1]) \in Seq(S) /\ Len(Append(a, g[n + 1])) = n + 1
    BY <1>1
  <1>4. QED
    BY <1>1, <1>2, <1>3

LEMMA ConfigStays ==
  ASSUME Next
  PROVE  UNCHANGED config
  BY DEF Next, Preview, RefusePreview, BeginBlock, RefuseBlock, Fail, Propagate,
         ApplyChunk, PostShot, EndBlock, Ended, vars

\* The sweep moves while all workers wait for it.
LEMMA LoadsWait ==
  ASSUME Loads, Next, UNCHANGED loadVars
  PROVE  Loads'
  <1>1. /\ load' = load /\ position' = position /\ reader' = reader
        /\ next_frequency' = next_frequency
    BY DEF loadVars
  <1>2. UNCHANGED config
    BY ConfigStays
  <1>3. /\ DOMAIN load' = Loaders /\ DOMAIN position' = Blocks'
        /\ next_frequency' \in Nat
    BY <1>1, <1>2, SameConfig DEF Loads
  <1>4. ASSUME NEW w \in Loaders
        PROVE  \E step \in Steps, s \in Shot, f \in Frequency,
                  n \in 0 .. Len(info'.blocks) : LoadIs(w, step, s, f, n)'
    <2>1. PICK step \in Steps, s \in Shot, f \in Frequency,
               n \in 0 .. Len(info.blocks) : LoadIs(w, step, s, f, n)
      BY DEF Loads
    <2>2. CASE pc = "finalized"
      <3>1. Ended
        BY <2>2
        DEF Next, Preview, RefusePreview, BeginBlock, RefuseBlock, Propagate,
            ApplyChunk, PostShot, EndBlock
      <3>2. pc' = pc /\ store' = store
        BY <3>1 DEF Ended, vars
      <3>3. LoadIs(w, step, s, f, n)'
        BY <1>1, <1>2, <2>1, <3>2, SameConfig DEF LoadIs, Record
      <3>4. QED
        BY <1>2, <3>3, SameConfig
    <2>3. CASE pc # "finalized"
      <3>1. step = "idle" /\ n = 0
        BY <2>1, <2>3 DEF LoadIs
      <3>2. /\ DOMAIN load[w] = {"step", "shot", "frequency", "field"}
            /\ load[w].step = "idle" /\ load[w].shot = s
            /\ load[w].frequency = f /\ load[w].field = << >>
        BY <2>1, <3>1 DEF LoadIs
      <3>3. [k \in 1 .. 0 |-> store'[k][Record(s, f)]] = << >>
        OBVIOUS
      <3>4. LoadIs(w, "idle", s, f, 0)'
        BY <1>1, <3>2, <3>3 DEF LoadIs, Record
      <3>5. QED
        BY <1>2, <2>1, <3>1, <3>4, SameConfig
    <2>4. QED
      BY <2>2, <2>3
  <1>5. QED
    BY <1>3, <1>4 DEF Loads

\* A step of a worker leaves the loads of the others as they are.
LEMMA OthersKeepTheirLoads ==
  ASSUME Loads, UNCHANGED vars, NEW w \in Loaders, NEW x, load' = [load EXCEPT ![w] = x],
         \/ UNCHANGED <<reader, position>>
         \/ reader = NoLoader
         \/ reader = w,
         DOMAIN position' = DOMAIN position, next_frequency' \in Nat,
         \E step \in Steps, s \in Shot, f \in Frequency, n \in 0 .. Len(info.blocks) :
           LoadIs(w, step, s, f, n)'
  PROVE  Loads'
  <1>1. UNCHANGED config /\ store' = store /\ pc' = pc
    BY DEF vars
  <1>2. DOMAIN load' = Loaders /\ DOMAIN position' = Blocks'
    BY <1>1, SameConfig DEF Loads
  <1>3. ASSUME NEW v \in Loaders
        PROVE  \E step \in Steps, s \in Shot, f \in Frequency,
                  n \in 0 .. Len(info'.blocks) : LoadIs(v, step, s, f, n)'
    <2>1. CASE v = w
      BY <1>1, <2>1, SameConfig
    <2>2. CASE v # w
      <3>1. PICK step \in Steps, s \in Shot, f \in Frequency,
                 n \in 0 .. Len(info.blocks) : LoadIs(v, step, s, f, n)
        BY DEF Loads
      <3>2. load'[v] = load[v]
        BY <2>2 DEF Loads
      <3>3. step = "read" => UNCHANGED <<reader, position>>
        BY <2>2, <3>1, LoadersAssumption DEF LoadIs
      <3>4. LoadIs(v, step, s, f, n)'
        BY <1>1, <3>1, <3>2, <3>3, SameConfig DEF LoadIs, Record
      <3>5. QED
        BY <1>1, <3>4, SameConfig
    <2>3. QED
      BY <2>1, <2>2
  <1>4. QED
    BY <1>2, <1>3 DEF Loads

\* The tiles are in the store when the workers read.
LEMMA TilesAreStored ==
  ASSUME SweepInv, pc = "finalized", NEW s \in Shot, NEW f \in Frequency
  PROVE  /\ \A k \in 1 .. Len(info.blocks) :
              /\ TileOf(k, s, f, store[k][Record(s, f)])
              /\ store[k][Record(s, f)] \in TileRecord \union {<< >>}
         /\ Len(info.blocks) \in Nat
  <1>1. /\ Typed /\ Loops /\ Tiles /\ info \in Infos
        /\ iblock = Len(info.blocks) /\ ifrequency = Frequencies
    BY DEF SweepInv, Typed, Loops, LastBlock
  <1>2. Done(s, f)
    BY <1>1, SizesAssumption DEF Done, InBlock, Frequency
  <1>3. /\ store \in Seq([Records -> TileRecord \union {<< >>}])
        /\ Len(store) = Len(info.blocks) /\ Record(s, f) \in Records
    BY <1>1, Indexed DEF Tiles, InBlock
  <1>4. \A k \in 1 .. Len(store) : TileOf(k, s, f, store[k][Record(s, f)])
    BY <1>1, <1>2 DEF Tiles
  <1>5. \A k \in 1 .. Len(store) :
          store[k][Record(s, f)] \in TileRecord \union {<< >>}
    <2> SUFFICES ASSUME NEW k \in 1 .. Len(store)
                 PROVE  store[k][Record(s, f)] \in TileRecord \union {<< >>}
      OBVIOUS
    <2>1. store[k] \in [Records -> TileRecord \union {<< >>}]
      BY <1>3
    <2>2. QED
      BY <1>3, <2>1
  <1>6. QED
    BY <1>1, <1>3, <1>4, <1>5, BlockCount

\* What an edit of a load changes, and what it leaves alone.
LEMMA EditedLoad ==
  ASSUME NEW w \in DOMAIN load,
         DOMAIN load[w] = {"step", "shot", "frequency", "field"}, NEW t
  PROVE  /\ load' = [load EXCEPT ![w].field = Append(@, t)] =>
              /\ load' = [load EXCEPT ![w] = load'[w]]
              /\ DOMAIN load'[w] = DOMAIN load[w]
              /\ load'[w].step = load[w].step /\ load'[w].shot = load[w].shot
              /\ load'[w].frequency = load[w].frequency
              /\ load'[w].field = Append(load[w].field, t)
         /\ load' = [load EXCEPT ![w].step = "read"] =>
              /\ load' = [load EXCEPT ![w] = load'[w]]
              /\ DOMAIN load'[w] = DOMAIN load[w]
              /\ load'[w].step = "read" /\ load'[w].shot = load[w].shot
              /\ load'[w].frequency = load[w].frequency
              /\ load'[w].field = load[w].field
         /\ load' = [load EXCEPT ![w].step = "load", ![w].field = Append(@, t)] =>
              /\ load' = [load EXCEPT ![w] = load'[w]]
              /\ DOMAIN load'[w] = DOMAIN load[w]
              /\ load'[w].step = "load" /\ load'[w].shot = load[w].shot
              /\ load'[w].frequency = load[w].frequency
              /\ load'[w].field = Append(load[w].field, t)
  BY Zenon

LEMMA LoadStep ==
  ASSUME StoreInv, LoadNext, UNCHANGED vars
  PROVE  Loads'
  <1>1. /\ UNCHANGED config /\ store' = store /\ pc' = pc /\ Blocks' = Blocks
        /\ SweepInv /\ Loads /\ info \in Infos
    BY SameConfig DEF vars, StoreInv, SweepInv, Typed
  <1>2. PICK w \in Loaders :
          TakeFrequency(w) \/ CopyTile(w) \/ SeekTile(w) \/ ReadTile(w) \/ EndLoad(w)
    BY DEF LoadNext
  <1>3. PICK step \in Steps, s \in Shot, f \in Frequency,
             n \in 0 .. Len(info.blocks) : LoadIs(w, step, s, f, n)
    BY <1>1 DEF Loads
  <1>4. /\ DOMAIN load[w] = {"step", "shot", "frequency", "field"}
        /\ n \in Nat /\ Len(info.blocks) \in Nat /\ DOMAIN load = Loaders
        /\ DOMAIN position = Blocks
    BY <1>1, <1>3, BlockCount DEF LoadIs, Loads
  <1>5. load[w].step = step /\ load[w].shot = s /\ load[w].frequency = f
        /\ load[w].field = [k \in 1 .. n |-> store[k][Record(s, f)]]
        /\ Requested(w) = Record(s, f)
    BY <1>3 DEF Requested, LoadIs
  <1>6. step # "idle" => pc = "finalized"
    BY <1>3 DEF LoadIs
  <1>7. ASSUME step # "idle", n + 1 \in Blocks
        PROVE  /\ NextBlockOf(w) = n + 1
               /\ Append(load[w].field, store[n + 1][Record(s, f)])
                    = [k \in 1 .. n + 1 |-> store[k][Record(s, f)]]
    <2> DEFINE g == [k \in 1 .. n + 1 |-> store[k][Record(s, f)]]
    <2>1. \A k \in 1 .. n + 1 : g[k] \in TileRecord \union {<< >>}
      BY <1>1, <1>4, <1>6, <1>7, TilesAreStored DEF Blocks
    <2>2. /\ [k \in 1 .. n |-> g[k]] = load[w].field
          /\ [k \in 1 .. n + 1 |-> g[k]] = g
          /\ g[n + 1] = store[n + 1][Record(s, f)]
      BY <1>4, <1>5
    <2> HIDE DEF g
    <2>3. /\ Len([k \in 1 .. n |-> g[k]]) = n
          /\ Append([k \in 1 .. n |-> g[k]], g[n + 1]) = [k \in 1 .. n + 1 |-> g[k]]
      BY <1>4, <2>1, AppendNext
    <2>4. QED
      BY <2>2, <2>3 DEF NextBlockOf, g
  <1>8. ASSUME step # "idle"
        PROVE  NextBlockOf(w) = n + 1
    <2> DEFINE g == [k \in 1 .. n |-> store[k][Record(s, f)]]
    <2>1. \A k \in 1 .. n : g[k] \in TileRecord \union {<< >>}
      BY <1>1, <1>4, <1>6, <1>8, TilesAreStored
    <2>2. Len(g) = n
      BY <1>4, <2>1
    <2>3. QED
      BY <1>5, <2>2 DEF NextBlockOf
  <1>9. PICK g \in Nat : g = next_frequency
    BY <1>1 DEF Loads
  <1>10. CASE TakeFrequency(w)
    <2> DEFINE x == [NoLoad EXCEPT !.step = "load", !.frequency = g]
    <2>1. /\ pc = "finalized" /\ g < Frequencies
          /\ next_frequency' = g + 1
          /\ UNCHANGED <<reader, position>>
          /\ load' = [load EXCEPT ![w] = x]
      BY <1>9, <1>10 DEF TakeFrequency
    <2>2. DOMAIN NoLoad = {"step", "shot", "frequency", "field"}
      BY DEF NoLoad
    <2>3. /\ DOMAIN x = {"step", "shot", "frequency", "field"}
          /\ x.step = "load" /\ x.shot = NoLoad.shot /\ x.frequency = g
          /\ x.field = NoLoad.field
      BY <2>2, Zenon
    <2>4. NoLoad.shot = 0 /\ NoLoad.field = << >>
      BY DEF NoLoad
    <2> HIDE DEF x
    <2>5. g \in Frequency /\ 0 \in Shot /\ next_frequency' \in Nat
      BY <2>1, Positive DEF Frequency
    <2>6. LoadIs(w, "load", 0, g, 0)'
      <3>1. load'[w] = x /\ pc' = "finalized"
        BY <1>1, <1>4, <2>1
      <3>2. [k \in 1 .. 0 |-> store'[k][Record(0, g)']] = << >>
        OBVIOUS
      <3>3. QED
        BY <2>3, <2>4, <3>1, <3>2 DEF LoadIs
    <2>7. \E st \in Steps, a \in Shot, b \in Frequency, m \in 0 .. Len(info.blocks) :
            LoadIs(w, st, a, b, m)'
      BY <1>4, <2>5, <2>6 DEF Steps
    <2>8. QED
      BY <1>1, <2>1, <2>5, <2>7, OthersKeepTheirLoads
  <1>11. CASE CopyTile(w)
    <2> DEFINE t == store[NextBlockOf(w)][Requested(w)]
    <2>1. /\ step = "load" /\ NextBlockOf(w) \in Blocks
          /\ load' = [load EXCEPT ![w].field = Append(@, t)]
          /\ UNCHANGED <<reader, position, next_frequency>>
      BY <1>5, <1>11 DEF CopyTile, Loading
    <2>2. NextBlockOf(w) = n + 1 /\ n + 1 \in Blocks
          /\ t = store[n + 1][Record(s, f)]
      BY <1>5, <1>8, <2>1
    <2> HIDE DEF t
    <2>3. /\ load' = [load EXCEPT ![w] = load'[w]]
          /\ DOMAIN load'[w] = DOMAIN load[w]
          /\ load'[w].step = load[w].step /\ load'[w].shot = load[w].shot
          /\ load'[w].frequency = load[w].frequency
          /\ load'[w].field = Append(load[w].field, t)
      BY <1>4, <2>1, EditedLoad
    <2>4. Append(load[w].field, t) = [k \in 1 .. n + 1 |-> store[k][Record(s, f)]]
      BY <1>7, <2>1, <2>2
    <2>5. LoadIs(w, "load", s, f, n + 1)'
      BY <1>1, <1>4, <1>5, <1>6, <2>1, <2>3, <2>4 DEF LoadIs, Record
    <2>6. n + 1 \in 0 .. Len(info.blocks)
      BY <1>4, <2>2 DEF Blocks
    <2>7. \E st \in Steps, a \in Shot, b \in Frequency, m \in 0 .. Len(info.blocks) :
            LoadIs(w, st, a, b, m)'
      BY <2>5, <2>6 DEF Steps
    <2>8. QED
      BY <1>1, <1>9, <2>1, <2>3, <2>7, OthersKeepTheirLoads
  <1>12. CASE SeekTile(w)
    <2>1. /\ step = "load" /\ NextBlockOf(w) \in Blocks /\ reader = NoLoader
          /\ reader' = w
          /\ position' = [position EXCEPT ![NextBlockOf(w)] = Requested(w)]
          /\ load' = [load EXCEPT ![w].step = "read"]
          /\ UNCHANGED next_frequency
      BY <1>5, <1>12 DEF SeekTile, Loading, ReadMutexFree
    <2>2. NextBlockOf(w) = n + 1 /\ n + 1 \in Blocks
      BY <1>8, <2>1
    <2>3. position'[n + 1] = Record(s, f) /\ DOMAIN position' = DOMAIN position
      BY <1>4, <1>5, <2>1, <2>2
    <2>4. /\ load' = [load EXCEPT ![w] = load'[w]]
          /\ DOMAIN load'[w] = DOMAIN load[w]
          /\ load'[w].step = "read" /\ load'[w].shot = load[w].shot
          /\ load'[w].frequency = load[w].frequency
          /\ load'[w].field = load[w].field
      BY <1>4, <2>1, EditedLoad
    <2>5. LoadIs(w, "read", s, f, n)'
      BY <1>1, <1>4, <1>5, <1>6, <2>1, <2>2, <2>3, <2>4 DEF LoadIs, Record
    <2>6. \E st \in Steps, a \in Shot, b \in Frequency, m \in 0 .. Len(info.blocks) :
            LoadIs(w, st, a, b, m)'
      BY <2>5 DEF Steps
    <2>7. QED
      BY <1>1, <1>9, <2>1, <2>3, <2>4, <2>6, OthersKeepTheirLoads
  <1>13. CASE ReadTile(w)
    <2> DEFINE t == store[n + 1][Record(s, f)]
    <2>1. step = "read" /\ UNCHANGED next_frequency
      BY <1>5, <1>13 DEF ReadTile
    <2>2. /\ reader = w /\ n + 1 \in Blocks /\ NextBlockOf(w) = n + 1
          /\ position[n + 1] = Record(s, f)
      BY <1>3, <1>8, <2>1 DEF LoadIs
    <2>3. /\ load' = [load EXCEPT ![w].step = "load", ![w].field = Append(@, t)]
          /\ DOMAIN position' = DOMAIN position
      BY <1>13, <2>2 DEF ReadTile
    <2>4. Append(load[w].field, t) = [k \in 1 .. n + 1 |-> store[k][Record(s, f)]]
      BY <1>7, <2>1, <2>2
    <2> HIDE DEF t
    <2>5. /\ load' = [load EXCEPT ![w] = load'[w]]
          /\ DOMAIN load'[w] = DOMAIN load[w]
          /\ load'[w].step = "load" /\ load'[w].shot = load[w].shot
          /\ load'[w].frequency = load[w].frequency
          /\ load'[w].field = Append(load[w].field, t)
      BY <1>4, <2>3, EditedLoad
    <2>6. LoadIs(w, "load", s, f, n + 1)'
      BY <1>1, <1>4, <1>5, <1>6, <2>1, <2>4, <2>5 DEF LoadIs, Record
    <2>7. n + 1 \in 0 .. Len(info.blocks)
      BY <1>4, <2>2 DEF Blocks
    <2>8. \E st \in Steps, a \in Shot, b \in Frequency, m \in 0 .. Len(info.blocks) :
            LoadIs(w, st, a, b, m)'
      BY <2>6, <2>7 DEF Steps
    <2>9. QED
      BY <1>1, <1>9, <2>1, <2>2, <2>3, <2>5, <2>8, OthersKeepTheirLoads
  <1>14. CASE EndLoad(w)
    <2>1. /\ step = "load"
          /\ load' = [load EXCEPT ![w] =
                IF load[w].shot < Shots - 1
                THEN [load[w] EXCEPT !.shot = @ + 1, !.field = << >>] ELSE NoLoad]
          /\ UNCHANGED <<reader, position, next_frequency>>
      BY <1>5, <1>14 DEF EndLoad
    <2>2. \A a, b : [k \in 1 .. 0 |-> store'[k][Record(a, b)]] = << >>
      OBVIOUS
    <2>3. CASE s < Shots - 1
      <3> DEFINE x == [load[w] EXCEPT !.shot = @ + 1, !.field = << >>]
      <3>1. load' = [load EXCEPT ![w] = x]
        <4>1. load[w].shot < Shots - 1
          BY <1>5, <2>3
        <4>2. load' = [load EXCEPT ![w] =
                         IF load[w].shot < Shots - 1 THEN x ELSE NoLoad]
          BY <2>1, Zenon
        <4> HIDE DEF x
        <4>3. QED
          BY <4>1, <4>2, Zenon
      <3>2. /\ DOMAIN x = DOMAIN load[w]
            /\ x.step = load[w].step /\ x.shot = load[w].shot + 1
            /\ x.frequency = load[w].frequency /\ x.field = << >>
        BY <1>4, Zenon
      <3> HIDE DEF x
      <3>3. s + 1 \in Shot
        BY <2>3, SizesAssumption DEF Shot
      <3>4. load'[w] = x
        BY <1>4, <3>1
      <3>5. LoadIs(w, "load", s + 1, f, 0)'
        <4>1. [k \in 1 .. 0 |-> store'[k][Record(s + 1, f)']] = << >>
          OBVIOUS
        <4>2. load'[w].step = "load" /\ load'[w].shot = s + 1
              /\ load'[w].frequency = f /\ load'[w].field = << >>
              /\ DOMAIN load'[w] = {"step", "shot", "frequency", "field"}
          BY <1>4, <1>5, <2>1, <3>2, <3>4
        <4>3. pc' = "finalized"
          BY <1>1, <1>6, <2>1
        <4>4. QED
          BY <4>1, <4>2, <4>3 DEF LoadIs
      <3>6. \E st \in Steps, a \in Shot, b \in Frequency,
               m \in 0 .. Len(info.blocks) : LoadIs(w, st, a, b, m)'
        BY <1>4, <3>3, <3>5 DEF Steps
      <3>7. QED
        BY <1>1, <1>9, <2>1, <3>1, <3>6, OthersKeepTheirLoads
    <2>4. CASE ~(s < Shots - 1)
      <3>1. load' = [load EXCEPT ![w] = NoLoad]
        BY <1>5, <2>1, <2>4
      <3>2. load'[w] = NoLoad
        BY <1>4, <3>1
      <3>3. LoadIs(w, "idle", 0, 0, 0)'
        BY <2>2, <3>2 DEF LoadIs, NoLoad, Record
      <3>4. \E st \in Steps, a \in Shot, b \in Frequency,
               m \in 0 .. Len(info.blocks) : LoadIs(w, st, a, b, m)'
        BY <1>4, <3>3, Positive DEF Steps
      <3>5. QED
        BY <1>1, <1>9, <2>1, <3>1, <3>4, OthersKeepTheirLoads
    <2>5. QED
      BY <2>3, <2>4
  <1>15. QED
    BY <1>2, <1>10, <1>11, <1>12, <1>13, <1>14

(***************************************************************************)
(* The invariant of the sweep and its loads.                               *)
(***************************************************************************)
LEMMA SweepWaits ==
  ASSUME SweepInv, UNCHANGED vars
  PROVE  SweepInv'
  BY SweepStep

LEMMA Invariance == StoreSpec => []StoreInv
  <1>1. StoreInit => StoreInv
    <2> SUFFICES ASSUME StoreInit PROVE StoreInv
      OBVIOUS
    <2>1. SweepInv
      BY InitInv DEF StoreInit
    <2>2. info \in Infos /\ Len(info.blocks) \in Nat
      BY <2>1, BlockCount DEF SweepInv, Typed
    <2>3. /\ DOMAIN load = Loaders /\ DOMAIN position = Blocks
          /\ next_frequency \in Nat
          /\ \A w \in Loaders : load[w] = NoLoad
      BY DEF StoreInit, LoadInit
    <2>4. ASSUME NEW w \in Loaders
          PROVE  \E step \in Steps, s \in Shot, f \in Frequency,
                    n \in 0 .. Len(info.blocks) : LoadIs(w, step, s, f, n)
      <3>1. [k \in 1 .. 0 |-> store[k][Record(0, 0)]] = << >>
        OBVIOUS
      <3>2. LoadIs(w, "idle", 0, 0, 0)
        BY <2>3, <3>1 DEF LoadIs, NoLoad
      <3>3. QED
        BY <2>2, <3>2, Positive DEF Steps
    <2>5. QED
      BY <2>1, <2>3, <2>4 DEF StoreInv, Loads
  <1>2. StoreInv /\ [StoreNext]_<<vars, loadVars>> => StoreInv'
    <2> SUFFICES ASSUME StoreInv, [StoreNext]_<<vars, loadVars>> PROVE StoreInv'
      OBVIOUS
    <2>1. SweepInv /\ Loads
      BY DEF StoreInv
    <2>2. CASE Next /\ UNCHANGED loadVars
      BY <2>1, <2>2, SweepStep, LoadsWait DEF StoreInv
    <2>3. CASE LoadNext /\ UNCHANGED vars
      BY <2>1, <2>3, SweepWaits, LoadStep DEF StoreInv
    <2>4. CASE UNCHANGED <<vars, loadVars>>
      <3>1. UNCHANGED vars /\ load' = load /\ position' = position
            /\ reader' = reader /\ next_frequency' = next_frequency
        BY <2>4 DEF loadVars
      <3>2. UNCHANGED config /\ store' = store /\ pc' = pc
        BY <3>1 DEF vars
      <3>3. ASSUME NEW w, NEW step, NEW s, NEW f, NEW n, LoadIs(w, step, s, f, n)
            PROVE  LoadIs(w, step, s, f, n)'
        BY <3>1, <3>2, <3>3, SameConfig DEF LoadIs, Record
      <3>4. Loads'
        BY <2>1, <3>1, <3>2, <3>3, SameConfig DEF Loads
      <3>5. QED
        BY <2>1, <3>1, <3>4, SweepWaits DEF StoreInv
    <2>5. QED
      BY <2>2, <2>3, <2>4 DEF StoreNext
  <1>3. QED
    BY <1>1, <1>2, PTL DEF StoreSpec

(***************************************************************************)
(* A tile was propagated from the field which the block above left at its  *)
(* datum for the same shot and frequency: the boundary buffers, which the  *)
(* shots of a block overwrite in place, are never read too late.           *)
(***************************************************************************)
THEOREM DatumsComeFromAbove == StoreSpec => []DatumChain
  <1>1. StoreInv => DatumChain
    <2> SUFFICES ASSUME StoreInv, NEW k \in 1 .. Len(store), NEW r \in Written(k)
                 PROVE  LET t == store[k][r]
                        IN  t.datum = FieldAt(k - 1, info.blocks[k].source_iz,
                                              t.shot, t.frequency)
      BY DEF DatumChain
    <2>1. PICK s \in Shot, f \in Frequency : TileOf(k, s, f, store[k][r])
      BY DEF StoreInv, SweepInv, Tiles, Written
    <2>2. QED
      BY <2>1 DEF TileOf, DatumField
  <1>2. QED
    BY <1>1, Invariance, PTL

(***************************************************************************)
(* With Scheme A a tile below the first is blended, over the rows shared   *)
(* with the block above, with what that block cached for the same shot and *)
(* frequency.                                                              *)
(***************************************************************************)
THEOREM SeamsComeFromAbove == StoreSpec => []SeamFromBlockAbove
  <1>1. StoreInv => SeamFromBlockAbove
    <2> SUFFICES ASSUME StoreInv, NEW k \in 2 .. Len(store), NEW r \in Written(k)
                 PROVE  LET t == store[k][r]
                        IN  IF seam
                            THEN /\ t.blended = FieldAt(k - 1, -1, t.shot, t.frequency)
                                 /\ t.blended_rows = CommonRows(k - 1)
                            ELSE t.blended = NoField
      BY DEF SeamFromBlockAbove
    <2>1. k \in 1 .. Len(store) /\ k > 1
      <3>1. Len(store) \in Nat
        BY DEF StoreInv, SweepInv, Tiles
      <3>2. QED
        BY <3>1
    <2>2. PICK s \in Shot, f \in Frequency : TileOf(k, s, f, store[k][r])
      BY <2>1 DEF StoreInv, SweepInv, Tiles, Written
    <2>3. QED
      BY <2>1, <2>2 DEF TileOf
  <1>2. QED
    BY <1>1, Invariance, PTL

(***************************************************************************)
(* Whatever the other workers do at the shared streams, a worker gets the  *)
(* complete tile of its own shot and frequency from each block.            *)
(***************************************************************************)
THEOREM WorkersGetTheirTiles == StoreSpec => []LoadsReturnTheirTiles
  <1>1. StoreInv => LoadsReturnTheirTiles
    <2> SUFFICES ASSUME StoreInv, NEW w \in Loaders, NEW k \in DOMAIN load[w].field
                 PROVE  LET t == load[w].field[k]
                        IN  /\ t # << >>
                            /\ t.shot = load[w].shot
                            /\ t.frequency = load[w].frequency
                            /\ t.rows = Rows(k)
      BY DEF LoadsReturnTheirTiles
    <2>1. PICK step \in Steps, s \in Shot, f \in Frequency,
               n \in 0 .. Len(info.blocks) : LoadIs(w, step, s, f, n)
      BY DEF StoreInv, Loads
    <2>2. /\ load[w].shot = s /\ load[w].frequency = f
          /\ load[w].field = [j \in 1 .. n |-> store[j][Record(s, f)]]
          /\ k \in 1 .. n /\ n # 0
      BY <2>1 DEF LoadIs
    <2>3. SweepInv /\ pc = "finalized"
      BY <2>1, <2>2 DEF LoadIs, StoreInv
    <2>4. Len(info.blocks) \in Nat /\ k \in 1 .. Len(info.blocks)
      BY <2>2, <2>3, TilesAreStored
    <2>5. TileOf(k, s, f, store[k][Record(s, f)])
      BY <2>3, <2>4, TilesAreStored
    <2>6. QED
      BY <2>2, <2>5 DEF TileOf
  <1>2. QED
    BY <1>1, Invariance, PTL

(***************************************************************************)
(* A block below the first has rows of its own, and the row of its datum   *)
(* is above them.                                                          *)
(***************************************************************************)
LEMMA RowsBelow ==
  ASSUME NEW i \in Infos, NEW k \in 2 .. Len(i.blocks), NEW e
  PROVE  LET b == i.blocks[k]
         IN  /\ b.source_iz \in Int /\ b.target_start_iz \in Int
             /\ b.halo_end_iz \in Int
             /\ b.source_iz < b.target_start_iz
             /\ b.target_start_iz <= b.halo_end_iz
             /\ ComputedRows(i, k, e) = IF e /\ i.overlap_rows > 0
                                       THEN b.source_iz + 1 .. b.halo_end_iz
                                       ELSE b.target_start_iz .. b.halo_end_iz
  <1> DEFINE b == i.blocks[k]
             p == i.blocks[k - 1].target_end_iz
  <1>1. /\ k \in 1 .. Len(i.blocks) /\ k # 1 /\ k > 1 /\ p \in Int /\ 1 <= p
        /\ b.source_iz = Higher(1, p - i.overlap_rows)
        /\ b.target_start_iz = p + 1
        /\ b.target_start_iz <= b.target_end_iz /\ b.target_end_iz <= b.halo_end_iz
    BY BlockBelow
  <1>2. /\ i.overlap_rows \in Int /\ 0 <= i.overlap_rows
        /\ b.source_iz \in Int /\ b.target_start_iz \in Int
        /\ b.target_end_iz \in Int /\ b.halo_end_iz \in Int
    BY <1>1, BlockTypes
  <1>3. ImagingBlock(i, k) = b
    BY <1>1 DEF ImagingBlock
  <1>4. SchemeABlock(i, k) = IF i.overlap_rows > 0
                             THEN MakeBlock(b.source_iz, b.source_iz + 1,
                                            b.target_end_iz, b.halo_end_iz)
                             ELSE b
    BY <1>1, <1>3 DEF SchemeABlock
  <1>5. ComputedRows(i, k, e) = IF e /\ i.overlap_rows > 0
                                THEN b.source_iz + 1 .. b.halo_end_iz
                                ELSE b.target_start_iz .. b.halo_end_iz
    <2>1. CASE e /\ i.overlap_rows > 0
      BY <1>4, <2>1 DEF ComputedRows, TargetRows, MakeBlock
    <2>2. CASE e /\ ~(i.overlap_rows > 0)
      BY <1>4, <2>2 DEF ComputedRows, TargetRows
    <2>3. CASE ~e
      BY <1>3, <2>3 DEF ComputedRows, TargetRows
    <2>4. QED
      BY <2>1, <2>2, <2>3
  <1> HIDE DEF b, p
  <1>6. b.source_iz < b.target_start_iz /\ b.target_start_iz <= b.halo_end_iz
    BY <1>1, <1>2 DEF Higher
  <1>7. QED
    BY <1>2, <1>5, <1>6 DEF b

(***************************************************************************)
(* The last rows of the blocks grow with the blocks, by block_rows at each *)
(* block that the bottom of the model does not cut.                        *)
(***************************************************************************)
LEMMA Least ==
  ASSUME NEW S, S \subseteq Nat, S # {}
  PROVE  \E n \in S : \A m \in S : n <= m
  <1> DEFINE R == {ss \in Nat \X Nat : ss[1] < ss[2]}
  <1>1. IsWellFoundedOn(R, Nat)
    BY NatLessThanWellFounded DEF OpToRel
  <1> HIDE DEF R
  <1>2. PICK n \in S : \A m \in S : ~(<<m, n>> \in R)
    BY <1>1, WFMin
  <1>3. \A m \in S : ~(m < n)
    BY <1>2 DEF R
  <1>4. QED
    BY <1>3

LEMMA NextEnd ==
  ASSUME NEW i \in Infos, NEW k \in 2 .. Len(i.blocks)
  PROVE  LET last == i.blocks[k].target_end_iz
             p == i.blocks[k - 1].target_end_iz
         IN  /\ p \in Int /\ last \in Int /\ i.block_rows \in Int
             /\ 2 <= i.block_rows
             /\ p < last /\ last <= i.nz - 1
             /\ last < i.nz - 1 => last = p + i.block_rows
  <1> DEFINE last == i.blocks[k].target_end_iz
             p == i.blocks[k - 1].target_end_iz
             rows == i.block_rows
  <1>1. /\ k \in 1 .. Len(i.blocks) /\ p \in Int
        /\ last = Lower(i.nz - 1, p + rows)
        /\ i.blocks[k].target_start_iz = p + 1
        /\ i.blocks[k].target_start_iz <= last
    BY BlockBelow
  <1>2. i.nz \in Int /\ rows \in Int /\ 2 <= rows /\ last \in Int
    BY <1>1, BlockTypes
  <1>3. p + 1 <= last
    BY <1>1
  <1> HIDE DEF last, p, rows
  <1>4. p < last /\ last <= i.nz - 1 /\ (last < i.nz - 1 => last = p + rows)
    BY <1>1, <1>2, <1>3 DEF Lower
  <1>5. QED
    BY <1>1, <1>2, <1>4 DEF last, p, rows

LEMMA EndsGrow ==
  ASSUME NEW i \in Infos, NEW j \in 1 .. Len(i.blocks), NEW k \in 1 .. Len(i.blocks),
         j < k
  PROVE  /\ i.blocks[j].target_end_iz < i.blocks[k].target_end_iz
         /\ k < Len(i.blocks) =>
              i.blocks[j].target_end_iz + i.block_rows <= i.blocks[k].target_end_iz
  <1> DEFINE n == Len(i.blocks)
             last(m) == i.blocks[m].target_end_iz
             Bad == {m \in 1 .. n : j < m /\ ~(last(j) < last(m))}
  <1>1. n \in Nat /\ j \in Nat /\ k \in Nat
    BY BlockCount
  <1>2. \A m \in 1 .. n : last(m) \in Int
    BY BlockTypes
  <1>3. \A m \in 2 .. n : last(m - 1) < last(m)
    BY NextEnd
  <1>4. Bad = {}
    <2> SUFFICES ASSUME Bad # {} PROVE FALSE
      OBVIOUS
    <2>1. Bad \subseteq Nat
      BY <1>1
    <2>2. PICK m \in Bad : \A q \in Bad : m <= q
      BY <2>1, Least
    <2>3. /\ m \in 2 .. n /\ j < m /\ m \in Nat /\ ~(last(j) < last(m))
          /\ m - 1 \in 1 .. n
      BY <1>1, <2>2
    <2>4. m - 1 \notin Bad
      BY <1>1, <2>2, <2>3
    <2>5. last(m - 1) < last(m)
      BY <1>3, <2>3
    <2>6. last(m) \in Int /\ last(m - 1) \in Int /\ last(j) \in Int
      BY <1>1, <1>2, <2>3
    <2>7. CASE j < m - 1
      BY <1>1, <2>3, <2>4, <2>5, <2>6, <2>7
    <2>8. CASE ~(j < m - 1)
      <3>1. j = m - 1
        BY <1>1, <2>3, <2>8
      <3>2. QED
        BY <2>3, <2>5, <3>1
    <2>9. QED
      BY <2>7, <2>8
  <1>5. last(j) < last(k)
    BY <1>4
  <1>6. ASSUME k < n
        PROVE  last(j) + i.block_rows <= last(k)
    <2>1. k \in 2 .. n /\ k + 1 \in 2 .. n /\ k - 1 \in 1 .. n /\ (k + 1) - 1 = k
      BY <1>1, <1>6
    <2>2. last(k) < last(k + 1) /\ last(k + 1) <= i.nz - 1
      BY <2>1, NextEnd
    <2>3. i.nz \in Int /\ i.block_rows \in Int
      BY BlockTypes
    <2>4. last(k - 1) \in Int /\ last(k) \in Int /\ last(k + 1) \in Int
          /\ last(j) \in Int
      BY <1>2, <2>1
    <2>5. last(k) < i.nz - 1 => last(k) = last(k - 1) + i.block_rows
      BY <2>1, NextEnd
    <2>6. last(j) <= last(k - 1)
      <3>1. CASE j = k - 1
        BY <2>4, <3>1
      <3>2. CASE j < k - 1
        BY <1>4, <2>1, <2>4, <3>2
      <3>3. QED
        BY <1>1, <3>1, <3>2
    <2> HIDE DEF last
    <2>7. QED
      BY <2>2, <2>3, <2>4, <2>5, <2>6
  <1>7. QED
    BY <1>5, <1>6

(***************************************************************************)
(* The rows of the blocks when they overlap: to the last row of the block, *)
(* from the row under the block above, or, with Scheme A, overlap_rows     *)
(* rows before it.                                                         *)
(***************************************************************************)
TopOf(i, k, e) ==
  IF k = 1 THEN 1
  ELSE i.blocks[k - 1].target_end_iz + 1 - (IF e THEN i.overlap_rows ELSE 0)

OverlapsInside(i, e) ==
  i.overlap_rows > 0 /\ (e => i.overlap_rows < i.blocks[1].target_end_iz)

LEMMA OverlapRows ==
  ASSUME NEW i \in Infos, NEW k \in 1 .. Len(i.blocks), NEW e \in BOOLEAN,
         OverlapsInside(i, e)
  PROVE  /\ ComputedRows(i, k, e) = TopOf(i, k, e) .. i.blocks[k].target_end_iz
         /\ TopOf(i, k, e) \in Int
         /\ k > 1 /\ e => i.overlap_rows < i.blocks[k - 1].target_end_iz
  <1> DEFINE last == i.blocks[k].target_end_iz
             halo == i.blocks[k].halo_end_iz
             p == i.blocks[k - 1].target_end_iz
             source == i.blocks[k].source_iz
             ov == i.overlap_rows
  <1>1. /\ i.nz \in Int /\ ov \in Int /\ ov > 0 /\ last \in Int /\ halo \in Int
        /\ k \in Nat /\ k >= 1
    BY BlockTypes, BlockCount DEF OverlapsInside
  <1>2. CASE k = 1
    <2>1. ImagingBlock(i, k).target_start_iz = 1
          /\ ImagingBlock(i, k).halo_end_iz = last
      BY <1>2 DEF ImagingBlock, MakeBlock
    <2>2. SchemeABlock(i, k) = ImagingBlock(i, k)
      BY <1>2 DEF SchemeABlock
    <2>3. ComputedRows(i, k, e) = 1 .. last
      BY <2>1, <2>2 DEF ComputedRows, TargetRows
    <2>4. QED
      BY <1>2, <2>3 DEF TopOf
  <1>3. CASE k > 1
    <2>1. k \in 2 .. Len(i.blocks) /\ k # 1 /\ k - 1 \in 1 .. Len(i.blocks)
          /\ 1 \in 1 .. Len(i.blocks)
      BY <1>1, <1>3
    <2>2. /\ p \in Int /\ source = Higher(1, p - ov)
          /\ i.blocks[k].target_start_iz = p + 1
          /\ last = Lower(i.nz - 1, p + i.block_rows)
      BY <2>1, BlockBelow
    <2>3. halo = last
      <3>1. i.blocks[k] = NextBlock(i, p)
        BY <1>3, InfosAssumption DEF BlockValid
      <3>2. halo = HaloEnd(i, Lower(i.nz - 1, p + i.block_rows))
        BY <3>1 DEF NextBlock, MakeBlock
      <3>3. halo = HaloEnd(i, last) /\ last <= i.nz - 1
        BY <2>1, <2>2, <3>2, NextEnd
      <3> HIDE DEF last, halo
      <3>4. QED
        BY <1>1, <3>3 DEF HaloEnd, Lower, ov
    <2>4. ComputedRows(i, k, e) = IF e THEN source + 1 .. last ELSE p + 1 .. last
      <3>1. ComputedRows(i, k, e) = IF e /\ ov > 0
                                    THEN source + 1 .. halo
                                    ELSE i.blocks[k].target_start_iz .. halo
        BY <2>1, RowsBelow
      <3>2. QED
        BY <1>1, <2>2, <2>3, <3>1
    <2>5. e => ov < p
      <3> SUFFICES ASSUME e PROVE ov < p
        OBVIOUS
      <3>1. ov < i.blocks[1].target_end_iz /\ i.blocks[1].target_end_iz \in Int
        BY <2>1, BlockTypes DEF OverlapsInside
      <3>2. CASE k - 1 = 1
        BY <3>1, <3>2
      <3>3. CASE k - 1 # 1
        <4>1. 1 < k - 1
          BY <1>1, <1>3, <3>3
        <4>2. i.blocks[1].target_end_iz < p
          BY <2>1, <4>1, EndsGrow
        <4> HIDE DEF p, ov
        <4>3. QED
          BY <1>1, <2>2, <3>1, <4>2
      <3>4. QED
        BY <3>2, <3>3
    <2>6. TopOf(i, k, e) = IF e THEN p + 1 - ov ELSE p + 1
      <3>1. p + 1 - 0 = p + 1
        BY <2>2
      <3>2. QED
        BY <2>1, <3>1 DEF TopOf
    <2> HIDE DEF p, ov, source, last
    <2>7. e => source = p - ov /\ source + 1 = p + 1 - ov
      BY <1>1, <2>2, <2>5 DEF Higher
    <2>8. TopOf(i, k, e) \in Int
      BY <1>1, <2>2, <2>6
    <2>9. ComputedRows(i, k, e) = TopOf(i, k, e) .. last
      <3>1. CASE e
        BY <2>4, <2>6, <2>7, <3>1
      <3>2. CASE ~e
        BY <2>4, <2>6, <3>2
      <3>3. QED
        BY <3>1, <3>2
    <2>10. QED
      BY <2>5, <2>8, <2>9 DEF last, p, ov
  <1>4. QED
    BY <1>1, <1>2, <1>3

(***************************************************************************)
(* With Scheme A two neighbours share the last overlap_rows rows of the    *)
(* upper block.                                                            *)
(***************************************************************************)
LEMMA SharedRowsAreTheOverlap ==
  ASSUME NEW i \in Infos, NEW k \in 1 .. Len(i.blocks), k + 1 \in 1 .. Len(i.blocks),
         OverlapsInside(i, TRUE)
  PROVE  LET common == ComputedRows(i, k, TRUE) \intersect ComputedRows(i, k + 1, TRUE)
             last == i.blocks[k].target_end_iz
         IN  /\ last \in Int /\ i.overlap_rows \in Int
             /\ common = last + 1 - i.overlap_rows .. last
             /\ Cardinality(common) = i.overlap_rows
  <1> DEFINE last == i.blocks[k].target_end_iz
             below == i.blocks[k + 1].target_end_iz
             ov == i.overlap_rows
             common == ComputedRows(i, k, TRUE) \intersect ComputedRows(i, k + 1, TRUE)
             top == TopOf(i, k, TRUE)
             first == last + 1 - ov
  <1>1. /\ last \in Int /\ ov \in Int /\ ov > 0 /\ ov < i.block_rows
        /\ below \in Int /\ i.block_rows \in Int
    BY BlockTypes DEF OverlapsInside
  <1>2. k + 1 \in 2 .. Len(i.blocks) /\ (k + 1) - 1 = k /\ k + 1 # 1 /\ k + 1 > 1
        /\ k \in Nat /\ k >= 1 /\ k < Len(i.blocks)
    BY BlockCount
  <1>3. TopOf(i, k + 1, TRUE) = first
    BY <1>2 DEF TopOf
  <1>4. ComputedRows(i, k + 1, TRUE) = first .. below /\ ov < last
    <2>1. OverlapsInside(i, TRUE) /\ k + 1 \in 1 .. Len(i.blocks) /\ TRUE \in BOOLEAN
      OBVIOUS
    <2>2. ComputedRows(i, k + 1, TRUE) = TopOf(i, k + 1, TRUE) .. below
      BY <2>1, OverlapRows
    <2>3. ov < last
      BY <1>2, <2>1, OverlapRows
    <2>4. QED
      BY <1>3, <2>2, <2>3
  <1>5. ComputedRows(i, k, TRUE) = top .. last /\ top \in Int
    BY OverlapRows
  <1>6. top <= first
    <2>1. CASE k = 1
      <3>1. top = 1
        BY <2>1 DEF TopOf
      <3> HIDE DEF top, last, ov
      <3>2. QED
        BY <1>1, <1>4, <3>1
    <2>2. CASE k > 1
      <3> DEFINE p == i.blocks[k - 1].target_end_iz
      <3>1. k - 1 \in 1 .. Len(i.blocks) /\ k - 1 < k /\ k # 1
        BY <1>2, <2>2
      <3>2. p \in Int /\ p < last
        BY <1>2, <3>1, EndsGrow, BlockTypes
      <3>3. top = p + 1 - ov
        BY <3>1 DEF TopOf
      <3> HIDE DEF top, last, ov, p
      <3>4. QED
        BY <1>1, <3>2, <3>3
    <2> HIDE DEF top, first
    <2>3. k = 1 \/ k > 1
      BY <1>2
    <2>4. QED
      BY <2>1, <2>2, <2>3, Zenon
  <1>7. last < below
    BY <1>2, EndsGrow
  <1> HIDE DEF top, last, below, ov
  <1>8. common = first .. last /\ first \in Int /\ first <= last
    <2>1. common = (top .. last) \intersect (first .. below)
      BY <1>4, <1>5
    <2>2. first \in Int /\ first <= last
      BY <1>1
    <2> HIDE DEF common, first
    <2>3. common = first .. last
      BY <1>1, <1>5, <1>6, <1>7, <2>1, <2>2
    <2>4. QED
      BY <2>2, <2>3
  <1>9. Cardinality(first .. last) = last - first + 1
    BY <1>1, <1>8, FS_Interval
  <1>10. Cardinality(common) = ov
    <2>1. last - first + 1 = ov
      BY <1>1
    <2> HIDE DEF common, first
    <2>2. QED
      BY <1>8, <1>9, <2>1
  <1>11. QED
    BY <1>1, <1>8, <1>10 DEF last, ov

(***************************************************************************)
(* With or without the overlap the rows of a block end at the same row, so *)
(* that equally many rows are the same rows.                               *)
(***************************************************************************)
LEMMA EquallyManyRows ==
  ASSUME NEW i \in Infos, NEW k \in 2 .. Len(i.blocks), NEW d, NEW e,
         Cardinality(ComputedRows(i, k, d)) = Cardinality(ComputedRows(i, k, e))
  PROVE  ComputedRows(i, k, d) = ComputedRows(i, k, e)
  <1> DEFINE b == i.blocks[k]
  <1>1. PICK x \in Int, y \in Int, z \in Int :
          /\ x <= z /\ y <= z
          /\ ComputedRows(i, k, d) = x .. z /\ ComputedRows(i, k, e) = y .. z
    <2>1. /\ b.source_iz + 1 \in Int /\ b.target_start_iz \in Int
          /\ b.halo_end_iz \in Int
          /\ b.source_iz + 1 <= b.halo_end_iz
          /\ b.target_start_iz <= b.halo_end_iz
      BY RowsBelow
    <2>2. \A f : \/ ComputedRows(i, k, f) = b.source_iz + 1 .. b.halo_end_iz
                \/ ComputedRows(i, k, f) = b.target_start_iz .. b.halo_end_iz
      BY RowsBelow
    <2> HIDE DEF b
    <2>3. QED
      BY <2>1, <2>2
  <1>2. Cardinality(x .. z) = z - x + 1 /\ Cardinality(y .. z) = z - y + 1
    BY <1>1, FS_Interval
  <1>3. x = y
    BY <1>1, <1>2
  <1>4. QED
    BY <1>1, <1>3

(***************************************************************************)
(* Tables of the right block file are used only with the rows they were    *)
(* made for.                                                               *)
(***************************************************************************)
THEOREM OwnTablesAreForTheirRows == StoreSpec => []OwnTablesMatch
  <1>1. StoreInit => OwnTablesMatch
    <2> SUFFICES ASSUME StoreInit PROVE OwnTablesMatch
      OBVIOUS
    <2>1. Len(store) = 0
      BY DEF StoreInit, Init
    <2>2. QED
      BY <2>1 DEF OwnTablesMatch
  <1>2. StoreInv /\ OwnTablesMatch /\ [StoreNext]_<<vars, loadVars>>
          => OwnTablesMatch'
    <2> SUFFICES ASSUME StoreInv, OwnTablesMatch, [StoreNext]_<<vars, loadVars>>,
                        tables' = info', NEW k \in 2 .. Len(store')
                 PROVE  TableRows(k)' = Rows(k)'
      BY DEF OwnTablesMatch
    <2>1. CASE UNCHANGED <<config, store>>
      BY <2>1, SameConfig DEF OwnTablesMatch, TableRows
    <2>2. CASE BeginBlock
      <3>1. /\ UNCHANGED config /\ BlockAccepted /\ pc = "begin"
            /\ store' = Append(store, [r \in Records |-> << >>])
        BY <2>2 DEF BeginBlock
      <3>2. /\ store \in Seq([Records -> TileRecord \union {<< >>}])
            /\ Len(store) = iblock - 1 /\ iblock \in 1 .. Len(info.blocks)
            /\ info \in Infos
        BY <3>1 DEF StoreInv, SweepInv, Typed, Tiles, InBlock, Blocks
      <3>3. k \in 2 .. Len(store) \/ k = iblock
        BY <3>1, <3>2
      <3>4. CASE k \in 2 .. Len(store)
        BY <3>1, <3>4, SameConfig DEF OwnTablesMatch, TableRows
      <3>5. CASE k = iblock
        <4>1. iblock \in 2 .. Len(info.blocks) /\ tables = info
          BY <3>1, <3>2, <3>5, BlockCount, SameConfig
        <4>2. Cardinality(TableRows(iblock)) = Cardinality(Rows(iblock))
          BY <3>1, <4>1 DEF BlockAccepted, TableAccepted
        <4>3. TableRows(iblock) = Rows(iblock)
          BY <3>2, <4>1, <4>2, EquallyManyRows DEF TableRows, Rows
        <4>4. QED
          BY <3>1, <3>5, <4>3, SameConfig DEF TableRows
      <3>6. QED
        BY <3>3, <3>4, <3>5
    <2>3. CASE PostShot
      <3>1. /\ UNCHANGED config
            /\ store' = [store EXCEPT ![iblock][Record(ishot, ifrequency)] = Tile]
        BY <2>3 DEF PostShot
      <3>2. Len(store') = Len(store)
        BY <3>1 DEF StoreInv, SweepInv, Tiles
      <3>3. QED
        BY <3>1, <3>2, SameConfig DEF OwnTablesMatch, TableRows
    <2>4. QED
      BY <2>1, <2>2, <2>3
      DEF StoreNext, Next, Preview, RefusePreview, RefuseBlock, Fail, Propagate,
          ApplyChunk, EndBlock, Ended, vars
  <1>3. QED
    BY <1>1, <1>2, Invariance, PTL DEF StoreSpec

(***************************************************************************)
(* The sweep refuses nothing that make_block_info made, with tables of the *)
(* same blocks: the seams of the preview, the depth counts of the tables   *)
(* and the caches of each block are all as the checks want them.           *)
(***************************************************************************)
THEOREM MatchingInputPasses == StoreSpec => []MatchingInputIsAccepted
  <1>1. StoreInit => MatchingInputIsAccepted
    BY DEF StoreInit, Init, MatchingInputIsAccepted
  <1>2. StoreInv /\ MatchingInputIsAccepted /\ [StoreNext]_<<vars, loadVars>>
          => MatchingInputIsAccepted'
    <2> SUFFICES ASSUME StoreInv, MatchingInputIsAccepted,
                        [StoreNext]_<<vars, loadVars>>,
                        tables' = info', overlap_in_tables' = seam',
                        seam' => info'.overlap_rows > 0 /\ OverlapInFirstBlock'
                 PROVE  pc' # "failed"
      BY DEF MatchingInputIsAccepted
    <2>1. UNCHANGED config
      BY ConfigStays DEF StoreNext, vars
    <2>2. /\ tables = info /\ overlap_in_tables = seam /\ info \in Infos
          /\ seam => /\ info.overlap_rows > 0
                     /\ info.overlap_rows < info.blocks[1].target_end_iz
          /\ seam \in BOOLEAN /\ iblock \in 1 .. Len(info.blocks)
      BY <2>1, SameConfig DEF OverlapInFirstBlock, StoreInv, SweepInv, Typed, Blocks
    <2>3. pc # "failed"
      BY <2>2 DEF MatchingInputIsAccepted, OverlapInFirstBlock
    <2>4. PreviewAccepted
      <3> SUFFICES ASSUME seam, NEW k \in 1 .. Len(info.blocks) - 1
                   PROVE  Cardinality(CommonRows(k)) = info.overlap_rows
        BY <2>2 DEF PreviewAccepted
      <3>1. k \in 1 .. Len(info.blocks) /\ k + 1 \in 1 .. Len(info.blocks)
        BY <2>2, BlockCount
      <3>2. seam = TRUE
        BY <2>2
      <3>3. QED
        BY <2>2, <3>1, <3>2, SharedRowsAreTheOverlap
        DEF CommonRows, Rows, OverlapsInside
    <2>5. pc = "begin" => BlockAccepted
      <3> SUFFICES ASSUME pc = "begin", iblock > 1
                   PROVE  /\ TableAccepted(iblock)
                          /\ seam => previous_overlap.depths = CommonRows(iblock - 1)
        BY DEF BlockAccepted
      <3>1. TableRows(iblock) = Rows(iblock)
        BY <2>2 DEF TableRows, Rows
      <3>2. TableAccepted(iblock)
        BY <2>2, <3>1 DEF TableAccepted
      <3>3. seam => previous_overlap.depths = CommonRows(iblock - 1)
        BY DEF StoreInv, SweepInv, OverlapCaches
      <3>4. QED
        BY <3>2, <3>3
    <2>6. CASE UNCHANGED vars
      BY <2>3, <2>6 DEF vars
    <2>7. CASE Next
      BY <2>3, <2>4, <2>5, <2>7
      DEF Next, Preview, RefusePreview, BeginBlock, RefuseBlock, Propagate,
          ApplyChunk, PostShot, NextShot, EndBlock, Ended, vars
    <2>8. QED
      BY <2>6, <2>7 DEF StoreNext, vars
  <1>3. QED
    BY <1>1, <1>2, Invariance, PTL DEF StoreSpec

(***************************************************************************)
(* The cache of geometries: a step puts the geometry of the chunk behind   *)
(* the newest ones, and what was found there is lost from nowhere.         *)
(***************************************************************************)
LEMMA FoundMovesToTheEnd ==
  ASSUME NEW S, NEW q \in Seq(S), NEW i \in 1 .. Len(q)
  PROVE  LET r == Append(RemoveAt(q, i), q[i])
         IN  /\ r \in Seq(S) /\ Len(r) = Len(q)
             /\ r[Len(q)] = q[i]
             /\ \A j \in 1 .. Len(q) : j < i => r[j] = q[j]
             /\ \A j \in 1 .. Len(q) : j > i => j - 1 \in 1 .. Len(q) /\ r[j - 1] = q[j]
  <1> DEFINE a == SubSeq(q, 1, i - 1)
             b == SubSeq(q, i + 1, Len(q))
             m == a \o b
             r == Append(m, q[i])
  <1>1. /\ Len(q) \in Nat /\ i \in Nat /\ q[i] \in S
    OBVIOUS
  <1>2. /\ a \in Seq(S) /\ Len(a) = i - 1
        /\ \A j \in 1 .. i - 1 : a[j] = q[j]
    OBVIOUS
  <1>3. /\ b \in Seq(S) /\ Len(b) = Len(q) - i
        /\ \A j \in 1 .. Len(q) - i : b[j] = q[i + j]
    OBVIOUS
  <1> HIDE DEF a, b
  <1>4. /\ m \in Seq(S) /\ Len(m) = Len(q) - 1
        /\ \A j \in 1 .. i - 1 : m[j] = q[j]
        /\ \A j \in i .. Len(q) - 1 : m[j] = q[j + 1]
    <2>1. m \in Seq(S) /\ Len(m) = Len(q) - 1
      <3>1. a \in Seq(S) /\ b \in Seq(S)
        BY <1>2, <1>3
      <3>2. m \in Seq(S)
        BY <3>1
      <3>3. Len(m) = Len(a) + Len(b)
        BY <3>1
      <3> HIDE DEF m
      <3>4. QED
        BY <1>1, <1>2, <1>3, <3>2, <3>3
    <2>2. \A j \in 1 .. i - 1 : m[j] = q[j]
      BY <1>1, <1>2, <1>3
    <2>3. ASSUME NEW j \in i .. Len(q) - 1
          PROVE  m[j] = q[j + 1]
      <3>1. j - Len(a) \in 1 .. Len(b) /\ j > Len(a)
        BY <1>1, <1>2, <1>3
      <3>2. m[j] = b[j - Len(a)]
        BY <1>1, <1>2, <1>3, <3>1
      <3>3. b[j - Len(a)] = q[i + (j - Len(a))] /\ i + (j - Len(a)) = j + 1
        BY <1>1, <1>2, <1>3, <3>1
      <3>4. QED
        BY <3>2, <3>3
    <2>4. QED
      BY <2>1, <2>2, <2>3
  <1> HIDE DEF m
  <1>5. /\ r \in Seq(S) /\ Len(r) = Len(q) /\ r[Len(q)] = q[i]
        /\ \A j \in 1 .. Len(q) - 1 : r[j] = m[j]
    BY <1>1, <1>4
  <1> HIDE DEF r
  <1>6. \A j \in 1 .. Len(q) : j < i => r[j] = q[j]
    BY <1>1, <1>4, <1>5
  <1>7. ASSUME NEW j \in 1 .. Len(q), j > i
        PROVE  j - 1 \in 1 .. Len(q) /\ r[j - 1] = q[j]
    <2>1. j - 1 \in i .. Len(q) - 1 /\ j - 1 \in 1 .. Len(q) - 1
      BY <1>1, <1>7
    <2>2. (j - 1) + 1 = j
      OBVIOUS
    <2>3. QED
      BY <1>1, <1>4, <1>5, <2>1, <2>2
  <1>8. r = Append(RemoveAt(q, i), q[i])
    BY DEF r, m, a, b, RemoveAt
  <1>9. QED
    BY <1>5, <1>6, <1>7, <1>8

LEMMA GeometryType ==
  ASSUME SweepInv
  PROVE  Geometry \in [rows : SUBSET Int, datum : Int]
  <1>1. /\ Rows(iblock) \subseteq Int /\ info \in Infos
        /\ iblock \in 1 .. Len(info.blocks)
    BY RowsAreFinite DEF SweepInv, Typed, Blocks
  <1>2. info.blocks[iblock].source_iz \in Int
    BY <1>1, BlockTypes
  <1>3. QED
    BY <1>1, <1>2 DEF Geometry, ChunkRows

LEMMA Acquired ==
  ASSUME SweepInv, TreeCache, AcquireGeometry
  PROVE  /\ TreeCache'
         /\ \A m \in 0 .. MaximumCachedGeometries - 1 :
              Newest(m) \union {Geometry} \subseteq Newest(m + 1)'
         /\ Geometry \in Newest(MaximumCachedGeometries) =>
              /\ geometry_reused'
              /\ Newest(MaximumCachedGeometries)
                   \subseteq Newest(MaximumCachedGeometries)'
  <1> DEFINE S == [rows : SUBSET Int, datum : Int]
             q == geometry_cache
             g == Geometry
             Most == MaximumCachedGeometries
             r == geometry_cache'
             hits == {i \in DOMAIN q : q[i] = g}
  <1>1. /\ q \in Seq(S) /\ Len(q) <= Most /\ Len(q) \in Nat /\ g \in S
        /\ Most \in Nat /\ Most >= 1
    BY GeometryType, SizesAssumption DEF TreeCache
  <1>2. /\ geometry_reused' = (hits # {})
        /\ \/ \E i \in hits : r = Append(RemoveAt(q, i), q[i])
           \/ /\ hits = {}
              /\ r = Append(IF Len(q) = Most THEN Tail(q) ELSE q, g)
    BY DEF AcquireGeometry, Evict
  <1>3. /\ \A m : Newest(m) = {q[i] : i \in {j \in 1 .. Len(q) : j > Len(q) - m}}
        /\ \A m : Newest(m)' = {r[i] : i \in {j \in 1 .. Len(r) : j > Len(r) - m}}
    BY DEF Newest
  <1>4. Newest(Most) = {q[i] : i \in 1 .. Len(q)}
    BY <1>1, <1>3
  <1> HIDE DEF q, g, S, Most, r
  <1>5. CASE hits = {}
    <2> DEFINE old == IF Len(q) = Most THEN Tail(q) ELSE q
               d == IF Len(q) = Most THEN 1 ELSE 0
    <2>1. r = Append(old, g)
      BY <1>2, <1>5
    <2>2. /\ old \in Seq(S) /\ Len(old) = Len(q) - d /\ Len(old) < Most
          /\ d \in {0, 1}
          /\ \A j \in 1 .. Len(q) : j > d => j - d \in 1 .. Len(old) /\ old[j - d] = q[j]
      <3>1. CASE Len(q) = Most
        <4>1. q # << >>
          BY <1>1, <3>1
        <4>2. old = Tail(q) /\ d = 1
          BY <3>1
        <4>3. Tail(q) \in Seq(S) /\ Len(Tail(q)) = Len(q) - 1
              /\ \A j \in 1 .. Len(q) - 1 : Tail(q)[j] = q[j + 1]
          BY <1>1, <4>1
        <4> HIDE DEF old, d
        <4>4. ASSUME NEW j \in 1 .. Len(q), j > 1
              PROVE  j - 1 \in 1 .. Len(old) /\ old[j - 1] = q[j]
          <5>1. j - 1 \in 1 .. Len(q) - 1 /\ (j - 1) + 1 = j
            BY <1>1, <4>4
          <5>2. QED
            BY <4>2, <4>3, <5>1
        <4>5. QED
          BY <1>1, <3>1, <4>2, <4>3, <4>4
      <3>2. CASE Len(q) # Most
        BY <1>1, <3>2
      <3>3. QED
        BY <3>1, <3>2
    <2> HIDE DEF old, d
    <2>3. /\ r \in Seq(S) /\ Len(r) = Len(old) + 1 /\ Len(r) <= Most
          /\ r[Len(r)] = g /\ Len(r) \in Nat /\ Len(r) >= 1
          /\ \A j \in 1 .. Len(old) : r[j] = old[j]
      BY <1>1, <2>1, <2>2
    <2>4. ASSUME NEW m \in 0 .. Most - 1
          PROVE  Newest(m) \union {g} \subseteq Newest(m + 1)'
      <3>1. ASSUME NEW j \in 1 .. Len(q), j > Len(q) - m
            PROVE  q[j] \in Newest(m + 1)'
        <4>1. j > d
          BY <1>1, <3>1 DEF d
        <4>2. j - d \in 1 .. Len(old) /\ old[j - d] = q[j]
          BY <2>2, <3>1, <4>1
        <4>3. r[j - d] = q[j]
          BY <2>3, <4>2
        <4>4. Len(old) \in Nat /\ Len(old) = Len(q) - d /\ Len(q) \in Nat /\ d \in Int
          BY <1>1, <2>2
        <4>5. Len(r) = Len(old) + 1
          BY <2>3
        <4>6. j - d \in 1 .. Len(r) /\ j - d > Len(r) - (m + 1)
          BY <3>1, <4>2, <4>4, <4>5
        <4>7. QED
          BY <1>3, <4>3, <4>6
      <3>2. g \in Newest(m + 1)'
        <4>1. Len(r) \in 1 .. Len(r) /\ Len(r) > Len(r) - (m + 1)
          BY <2>3
        <4>2. QED
          BY <1>3, <2>3, <4>1
      <3>3. QED
        BY <1>3, <3>1, <3>2
    <2>5. g \notin Newest(Most)
      BY <1>1, <1>4, <1>5
    <2>6. TreeCache'
      BY <1>2, <2>3 DEF TreeCache, r, S, Most
    <2>7. QED
      BY <2>4, <2>5, <2>6 DEF g, Most
  <1>6. CASE hits # {}
    <2>1. PICK i \in 1 .. Len(q) : q[i] = g /\ r = Append(RemoveAt(q, i), q[i])
      <3>1. PICK i \in hits : r = Append(RemoveAt(q, i), q[i])
        BY <1>2, <1>6, Zenon
      <3>2. i \in 1 .. Len(q) /\ q[i] = g
        BY <1>1
      <3>3. QED
        BY <3>1, <3>2, Zenon
    <2>2. /\ r \in Seq(S) /\ Len(r) = Len(q)
          /\ r[Len(q)] = g /\ Len(r) \in Nat /\ Len(r) >= 1
          /\ \A j \in 1 .. Len(q) : j < i => r[j] = q[j]
          /\ \A j \in 1 .. Len(q) :
               j > i => j - 1 \in 1 .. Len(q) /\ r[j - 1] = q[j]
      <3> DEFINE p == Append(RemoveAt(q, i), q[i])
      <3>1. /\ p \in Seq(S) /\ Len(p) = Len(q) /\ p[Len(q)] = q[i]
            /\ \A j \in 1 .. Len(q) : j < i => p[j] = q[j]
            /\ \A j \in 1 .. Len(q) :
                 j > i => j - 1 \in 1 .. Len(q) /\ p[j - 1] = q[j]
        BY <1>1, FoundMovesToTheEnd
      <3>2. r = p
        BY <2>1
      <3> HIDE DEF p
      <3>3. QED
        BY <1>1, <2>1, <3>1, <3>2
    <2>3. ASSUME NEW m \in Nat
          PROVE  Newest(m) \union {g} \subseteq Newest(m + 1)'
      <3>1. ASSUME NEW j \in 1 .. Len(q), j > Len(q) - m
            PROVE  q[j] \in Newest(m + 1)'
        <4>1. CASE j < i
          <5>1. j \in 1 .. Len(r) /\ j > Len(r) - (m + 1) /\ r[j] = q[j]
            BY <1>1, <2>2, <3>1, <4>1
          <5>2. QED
            BY <1>3, <5>1
        <4>2. CASE j > i
          <5>1. /\ j - 1 \in 1 .. Len(r) /\ j - 1 > Len(r) - (m + 1)
                /\ r[j - 1] = q[j]
            BY <1>1, <2>2, <3>1, <4>2
          <5>2. QED
            BY <1>3, <5>1
        <4>3. CASE j = i
          <5>1. /\ Len(q) \in 1 .. Len(r) /\ Len(q) > Len(r) - (m + 1)
                /\ r[Len(q)] = q[j]
            BY <1>1, <2>1, <2>2, <4>3
          <5>2. QED
            BY <1>3, <5>1
        <4>4. QED
          BY <4>1, <4>2, <4>3
      <3>2. g \in Newest(m + 1)'
        <4>1. Len(q) \in 1 .. Len(r) /\ Len(q) > Len(r) - (m + 1)
          BY <1>1, <2>2
        <4>2. QED
          BY <1>3, <2>2, <4>1
      <3>3. QED
        BY <1>3, <3>1, <3>2
    <2>4. Newest(Most) \subseteq Newest(Most)'
      <3>1. Newest(Most) \subseteq Newest(Most + 1)'
        BY <1>1, <2>3
      <3>2. Newest(Most + 1)' = {r[j] : j \in 1 .. Len(r)}
        BY <1>1, <1>3, <2>2
      <3>3. Newest(Most)' = {r[j] : j \in 1 .. Len(r)}
        BY <1>1, <1>3, <2>2
      <3>4. QED
        BY <3>1, <3>2, <3>3
    <2>5. geometry_reused' = TRUE
      BY <1>2, <1>6
    <2>6. TreeCache'
      BY <1>1, <2>2, <2>5 DEF TreeCache, r, S, Most
    <2>7. \A m \in 0 .. Most - 1 : m \in Nat
      BY <1>1
    <2>8. QED
      BY <2>3, <2>4, <2>5, <2>6, <2>7 DEF g, Most
  <1>7. QED
    BY <1>5, <1>6

\* The chunks of a block and their trees do not change within the block.
LEMMA SameTrees ==
  ASSUME UNCHANGED config, iblock' = iblock
  PROVE  /\ BlockFits' <=> BlockFits
         /\ Chunks' = Chunks
         /\ \A c : FirstDepth(c)' = FirstDepth(c) /\ Tree(c)' = Tree(c)
         /\ geometry_cache' = geometry_cache => \A m : Newest(m)' = Newest(m)
  <1>1. /\ info' = info /\ depth_chunk' = depth_chunk
        /\ Rows(iblock)' = Rows(iblock)
    BY SameConfig
  <1>2. \A row : LocalDepth(row)' = LocalDepth(row)
    BY <1>1 DEF LocalDepth
  <1>3. BlockFits' <=> BlockFits
    BY <1>1 DEF BlockFits
  <1>4. \A c : FirstDepth(c)' = FirstDepth(c)
    BY <1>1 DEF FirstDepth
  <1>5. Chunks' = Chunks
    BY <1>1, <1>4 DEF Chunks
  <1>6. \A c : Tree(c)' = Tree(c)
    BY <1>1, <1>2, <1>4 DEF Tree
  <1>7. geometry_cache' = geometry_cache => \A m : Newest(m)' = Newest(m)
    BY DEF Newest
  <1>8. QED
    BY <1>3, <1>4, <1>5, <1>6, <1>7

LEMMA ChunkOrder ==
  ASSUME NEW x \in Nat, NEW y \in Nat, NEW d \in Nat, x * d < y * d
  PROVE  x < y
  <1>1. SUFFICES ASSUME ~(x < y) PROVE FALSE
    OBVIOUS
  <1>2. x - y \in Nat
    BY <1>1
  <1>3. (x - y) * d \in Nat
    BY <1>2
  <1>4. (x - y) * d = x * d - y * d
    OBVIOUS
  <1>5. x * d \in Int /\ y * d \in Int
    OBVIOUS
  <1>6. QED
    BY <1>3, <1>4, <1>5

(***************************************************************************)
(* A chunk is the only step that touches the cache.                        *)
(***************************************************************************)
LEMMA ChunkTrees ==
  ASSUME SweepInv, TreeCache, TreesOfTheBlock, ApplyChunk
  PROVE  TreeCache' /\ TreesOfTheBlock'
  <1> DEFINE Most == MaximumCachedGeometries
  <1>1. /\ UNCHANGED config /\ iblock' = iblock /\ ifrequency' = ifrequency
        /\ pc = "chunk" /\ AcquireGeometry
        /\ depth_begin' = depth_begin + depth_chunk
        /\ pc' = IF depth_begin' < Cardinality(Rows(iblock)) THEN "chunk" ELSE "post"
    BY DEF ApplyChunk, NextChunk
  <1>2. TreeCache'
    BY <1>1, Acquired
  <1>3. /\ Typed /\ Most \in Nat /\ depth_chunk \in Nat
        /\ Cardinality(Rows(iblock)) \in Nat /\ depth_begin \in Nat
        /\ ifrequency \in 0 .. Frequencies /\ Frequencies \in Nat
    BY Positive, SizesAssumption, RowsAreFinite DEF SweepInv, Typed
  <1>4. SUFFICES ASSUME iblock > 1, BlockFits
                 PROVE  TreesOfTheBlock'
    BY <1>1, <1>2, SameTrees DEF TreesOfTheBlock
  <1>5. PICK c \in Chunks :
          /\ depth_begin = FirstDepth(c)
          /\ ifrequency = 0 => \A b \in 0 .. c - 1 : Tree(b) \in Newest(c)
    BY <1>1, <1>4 DEF TreesOfTheBlock
  <1>6. /\ c \in 0 .. Most - 1 /\ c \in Nat /\ Geometry = Tree(c)
        /\ depth_begin' = FirstDepth(c + 1)
    <2>1. c \in 0 .. Most - 1 /\ c \in Nat
      BY <1>3 DEF Chunks
    <2>2. Geometry = Tree(c)
      BY <1>5 DEF Geometry, ChunkRows, Tree
    <2>3. (c + 1) * depth_chunk = c * depth_chunk + depth_chunk
      BY <1>3, <2>1
    <2>4. QED
      BY <1>1, <1>5, <2>1, <2>2, <2>3 DEF FirstDepth
  <1>7. Newest(c) \union {Tree(c)} \subseteq Newest(c + 1)'
    BY <1>1, <1>6, Acquired
  <1>8. ifrequency = 0 => \A b \in 0 .. c : Tree(b) \in Newest(c + 1)'
    BY <1>5, <1>6, <1>7
  <1>9. ifrequency # 0 => \A b \in Chunks : Tree(b) \in Newest(Most)'
    <2> SUFFICES ASSUME ifrequency # 0
                 PROVE  \A b \in Chunks : Tree(b) \in Newest(Most)'
      OBVIOUS
    <2>1. \A b \in Chunks : Tree(b) \in Newest(Most)
      BY <1>1, <1>3, <1>4 DEF TreesOfTheBlock
    <2>2. Newest(Most) \subseteq Newest(Most)'
      BY <1>1, <1>5, <1>6, <2>1, Acquired
    <2>3. QED
      BY <2>1, <2>2
  <1>10. CASE pc' = "chunk"
    <2>1. FirstDepth(c + 1) < Cardinality(Rows(iblock))
      BY <1>1, <1>6, <1>10
    <2>2. c + 1 < Most
      <3>1. (c + 1) * depth_chunk < Most * depth_chunk
        <4>1. Most * depth_chunk \in Int /\ (c + 1) * depth_chunk \in Int
          BY <1>3, <1>6
        <4>2. QED
          BY <1>3, <1>4, <2>1, <4>1 DEF BlockFits, FirstDepth
      <3>2. QED
        BY <1>3, <1>6, <3>1, ChunkOrder
    <2>3. c + 1 \in Chunks /\ (c + 1) - 1 = c
      BY <1>3, <1>6, <2>1, <2>2 DEF Chunks
    <2>4. c + 1 \in Chunks' /\ FirstDepth(c + 1)' = FirstDepth(c + 1)
      BY <1>1, <2>3, SameTrees
    <2>5. ifrequency' = 0 =>
            \A b \in 0 .. (c + 1) - 1 : Tree(b)' \in Newest(c + 1)'
      BY <1>1, <1>8, <2>3, SameTrees
    <2>6. ifrequency' > 0 => \A b \in Chunks' : Tree(b)' \in Newest(Most)'
      BY <1>1, <1>3, <1>9, SameTrees
    <2>7. QED
      BY <1>6, <1>10, <2>4, <2>5, <2>6 DEF TreesOfTheBlock
  <1>11. CASE pc' = "post"
    <2>1. ~(FirstDepth(c + 1) < Cardinality(Rows(iblock)))
      BY <1>1, <1>6, <1>11
    <2>2. ASSUME ifrequency = 0, NEW b \in Chunks
          PROVE  Tree(b) \in Newest(Most)'
      <3>1. b \in Nat /\ FirstDepth(b) < Cardinality(Rows(iblock))
        BY <1>3 DEF Chunks
      <3>2. b * depth_chunk < (c + 1) * depth_chunk
        <4>1. b * depth_chunk \in Int /\ (c + 1) * depth_chunk \in Int
          BY <1>3, <1>6, <3>1
        <4>2. QED
          BY <1>3, <2>1, <3>1, <4>1 DEF FirstDepth
      <3>3. b < c + 1
        BY <1>3, <1>6, <3>1, <3>2, ChunkOrder
      <3>4. Tree(b) \in Newest(c + 1)'
        BY <1>6, <1>8, <2>2, <3>1, <3>3
      <3>5. Newest(c + 1)' \subseteq Newest(Most)'
        <4>1. Len(geometry_cache') \in Nat
          BY <1>2 DEF TreeCache
        <4>2. \A j \in 1 .. Len(geometry_cache') :
                j > Len(geometry_cache') - (c + 1) => j > Len(geometry_cache') - Most
          BY <1>3, <1>6, <4>1
        <4>3. QED
          BY <4>2 DEF Newest
      <3>6. QED
        BY <3>4, <3>5
    <2>3. \A b \in Chunks' : Tree(b)' \in Newest(Most)'
      BY <1>1, <1>9, <2>2, SameTrees
    <2>4. QED
      BY <1>11, <2>3 DEF TreesOfTheBlock
  <1>12. QED
    BY <1>1, <1>10, <1>11

LEMMA TreesStep ==
  ASSUME SweepInv, TreeCache, TreesOfTheBlock, [Next]_vars
  PROVE  TreeCache' /\ TreesOfTheBlock'
  <1>1. CASE ApplyChunk
    BY <1>1, ChunkTrees
  <1>2. ASSUME UNCHANGED geometryVars PROVE TreeCache'
    BY <1>2 DEF TreeCache, geometryVars
  <1>3. CASE \/ UNCHANGED vars \/ Ended \/ Preview \/ RefusePreview \/ RefuseBlock
    <2>1. /\ UNCHANGED geometryVars /\ UNCHANGED config /\ iblock' = iblock
          /\ ifrequency' = ifrequency /\ depth_begin' = depth_begin
          /\ pc' = pc \/ pc' \in {"begin", "failed"}
      BY <1>3 DEF Ended, Preview, RefusePreview, RefuseBlock, Fail, vars, chunkVars
    <2>2. geometry_cache' = geometry_cache
      BY <2>1 DEF geometryVars
    <2>3. TreesOfTheBlock'
      BY <2>1, <2>2, SameTrees DEF TreesOfTheBlock
    <2>4. QED
      BY <1>2, <2>1, <2>3
  <1>4. CASE BeginBlock
    <2>1. UNCHANGED geometryVars /\ pc' = "propagate" /\ ifrequency' = 0
      BY <1>4 DEF BeginBlock
    <2>2. TreesOfTheBlock'
      BY <2>1 DEF TreesOfTheBlock
    <2>3. QED
      BY <1>2, <2>1, <2>2
  <1>5. CASE Propagate
    <2>1. /\ UNCHANGED geometryVars /\ UNCHANGED config /\ iblock' = iblock
          /\ ifrequency' = ifrequency /\ depth_begin' = 0 /\ pc = "propagate"
          /\ iblock > 1 => pc' = "chunk"
      BY <1>5 DEF Propagate
    <2>2. geometry_cache' = geometry_cache
      BY <2>1 DEF geometryVars
    <2>3. TreesOfTheBlock'
      <3> SUFFICES ASSUME iblock > 1, BlockFits PROVE TreesOfTheBlock'
        BY <2>1, SameTrees DEF TreesOfTheBlock
      <3>1. /\ MaximumCachedGeometries \in Nat /\ MaximumCachedGeometries >= 1
            /\ depth_chunk \in Nat /\ Typed
        BY Positive, SizesAssumption DEF SweepInv, Typed
      <3>2. Cardinality(Rows(iblock)) > 0
        <4>1. info \in Infos /\ iblock \in 2 .. Len(info.blocks)
          BY BlockCount, <3>1 DEF Typed, Blocks
        <4>2. Rows(iblock) # {}
          <5>1. /\ info.blocks[iblock].halo_end_iz \in Rows(iblock)
            BY <4>1, RowsBelow DEF Rows
          <5>2. QED
            BY <5>1
        <4>3. Cardinality(Rows(iblock)) \in Nat /\ IsFiniteSet(Rows(iblock))
          BY <3>1, RowsAreFinite
        <4>4. Cardinality(Rows(iblock)) # 0
          BY <4>2, <4>3, FS_EmptySet
        <4>5. QED
          BY <4>3, <4>4
      <3>3. FirstDepth(0) = 0
        BY <3>1 DEF FirstDepth
      <3>4. 0 \in Chunks
        BY <3>1, <3>2, <3>3 DEF Chunks
      <3>5. 0 \in Chunks' /\ depth_begin' = FirstDepth(0)'
        BY <2>1, <3>3, <3>4, SameTrees
      <3>6. \A b : b \notin 0 .. 0 - 1
        OBVIOUS
      <3>7. ifrequency' > 0 =>
              \A c \in Chunks' : Tree(c)' \in Newest(MaximumCachedGeometries)'
        BY <2>1, <2>2, SameTrees DEF TreesOfTheBlock
      <3>8. pc' = "chunk"
        BY <2>1
      <3>9. QED
        BY <3>5, <3>6, <3>7, <3>8 DEF TreesOfTheBlock
    <2>4. QED
      BY <1>2, <2>1, <2>3
  <1>6. CASE PostShot
    <2>1. /\ UNCHANGED geometryVars /\ UNCHANGED config /\ iblock' = iblock
          /\ pc = "post" /\ pc' # "chunk"
      BY <1>6 DEF PostShot, NextShot
    <2>2. geometry_cache' = geometry_cache
      BY <2>1 DEF geometryVars
    <2>3. TreesOfTheBlock'
      BY <2>1, <2>2, SameTrees DEF TreesOfTheBlock
    <2>4. QED
      BY <1>2, <2>1, <2>3
  <1>7. CASE EndBlock
    <2>1. UNCHANGED geometryVars /\ pc' \in {"begin", "finalized"}
      BY <1>7 DEF EndBlock
    <2>2. TreesOfTheBlock'
      BY <2>1 DEF TreesOfTheBlock
    <2>3. QED
      BY <1>2, <2>1, <2>2
  <1>8. QED
    BY <1>1, <1>3, <1>4, <1>5, <1>6, <1>7 DEF Next

(***************************************************************************)
(* What the buffers may hold.                                              *)
(***************************************************************************)
LEMMA CommonRowsAreRows ==
  ASSUME NEW i \in Infos, NEW k \in 1 .. Len(i.blocks), NEW e
  PROVE  \A other : ComputedRows(i, k, e) \intersect other \subseteq Int
  <1>1. PICK a \in Int, z \in Int : ComputedRows(i, k, e) = a .. z
    BY RowsAreAnInterval
  <1>2. QED
    BY <1>1

\* Only the boundary of the next block and its cache are written by a shot.
LEMMA PostBuffers ==
  ASSUME SweepInv, Buffers, PostShot
  PROVE  /\ boundary' \in [Shot -> [Frequency -> Field]]
         /\ next_overlap' \in {NoCache} \union OverlapCache
  <1>1. /\ pc = "post" /\ StoreNextOverlap /\ ExtractNextBoundary
        /\ boundary \in [Shot -> [Frequency -> Field]]
        /\ next_overlap \in {NoCache} \union OverlapCache
    BY DEF PostShot, Buffers
  <1>2. /\ ishot \in Shot /\ ifrequency \in Frequency /\ info \in Infos
        /\ iblock \in 1 .. Len(info.blocks) /\ Typed
    BY <1>1, SizesAssumption DEF SweepInv, Typed, Loops, Frequency, Blocks
  <1>3. iblock \in Nat
    BY <1>2
  <1>4. boundary' \in [Shot -> [Frequency -> Field]]
    <2>1. CASE ~LastBlock /\ NextDatum(iblock) \in Rows(iblock)
      <3> DEFINE x == FieldAt(iblock, NextDatum(iblock), ishot, ifrequency)
      <3>1. x \in Field
        BY <1>2, <1>3, <2>1, RowsAreFinite, FieldTypes
      <3>2. boundary' = [boundary EXCEPT ![ishot][ifrequency] = x]
        BY <1>1, <2>1 DEF ExtractNextBoundary
      <3> HIDE DEF x
      <3>3. [boundary[ishot] EXCEPT ![ifrequency] = x] \in [Frequency -> Field]
        BY <1>1, <1>2, <3>1
      <3>4. QED
        BY <1>1, <3>2, <3>3
    <2>2. CASE ~(~LastBlock /\ NextDatum(iblock) \in Rows(iblock))
      BY <1>1, <2>2 DEF ExtractNextBoundary
    <2>3. QED
      BY <2>1, <2>2
  <1>5. next_overlap' \in {NoCache} \union OverlapCache
    <2>1. CASE seam /\ next_overlap.depths # {}
      <3> DEFINE e == CacheEntry(ishot, ifrequency)
                 x == FieldAt(iblock, -1, ishot, ifrequency)
      <3>1. x \in Field
        BY <1>2, <1>3, FieldTypes
      <3>2. next_overlap # NoCache
        BY <2>1 DEF NoCache
      <3>3. next_overlap \in OverlapCache /\ next_overlap.entries \in Cached
        BY <1>1, <3>2 DEF OverlapCache
      <3>4. next_overlap' = [next_overlap EXCEPT !.entries[e] = x]
        BY <1>1, <2>1 DEF StoreNextOverlap
      <3> HIDE DEF x, e
      <3>5. [next_overlap.entries EXCEPT ![e] = x] \in Cached
        BY <3>1, <3>3 DEF Cached
      <3>6. next_overlap' = [next_overlap EXCEPT
              !.entries = [next_overlap.entries EXCEPT ![e] = x]]
        BY <3>3, <3>4 DEF OverlapCache
      <3>7. QED
        BY <3>3, <3>5, <3>6 DEF OverlapCache
    <2>2. CASE ~(seam /\ next_overlap.depths # {})
      BY <1>1, <2>2 DEF StoreNextOverlap
    <2>3. QED
      BY <2>1, <2>2
  <1>6. QED
    BY <1>4, <1>5

LEMMA BuffersStep ==
  ASSUME SweepInv, Buffers, [Next]_vars, UNCHANGED <<position, reader>>
  PROVE  Buffers'
  <1>1. UNCHANGED config
    BY ConfigStays DEF vars
  <1>2. /\ tables' \in Infos /\ overlap_in_tables' \in BOOLEAN
        /\ position' \in [Blocks' -> 0 .. Shots * Frequencies]
        /\ reader' \in Loaders \union {NoLoader}
    BY <1>1, SameConfig DEF Buffers
  <1>3. Typed /\ Loops /\ info \in Infos /\ iblock \in 1 .. Len(info.blocks)
    BY DEF SweepInv, Typed, Blocks
  <1>4. SUFFICES /\ boundary' \in [Shot -> [Frequency -> Field]]
                 /\ rhs' \in {<< >>} \union [Shot -> Field]
                 /\ previous_overlap' \in {NoCache} \union OverlapCache
                 /\ next_overlap' \in {NoCache} \union OverlapCache
                 /\ propagated' \subseteq Rows(iblock)'
    BY <1>2 DEF Buffers, OverlapCache, Cached
  <1>5. /\ boundary \in [Shot -> [Frequency -> Field]]
        /\ rhs \in {<< >>} \union [Shot -> Field]
        /\ previous_overlap \in {NoCache} \union OverlapCache
        /\ next_overlap \in {NoCache} \union OverlapCache
        /\ propagated \subseteq Rows(iblock)
    BY DEF Buffers
  <1>6. iblock' = iblock => Rows(iblock)' = Rows(iblock)
    BY <1>1, SameConfig
  <1>7. CASE \/ UNCHANGED vars \/ Ended \/ Preview \/ RefusePreview \/ RefuseBlock
    <2>1. /\ iblock' = iblock /\ boundary' = boundary /\ rhs' = rhs
          /\ previous_overlap' = previous_overlap /\ next_overlap' = next_overlap
          /\ propagated' = propagated
      BY <1>7 DEF Ended, Preview, RefusePreview, RefuseBlock, Fail, vars, chunkVars
    <2>2. QED
      BY <1>5, <1>6, <2>1
  <1>8. CASE BeginBlock
    <2>1. /\ iblock' = iblock /\ boundary' = boundary /\ rhs' = rhs
          /\ previous_overlap' = previous_overlap /\ propagated' = propagated
          /\ next_overlap' = IF seam /\ ~LastBlock
                             THEN MakeOverlapCache(CommonRows(iblock)) ELSE NoCache
      BY <1>8 DEF BeginBlock, chunkVars
    <2>2. CommonRows(iblock) \subseteq Int
      BY <1>3, CommonRowsAreRows DEF CommonRows, Rows
    <2>3. MakeOverlapCache(CommonRows(iblock)) \in OverlapCache
      BY <2>2, FieldTypes DEF MakeOverlapCache, OverlapCache, Cached
    <2>4. QED
      BY <1>5, <1>6, <2>1, <2>3
  <1>9. CASE Propagate
    <2>1. /\ iblock' = iblock /\ boundary' = boundary /\ propagated' = {}
          /\ previous_overlap' = previous_overlap /\ next_overlap' = next_overlap
          /\ \/ rhs' = << >>
             \/ rhs' = [s \in Shot |-> boundary[s][ifrequency]]
      BY <1>9 DEF Propagate
    <2>2. ifrequency \in Frequency
      BY <1>3, <1>9, SizesAssumption DEF Propagate, Typed, Loops, Frequency
    <2>3. [s \in Shot |-> boundary[s][ifrequency]] \in [Shot -> Field]
      BY <1>5, <2>2
    <2>4. QED
      BY <1>5, <2>1, <2>3
  <1>10. CASE ApplyChunk
    <2>1. /\ iblock' = iblock /\ boundary' = boundary /\ rhs' = rhs
          /\ previous_overlap' = previous_overlap /\ next_overlap' = next_overlap
          /\ propagated' = propagated \union ChunkRows
      BY <1>10 DEF ApplyChunk
    <2>2. ChunkRows \subseteq Rows(iblock)
      BY DEF ChunkRows
    <2>3. QED
      BY <1>5, <1>6, <2>1, <2>2
  <1>11. CASE PostShot
    <2>1. /\ iblock' = iblock /\ rhs' = rhs /\ propagated' = propagated
          /\ previous_overlap' = previous_overlap
      BY <1>11 DEF PostShot, chunkVars
    <2>2. QED
      BY <1>5, <1>6, <1>11, <2>1, PostBuffers
  <1>12. CASE EndBlock
    BY <1>5, <1>12 DEF EndBlock
  <1>13. QED
    BY <1>7, <1>8, <1>9, <1>10, <1>11, <1>12 DEF Next

\* The streams stay within the tiles that were written.
LEMMA StreamsStep ==
  ASSUME SweepInv, Loads, Buffers, LoadNext, UNCHANGED vars
  PROVE  Buffers'
  <1>1. /\ UNCHANGED config /\ iblock' = iblock /\ boundary' = boundary
        /\ rhs' = rhs /\ previous_overlap' = previous_overlap
        /\ next_overlap' = next_overlap /\ propagated' = propagated
    BY DEF vars, chunkVars
  <1>2. SUFFICES /\ position' \in [Blocks -> 0 .. Shots * Frequencies]
                 /\ reader' \in Loaders \union {NoLoader}
    BY <1>1, SameConfig DEF Buffers, OverlapCache, Cached
  <1>3. /\ position \in [Blocks -> 0 .. Shots * Frequencies]
        /\ reader \in Loaders \union {NoLoader}
        /\ Shots * Frequencies \in Nat
    BY SizesAssumption DEF Buffers
  <1> DEFINE Total == Shots * Frequencies
  <1>4. Records = 0 .. Total - 1
    BY DEF Records
  <1> HIDE DEF Total
  <1>5. PICK w \in Loaders : \/ TakeFrequency(w) \/ CopyTile(w) \/ EndLoad(w)
                            \/ SeekTile(w) \/ ReadTile(w)
    BY DEF LoadNext
  <1>6. CASE TakeFrequency(w) \/ CopyTile(w) \/ EndLoad(w)
    BY <1>3, <1>6 DEF TakeFrequency, CopyTile, EndLoad
  <1>7. CASE SeekTile(w)
    <2>1. position' = [position EXCEPT ![NextBlockOf(w)] = Requested(w)] /\ reader' = w
      BY <1>7 DEF SeekTile
    <2>2. load[w].shot \in Shot /\ load[w].frequency \in Frequency
      BY DEF Loads, LoadIs
    <2>3. Requested(w) \in 0 .. Total - 1
      BY <1>4, <2>2, Indexed DEF Requested
    <2>4. Requested(w) \in 0 .. Total
      BY <1>3, <2>3 DEF Total
    <2>5. QED
      BY <1>3, <2>1, <2>4 DEF Total
  <1>8. CASE ReadTile(w)
    <2> DEFINE k == NextBlockOf(w)
    <2>1. /\ position' = [position EXCEPT ![k] = @ + 1] /\ reader' = NoLoader
          /\ position[k] \in Records
      BY <1>8 DEF ReadTile
    <2>2. position[k] + 1 \in 0 .. Total
      BY <1>3, <1>4, <2>1 DEF Total
    <2> HIDE DEF k
    <2>3. QED
      BY <1>3, <2>1, <2>2 DEF Total
  <1>9. QED
    BY <1>5, <1>6, <1>7, <1>8

LEMMA BufferInvariance == StoreSpec => []BufferInv
  <1>1. StoreInit => BufferInv
    <2> SUFFICES ASSUME StoreInit PROVE BufferInv
      OBVIOUS
    <2>1. /\ tables \in Infos /\ overlap_in_tables \in BOOLEAN
          /\ boundary = [s \in Shot |-> [f \in Frequency |-> FieldAt(0, 0, s, f)]]
          /\ rhs = << >> /\ propagated = {} /\ pc = "preview"
          /\ geometry_cache = << >> /\ geometry_reused = FALSE
          /\ previous_overlap = NoCache /\ next_overlap = NoCache
          /\ position = [k \in Blocks |-> Shots * Frequencies] /\ reader = NoLoader
      BY DEF StoreInit, Init, LoadInit
    <2>2. boundary \in [Shot -> [Frequency -> Field]]
      BY <2>1, FieldTypes
    <2>3. Shots * Frequencies \in 0 .. Shots * Frequencies
      BY SizesAssumption
    <2>4. Buffers
      BY <2>1, <2>2, <2>3 DEF Buffers
    <2>5. TreeCache
      <3>1. Len(geometry_cache) = 0
        BY <2>1
      <3>2. geometry_cache \in Seq([rows : SUBSET Int, datum : Int])
        BY <2>1
      <3>3. MaximumCachedGeometries \in Nat
        BY SizesAssumption
      <3>4. Len(geometry_cache) <= MaximumCachedGeometries
        BY <3>1, <3>3
      <3>5. geometry_reused \in BOOLEAN
        BY <2>1
      <3>6. QED
        BY <3>2, <3>4, <3>5 DEF TreeCache
    <2>6. TreesOfTheBlock
      BY <2>1 DEF TreesOfTheBlock
    <2>7. QED
      BY <2>4, <2>5, <2>6 DEF BufferInv
  <1>2. StoreInv /\ BufferInv /\ [StoreNext]_<<vars, loadVars>> => BufferInv'
    <2> SUFFICES ASSUME StoreInv, BufferInv, [StoreNext]_<<vars, loadVars>>
                 PROVE  BufferInv'
      OBVIOUS
    <2>1. /\ SweepInv /\ Loads /\ Buffers /\ TreeCache /\ TreesOfTheBlock
          /\ [Next]_vars
      BY DEF StoreInv, BufferInv, StoreNext
    <2>2. TreeCache' /\ TreesOfTheBlock'
      BY <2>1, TreesStep
    <2>3. Buffers'
      <3>1. CASE UNCHANGED loadVars
        BY <2>1, <3>1, BuffersStep DEF loadVars
      <3>2. CASE LoadNext /\ UNCHANGED vars
        BY <2>1, <3>2, StreamsStep
      <3>3. QED
        BY <3>1, <3>2 DEF StoreNext
    <2>4. QED
      BY <2>2, <2>3 DEF BufferInv
  <1>3. QED
    BY <1>1, <1>2, Invariance, PTL DEF StoreSpec

(***************************************************************************)
(* Type correctness.                                                       *)
(***************************************************************************)
THEOREM TypeCorrect == StoreSpec => []TypeOK
  <1>1. StoreInv /\ BufferInv => TypeOK
    <2> SUFFICES ASSUME StoreInv, BufferInv PROVE TypeOK
      OBVIOUS
    <2>1. Typed /\ Tiles /\ Loads /\ Buffers /\ TreeCache
      BY DEF StoreInv, SweepInv, BufferInv
    <2>2. \A cache \in {previous_overlap, next_overlap} :
            cache = NoCache \/ cache.entries \in Cached
      BY <2>1 DEF Buffers, OverlapCache
    <2>3. Len(store) = (IF pc \in {"propagate", "chunk", "post", "end", "finalized"}
                        THEN iblock ELSE iblock - 1)
      BY <2>1 DEF Tiles, InBlock
    <2>4. \A k \in 1 .. Len(store) : DOMAIN store[k] = Records
      <3>1. store \in Seq([Records -> TileRecord \union {<< >>}])
        BY <2>1 DEF Tiles
      <3>2. QED
        BY <3>1
    <2>5. ASSUME NEW w \in Loaders
          PROVE  /\ load[w].shot \in Shot /\ load[w].frequency \in Frequency
                 /\ Len(load[w].field) <= Len(info.blocks)
      <3>1. PICK step \in Steps, s \in Shot, f \in Frequency,
                 n \in 0 .. Len(info.blocks) : LoadIs(w, step, s, f, n)
        BY <2>1 DEF Loads
      <3>2. Len(info.blocks) \in Nat
        BY <2>1, BlockCount DEF Typed
      <3> DEFINE field == [k \in 1 .. n |-> store[k][Record(s, f)]]
      <3>3. Len(field) = n
        BY <3>2
      <3>4. QED
        BY <3>1, <3>2, <3>3 DEF LoadIs
    <2>6. QED
      BY <2>1, <2>2, <2>3, <2>4, <2>5 DEF TypeOK, Typed, Buffers, TreeCache
  <1>2. QED
    BY <1>1, Invariance, BufferInvariance, PTL

(***************************************************************************)
(* A block that has no more chunks than the cache has entries builds its   *)
(* trees for its first frequency only, whatever the cache held before.     *)
(***************************************************************************)
THEOREM TreesAreReused == StoreSpec => TreesSurviveFrequencies
  <1>1. StoreInv /\ BufferInv /\ [StoreNext]_<<vars, loadVars>> =>
          [pc = "chunk" /\ ifrequency > 0
             /\ Cardinality(Rows(iblock)) <= MaximumCachedGeometries * depth_chunk
           => geometry_reused']_vars
    <2> SUFFICES ASSUME StoreInv, BufferInv, Next, pc = "chunk", ifrequency > 0,
                        BlockFits
                 PROVE  geometry_reused'
      BY DEF StoreNext, BlockFits
    <2>1. ApplyChunk
      BY DEF Next, Preview, RefusePreview, BeginBlock, RefuseBlock, Propagate,
             ApplyChunk, PostShot, EndBlock, Ended
    <2>2. SweepInv /\ TreeCache /\ TreesOfTheBlock /\ AcquireGeometry /\ iblock > 1
      BY <2>1 DEF StoreInv, SweepInv, Loops, BufferInv, ApplyChunk
    <2>3. PICK c \in Chunks : depth_begin = FirstDepth(c)
      BY <2>2 DEF TreesOfTheBlock
    <2>4. Geometry = Tree(c)
      BY <2>3 DEF Geometry, ChunkRows, Tree
    <2>5. Geometry \in Newest(MaximumCachedGeometries)
      BY <2>2, <2>3, <2>4 DEF TreesOfTheBlock
    <2>6. QED
      BY <2>2, <2>5, Acquired
  <1>2. QED
    BY <1>1, Invariance, BufferInvariance, PTL
       DEF StoreSpec, TreesSurviveFrequencies

(***************************************************************************)
(* The sum over one or two blocks.                                         *)
(***************************************************************************)
\* What CountedOnce compares with one.
WeightSum(S, row) == MapThenSumSet(LAMBDA k : Weight(k, row), S)

LEMMA SumOfFew ==
  ASSUME NEW row, NEW S, NEW a, NEW b, S \subseteq {a, b},
         Weight(a, row) \in Int, Weight(b, row) \in Int
  PROVE  /\ S = {a} => WeightSum(S, row) = Weight(a, row)
         /\ S = {a, b} /\ a # b =>
              WeightSum(S, row) = Weight(a, row) + Weight(b, row)
  <1> DEFINE pick(s) == CHOOSE x \in s : TRUE
             step(g) == [s \in SUBSET S |->
                           IF s = {} THEN 0
                           ELSE Weight(pick(s), row) + g[s \ {pick(s)}]]
             sum == WeightSum(S, row)
             iter == CHOOSE g : g = step(g)
  <1>1. sum = iter[S]
    BY DEF WeightSum, MapThenSumSet, MapThenFoldSet
  <1> HIDE DEF sum
  <1>2. \A s \in SUBSET S : s # {} => pick(s) \in s /\ s \ {pick(s)} \in SUBSET S
    OBVIOUS
  <1> HIDE DEF pick
  <1>3. iter = step(iter)
    <2> DEFINE g0 == [s \in SUBSET S |-> 0]
               g1 == step(g0)
               g2 == step(g1)
    <2>1. ASSUME NEW s \in SUBSET S
          PROVE  /\ g0[s] = 0
                 /\ s = {} => g1[s] = 0 /\ g2[s] = 0
                 /\ s # {} => /\ g1[s] = Weight(pick(s), row) + g0[s \ {pick(s)}]
                             /\ g2[s] = Weight(pick(s), row) + g1[s \ {pick(s)}]
      OBVIOUS
    <2>2. DOMAIN g2 = SUBSET S /\ g2 = [s \in SUBSET S |-> g2[s]]
      OBVIOUS
    <2> HIDE DEF g0, g1, g2
    <2>3. ASSUME NEW s \in SUBSET S, s # {}
          PROVE  g1[s \ {pick(s)}] = g2[s \ {pick(s)}]
      <3> DEFINE t == s \ {pick(s)}
      <3>1. t \in SUBSET S /\ t \ {pick(t)} \in SUBSET S
        BY <1>2
      <3>2. CASE t = {}
        BY <2>1, <3>1, <3>2
      <3>3. CASE t # {}
        <4>1. pick(s) \in s /\ pick(t) \in t
          BY <1>2, <2>3, <3>1, <3>3
        <4>2. t \ {pick(t)} = {}
          BY <4>1
        <4>3. g0[t \ {pick(t)}] = 0 /\ g1[t \ {pick(t)}] = 0
          BY <2>1, <3>1, <4>2
        <4>4. QED
          BY <2>1, <3>1, <3>3, <4>3
      <3>4. QED
        BY <3>2, <3>3
    <2>4. g2 = step(g2)
      BY <2>1, <2>2, <2>3
    <2>5. QED
      BY <2>4
  <1> HIDE DEF iter
  <1>4. \A s \in SUBSET S :
          iter[s] = IF s = {} THEN 0
                    ELSE Weight(pick(s), row) + iter[s \ {pick(s)}]
    BY <1>3
  <1>5. \A x \in S : iter[{x}] = Weight(x, row)
    <2> SUFFICES ASSUME NEW x \in S PROVE iter[{x}] = Weight(x, row)
      OBVIOUS
    <2>1. pick({x}) = x
      BY <1>2
    <2>2. {x} \ {x} = {} /\ {} \in SUBSET S /\ {x} \in SUBSET S
      OBVIOUS
    <2>3. iter[{x}] = Weight(x, row) + 0 /\ x \in {a, b}
      BY <1>4, <2>1, <2>2
    <2>4. QED
      BY <2>3
  <1>6. S = {a} => sum = Weight(a, row)
    BY <1>1, <1>5
  <1>7. ASSUME S = {a, b}, a # b
        PROVE  sum = Weight(a, row) + Weight(b, row)
    <2>1. sum = Weight(pick(S), row) + iter[S \ {pick(S)}]
      BY <1>1, <1>4, <1>7
    <2>2. CASE pick(S) = a
      <3>1. S \ {a} = {b}
        BY <1>7
      <3>2. iter[{b}] = Weight(b, row)
        BY <1>5, <1>7
      <3>3. QED
        BY <2>1, <2>2, <3>1, <3>2
    <2>3. CASE pick(S) = b
      <3>1. S \ {b} = {a}
        BY <1>7
      <3>2. iter[{a}] = Weight(a, row)
        BY <1>5, <1>7
      <3>3. sum = Weight(b, row) + Weight(a, row)
        BY <2>1, <2>3, <3>1, <3>2
      <3>4. Weight(b, row) + Weight(a, row) = Weight(a, row) + Weight(b, row)
        OBVIOUS
      <3>5. QED
        BY <3>3, <3>4
    <2>4. pick(S) \in S
      BY <1>2, <1>7
    <2>5. QED
      BY <1>7, <2>2, <2>3, <2>4
  <1>8. QED
    BY <1>6, <1>7 DEF sum


(***************************************************************************)
(* The count of the preview makes the overlap end inside the first block.  *)
(***************************************************************************)
LEMMA PreviewedOverlap ==
  ASSUME NEW i \in Infos, i.overlap_rows > 0,
         Cardinality(ComputedRows(i, 1, TRUE) \intersect ComputedRows(i, 2, TRUE))
           = i.overlap_rows
  PROVE  OverlapsInside(i, TRUE)
  <1> DEFINE last == i.blocks[1].target_end_iz
             ov == i.overlap_rows
             common == ComputedRows(i, 1, TRUE) \intersect ComputedRows(i, 2, TRUE)
  <1>1. 1 \in 1 .. Len(i.blocks) /\ 2 \in 2 .. Len(i.blocks) /\ 2 - 1 = 1
    BY BlockCount
  <1>2. last \in Int /\ ov \in Int /\ 1 <= last
    BY <1>1, BlockTypes, BlockBelow
  <1> SUFFICES ASSUME ~(ov < last) PROVE FALSE
    BY DEF OverlapsInside
  <1>3. ComputedRows(i, 1, TRUE) = 1 .. last
    <2>1. ImagingBlock(i, 1).target_start_iz = 1
          /\ ImagingBlock(i, 1).halo_end_iz = last
      BY DEF ImagingBlock, MakeBlock
    <2>2. SchemeABlock(i, 1) = ImagingBlock(i, 1)
      BY DEF SchemeABlock
    <2>3. QED
      BY <2>1, <2>2 DEF ComputedRows, TargetRows
  <1>4. \A r \in ComputedRows(i, 2, TRUE) : r \in Int /\ 2 <= r
    <2> DEFINE b == i.blocks[2]
    <2>1. /\ b.source_iz \in Int
          /\ ComputedRows(i, 2, TRUE) = b.source_iz + 1 .. b.halo_end_iz
          /\ b.halo_end_iz \in Int
      BY <1>1, RowsBelow
    <2>2. b.source_iz = Higher(1, last - ov)
      BY <1>1, BlockBelow
    <2> HIDE DEF b, last, ov
    <2>3. 1 <= b.source_iz
      BY <1>2, <2>2 DEF Higher
    <2> DEFINE s == b.source_iz
               z == b.halo_end_iz
    <2>4. s \in Int /\ z \in Int /\ 1 <= s /\ ComputedRows(i, 2, TRUE) = s + 1 .. z
      BY <2>1, <2>3
    <2> HIDE DEF s, z
    <2>5. \A r \in s + 1 .. z : r \in Int /\ 2 <= r
      BY <2>4
    <2>6. QED
      BY <2>4, <2>5
  <1> HIDE DEF last, ov
  <1>5. common \subseteq 2 .. last
    <2> SUFFICES ASSUME NEW r \in common PROVE r \in 2 .. last
      OBVIOUS
    <2>1. r \in 1 .. last
      BY <1>3
    <2>2. r \in Int /\ 2 <= r
      BY <1>4
    <2>3. QED
      BY <1>2, <2>1, <2>2
  <1> HIDE DEF common
  <1>6. IsFiniteSet(2 .. last) /\ Cardinality(2 .. last) = last - 1
    <2>1. Cardinality(2 .. last) = IF 2 > last THEN 0 ELSE last - 2 + 1
      BY <1>2, FS_Interval
    <2>2. QED
      BY <1>2, <2>1, FS_Interval
  <1>7. Cardinality(common) <= last - 1
    <2> DEFINE S == 2 .. last
    <2>1. common \subseteq S /\ IsFiniteSet(S) /\ Cardinality(S) = last - 1
      BY <1>5, <1>6
    <2> HIDE DEF S
    <2>2. Cardinality(common) <= Cardinality(S)
      BY <2>1, FS_Subset
    <2>3. QED
      BY <2>1, <2>2
  <1>8. Cardinality(common) = ov
    BY DEF common, ov
  <1>9. ov <= last - 1
    BY <1>7, <1>8
  <1>10. QED
    BY <1>2, <1>9

(***************************************************************************)
(* A row under the surface is computed by one block, or, with Scheme A, by *)
(* a block and the next one.                                               *)
(***************************************************************************)
LEMMA Holders ==
  ASSUME NEW i \in Infos, NEW e \in BOOLEAN, OverlapsInside(i, e),
         NEW row \in 1 .. i.nz - 1
  PROVE  LET holders == {m \in 1 .. Len(i.blocks) : row \in ComputedRows(i, m, e)}
         IN  \E k \in 1 .. Len(i.blocks) :
               \/ holders = {k}
               \/ e /\ k + 1 \in 1 .. Len(i.blocks) /\ holders = {k, k + 1}
  <1> DEFINE n == Len(i.blocks)
             last(m) == i.blocks[m].target_end_iz
             top(m) == TopOf(i, m, e)
             ov == i.overlap_rows
             Reached == {m \in 1 .. n : row <= last(m)}
             holders == {m \in 1 .. n : row \in ComputedRows(i, m, e)}
  <1>1. /\ n \in Nat /\ n >= 1 /\ n \in 1 .. n /\ row \in Int /\ 1 <= row
        /\ \A m \in 1 .. n : last(m) \in Int
        /\ ov \in Int /\ ov > 0 /\ ov < i.block_rows /\ i.block_rows \in Int
    <2>1. n \in Nat /\ n >= 1 /\ n \in 1 .. n
      BY BlockCount
    <2>2. i.nz \in Int /\ \A m \in 1 .. n : last(m) \in Int
      BY <2>1, BlockTypes
    <2>3. QED
      BY <2>1, <2>2, BlockTypes DEF OverlapsInside
  <1>2. n \in Reached
    <2>1. last(n) = i.nz - 1
      BY InfosAssumption DEF LastRow
    <2>2. QED
      BY <1>1, <2>1, BlockTypes
  <1>3. Reached \subseteq Nat
    BY <1>1
  <1>4. PICK k \in Reached : \A m \in Reached : k <= m
    BY <1>2, <1>3, Least
  <1>5. k \in 1 .. n /\ k \in Nat /\ row <= last(k)
        /\ \A m \in 1 .. n : m < k => last(m) < row
    BY <1>1, <1>4
  <1>6. \A m \in 1 .. n : top(m) \in Int
                         /\ (m \in holders <=> top(m) <= row /\ row <= last(m))
    <2> SUFFICES ASSUME NEW m \in 1 .. n
                 PROVE  top(m) \in Int
                        /\ (m \in holders <=> top(m) <= row /\ row <= last(m))
      OBVIOUS
    <2>1. ComputedRows(i, m, e) = top(m) .. last(m) /\ top(m) \in Int
      BY OverlapRows
    <2>2. m \in holders <=> row \in ComputedRows(i, m, e)
      OBVIOUS
    <2> HIDE DEF top, last, holders
    <2>3. QED
      BY <1>1, <2>1, <2>2
  <1>7. \A m \in 1 .. n : m # 1 => top(m) = last(m - 1) + 1 - (IF e THEN ov ELSE 0)
    BY DEF TopOf
  <1>8. top(1) = 1
    BY DEF TopOf
  <1>9. \A m \in 1 .. n, j \in 1 .. n :
          j < m => last(j) < last(m) /\ (m < n => last(j) + i.block_rows <= last(m))
    BY EndsGrow
  <1> HIDE DEF top, last, ov
  <1>10. k \in holders
    <2>1. CASE k = 1
      BY <1>1, <1>5, <1>6, <1>8, <2>1
    <2>2. CASE k # 1
      <3>1. k - 1 \in 1 .. n /\ k - 1 < k
        BY <1>1, <1>5, <2>2
      <3>2. last(k - 1) < row /\ last(k - 1) \in Int
        BY <1>1, <1>5, <3>1
      <3>3. top(k) <= row
        BY <1>1, <1>5, <1>7, <2>2, <3>2
      <3>4. QED
        BY <1>5, <1>6, <3>3
    <2>3. QED
      BY <2>1, <2>2
  <1>11. \A m \in holders : m = k \/ (e /\ m = k + 1)
    <2> SUFFICES ASSUME NEW m \in holders, m # k PROVE e /\ m = k + 1
      OBVIOUS
    <2>1. m \in 1 .. n /\ m \in Nat /\ top(m) <= row /\ row <= last(m)
          /\ top(m) \in Int
      BY <1>1, <1>6
    <2>2. k < m
      BY <1>1, <1>5, <2>1
    <2>3. m # 1 /\ m - 1 \in 1 .. n /\ m - 1 < n
      BY <1>1, <1>5, <2>1, <2>2
    <2>4. top(m) = last(m - 1) + 1 - (IF e THEN ov ELSE 0)
      BY <1>7, <2>1, <2>3
    <2>5. last(m - 1) \in Int /\ last(k) \in Int
      BY <1>1, <1>5, <2>3
    <2>6. CASE m - 1 = k
      <3>1. e
        BY <1>1, <1>5, <2>1, <2>4, <2>5, <2>6
      <3>2. QED
        BY <1>5, <2>1, <2>6, <3>1
    <2>7. CASE m - 1 # k
      <3>1. k < m - 1
        BY <1>5, <2>1, <2>2, <2>7
      <3>2. last(k) + i.block_rows <= last(m - 1)
        BY <1>5, <1>9, <2>3, <3>1
      <3>3. row < top(m)
        BY <1>1, <1>5, <2>4, <2>5, <3>2
      <3>4. QED
        BY <1>1, <2>1, <3>3
    <2>8. QED
      BY <2>6, <2>7
  <1>12. holders \subseteq 1 .. n
    OBVIOUS
  <1> HIDE DEF holders
  <1>13. CASE e /\ k + 1 \in holders
    <2>1. holders = {k, k + 1}
      BY <1>10, <1>11, <1>13
    <2>2. k + 1 \in 1 .. n
      BY <1>12, <1>13
    <2>3. QED
      BY <1>5, <1>13, <2>1, <2>2 DEF holders
  <1>14. CASE ~(e /\ k + 1 \in holders)
    <2>1. holders = {k}
      BY <1>10, <1>11, <1>14
    <2>2. QED
      BY <1>5, <2>1 DEF holders
  <1>15. QED
    BY <1>13, <1>14

(***************************************************************************)
(* What the upper of two neighbours is weighted with, the lower one is     *)
(* weighted with what is missing to one.                                   *)
(***************************************************************************)
LEMMA TopOfRows ==
  ASSUME NEW a \in Int, NEW z \in Int, a <= z
  PROVE  TopRow(a .. z) = a
  <1>1. \A q \in a .. z : a <= q
    OBVIOUS
  <1>2. \A r \in a .. z : (\A q \in a .. z : r <= q) => r = a
    OBVIOUS
  <1>3. a \in a .. z
    OBVIOUS
  <1>4. QED
    BY <1>1, <1>2, <1>3 DEF TopRow

LEMMA WeightOfShared ==
  ASSUME NEW a \in Int, NEW z \in Int, a <= z, NEW row \in a .. z
  PROVE  PreviousWeight(a .. z, row) \in Int
  <1> DEFINE n == Cardinality(a .. z)
  <1>1. n = z - a + 1 /\ n \in Nat
    BY FS_Interval
  <1>2. TopRow(a .. z) = a
    BY TopOfRows
  <1>3. CASE n = 1
    BY <1>3 DEF PreviousWeight, TaperUnits
  <1>4. CASE n # 1
    <2> DEFINE x == (row - a) * TaperUnits
    <2>1. x \in Int
      BY DEF TaperUnits
    <2>2. n - 1 \in Nat \ {0}
      BY <1>1, <1>4
    <2> HIDE DEF x, n
    <2>3. x \div (n - 1) \in Int
      <3> DEFINE d == n - 1
      <3>1. d \in Nat /\ d > 0
        BY <1>1, <2>2
      <3> HIDE DEF d
      <3>2. x \div d \in Int
        BY <2>1, <3>1
      <3>3. QED
        BY <3>2 DEF d
    <2>4. PreviousWeight(a .. z, row) = TaperUnits - (x \div (n - 1))
      BY <1>2, <1>4 DEF PreviousWeight, x, n
    <2>5. QED
      BY <2>3, <2>4 DEF TaperUnits
  <1>5. QED
    BY <1>3, <1>4

(***************************************************************************)
(* Every row under the surface is counted with total weight one when the   *)
(* blocks overlap: it is a row of one block, not tapered, or a row shared  *)
(* by two neighbours, whose weights are complementary.                     *)
(***************************************************************************)
THEOREM RowsCountOnce == StoreSpec => []OverlappedRowsCountOnce
  <1>1. StoreInv => OverlappedRowsCountOnce
    <2> SUFFICES ASSUME StoreInv, pc = "finalized", info.overlap_rows > 0,
                        NEW row \in 1 .. info.nz - 1
                 PROVE  CountedOnce(row)
      BY DEF OverlappedRowsCountOnce
    <2> DEFINE n == Len(info.blocks)
               holders == {m \in Blocks : row \in Rows(m)}
               sum == WeightSum(holders, row)
               one == TaperUnits * TaperUnits
    <2>1. info \in Infos /\ seam \in BOOLEAN /\ n \in Nat /\ n >= 2
          /\ PreviewAccepted
      BY BlockCount DEF StoreInv, SweepInv, Typed, Loops
    <2>2. OverlapsInside(info, seam)
      <3>1. CASE seam
        <4>1. 1 \in 1 .. n - 1 /\ 1 + 1 = 2
          BY <2>1
        <4>2. Cardinality(CommonRows(1)) = info.overlap_rows
          BY <2>1, <3>1, <4>1 DEF PreviewAccepted
        <4>3. seam = TRUE
          BY <2>1, <3>1
        <4>4. QED
          BY <2>1, <4>1, <4>2, <4>3, PreviewedOverlap DEF CommonRows, Rows
      <3>2. CASE ~seam
        BY <3>2 DEF OverlapsInside
      <3>3. QED
        BY <3>1, <3>2
    <2>3. PICK k \in 1 .. n :
            \/ holders = {k}
            \/ seam /\ k + 1 \in 1 .. n /\ holders = {k, k + 1}
      BY <2>1, <2>2, Holders DEF Rows, Blocks
    <2>4. \A m \in 1 .. n : m \in holders <=> row \in Rows(m)
      BY DEF Blocks
    <2> HIDE DEF holders
    <2>5. k \in Nat /\ k >= 1 /\ n \in Nat /\ one = 144 /\ TaperUnits = 12
      BY <2>1 DEF TaperUnits
    <2>6. ASSUME NEW m \in 1 .. n, m + 1 \notin holders
          PROVE  UpperTaper(m, row) = TaperUnits
      <3>1. m < n => m + 1 \in 1 .. n
        BY <2>1
      <3>2. m < n => row \notin Rows(m + 1)
        BY <2>4, <2>6, <3>1
      <3>3. QED
        BY <3>2 DEF UpperTaper, CommonRows
    <2>7. ASSUME NEW m \in 1 .. n, m - 1 \notin holders
          PROVE  LowerTaper(m, row) = TaperUnits
      <3>1. m > 1 => m - 1 \in 1 .. n /\ (m - 1) + 1 = m
        BY <2>1
      <3>2. m > 1 => row \notin Rows(m - 1)
        BY <2>4, <2>7, <3>1
      <3>3. QED
        BY <3>2 DEF LowerTaper, CommonRows
    <2>8. CASE holders = {k}
      <3>1. k + 1 \notin holders /\ k - 1 \notin holders
        BY <2>5, <2>8
      <3>2. UpperTaper(k, row) = 12 /\ LowerTaper(k, row) = 12
        BY <2>5, <2>6, <2>7, <3>1
      <3>3. Weight(k, row) = 144
        BY <2>5, <3>2 DEF Weight
      <3>4. sum = Weight(k, row)
        <4>1. holders \subseteq {k, k} /\ Weight(k, row) \in Int
          BY <2>8, <3>3
        <4>2. QED
          BY <2>8, <4>1, SumOfFew
      <3>5. QED
        BY <2>5, <3>3, <3>4 DEF CountedOnce, WeightSum, holders
    <2>9. CASE seam /\ k + 1 \in 1 .. n /\ holders = {k, k + 1}
      <3> DEFINE w == PreviousWeight(CommonRows(k), row)
      <3>1. k - 1 \notin holders /\ (k + 1) + 1 \notin holders
            /\ (k + 1) - 1 = k /\ k < n /\ k + 1 > 1 /\ k # k + 1
        BY <2>5, <2>9
      <3>2. row \in CommonRows(k)
        BY <2>4, <2>9 DEF CommonRows
      <3>3. w \in Int
        <4> DEFINE last == info.blocks[k].target_end_iz
                   first == last + 1 - info.overlap_rows
        <4>1. seam = TRUE /\ OverlapsInside(info, TRUE)
          BY <2>1, <2>2, <2>9
        <4>2. /\ last \in Int /\ info.overlap_rows \in Int
              /\ CommonRows(k) = first .. last
          BY <2>1, <2>9, <4>1, SharedRowsAreTheOverlap DEF CommonRows, Rows
        <4>3. first \in Int /\ first <= last
          BY <4>2
        <4> HIDE DEF first, last
        <4>4. QED
          BY <3>2, <4>2, <4>3, WeightOfShared
      <3>4. /\ UpperTaper(k, row) = w /\ LowerTaper(k, row) = 12
        BY <2>5, <2>7, <3>1, <3>2 DEF UpperTaper
      <3>5. /\ UpperTaper(k + 1, row) = 12
            /\ LowerTaper(k + 1, row) = 12 - w
        BY <2>5, <2>6, <2>9, <3>1, <3>2 DEF LowerTaper
      <3> HIDE DEF w
      <3>6. /\ Weight(k, row) = w * 12
            /\ Weight(k + 1, row) = 12 * (12 - w)
        BY <2>9, <3>4, <3>5 DEF Weight
      <3>7. sum = Weight(k, row) + Weight(k + 1, row)
        <4>1. Weight(k, row) \in Int /\ Weight(k + 1, row) \in Int
          BY <3>3, <3>6
        <4>2. holders \subseteq {k, k + 1}
          BY <2>9
        <4>3. QED
          BY <2>9, <3>1, <4>1, <4>2, SumOfFew
      <3>8. Weight(k, row) + Weight(k + 1, row) = 144
        BY <3>3, <3>6
      <3>9. QED
        BY <2>5, <3>7, <3>8 DEF CountedOnce, WeightSum, holders
    <2>10. QED
      BY <2>3, <2>8, <2>9
  <1>2. QED
    BY <1>1, Invariance, PTL
=============================================================================
