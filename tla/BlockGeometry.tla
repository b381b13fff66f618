--------------------------- MODULE BlockGeometry ---------------------------
(***************************************************************************)
(* The rows of the depth blocks, as SERECKIRCH/src/huygens_sweep.cpp makes *)
(* and validates them and as the imaging workflow propagates them.         *)
(*                                                                         *)
(* A block is its datum and its three row bounds; ids are the indices, and *)
(* start_iz, always equal to source_iz, is left out.                       *)
(***************************************************************************)
EXTENDS Integers, Sequences

Block == [source_iz : Int, target_start_iz : Int,
          target_end_iz : Int, halo_end_iz : Int]

BlockInfo == [nz : Int, block_rows : Int, overlap_rows : Int,
              first_block_rows : Int, nblock : Int, blocks : Seq(Block)]

Lower(a, b) == IF a < b THEN a ELSE b
Higher(a, b) == IF a > b THEN a ELSE b

MakeBlock(source, first, last, halo) ==
  [source_iz |-> source, target_start_iz |-> first,
   target_end_iz |-> last, halo_end_iz |-> halo]

\* The same header with other blocks.
WithBlocks(i, blocks) ==
  [nz |-> i.nz, block_rows |-> i.block_rows, overlap_rows |-> i.overlap_rows,
   first_block_rows |-> i.first_block_rows, nblock |-> i.nblock,
   blocks |-> blocks]

Header(r, n) ==
  [nz |-> r.nz, block_rows |-> r.block_rows, overlap_rows |-> r.overlap_rows,
   first_block_rows |-> r.first_block_rows, nblock |-> n, blocks |-> << >>]

-----------------------------------------------------------------------------
(***************************************************************************)
(* The bounds on the overlap, checked both by make_block_info and by       *)
(* validate_block_info.                                                    *)
(***************************************************************************)
\* Mutant: a whole block may be overlapped.
OverlapWholeBlock(r) ==
  /\ 0 <= r.overlap_rows
  /\ r.overlap_rows <= r.block_rows
  /\ r.overlap_rows <= r.first_block_rows - 2

\* Mutant: only the first block limits the overlap.
OverlapUnlimited(r) ==
  /\ 0 <= r.overlap_rows
  /\ r.overlap_rows <= r.first_block_rows - 2

OverlapAllowed(r) ==
  /\ 0 <= r.overlap_rows
  /\ r.overlap_rows < r.block_rows
  /\ r.overlap_rows <= r.first_block_rows - 2

\* Mutant: a first block of two rows is let through.
RequestAllowedTwoRows(r) ==
  /\ 2 <= r.first_block_rows /\ r.first_block_rows < r.nz
  /\ 2 <= r.block_rows
  /\ OverlapAllowed(r)

RequestAllowed(r) ==
  /\ 3 <= r.first_block_rows /\ r.first_block_rows < r.nz
  /\ 2 <= r.block_rows
  /\ OverlapAllowed(r)

\* The extra row kept when no overlap provides the row below the datum.
HaloEnd(i, last) ==
  Lower(i.nz - 1, last + (IF i.overlap_rows = 0 THEN 1 ELSE 0))

FirstBlock(r) ==
  LET last == r.first_block_rows - 1
  IN  MakeBlock(0, 0, last, HaloEnd(r, last))

\* Mutant: the bottom of the model does not clip the last block.
UnclippedBlock(i, previous_target_end) ==
  LET last == previous_target_end + i.block_rows
  IN  MakeBlock(Higher(1, previous_target_end - i.overlap_rows),
                previous_target_end + 1, last, HaloEnd(i, last))

\* The block below the row previous_target_end.
NextBlock(i, previous_target_end) ==
  LET last == Lower(i.nz - 1, previous_target_end + i.block_rows)
  IN  MakeBlock(Higher(1, previous_target_end - i.overlap_rows),
                previous_target_end + 1, last, HaloEnd(i, last))

LastRow(i) == i.blocks[Len(i.blocks)].target_end_iz

-----------------------------------------------------------------------------
(***************************************************************************)
(* validate_block_info: the header, then the blocks in order, then the     *)
(* bottom row.                                                             *)
(***************************************************************************)
HeaderValid(i) ==
  /\ 4 <= i.nz
  /\ 2 <= Len(i.blocks)
  /\ 2 <= i.block_rows
  /\ OverlapAllowed(i)

InsideModel(i, b) ==
  /\ 0 <= b.source_iz
  /\ 0 <= b.target_start_iz /\ b.target_start_iz <= b.target_end_iz
  /\ b.target_end_iz <= b.halo_end_iz /\ b.halo_end_iz < i.nz

\* Mutant: the halo is not checked.
BlockValidButHalo(i, k) ==
  LET b == i.blocks[k]
  IN  /\ k = 1 => /\ b.source_iz = 0 /\ b.target_start_iz = 0
                  /\ 2 <= b.target_end_iz
      /\ k > 1 =>
           LET previous == i.blocks[k - 1]
               expected == NextBlock(i, previous.target_end_iz)
           IN  /\ b.source_iz = expected.source_iz
               /\ b.target_start_iz = expected.target_start_iz
               /\ b.target_end_iz = expected.target_end_iz
               /\ 1 <= b.source_iz
               /\ b.source_iz + 1 <= previous.halo_end_iz

\* Mutant: adjacent blocks need not touch.
BlockValidWithGap(i, k) ==
  LET b == i.blocks[k]
  IN  /\ InsideModel(i, b)
      /\ k = 1 => /\ b.source_iz = 0 /\ b.target_start_iz = 0
                  /\ 2 <= b.target_end_iz
                  /\ b.halo_end_iz = HaloEnd(i, b.target_end_iz)
      /\ k > 1 =>
           LET previous == i.blocks[k - 1]
               expected == NextBlock(i, previous.target_end_iz)
           IN  /\ b.source_iz = expected.source_iz
               /\ b.target_end_iz = expected.target_end_iz
               /\ b.halo_end_iz = expected.halo_end_iz
               /\ 1 <= b.source_iz
               /\ b.source_iz + 1 <= previous.halo_end_iz

BlockValid(i, k) ==
  LET b == i.blocks[k]
  IN  /\ InsideModel(i, b)
      /\ k = 1 => /\ b.source_iz = 0 /\ b.target_start_iz = 0
                  /\ 2 <= b.target_end_iz
                  /\ b.halo_end_iz = HaloEnd(i, b.target_end_iz)
      /\ k > 1 =>
           LET previous == i.blocks[k - 1]
           IN  /\ b = NextBlock(i, previous.target_end_iz)
               /\ 1 <= b.source_iz
               /\ b.source_iz + 1 <= previous.halo_end_iz

-----------------------------------------------------------------------------
(***************************************************************************)
(* The rows an accepted block computes in the imaging workflow.            *)
(***************************************************************************)
\* imaging_propagation_block: block 0 is propagated from the surface row 0.
ImagingBlock(i, k) ==
  LET b == i.blocks[k]
  IN  IF k = 1
      THEN MakeBlock(b.source_iz, 1, b.target_end_iz, b.target_end_iz)
      ELSE b

\* Mutant: the rows start at the datum itself.
SchemeABlockFromDatum(i, k) ==
  LET b == ImagingBlock(i, k)
  IN  IF k > 1 /\ i.overlap_rows > 0
      THEN MakeBlock(b.source_iz, b.source_iz, b.target_end_iz, b.halo_end_iz)
      ELSE b

\* scheme_a_propagation_block, enabled: the rows under the datum as well.
SchemeABlock(i, k) ==
  LET b == ImagingBlock(i, k)
  IN  IF k > 1 /\ i.overlap_rows > 0
      THEN MakeBlock(b.source_iz, b.source_iz + 1, b.target_end_iz,
                     b.halo_end_iz)
      ELSE b

\* make_layer_geometry with a depth stride of one.
TargetRows(b) == b.target_start_iz .. b.halo_end_iz
=============================================================================
