-------------------------- MODULE MCReceiverSweep --------------------------
(***************************************************************************)
(* All the decompositions of a model of MCNz rows with blocks of two to    *)
(* four rows under a first block of three to five.                         *)
(***************************************************************************)
EXTENDS ReceiverSweepProperties, TLC

CONSTANT MCNz

MCRequests ==
  {r \in [nz : {MCNz}, first_block_rows : 3 .. 5, block_rows : 2 .. 4,
          overlap_rows : 0 .. 3] : RequestAllowed(r)}

RECURSIVE Stack(_, _)
Stack(r, blocks) ==
  LET last == blocks[Len(blocks)].target_end_iz
  IN  IF last = r.nz - 1 THEN blocks
      ELSE Stack(r, Append(blocks, NextBlock(r, last)))

MCInfos ==
  {LET blocks == Stack(r, <<FirstBlock(r)>>)
   IN  WithBlocks(Header(r, Len(blocks)), blocks) : r \in MCRequests}

WorkerSymmetry == Permutations(Loaders)
=============================================================================
