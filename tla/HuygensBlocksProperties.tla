----------------------- MODULE HuygensBlocksProperties -----------------------
(***************************************************************************)
(* What must be true of a decomposition that a consumer has accepted,      *)
(* whoever wrote its file.                                                 *)
(***************************************************************************)
EXTENDS HuygensBlocks

(***************************************************************************)
(* Type invariant.  The blocks being made never leave the model.           *)
(***************************************************************************)
Typed ==
  /\ request \in Request
  /\ info \in BlockInfo
  /\ file \in BlockInfo
  /\ damage \in {"none", "torn", "edited"}
  /\ checked \in 0 .. Len(info.blocks)
  /\ pc \in {"request", "append", "validate", "write", "stored", "revalidate",
             "refused", "self_rejected", "file_rejected", "accepted"}

TypeOK ==
  /\ Typed
  /\ pc \in {"append", "validate", "write"} =>
       info.blocks # << >> /\ LastRow(info) < info.nz

(***************************************************************************)
(* huygens_block_info never throws on the blocks it made itself: whatever  *)
(* request passes the guards of make_block_info passes the validator.      *)
(***************************************************************************)
MakerIsAccepted == pc # "self_rejected"

(***************************************************************************)
(* A block file torn by a crash of the writer, in the middle of a line or  *)
(* between two lines, is never accepted as another decomposition: without  *)
(* edits the consumer gets the blocks that make_block_info made, all of    *)
(* them.                                                                   *)
(***************************************************************************)
UneditedFileIsWhole ==
  pc = "accepted" /\ damage # "edited" =>
    /\ LastRow(info) = request.nz - 1
    /\ info.blocks[1] = FirstBlock(request)
    /\ \A k \in 2 .. Len(info.blocks) :
         info.blocks[k] = NextBlock(request, info.blocks[k - 1].target_end_iz)

(***************************************************************************)
(* Each row of the model is in the official interval of exactly one block  *)
(* (program_help.hpp, huygens_block_info: the official output intervals    *)
(* are contiguous), also for an edited file.                               *)
(***************************************************************************)
OfficialRows(b) == b.target_start_iz .. b.target_end_iz

RowsArePartitioned ==
  pc = "accepted" =>
    \A row \in 0 .. request.nz - 1 :
      \E k \in 1 .. Len(info.blocks) :
        /\ row \in OfficialRows(info.blocks[k])
        /\ \A j \in 1 .. Len(info.blocks) :
             row \in OfficialRows(info.blocks[j]) => j = k

(***************************************************************************)
(* The datum of each block is a row the block above it computes, with      *)
(* Scheme A and without, so extract_next_boundary_batch, which returns     *)
(* silently when the row is missing, always refreshes the boundary field.  *)
(***************************************************************************)
DatumIsComputed ==
  pc = "accepted" =>
    \A k \in 1 .. Len(info.blocks) - 1 :
      /\ info.blocks[k + 1].source_iz \in TargetRows(ImagingBlock(info, k))
      /\ info.blocks[k + 1].source_iz \in TargetRows(SchemeABlock(info, k))

(***************************************************************************)
(* No row is computed by three blocks, so the raised-cosine tapers of two  *)
(* overlaps never meet, and no datum lies in the rows the block above it   *)
(* blends with its own predecessor.                                        *)
(***************************************************************************)
OverlapsAreDisjoint ==
  pc = "accepted" =>
    \A k \in 1 .. Len(info.blocks) - 2 :
      /\ SchemeABlock(info, k).halo_end_iz
           < SchemeABlock(info, k + 2).target_start_iz
      /\ info.blocks[k].target_end_iz < info.blocks[k + 2].source_iz

-----------------------------------------------------------------------------
(***************************************************************************)
(* The strengthening that makes these properties inductive: what the maker *)
(* has appended, and what the validation loop has accepted so far.         *)
(***************************************************************************)
\* The blocks in memory are those of the request, from the top.
MadeFromRequest ==
  /\ RequestAllowed(request)
  /\ info.nz = request.nz
  /\ info.block_rows = request.block_rows
  /\ info.overlap_rows = request.overlap_rows
  /\ info.first_block_rows = request.first_block_rows
  /\ Len(info.blocks) >= 1
  /\ info.blocks[1] = FirstBlock(request)
  /\ \A k \in 2 .. Len(info.blocks) :
       /\ info.blocks[k - 1].target_end_iz \in 0 .. request.nz - 2
       /\ info.blocks[k] = NextBlock(request, info.blocks[k - 1].target_end_iz)

Making ==
  /\ pc \in {"append", "validate", "write"} => MadeFromRequest
  /\ pc \in {"validate", "write"} =>
       LastRow(info) = info.nz - 1 /\ HeaderValid(info)

Validating ==
  pc \in {"validate", "revalidate", "accepted"} =>
    /\ HeaderValid(info)
    /\ \A k \in 1 .. checked : BlockValid(info, k)

\* The accepted blocks follow one another and leave no row out.
Stacked ==
  pc \in {"revalidate", "accepted"} =>
    /\ \A j, k \in 1 .. checked :
         j < k => info.blocks[j].target_end_iz < info.blocks[k].target_start_iz
    /\ checked >= 1 =>
         \A row \in 0 .. info.blocks[checked].target_end_iz :
           \E k \in 1 .. checked : row \in OfficialRows(info.blocks[k])

Ending ==
  /\ pc = "request" => checked = 0
  /\ pc \in {"revalidate", "accepted"} => info.nz = request.nz
  /\ pc = "accepted" =>
       checked = Len(info.blocks) /\ LastRow(info) = info.nz - 1

IInv ==
  /\ TypeOK
  /\ Making
  /\ Validating
  /\ Stacked
  /\ Ending
  /\ MakerIsAccepted

\* A file that is not edited has the header of the request or none, and its
\* first line, torn or not, ends the block where the request does.
FileOfRequest ==
  file.nblock >= 0 =>
    /\ file.nz = request.nz
    /\ file.block_rows = request.block_rows
    /\ file.overlap_rows = request.overlap_rows
    /\ file.blocks # << >> =>
         file.blocks[1].target_end_iz = request.first_block_rows - 1

Unedited ==
  /\ pc \in {"request", "append", "validate", "write"} => damage = "none"
  /\ damage # "edited" =>
       /\ FileOfRequest
       /\ pc \in {"revalidate", "accepted"} =>
            info = file /\ file.nblock = Len(file.blocks)
=============================================================================
