--------------------------- MODULE HuygensBlocks ---------------------------
(***************************************************************************)
(* The depth decomposition of the recursive sweep, from the request to the *)
(* consumer: make_block_info builds the blocks of a model with nz rows and *)
(* validates them, write_block_info stores them, line by line, in a text   *)
(* file, and read_block_info with the second validate_block_info, the one  *)
(* that knows the velocity model, accepts the file or throws               *)
(* (SERECKIRCH/src/huygens_sweep.cpp).  The file is written in place and   *)
(* read by another program, so a crash may tear it, and a user may edit    *)
(* it.  Then imaging_propagation_block and scheme_a_propagation_block give *)
(* the rows each accepted block computes (BlockGeometry).                  *)
(***************************************************************************)
EXTENDS BlockGeometry, FiniteSets

CONSTANT MaxNz  \* no model has more depth rows than this

ASSUME MaxNzAssumption == MaxNz \in Nat

VARIABLES
  request, \* nz and the three numbers given to huygens_block_info
  info,    \* the BlockInfo the running program holds
  file,    \* the block file
  damage,  \* what happened to the file: "none", "torn" or "edited"
  checked, \* blocks the validation loop has accepted
  pc

vars == <<request, info, file, damage, checked, pc>>

Numbers == -1 .. MaxNz

Request == [nz : 1 .. MaxNz, first_block_rows : Numbers,
            block_rows : Numbers, overlap_rows : Numbers]

-----------------------------------------------------------------------------
NoInfo == [nz |-> 0, block_rows |-> 0, overlap_rows |-> 0,
           first_block_rows |-> 0, nblock |-> -1, blocks |-> << >>]

Init ==
  /\ request \in Request
  /\ info = NoInfo
  /\ file = NoInfo
  /\ damage = "none"
  /\ checked = 0
  /\ pc = "request"

RefuseRequest ==
  /\ pc = "request"
  /\ ~RequestAllowed(request)
  /\ pc' = "refused"
  /\ UNCHANGED <<request, info, file, damage, checked>>

BuildFirstBlock ==
  /\ pc = "request"
  /\ RequestAllowed(request)
  /\ info' = WithBlocks(Header(request, 0), <<FirstBlock(request)>>)
  /\ pc' = "append"
  /\ UNCHANGED <<request, file, damage, checked>>

AppendBlock ==
  /\ pc = "append"
  /\ LastRow(info) < info.nz - 1
  /\ info' = WithBlocks(info,
                        Append(info.blocks, NextBlock(info, LastRow(info))))
  /\ UNCHANGED <<request, file, damage, checked, pc>>

\* make_block_info validates what it made before it returns it.
ValidateMade ==
  /\ pc = "append"
  /\ LastRow(info) >= info.nz - 1
  /\ checked' = 0
  /\ pc' = IF HeaderValid(info) THEN "validate" ELSE "self_rejected"
  /\ UNCHANGED <<request, info, file, damage>>

AcceptBlock ==
  /\ pc \in {"validate", "revalidate"}
  /\ checked < Len(info.blocks)
  /\ BlockValid(info, checked + 1)
  /\ checked' = checked + 1
  /\ UNCHANGED <<request, info, file, damage, pc>>

RejectBlock ==
  /\ pc \in {"validate", "revalidate"}
  /\ IF checked < Len(info.blocks)
     THEN ~BlockValid(info, checked + 1)
     ELSE LastRow(info) # info.nz - 1
  /\ pc' = IF pc = "validate" THEN "self_rejected" ELSE "file_rejected"
  /\ UNCHANGED <<request, info, file, damage, checked>>

\* write_block_info: the header, which announces the number of blocks.
WriteHeader ==
  /\ pc = "validate"
  /\ checked = Len(info.blocks) /\ LastRow(info) = info.nz - 1
  /\ file' = Header(request, Len(info.blocks))
  /\ pc' = "write"
  /\ UNCHANGED <<request, info, damage, checked>>

WriteBlock ==
  /\ pc = "write"
  /\ Len(file.blocks) < Len(info.blocks)
  /\ file' = WithBlocks(file,
       Append(file.blocks, info.blocks[Len(file.blocks) + 1]))
  /\ UNCHANGED <<request, info, damage, checked, pc>>

CloseFile ==
  /\ pc = "write"
  /\ Len(file.blocks) = Len(info.blocks)
  /\ pc' = "stored"
  /\ UNCHANGED <<request, info, file, damage, checked>>

\* The last number of the last line, halo_end_iz, loses digits.
CutNumber(blocks) ==
  LET n == Len(blocks)
  IN  {[blocks EXCEPT ![n] = MakeBlock(@.source_iz, @.target_start_iz,
                                       @.target_end_iz, cut)] :
         cut \in {v \in Numbers : 0 <= v /\ v < blocks[n].halo_end_iz}}

\* The writer dies with part of the text on disk: a torn header announces no
\* blocks, and a line that lacks a field is malformed, like a missing one.
Tear ==
  /\ pc = "write"
  /\ \/ /\ file.blocks = << >>
        /\ file' = NoInfo
     \/ file' = file
     \/ /\ file.blocks # << >>
        /\ \E blocks \in CutNumber(file.blocks) :
             file' = WithBlocks(file, blocks)
  /\ damage' = "torn"
  /\ pc' = "stored"
  /\ UNCHANGED <<request, info, checked>>

\* The blocks that differ from b in one number.
Edits(b) ==
  {MakeBlock(v, b.target_start_iz, b.target_end_iz, b.halo_end_iz) :
     v \in Numbers}
  \union {MakeBlock(b.source_iz, v, b.target_end_iz, b.halo_end_iz) :
            v \in Numbers}
  \union {MakeBlock(b.source_iz, b.target_start_iz, v, b.halo_end_iz) :
            v \in Numbers}
  \union {MakeBlock(b.source_iz, b.target_start_iz, b.target_end_iz, v) :
            v \in Numbers}

\* The block file is text: somebody changes a number in it.
EditFile ==
  /\ pc = "stored" /\ damage = "none"
  /\ \/ \E k \in 1 .. Len(file.blocks) :
          \E b \in Edits(file.blocks[k]) :
            file' = WithBlocks(file, [file.blocks EXCEPT ![k] = b])
     \/ \E v \in Numbers :
          \/ file' = WithBlocks(Header([nz |-> file.nz,
                block_rows |-> v, overlap_rows |-> file.overlap_rows,
                first_block_rows |-> file.first_block_rows], file.nblock),
                file.blocks)
          \/ file' = WithBlocks(Header([nz |-> file.nz,
                block_rows |-> file.block_rows, overlap_rows |-> v,
                first_block_rows |-> file.first_block_rows], file.nblock),
                file.blocks)
  /\ damage' = "edited"
  /\ UNCHANGED <<request, info, checked, pc>>

\* read_block_info counts the blocks and validates them; the consumer
\* validates them again against its velocity model.
ReadFile ==
  /\ pc = "stored"
  /\ info' = file
  /\ checked' = 0
  /\ pc' = IF /\ file.nblock = Len(file.blocks)
              /\ HeaderValid(file)
              /\ file.nz = request.nz
           THEN "revalidate" ELSE "file_rejected"
  /\ UNCHANGED <<request, file, damage>>

AcceptFile ==
  /\ pc = "revalidate"
  /\ checked = Len(info.blocks) /\ LastRow(info) = info.nz - 1
  /\ pc' = "accepted"
  /\ UNCHANGED <<request, info, file, damage, checked>>

\* The program has ended.
Ended ==
  /\ pc \in {"refused", "self_rejected", "file_rejected", "accepted"}
  /\ UNCHANGED vars

Next ==
  \/ RefuseRequest \/ BuildFirstBlock \/ AppendBlock \/ ValidateMade
  \/ AcceptBlock \/ RejectBlock
  \/ WriteHeader \/ WriteBlock \/ CloseFile
  \/ Tear \/ EditFile
  \/ ReadFile \/ AcceptFile
  \/ Ended

Spec == Init /\ [][Next]_vars
=============================================================================
