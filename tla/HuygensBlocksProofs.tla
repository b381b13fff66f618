------------------------- MODULE HuygensBlocksProofs -------------------------
(***************************************************************************)
(* Proofs about the depth decomposition, for models of any depth and every *)
(* block file, edited or not.                                              *)
(***************************************************************************)
EXTENDS HuygensBlocksProperties, TLAPS

(***************************************************************************)
(* The constructors give values of their types.                            *)
(***************************************************************************)
LEMMA NumbersAreInt == Numbers \subseteq Int
  BY MaxNzAssumption DEF Numbers

LEMMA RequestFields ==
  ASSUME NEW r \in Request
  PROVE  /\ r.nz \in Nat /\ r.first_block_rows \in Int
         /\ r.block_rows \in Int /\ r.overlap_rows \in Int
  <1>1. /\ r.nz \in 1 .. MaxNz /\ r.first_block_rows \in Numbers
        /\ r.block_rows \in Numbers /\ r.overlap_rows \in Numbers
    BY DEF Request
  <1>2. /\ r.first_block_rows \in Int /\ r.block_rows \in Int
        /\ r.overlap_rows \in Int
    BY <1>1, NumbersAreInt
  <1>3. r.nz \in Nat
    BY <1>1, MaxNzAssumption
  <1>4. QED
    BY <1>2, <1>3

LEMMA MakeBlockType ==
  ASSUME NEW a \in Int, NEW b \in Int, NEW c \in Int, NEW d \in Int
  PROVE  /\ MakeBlock(a, b, c, d) \in Block
         /\ MakeBlock(a, b, c, d).source_iz = a
         /\ MakeBlock(a, b, c, d).target_start_iz = b
         /\ MakeBlock(a, b, c, d).target_end_iz = c
         /\ MakeBlock(a, b, c, d).halo_end_iz = d
  BY DEF MakeBlock, Block

LEMMA NextBlockType ==
  ASSUME NEW i, i.nz \in Int, i.block_rows \in Int, i.overlap_rows \in Int,
         NEW p \in Int
  PROVE  /\ NextBlock(i, p) \in Block
         /\ NextBlock(i, p).source_iz = Higher(1, p - i.overlap_rows)
         /\ NextBlock(i, p).target_start_iz = p + 1
         /\ NextBlock(i, p).target_end_iz = Lower(i.nz - 1, p + i.block_rows)
         /\ NextBlock(i, p).halo_end_iz
              = HaloEnd(i, Lower(i.nz - 1, p + i.block_rows))
  <1> DEFINE last == Lower(i.nz - 1, p + i.block_rows)
             source == Higher(1, p - i.overlap_rows)
             halo == HaloEnd(i, last)
  <1>1. last \in Int /\ source \in Int
    BY DEF Lower, Higher
  <1>2. halo \in Int
    BY <1>1 DEF HaloEnd, Lower
  <1>3. NextBlock(i, p) = MakeBlock(source, p + 1, last, halo)
    BY DEF NextBlock
  <1>4. p + 1 \in Int
    OBVIOUS
  <1> HIDE DEF last, source, halo
  <1>5. /\ NextBlock(i, p) \in Block
        /\ NextBlock(i, p).source_iz = source
        /\ NextBlock(i, p).target_start_iz = p + 1
        /\ NextBlock(i, p).target_end_iz = last
        /\ NextBlock(i, p).halo_end_iz = halo
    BY <1>1, <1>2, <1>3, <1>4 DEF MakeBlock, Block
  <1>6. QED
    BY <1>5 DEF last, source, halo

LEMMA FirstBlockType ==
  ASSUME NEW r \in Request
  PROVE  /\ FirstBlock(r) \in Block
         /\ FirstBlock(r).source_iz = 0
         /\ FirstBlock(r).target_start_iz = 0
         /\ FirstBlock(r).target_end_iz = r.first_block_rows - 1
         /\ FirstBlock(r).halo_end_iz = HaloEnd(r, r.first_block_rows - 1)
  <1>1. r.first_block_rows - 1 \in Int
    BY RequestFields
  <1>2. HaloEnd(r, r.first_block_rows - 1) \in Int
    BY <1>1, RequestFields DEF HaloEnd, Lower
  <1>3. QED
    BY <1>1, <1>2, MakeBlockType DEF FirstBlock

LEMMA InfoFields ==
  ASSUME NEW i \in BlockInfo
  PROVE  /\ i.nz \in Int /\ i.block_rows \in Int /\ i.overlap_rows \in Int
         /\ i.first_block_rows \in Int /\ i.nblock \in Int
         /\ i.blocks \in Seq(Block)
  BY DEF BlockInfo

LEMMA WithBlocksType ==
  ASSUME NEW i \in BlockInfo, NEW bs \in Seq(Block)
  PROVE  /\ WithBlocks(i, bs) \in BlockInfo
         /\ WithBlocks(i, bs).blocks = bs
         /\ WithBlocks(i, bs).nz = i.nz
         /\ WithBlocks(i, bs).block_rows = i.block_rows
         /\ WithBlocks(i, bs).overlap_rows = i.overlap_rows
         /\ WithBlocks(i, bs).first_block_rows = i.first_block_rows
  BY DEF WithBlocks, BlockInfo

LEMMA HeaderType ==
  ASSUME NEW r, r.nz \in Int, r.block_rows \in Int, r.overlap_rows \in Int,
         r.first_block_rows \in Int, NEW n \in Int
  PROVE  /\ Header(r, n) \in BlockInfo
         /\ Header(r, n).blocks = << >>
         /\ Header(r, n).nz = r.nz
         /\ Header(r, n).block_rows = r.block_rows
         /\ Header(r, n).overlap_rows = r.overlap_rows
         /\ Header(r, n).first_block_rows = r.first_block_rows
  BY DEF Header, BlockInfo

LEMMA NoInfoType == NoInfo \in BlockInfo
  BY DEF NoInfo, BlockInfo

LEMMA BlockFields ==
  ASSUME NEW bs \in Seq(Block), NEW k \in 1 .. Len(bs)
  PROVE  /\ bs[k] \in Block
         /\ bs[k].source_iz \in Int /\ bs[k].target_start_iz \in Int
         /\ bs[k].target_end_iz \in Int /\ bs[k].halo_end_iz \in Int
  <1>1. bs[k] \in Block
    OBVIOUS
  <1>2. QED
    BY <1>1 DEF Block

(***************************************************************************)
(* Types are preserved.                                                    *)
(***************************************************************************)
LEMMA EditsType ==
  ASSUME NEW b \in Block, NEW c \in Edits(b)
  PROVE  c \in Block
  <1>1. /\ b.source_iz \in Int /\ b.target_start_iz \in Int
        /\ b.target_end_iz \in Int /\ b.halo_end_iz \in Int
    BY DEF Block
  <1>2. \E v \in Numbers :
          \/ c = MakeBlock(v, b.target_start_iz, b.target_end_iz, b.halo_end_iz)
          \/ c = MakeBlock(b.source_iz, v, b.target_end_iz, b.halo_end_iz)
          \/ c = MakeBlock(b.source_iz, b.target_start_iz, v, b.halo_end_iz)
          \/ c = MakeBlock(b.source_iz, b.target_start_iz, b.target_end_iz, v)
    BY DEF Edits
  <1>3. Numbers \subseteq Int
    BY NumbersAreInt
  <1>4. QED
    BY <1>1, <1>2, <1>3 DEF MakeBlock, Block

LEMMA CutType ==
  ASSUME NEW bs \in Seq(Block), bs # << >>, NEW cs \in CutNumber(bs)
  PROVE  cs \in Seq(Block)
  <1> DEFINE n == Len(bs)
  <1>1. n \in 1 .. Len(bs)
    OBVIOUS
  <1>2. PICK cut \in Numbers :
          cs = [bs EXCEPT ![n] = MakeBlock(bs[n].source_iz,
                  bs[n].target_start_iz, bs[n].target_end_iz, cut)]
    BY DEF CutNumber
  <1>3. MakeBlock(bs[n].source_iz, bs[n].target_start_iz,
                  bs[n].target_end_iz, cut) \in Block
    BY <1>1, BlockFields, NumbersAreInt, MakeBlockType
  <1>4. QED
    BY <1>2, <1>3

LEMMA TypedStep ==
  ASSUME Typed, Next,
         pc = "append" => info.blocks # << >>, pc = "request" => checked = 0
  PROVE  Typed'
  <1>0. /\ request \in Request /\ info \in BlockInfo /\ file \in BlockInfo
        /\ info.blocks \in Seq(Block) /\ file.blocks \in Seq(Block)
        /\ checked \in 0 .. Len(info.blocks)
    BY InfoFields DEF Typed
  <1>1. CASE RefuseRequest
    BY <1>1 DEF RefuseRequest, Typed
  <1>2. CASE BuildFirstBlock
    <2>1. Header(request, 0) \in BlockInfo
      BY <1>0, RequestFields, HeaderType
    <2>2. <<FirstBlock(request)>> \in Seq(Block)
      BY <1>0, FirstBlockType
    <2>3. info' \in BlockInfo /\ info'.blocks = <<FirstBlock(request)>>
      BY <1>2, <2>1, <2>2, WithBlocksType DEF BuildFirstBlock
    <2>4. QED
      BY <1>2, <2>3 DEF BuildFirstBlock, Typed
  <1>3. CASE AppendBlock
    <2>1. LastRow(info) \in Int
      BY <1>0, <1>3, BlockFields DEF AppendBlock, LastRow
    <2>2. NextBlock(info, LastRow(info)) \in Block
      BY <1>0, <2>1, InfoFields, NextBlockType
    <2>3. Append(info.blocks, NextBlock(info, LastRow(info))) \in Seq(Block)
      BY <1>0, <2>2
    <2>4. /\ info' \in BlockInfo
          /\ info'.blocks
               = Append(info.blocks, NextBlock(info, LastRow(info)))
      BY <1>0, <1>3, <2>3, WithBlocksType DEF AppendBlock
    <2>5. checked' \in 0 .. Len(info'.blocks)
      BY <1>0, <1>3, <2>2, <2>4 DEF AppendBlock
    <2>6. QED
      BY <1>3, <2>4, <2>5 DEF AppendBlock, Typed
  <1>4. CASE ValidateMade
    BY <1>0, <1>4 DEF ValidateMade, Typed
  <1>5. CASE AcceptBlock
    BY <1>0, <1>5 DEF AcceptBlock, Typed
  <1>6. CASE RejectBlock
    BY <1>0, <1>6 DEF RejectBlock, Typed
  <1>7. CASE WriteHeader
    <2>1. file' \in BlockInfo
      BY <1>0, <1>7, RequestFields, HeaderType DEF WriteHeader
    <2>2. QED
      BY <1>7, <2>1 DEF WriteHeader, Typed
  <1>8. CASE WriteBlock
    <2>1. info.blocks[Len(file.blocks) + 1] \in Block
      BY <1>0, <1>8, BlockFields DEF WriteBlock
    <2>2. Append(file.blocks, info.blocks[Len(file.blocks) + 1]) \in Seq(Block)
      BY <1>0, <2>1
    <2>3. file' \in BlockInfo
      BY <1>0, <1>8, <2>2, WithBlocksType DEF WriteBlock
    <2>4. QED
      BY <1>8, <2>3 DEF WriteBlock, Typed
  <1>9. CASE CloseFile
    BY <1>9 DEF CloseFile, Typed
  <1>10. CASE Tear
    <2>1. file' \in BlockInfo
      <3>1. CASE file' = NoInfo
        BY <3>1, NoInfoType
      <3>2. CASE file' = file
        BY <1>0, <3>2
      <3>3. CASE /\ file.blocks # << >>
                 /\ \E blocks \in CutNumber(file.blocks) :
                      file' = WithBlocks(file, blocks)
        BY <1>0, <3>3, CutType, WithBlocksType
      <3>4. QED
        BY <1>10, <3>1, <3>2, <3>3 DEF Tear
    <2>2. QED
      BY <1>10, <2>1 DEF Tear, Typed
  <1>11. CASE EditFile
    <2>1. file' \in BlockInfo
      <3>1. ASSUME NEW k \in 1 .. Len(file.blocks),
                   NEW b \in Edits(file.blocks[k]),
                   file' = WithBlocks(file, [file.blocks EXCEPT ![k] = b])
            PROVE  file' \in BlockInfo
        <4>1. b \in Block
          BY <1>0, BlockFields, EditsType
        <4>2. [file.blocks EXCEPT ![k] = b] \in Seq(Block)
          BY <1>0, <4>1
        <4>3. QED
          BY <1>0, <3>1, <4>2, WithBlocksType
      <3>2. ASSUME NEW v \in Numbers, NEW r,
                   r.nz \in Int, r.block_rows \in Int, r.overlap_rows \in Int,
                   r.first_block_rows \in Int,
                   file' = WithBlocks(Header(r, file.nblock), file.blocks)
            PROVE  file' \in BlockInfo
        <4>1. Header(r, file.nblock) \in BlockInfo
          BY <1>0, <3>2, InfoFields, HeaderType
        <4>2. QED
          BY <1>0, <3>2, <4>1, WithBlocksType
      <3>3. /\ file.nz \in Int /\ file.block_rows \in Int
            /\ file.overlap_rows \in Int /\ file.first_block_rows \in Int
        BY <1>0, InfoFields
      <3> DEFINE Rows(v) ==
                   [nz |-> file.nz, block_rows |-> v,
                    overlap_rows |-> file.overlap_rows,
                    first_block_rows |-> file.first_block_rows]
                 Overlap(v) ==
                   [nz |-> file.nz, block_rows |-> file.block_rows,
                    overlap_rows |-> v,
                    first_block_rows |-> file.first_block_rows]
      <3>4. ASSUME NEW v \in Numbers
            PROVE  /\ Rows(v).nz \in Int /\ Rows(v).block_rows \in Int
                   /\ Rows(v).overlap_rows \in Int
                   /\ Rows(v).first_block_rows \in Int
                   /\ Overlap(v).nz \in Int /\ Overlap(v).block_rows \in Int
                   /\ Overlap(v).overlap_rows \in Int
                   /\ Overlap(v).first_block_rows \in Int
        BY <3>3, NumbersAreInt
      <3>5. \/ \E k \in 1 .. Len(file.blocks) :
                 \E b \in Edits(file.blocks[k]) :
                   file' = WithBlocks(file, [file.blocks EXCEPT ![k] = b])
            \/ \E v \in Numbers :
                 \/ file' = WithBlocks(Header(Rows(v), file.nblock),
                                       file.blocks)
                 \/ file' = WithBlocks(Header(Overlap(v), file.nblock),
                                       file.blocks)
        BY <1>11 DEF EditFile
      <3> HIDE DEF Rows, Overlap
      <3>6. QED
        BY <3>1, <3>2, <3>4, <3>5
    <2>2. QED
      BY <1>11, <2>1 DEF EditFile, Typed
  <1>12. CASE ReadFile
    BY <1>0, <1>12 DEF ReadFile, Typed
  <1>13. CASE AcceptFile
    BY <1>13 DEF AcceptFile, Typed
  <1>14. CASE Ended
    BY <1>14 DEF Ended, vars, Typed
  <1>15. QED
    BY <1>1, <1>2, <1>3, <1>4, <1>5, <1>6, <1>7, <1>8, <1>9, <1>10, <1>11,
       <1>12, <1>13, <1>14 DEF Next
(***************************************************************************)
(* What make_block_info has appended.                                      *)
(***************************************************************************)
LEMMA SameHeader ==
  ASSUME NEW i, NEW r, NEW p,
         i.nz = r.nz, i.block_rows = r.block_rows,
         i.overlap_rows = r.overlap_rows
  PROVE  /\ NextBlock(i, p) = NextBlock(r, p)
         /\ \A last : HaloEnd(i, last) = HaloEnd(r, last)
  BY DEF NextBlock, HaloEnd

\* Every block made ends in the model, not above row 2, with its halo.
LEMMA MadeBlocks ==
  ASSUME Typed, MadeFromRequest, NEW k \in 1 .. Len(info.blocks)
  PROVE  /\ info.blocks[k].target_end_iz \in 2 .. request.nz - 1
         /\ InsideModel(info, info.blocks[k])
         /\ info.blocks[k].halo_end_iz
              = HaloEnd(request, info.blocks[k].target_end_iz)
         /\ k > 1 => info.blocks[k].source_iz >= 1
  <1> DEFINE b == info.blocks[k]
             p == info.blocks[k - 1].target_end_iz
  <1>0. /\ request.nz \in Nat /\ request.first_block_rows \in Int
        /\ request.block_rows \in Int /\ request.overlap_rows \in Int
        /\ info.nz = request.nz
    BY RequestFields DEF Typed, MadeFromRequest
  <1>1. /\ 3 <= request.first_block_rows
        /\ request.first_block_rows < request.nz
        /\ 2 <= request.block_rows /\ 0 <= request.overlap_rows
        /\ request.overlap_rows < request.block_rows
        /\ request.overlap_rows <= request.first_block_rows - 2
    BY DEF MadeFromRequest, RequestAllowed, OverlapAllowed
  <1>2. CASE k = 1
    <2>1. /\ b.source_iz = 0 /\ b.target_start_iz = 0
          /\ b.target_end_iz = request.first_block_rows - 1
          /\ b.halo_end_iz = HaloEnd(request, request.first_block_rows - 1)
      BY <1>2, FirstBlockType DEF MadeFromRequest, Typed
    <2> HIDE DEF b
    <2>2. InsideModel(info, b)
      BY <1>0, <1>1, <2>1 DEF InsideModel, HaloEnd, Lower
    <2>3. QED
      BY <1>0, <1>1, <1>2, <2>1, <2>2 DEF b
  <1>3. CASE k > 1
    <2>1. k \in 2 .. Len(info.blocks)
      BY <1>3
    <2>2. p \in 0 .. request.nz - 2 /\ b = NextBlock(request, p)
      BY <2>1 DEF MadeFromRequest
    <2>3. p \in Int
      BY <1>0, <2>2
    <2> HIDE DEF b, p
    <2>a. request.nz \in Int
      BY <1>0
    <2>b. /\ NextBlock(request, p).source_iz
                = Higher(1, p - request.overlap_rows)
          /\ NextBlock(request, p).target_start_iz = p + 1
          /\ NextBlock(request, p).target_end_iz
                = Lower(request.nz - 1, p + request.block_rows)
          /\ NextBlock(request, p).halo_end_iz
                = HaloEnd(request, Lower(request.nz - 1, p + request.block_rows))
      BY <1>0, <2>3, <2>a, NextBlockType, Zenon
    <2>4. /\ b.source_iz = Higher(1, p - request.overlap_rows)
          /\ b.target_start_iz = p + 1
          /\ b.target_end_iz = Lower(request.nz - 1, p + request.block_rows)
          /\ b.halo_end_iz = HaloEnd(request, b.target_end_iz)
      BY <2>2, <2>b
    <2>5. /\ b.target_end_iz \in 2 .. request.nz - 1
          /\ p + 1 <= b.target_end_iz
      <3>1. /\ request.nz \in Int /\ request.block_rows \in Int
            /\ 4 <= request.nz /\ 2 <= request.block_rows
            /\ 0 <= p /\ p <= request.nz - 2
        BY <1>0, <1>1, <2>2
      <3>2. \/ b.target_end_iz = request.nz - 1
            \/ b.target_end_iz = p + request.block_rows
                 /\ p + request.block_rows <= request.nz - 1
        BY <2>3, <2>4, <3>1 DEF Lower
      <3>3. QED
        BY <2>3, <3>1, <3>2
    <2>6. b.source_iz \in Int /\ b.source_iz >= 1
      BY <1>0, <2>3, <2>4 DEF Higher
    <2>7. /\ b.target_end_iz <= b.halo_end_iz
          /\ b.halo_end_iz < request.nz
      BY <1>0, <2>4, <2>5 DEF HaloEnd, Lower
    <2>8. InsideModel(info, b)
      BY <1>0, <2>2, <2>4, <2>5, <2>6, <2>7 DEF InsideModel
    <2>9. QED
      BY <2>4, <2>5, <2>6, <2>8 DEF b
  <1>4. QED
    BY <1>2, <1>3

LEMMA MadeRows ==
  ASSUME Typed, MadeFromRequest
  PROVE  /\ info.blocks # << >>
         /\ LastRow(info) \in 2 .. info.nz - 1
  <1>1. Len(info.blocks) \in 1 .. Len(info.blocks)
    BY InfoFields DEF Typed, MadeFromRequest
  <1>2. QED
    BY <1>1, MadeBlocks, InfoFields DEF LastRow, MadeFromRequest, Typed

\* The validator accepts each block the maker made.
LEMMA MadeBlockIsValid ==
  ASSUME Typed, MadeFromRequest, NEW k \in 1 .. Len(info.blocks)
  PROVE  BlockValid(info, k)
  <1> DEFINE b == info.blocks[k]
             q == info.blocks[k - 1]
             p == q.target_end_iz
  <1>0. /\ request.nz \in Nat /\ request.first_block_rows \in Int
        /\ request.block_rows \in Int /\ request.overlap_rows \in Int
        /\ info.nz = request.nz /\ info.overlap_rows = request.overlap_rows
        /\ info.block_rows = request.block_rows
        /\ 0 <= request.overlap_rows
    BY RequestFields
    DEF Typed, MadeFromRequest, RequestAllowed, OverlapAllowed
  <1>1. /\ b.target_end_iz \in 2 .. request.nz - 1
        /\ InsideModel(info, b)
        /\ b.halo_end_iz = HaloEnd(info, b.target_end_iz)
        /\ k > 1 => b.source_iz >= 1
    BY <1>0, MadeBlocks, SameHeader
  <1>2. k = 1 => b.source_iz = 0 /\ b.target_start_iz = 0
    BY FirstBlockType DEF MadeFromRequest, Typed
  <1>3. ASSUME k > 1
        PROVE  /\ b = NextBlock(info, p)
               /\ b.source_iz + 1 <= q.halo_end_iz
    <2>1. k \in 2 .. Len(info.blocks) /\ k - 1 \in 1 .. Len(info.blocks)
      BY <1>3, InfoFields DEF Typed
    <2>2. p \in 0 .. request.nz - 2 /\ b = NextBlock(request, p)
      BY <2>1 DEF MadeFromRequest
    <2>3. b = NextBlock(info, p)
      BY <1>0, <2>2, SameHeader
    <2>4. /\ p \in 2 .. request.nz - 1
          /\ q.halo_end_iz = HaloEnd(request, p)
      BY <2>1, MadeBlocks
    <2>5. p \in Int
      BY <1>0, <2>2
    <2> HIDE DEF b, q, p
    <2>a. request.nz \in Int
      BY <1>0
    <2>b. NextBlock(request, p).source_iz = Higher(1, p - request.overlap_rows)
      BY <1>0, <2>5, <2>a, NextBlockType, Zenon
    <2>6. b.source_iz = Higher(1, p - request.overlap_rows)
      BY <2>2, <2>b
    <2>7. b.source_iz + 1 <= q.halo_end_iz
      BY <1>0, <2>2, <2>4, <2>5, <2>6 DEF Higher, HaloEnd, Lower
    <2>8. QED
      BY <2>3, <2>7
  <1> HIDE DEF b, q, p
  <1>4. b.target_end_iz >= 2
    BY <1>0, <1>1
  <1>5. QED
    BY <1>1, <1>2, <1>3, <1>4 DEF BlockValid, b, q, p

-----------------------------------------------------------------------------
(***************************************************************************)
(* The inductive invariant, part by part.                                  *)
(***************************************************************************)
LEMMA TypeFromMaking == Typed /\ Making => TypeOK
  BY MadeRows, InfoFields DEF TypeOK, Typed, Making

\* The first block is the one of the request.
LEMMA MadeFirst ==
  ASSUME Typed, BuildFirstBlock
  PROVE  MadeFromRequest'
  <1>1. request \in Request /\ RequestAllowed(request) /\ request' = request
    BY DEF BuildFirstBlock, Typed
  <1>2. Header(request, 0) \in BlockInfo
        /\ Header(request, 0).nz = request.nz
        /\ Header(request, 0).block_rows = request.block_rows
        /\ Header(request, 0).overlap_rows = request.overlap_rows
        /\ Header(request, 0).first_block_rows = request.first_block_rows
    BY <1>1, RequestFields, HeaderType
  <1>3. <<FirstBlock(request)>> \in Seq(Block)
    BY <1>1, FirstBlockType
  <1>4. /\ info'.blocks = <<FirstBlock(request)>>
        /\ info'.nz = request.nz
        /\ info'.block_rows = request.block_rows
        /\ info'.overlap_rows = request.overlap_rows
        /\ info'.first_block_rows = request.first_block_rows
    BY <1>2, <1>3, WithBlocksType DEF BuildFirstBlock
  <1>5. QED
    BY <1>1, <1>4 DEF MadeFromRequest

\* A block is appended under the last one as long as a row is left.
LEMMA MadeNext ==
  ASSUME Typed, MadeFromRequest, AppendBlock
  PROVE  MadeFromRequest'
  <1> DEFINE bs == info.blocks
             n == Len(info.blocks)
             b == NextBlock(info, LastRow(info))
  <1>1. /\ info \in BlockInfo /\ bs \in Seq(Block) /\ n \in Nat /\ n >= 1
        /\ request \in Request
    BY InfoFields DEF Typed, MadeFromRequest
  <1>2. LastRow(info) = bs[n].target_end_iz
    BY DEF LastRow
  <1>3. LastRow(info) \in 0 .. request.nz - 2
    BY <1>1, MadeRows, RequestFields DEF AppendBlock, MadeFromRequest
  <1>4. b = NextBlock(request, LastRow(info))
    BY SameHeader DEF MadeFromRequest
  <1>5. b \in Block
    BY <1>1, <1>3, InfoFields, RequestFields, NextBlockType
  <1>6. Append(bs, b) \in Seq(Block)
    BY <1>1, <1>5
  <1>7. /\ info'.blocks = Append(bs, b)
        /\ info'.nz = info.nz /\ info'.block_rows = info.block_rows
        /\ info'.overlap_rows = info.overlap_rows
        /\ info'.first_block_rows = info.first_block_rows
        /\ request' = request
    BY <1>1, <1>6, WithBlocksType DEF AppendBlock
  <1> HIDE DEF b, n
  <1>8. /\ Len(info'.blocks) = n + 1
        /\ \A k \in 1 .. n : info'.blocks[k] = bs[k]
        /\ info'.blocks[n + 1] = b
    BY <1>1, <1>5, <1>7 DEF n
  <1>9. ASSUME NEW k \in 2 .. Len(info'.blocks)
        PROVE  /\ info'.blocks[k - 1].target_end_iz \in 0 .. request.nz - 2
               /\ info'.blocks[k]
                    = NextBlock(request, info'.blocks[k - 1].target_end_iz)
    <2>1. CASE k = n + 1
      <3>1. info'.blocks[k - 1] = bs[n]
        BY <1>1, <1>8, <2>1
      <3>2. QED
        BY <1>2, <1>3, <1>4, <1>8, <2>1, <3>1
    <2>2. CASE k # n + 1
      <3>1. k \in 2 .. n /\ k - 1 \in 1 .. n
        BY <1>1, <1>8, <2>2
      <3>2. QED
        BY <1>8, <3>1 DEF MadeFromRequest, n
    <2>3. QED
      BY <2>1, <2>2
  <1>10. info'.blocks[1] = FirstBlock(request) /\ Len(info'.blocks) >= 1
    BY <1>1, <1>8 DEF MadeFromRequest
  <1>11. QED
    BY <1>7, <1>9, <1>10 DEF MadeFromRequest

LEMMA MakingStep ==
  ASSUME Typed, Making, Next
  PROVE  Making'
  <1>1. CASE BuildFirstBlock
    BY <1>1, MadeFirst DEF BuildFirstBlock, Making
  <1>2. CASE AppendBlock
    BY <1>2, MadeNext DEF AppendBlock, Making
  <1>3. CASE ValidateMade
    <2>1. MadeFromRequest
      BY <1>3 DEF ValidateMade, Making
    <2>2. LastRow(info) = info.nz - 1
      BY <1>3, <2>1, MadeRows, InfoFields DEF ValidateMade, Typed
    <2>3. UNCHANGED <<request, info>>
          /\ (pc' = "validate" => HeaderValid(info))
          /\ pc' \in {"validate", "self_rejected"}
      BY <1>3 DEF ValidateMade
    <2>4. QED
      BY <2>1, <2>2, <2>3 DEF Making, MadeFromRequest, LastRow, HeaderValid
  <1>4. ASSUME UNCHANGED <<request, info>>,
               pc' = pc \/ (pc = "validate" /\ pc' = "write")
                 \/ pc' \notin {"append", "validate", "write"}
        PROVE  Making'
    BY <1>4 DEF Making, MadeFromRequest, LastRow, HeaderValid
  <1>5. CASE RefuseRequest
    BY <1>4, <1>5 DEF RefuseRequest
  <1>6. CASE AcceptBlock
    BY <1>4, <1>6 DEF AcceptBlock
  <1>7. CASE RejectBlock
    BY <1>4, <1>7 DEF RejectBlock
  <1>8. CASE WriteHeader
    BY <1>4, <1>8 DEF WriteHeader
  <1>9. CASE WriteBlock
    BY <1>4, <1>9 DEF WriteBlock
  <1>10. CASE CloseFile
    BY <1>4, <1>10 DEF CloseFile
  <1>11. CASE Tear
    BY <1>4, <1>11 DEF Tear
  <1>12. CASE EditFile
    BY <1>4, <1>12 DEF EditFile
  <1>13. CASE ReadFile
    BY <1>13 DEF ReadFile, Making
  <1>14. CASE AcceptFile
    BY <1>4, <1>14 DEF AcceptFile
  <1>15. CASE Ended
    BY <1>4, <1>15 DEF Ended, vars
  <1>16. QED
    BY <1>1, <1>2, <1>3, <1>5, <1>6, <1>7, <1>8, <1>9, <1>10, <1>11, <1>12,
       <1>13, <1>14, <1>15 DEF Next

\* What the maker made has a header the validator accepts.
LEMMA MadeHeaderIsValid ==
  ASSUME Typed, MadeFromRequest, LastRow(info) = info.nz - 1
  PROVE  HeaderValid(info)
  <1>1. /\ request.nz \in Nat /\ request.first_block_rows \in Int
        /\ 3 <= request.first_block_rows
        /\ request.first_block_rows < request.nz
        /\ info.nz = request.nz /\ 2 <= info.block_rows
        /\ info.blocks \in Seq(Block)
    BY RequestFields, InfoFields
    DEF Typed, MadeFromRequest, RequestAllowed
  <1>2. OverlapAllowed(info)
    BY DEF MadeFromRequest, RequestAllowed, OverlapAllowed
  <1>3. Len(info.blocks) # 1
    <2>1. SUFFICES ASSUME Len(info.blocks) = 1 PROVE FALSE
      OBVIOUS
    <2>2. LastRow(info) = FirstBlock(request).target_end_iz
      BY <2>1 DEF LastRow, MadeFromRequest
    <2>3. LastRow(info) = request.first_block_rows - 1
      BY <2>2, FirstBlockType DEF Typed
    <2>4. QED
      BY <1>1, <2>3
  <1>4. 2 <= Len(info.blocks)
    <2>1. Len(info.blocks) \in Nat
      BY <1>1
    <2>2. Len(info.blocks) >= 1
      BY DEF MadeFromRequest
    <2>3. \A n \in Nat : n # 1 /\ n >= 1 => 2 <= n
      OBVIOUS
    <2>4. QED
      BY <1>3, <2>1, <2>2, <2>3
  <1>5. QED
    BY <1>1, <1>2, <1>4 DEF HeaderValid

LEMMA MakerStep ==
  ASSUME Typed, Making, MakerIsAccepted, Next
  PROVE  MakerIsAccepted'
  <1>1. ASSUME ValidateMade
        PROVE  HeaderValid(info)
    <2>1. MadeFromRequest /\ LastRow(info) >= info.nz - 1
      BY <1>1 DEF ValidateMade, Making
    <2>2. LastRow(info) = info.nz - 1
      BY <2>1, MadeRows, InfoFields DEF Typed
    <2>3. QED
      BY <2>1, <2>2, MadeHeaderIsValid
  <1>2. ASSUME RejectBlock, pc = "validate"
        PROVE  FALSE
    <2>1. MadeFromRequest /\ LastRow(info) = info.nz - 1
      BY <1>2 DEF Making
    <2>2. checked < Len(info.blocks) => checked + 1 \in 1 .. Len(info.blocks)
      BY InfoFields DEF Typed
    <2>3. QED
      BY <1>2, <2>1, <2>2, MadeBlockIsValid DEF RejectBlock
  <1>3. QED
    BY <1>1, <1>2
    DEF Next, MakerIsAccepted, RefuseRequest, BuildFirstBlock, AppendBlock,
        ValidateMade, AcceptBlock, RejectBlock, WriteHeader, WriteBlock,
        CloseFile, Tear, EditFile, ReadFile, AcceptFile, Ended, vars

LEMMA ValidatingStep ==
  ASSUME Typed, Validating, Next
  PROVE  Validating'
  <1>1. CASE ValidateMade \/ ReadFile
    <2>1. checked' = 0 /\ (pc' \in {"validate", "revalidate", "accepted"}
                             => HeaderValid(info'))
      BY <1>1 DEF ValidateMade, ReadFile
    <2>2. QED
      BY <2>1 DEF Validating, HeaderValid, OverlapAllowed
  <1>2. CASE AcceptBlock
    <2>1. checked' = checked + 1 /\ info' = info /\ HeaderValid(info)
          /\ \A k \in 1 .. checked : BlockValid(info, k)
      BY <1>2 DEF AcceptBlock, Validating
    <2>2. BlockValid(info, checked + 1)
      BY <1>2 DEF AcceptBlock
    <2>3. \A k \in 1 .. checked' : BlockValid(info, k)
      BY <2>1, <2>2, InfoFields DEF Typed
    <2>4. QED
      BY <2>1, <2>3 DEF Validating, HeaderValid, OverlapAllowed, BlockValid
  <1>3. CASE AcceptFile
    BY <1>3 DEF AcceptFile, Validating, HeaderValid, OverlapAllowed, BlockValid
  <1>4. CASE Ended
    BY <1>4 DEF Ended, vars, Validating, HeaderValid, OverlapAllowed, BlockValid
  <1>5. CASE ~(ValidateMade \/ ReadFile \/ AcceptBlock \/ AcceptFile \/ Ended)
    <2>1. pc' \notin {"validate", "revalidate", "accepted"}
      BY <1>5
      DEF Next, RefuseRequest, BuildFirstBlock, AppendBlock, RejectBlock,
          WriteHeader, WriteBlock, CloseFile, Tear, EditFile
    <2>2. QED
      BY <2>1 DEF Validating
  <1>6. QED
    BY <1>1, <1>2, <1>3, <1>4, <1>5

LEMMA StackedStep ==
  ASSUME Typed, Validating, Stacked, Next
  PROVE  Stacked'
  <1>1. CASE ReadFile
    BY <1>1 DEF ReadFile, Stacked
  <1>2. CASE AcceptBlock /\ pc = "revalidate"
    <2> DEFINE bs == info.blocks
               c == checked
    <2>1. /\ c \in Nat /\ c + 1 \in 1 .. Len(bs) /\ bs \in Seq(Block)
          /\ info.overlap_rows \in Int /\ info.nz \in Int
          /\ info.block_rows \in Int
          /\ checked' = c + 1 /\ info' = info /\ pc' = pc
      BY <1>2, InfoFields DEF AcceptBlock, Typed
    <2>2. BlockValid(info, c + 1) /\ \A k \in 1 .. c : BlockValid(info, k)
      BY <1>2 DEF AcceptBlock, Validating
    <2>3. \A k \in 1 .. c + 1 :
            /\ bs[k].target_start_iz \in Int /\ bs[k].target_end_iz \in Int
            /\ bs[k].target_start_iz <= bs[k].target_end_iz
      BY <2>1, <2>2, BlockFields DEF BlockValid, InsideModel
    <2>4. /\ \A j, k \in 1 .. c :
               j < k => bs[j].target_end_iz < bs[k].target_start_iz
          /\ c >= 1 => \A row \in 0 .. bs[c].target_end_iz :
               \E k \in 1 .. c : row \in OfficialRows(bs[k])
      BY <1>2 DEF Stacked
    <2>5. CASE c = 0
      <3>1. bs[1].target_start_iz = 0
        BY <2>2, <2>5 DEF BlockValid
      <3>2. \A row \in 0 .. bs[1].target_end_iz : row \in OfficialRows(bs[1])
        BY <3>1 DEF OfficialRows
      <3>3. QED
        BY <2>1, <2>5, <3>2 DEF Stacked, OfficialRows
    <2>6. CASE c >= 1
      <3>1. bs[c + 1] = NextBlock(info, bs[c].target_end_iz)
        BY <2>1, <2>2, <2>6 DEF BlockValid
      <3>2. bs[c].target_end_iz \in Int /\ c \in 1 .. c
        BY <2>1, <2>3, <2>6
      <3>3. bs[c + 1].target_start_iz = bs[c].target_end_iz + 1
        BY <3>1, <3>2 DEF NextBlock, MakeBlock
      <3>4. ASSUME NEW j \in 1 .. c + 1, NEW k \in 1 .. c + 1, j < k
            PROVE  bs[j].target_end_iz < bs[k].target_start_iz
        <4>1. CASE k <= c
          BY <2>1, <2>4, <3>4, <4>1
        <4>2. CASE k = c + 1 /\ j = c
          BY <3>2, <3>3, <4>2
        <4>3. CASE k = c + 1 /\ j < c
          <5>1. j \in 1 .. c
            BY <4>3, <2>1
          <5>2. bs[j].target_end_iz < bs[c].target_start_iz
            BY <2>4, <3>2, <4>3, <5>1
          <5>3. bs[c].target_start_iz <= bs[c].target_end_iz
                /\ bs[c].target_start_iz \in Int
            BY <2>1, <2>3, <3>2
          <5>4. bs[j].target_end_iz \in Int
            BY <2>3
          <5>5. QED
            BY <3>2, <3>3, <4>3, <5>2, <5>3, <5>4
        <4>4. QED
          BY <2>1, <3>4, <4>1, <4>2, <4>3
      <3>5. ASSUME NEW row \in 0 .. bs[c + 1].target_end_iz
            PROVE  \E k \in 1 .. c + 1 : row \in OfficialRows(bs[k])
        <4>1. CASE row <= bs[c].target_end_iz
          <5>1. row \in 0 .. bs[c].target_end_iz
            BY <3>2, <4>1, <2>1, <2>3
          <5>2. PICK k \in 1 .. c : row \in OfficialRows(bs[k])
            BY <2>4, <2>6, <5>1
          <5>3. k \in 1 .. c + 1
            BY <2>1
          <5>4. QED
            BY <5>2, <5>3
        <4>2. CASE row > bs[c].target_end_iz
          <5>1. row \in OfficialRows(bs[c + 1]) /\ c + 1 \in 1 .. c + 1
            BY <2>1, <2>3, <3>2, <3>3, <4>2 DEF OfficialRows
          <5>2. QED
            BY <5>1
        <4>3. row \in Int
          BY <2>1, <2>3
        <4>4. QED
          BY <3>2, <4>1, <4>2, <4>3
      <3>6. QED
        BY <2>1, <3>4, <3>5 DEF Stacked, OfficialRows
    <2>7. QED
      BY <2>1, <2>5, <2>6
  <1>3. CASE AcceptFile
    BY <1>3 DEF AcceptFile, Stacked, OfficialRows
  <1>4. CASE Ended
    BY <1>4 DEF Ended, vars, Stacked, OfficialRows
  <1>5. CASE /\ ~(ReadFile \/ AcceptFile \/ Ended)
             /\ ~(AcceptBlock /\ pc = "revalidate")
    <2>1. pc' \notin {"revalidate", "accepted"}
      BY <1>5
      DEF Next, RefuseRequest, BuildFirstBlock, AppendBlock, ValidateMade,
          AcceptBlock, RejectBlock, WriteHeader, WriteBlock, CloseFile, Tear,
          EditFile
    <2>2. QED
      BY <2>1 DEF Stacked
  <1>6. QED
    BY <1>1, <1>2, <1>3, <1>4, <1>5

LEMMA EndingStep ==
  ASSUME Ending, Next
  PROVE  Ending'
  BY DEF Ending, Next, LastRow, RefuseRequest, BuildFirstBlock, AppendBlock,
     ValidateMade, AcceptBlock, RejectBlock, WriteHeader, WriteBlock,
     CloseFile, Tear, EditFile, ReadFile, AcceptFile, Ended, vars

(***************************************************************************)
(* The making, the reading and the validation of a block file keep the     *)
(* invariant, whatever the request, a crash or an edit.                    *)
(***************************************************************************)
THEOREM Invariance == Spec => []IInv
<1>1. Init => IInv
  <2> SUFFICES ASSUME Init PROVE IInv
    OBVIOUS
  <2>1. NoInfo.blocks = << >> /\ NoInfo \in BlockInfo
    BY NoInfoType DEF NoInfo
  <2>2. Typed
    BY <2>1 DEF Init, Typed
  <2>3. Making /\ Validating /\ Stacked /\ Ending /\ MakerIsAccepted
    BY DEF Init, Making, Validating, Stacked, Ending, MakerIsAccepted
  <2>4. QED
    BY <2>2, <2>3, TypeFromMaking DEF IInv
<1>2. IInv /\ [Next]_vars => IInv'
  <2> SUFFICES ASSUME IInv, [Next]_vars PROVE IInv'
    OBVIOUS
  <2>1. Typed /\ Making /\ Validating /\ Stacked /\ Ending /\ MakerIsAccepted
    BY DEF IInv, TypeOK
  <2>2. CASE UNCHANGED vars
    BY <2>2
    DEF vars, IInv, TypeOK, Typed, LastRow, Making, MadeFromRequest,
        HeaderValid, OverlapAllowed, Validating, BlockValid, Stacked,
        OfficialRows, Ending, MakerIsAccepted
  <2>3. CASE Next
    <3>1. pc = "append" => info.blocks # << >>
      BY <2>1, MadeRows DEF Making
    <3>2. pc = "request" => checked = 0
      BY <2>1 DEF Ending
    <3>3. Typed'
      BY <2>1, <2>3, <3>1, <3>2, TypedStep
    <3>4. Making'
      BY <2>1, <2>3, MakingStep
    <3>5. TypeOK'
      BY <3>3, <3>4, TypeFromMaking, PTL
    <3>6. Validating' /\ Stacked' /\ Ending' /\ MakerIsAccepted'
      BY <2>1, <2>3, ValidatingStep, StackedStep, EndingStep, MakerStep
    <3>7. QED
      BY <3>4, <3>5, <3>6 DEF IInv
  <2>4. QED
    BY <2>2, <2>3
<1>3. QED
  BY <1>1, <1>2, PTL DEF Spec

(***************************************************************************)
(* Every variable keeps its type, and the blocks being made stay in the    *)
(* model.                                                                  *)
(***************************************************************************)
THEOREM TypeCorrect == Spec => []TypeOK
BY Invariance, PTL DEF IInv

(***************************************************************************)
(* huygens_block_info accepts the blocks it made.                          *)
(***************************************************************************)
THEOREM MakerNeverRejects == Spec => []MakerIsAccepted
BY Invariance, PTL DEF IInv

(***************************************************************************)
(* The shape of an accepted decomposition, block by block.                 *)
(***************************************************************************)
LEMMA AcceptedBlocks ==
  ASSUME IInv, pc = "accepted", NEW k \in 1 .. Len(info.blocks)
  PROVE  LET b == info.blocks[k]
             p == info.blocks[k - 1].target_end_iz
         IN /\ b.source_iz \in Int /\ b.target_start_iz \in Int
            /\ b.target_end_iz \in Int /\ b.halo_end_iz \in Int
            /\ b.target_start_iz <= b.target_end_iz
            /\ b.target_end_iz <= b.halo_end_iz
            /\ b.halo_end_iz = HaloEnd(info, b.target_end_iz)
            /\ b.target_end_iz >= 2
            /\ k = 1 => b.source_iz = 0 /\ b.target_start_iz = 0
            /\ k > 1 => /\ k - 1 \in 1 .. Len(info.blocks)
                        /\ p \in Int /\ p >= 2 /\ p <= info.nz - 2
                        /\ b.source_iz = Higher(1, p - info.overlap_rows)
                        /\ b.target_start_iz = p + 1
                        /\ b.target_end_iz
                             = Lower(info.nz - 1, p + info.block_rows)
  <1> DEFINE b == info.blocks[k]
             q == info.blocks[k - 1]
  <1>0. /\ info.nz \in Int /\ info.block_rows \in Int
        /\ info.overlap_rows \in Int /\ info.blocks \in Seq(Block)
        /\ checked = Len(info.blocks)
        /\ \A j \in 1 .. Len(info.blocks) : BlockValid(info, j)
    BY InfoFields DEF IInv, TypeOK, Typed, Ending, Validating
  <1>1. ASSUME NEW j \in 1 .. Len(info.blocks)
        PROVE  /\ info.blocks[j].source_iz \in Int
               /\ info.blocks[j].target_start_iz \in Int
               /\ info.blocks[j].target_end_iz \in Int
               /\ info.blocks[j].halo_end_iz \in Int
               /\ info.blocks[j].target_start_iz <= info.blocks[j].target_end_iz
               /\ info.blocks[j].target_end_iz <= info.blocks[j].halo_end_iz
               /\ info.blocks[j].halo_end_iz < info.nz
    BY <1>0, BlockFields DEF BlockValid, InsideModel
  <1>2. ASSUME NEW j \in 1 .. Len(info.blocks)
        PROVE  info.blocks[j].target_end_iz >= 2
    <2>1. 1 \in 1 .. Len(info.blocks)
      BY <1>0
    <2>2. info.blocks[1].target_end_iz >= 2
      BY <1>0, <1>1, <2>1 DEF BlockValid
    <2>3. CASE j > 1
      <3>1. info.blocks[1].target_end_iz < info.blocks[j].target_start_iz
        BY <1>0, <2>1, <2>3 DEF IInv, Stacked
      <3>2. QED
        BY <1>1, <2>1, <2>2, <3>1
    <2>4. QED
      BY <2>2, <2>3
  <1>3. k = 1 => /\ b.source_iz = 0 /\ b.target_start_iz = 0
                 /\ b.halo_end_iz = HaloEnd(info, b.target_end_iz)
    BY <1>0 DEF BlockValid
  <1>4. ASSUME k > 1
        PROVE  /\ k - 1 \in 1 .. Len(info.blocks)
               /\ q.target_end_iz \in Int /\ q.target_end_iz >= 2
               /\ b = NextBlock(info, q.target_end_iz)
    <2>1. k - 1 \in 1 .. Len(info.blocks)
      BY <1>0, <1>4
    <2>2. q.target_end_iz \in Int /\ q.target_end_iz >= 2
      BY <1>1, <1>2, <2>1
    <2>3. b = NextBlock(info, q.target_end_iz)
      BY <1>0, <1>4 DEF BlockValid
    <2>4. QED
      BY <2>1, <2>2, <2>3
  <1>5. k > 1 =>
          /\ b.source_iz = Higher(1, q.target_end_iz - info.overlap_rows)
          /\ b.target_start_iz = q.target_end_iz + 1
          /\ b.target_end_iz
               = Lower(info.nz - 1, q.target_end_iz + info.block_rows)
          /\ b.halo_end_iz = HaloEnd(info, b.target_end_iz)
    BY <1>4 DEF NextBlock, MakeBlock
  <1>6. /\ b.source_iz \in Int /\ b.target_start_iz \in Int
        /\ b.target_end_iz \in Int /\ b.halo_end_iz \in Int
        /\ b.target_start_iz <= b.target_end_iz
        /\ b.target_end_iz <= b.halo_end_iz
        /\ b.halo_end_iz < info.nz
        /\ b.target_end_iz >= 2
    BY <1>1, <1>2
  <1>7. k > 1 => q.target_end_iz <= info.nz - 2
    <2> HIDE DEF b, q
    <2>1. QED
      BY <1>0, <1>4, <1>5, <1>6
  <1>8. k = 1 \/ k > 1
    BY <1>0
  <1>9. QED
    BY <1>3, <1>4, <1>5, <1>6, <1>7, <1>8

\* An accepted block with a successor is full: the bottom does not clip it.
LEMMA FullBlocks ==
  ASSUME IInv, pc = "accepted", NEW k \in 1 .. Len(info.blocks) - 1, k > 1
  PROVE  info.blocks[k].target_end_iz
           = info.blocks[k - 1].target_end_iz + info.block_rows
  <1> DEFINE te == info.blocks[k].target_end_iz
             p == info.blocks[k - 1].target_end_iz
  <1>0. info.nz \in Int /\ info.block_rows \in Int /\ Len(info.blocks) \in Nat
    BY InfoFields DEF IInv, TypeOK, Typed
  <1>1. k \in 1 .. Len(info.blocks) /\ k + 1 \in 1 .. Len(info.blocks)
        /\ (k + 1) - 1 = k
    BY <1>0
  <1>2. /\ te \in Int /\ p \in Int
        /\ te = Lower(info.nz - 1, p + info.block_rows)
    BY <1>1, AcceptedBlocks
  <1>3. te <= info.nz - 2
    BY <1>1, AcceptedBlocks
  <1> HIDE DEF te, p
  <1>4. te = p + info.block_rows
    BY <1>0, <1>2, <1>3 DEF Lower
  <1>5. QED
    BY <1>4 DEF te, p

(***************************************************************************)
(* Each row is in the official interval of exactly one accepted block, for *)
(* every depth of the model and every file.                                *)
(***************************************************************************)
THEOREM OfficialRowsPartition == Spec => []RowsArePartitioned
<1>1. IInv => RowsArePartitioned
  <2> SUFFICES ASSUME IInv, pc = "accepted", NEW row \in 0 .. request.nz - 1
               PROVE  \E k \in 1 .. Len(info.blocks) :
                        /\ row \in OfficialRows(info.blocks[k])
                        /\ \A j \in 1 .. Len(info.blocks) :
                             row \in OfficialRows(info.blocks[j]) => j = k
    BY DEF RowsArePartitioned
  <2> DEFINE bs == info.blocks
  <2>1. /\ info.nz = request.nz /\ checked = Len(bs)
        /\ bs[Len(bs)].target_end_iz = info.nz - 1
        /\ Len(bs) \in Nat /\ Len(bs) >= 2
        /\ request.nz \in Nat /\ row \in Int
    BY InfoFields, RequestFields
    DEF IInv, TypeOK, Typed, Ending, LastRow, Validating, HeaderValid
  <2>2. PICK k \in 1 .. Len(bs) : row \in OfficialRows(bs[k])
    BY <2>1 DEF IInv, Stacked
  <2>3. ASSUME NEW i \in 1 .. Len(bs), NEW j \in 1 .. Len(bs), i < j,
               row \in OfficialRows(bs[i]), row \in OfficialRows(bs[j])
        PROVE  FALSE
    <3>1. bs[i].target_end_iz < bs[j].target_start_iz
      BY <2>1, <2>3 DEF IInv, Stacked
    <3>2. bs[i].target_end_iz \in Int /\ bs[j].target_start_iz \in Int
      BY AcceptedBlocks
    <3>3. row <= bs[i].target_end_iz /\ bs[j].target_start_iz <= row
      BY <2>3 DEF OfficialRows
    <3>4. QED
      BY <2>1, <3>1, <3>2, <3>3
  <2>4. ASSUME NEW j \in 1 .. Len(bs), row \in OfficialRows(bs[j])
        PROVE  j = k
    <3>1. ~(j < k) /\ ~(k < j)
      BY <2>2, <2>3, <2>4
    <3>2. QED
      BY <3>1, <2>1
  <2>5. QED
    BY <2>2, <2>4
<1>2. QED
  BY Invariance, <1>1, PTL

\* What an accepted header allows.
LEMMA AcceptedHeader ==
  ASSUME IInv, pc = "accepted"
  PROVE  /\ info.nz \in Int /\ info.block_rows \in Int
         /\ info.overlap_rows \in Int /\ Len(info.blocks) \in Nat
         /\ 2 <= info.block_rows /\ 0 <= info.overlap_rows
         /\ info.overlap_rows < info.block_rows
  BY InfoFields
  DEF IInv, TypeOK, Typed, Validating, HeaderValid, OverlapAllowed

(***************************************************************************)
(* The block above always computes the row of the next datum.              *)
(***************************************************************************)
THEOREM DatumRowComputed == Spec => []DatumIsComputed
<1>1. IInv => DatumIsComputed
  <2> SUFFICES ASSUME IInv, pc = "accepted",
                      NEW k \in 1 .. Len(info.blocks) - 1
               PROVE  /\ info.blocks[k + 1].source_iz
                           \in TargetRows(ImagingBlock(info, k))
                      /\ info.blocks[k + 1].source_iz
                           \in TargetRows(SchemeABlock(info, k))
    BY DEF DatumIsComputed
  <2> DEFINE b == info.blocks[k]
             p == info.blocks[k - 1].target_end_iz
             s == info.blocks[k + 1].source_iz
             ov == info.overlap_rows
             rows == info.block_rows
             te == b.target_end_iz
  <2>0. /\ rows \in Int /\ ov \in Int /\ Len(info.blocks) \in Nat
        /\ 0 <= ov /\ ov < rows
    BY AcceptedHeader
  <2>1. /\ k \in 1 .. Len(info.blocks) /\ k + 1 \in 1 .. Len(info.blocks)
        /\ (k + 1) - 1 = k /\ k + 1 > 1
    BY <2>0
  <2>2. /\ b.source_iz \in Int /\ b.target_start_iz \in Int
        /\ te \in Int /\ b.halo_end_iz \in Int
        /\ te <= b.halo_end_iz /\ te >= 2
    BY <2>1, AcceptedBlocks
  <2>3. s = Higher(1, te - ov) /\ s \in Int
    BY <2>1, AcceptedBlocks
  <2>4. 1 <= s /\ s <= te
    <3> HIDE DEF te, s, ov, rows
    <3>1. QED
      BY <2>0, <2>2, <2>3 DEF Higher
  <2>5. CASE k = 1
    <3>1. TargetRows(ImagingBlock(info, k)) = 1 .. te
      BY <2>5 DEF TargetRows, ImagingBlock, MakeBlock
    <3>2. SchemeABlock(info, k) = ImagingBlock(info, k)
      BY <2>5 DEF SchemeABlock
    <3>3. s \in 1 .. te
      BY <2>2, <2>3, <2>4
    <3>4. QED
      BY <3>1, <3>2, <3>3
  <2>6. CASE k > 1
    <3>1. /\ p \in Int /\ p >= 2 /\ b.source_iz = Higher(1, p - ov)
          /\ b.target_start_iz = p + 1
      BY <2>1, <2>6, AcceptedBlocks
    <3>2. te = p + rows
      BY <2>6, FullBlocks
    <3>3. /\ b.target_start_iz <= s /\ s <= b.halo_end_iz
          /\ b.source_iz + 1 <= s
      <4> HIDE DEF te, s, ov, rows, p, b
      <4>1. p + 1 <= s
        BY <2>0, <2>2, <2>3, <3>1, <3>2 DEF Higher
      <4>2. b.source_iz + 1 <= p + 1
        BY <2>0, <3>1 DEF Higher
      <4>3. QED
        BY <2>2, <2>3, <2>4, <3>1, <4>1, <4>2
    <3>4. ImagingBlock(info, k) = b
      BY <2>6 DEF ImagingBlock
    <3>5. \/ TargetRows(SchemeABlock(info, k))
               = TargetRows(ImagingBlock(info, k))
          \/ TargetRows(SchemeABlock(info, k))
               = (b.source_iz + 1) .. b.halo_end_iz
      BY <3>4 DEF SchemeABlock, TargetRows, MakeBlock
    <3>6. /\ s \in b.target_start_iz .. b.halo_end_iz
          /\ s \in (b.source_iz + 1) .. b.halo_end_iz
      BY <2>2, <2>3, <3>3
    <3>7. QED
      BY <3>4, <3>5, <3>6 DEF TargetRows
  <2>7. QED
    BY <2>1, <2>5, <2>6
<1>2. QED
  BY Invariance, <1>1, PTL

(***************************************************************************)
(* No row belongs to two overlaps.                                         *)
(***************************************************************************)
THEOREM OverlapsNeverMeet == Spec => []OverlapsAreDisjoint
<1>1. IInv => OverlapsAreDisjoint
  <2> SUFFICES ASSUME IInv, pc = "accepted",
                      NEW k \in 1 .. Len(info.blocks) - 2
               PROVE  /\ SchemeABlock(info, k).halo_end_iz
                           < SchemeABlock(info, k + 2).target_start_iz
                      /\ info.blocks[k].target_end_iz
                           < info.blocks[k + 2].source_iz
    BY DEF OverlapsAreDisjoint
  <2> DEFINE b == info.blocks[k]
             c == info.blocks[k + 2]
             ov == info.overlap_rows
             rows == info.block_rows
             te == b.target_end_iz
             p == info.blocks[k + 1].target_end_iz
  <2>0. /\ rows \in Int /\ ov \in Int /\ Len(info.blocks) \in Nat
        /\ info.nz \in Int /\ 0 <= ov /\ ov < rows
    BY AcceptedHeader
  <2>1. /\ k \in 1 .. Len(info.blocks) /\ k + 1 \in 1 .. Len(info.blocks) - 1
        /\ k + 2 \in 1 .. Len(info.blocks)
        /\ (k + 1) - 1 = k /\ k + 1 > 1 /\ (k + 2) - 1 = k + 1 /\ k + 2 > 1
    BY <2>0
  <2>2. /\ te \in Int /\ b.halo_end_iz \in Int /\ te >= 2
        /\ b.halo_end_iz = HaloEnd(info, te)
    BY <2>1, AcceptedBlocks
  <2>3. p = te + rows
    BY <2>1, FullBlocks
  <2>4. /\ c.source_iz = Higher(1, p - ov) /\ c.target_start_iz = p + 1
        /\ c.source_iz \in Int
    BY <2>1, AcceptedBlocks
  <2>5. SchemeABlock(info, k).halo_end_iz \in {te, b.halo_end_iz}
    BY DEF SchemeABlock, ImagingBlock, MakeBlock
  <2>6. SchemeABlock(info, k + 2).target_start_iz
          = IF ov > 0 THEN c.source_iz + 1 ELSE p + 1
    BY <2>1, <2>4 DEF SchemeABlock, ImagingBlock, MakeBlock
  <2>7. te < c.source_iz
    <3> HIDE DEF te, ov, rows, p, b, c
    <3>1. QED
      BY <2>0, <2>2, <2>3, <2>4 DEF Higher
  <2>8. b.halo_end_iz <= (IF ov > 0 THEN te ELSE te + 1)
    <3> HIDE DEF te, rows, p, b, c
    <3>1. QED
      BY <2>0, <2>2 DEF HaloEnd, Lower
  <2>9. SchemeABlock(info, k).halo_end_iz
          < SchemeABlock(info, k + 2).target_start_iz
    <3> HIDE DEF te, ov, rows, p, b, c
    <3>1. CASE ov > 0
      BY <2>0, <2>2, <2>4, <2>5, <2>6, <2>7, <2>8, <3>1
    <3>2. CASE ~(ov > 0)
      <4>1. te + 1 < p + 1
        BY <2>0, <2>2, <2>3
      <4>2. b.halo_end_iz <= te + 1
        BY <2>8, <3>2
      <4>3. SchemeABlock(info, k + 2).target_start_iz = p + 1
        BY <2>6, <3>2
      <4>4. p \in Int
        BY <2>0, <2>2, <2>3
      <4>5. QED
        BY <2>2, <2>5, <4>1, <4>2, <4>3, <4>4
    <3>3. QED
      BY <3>1, <3>2
  <2>10. QED
    BY <2>7, <2>9
<1>2. QED
  BY Invariance, <1>1, PTL

(***************************************************************************)
(* A file nobody edited holds what was written, up to the point where it   *)
(* was torn.                                                               *)
(***************************************************************************)
LEMMA CutKeepsEnds ==
  ASSUME NEW bs \in Seq(Block), bs # << >>, NEW cs \in CutNumber(bs)
  PROVE  cs # << >> /\ cs[1].target_end_iz = bs[1].target_end_iz
  <1> DEFINE n == Len(bs)
  <1>1. PICK cut \in Numbers :
          cs = [bs EXCEPT ![n] = MakeBlock(bs[n].source_iz,
                  bs[n].target_start_iz, bs[n].target_end_iz, cut)]
    BY DEF CutNumber
  <1> DEFINE c == MakeBlock(bs[n].source_iz, bs[n].target_start_iz,
                            bs[n].target_end_iz, cut)
  <1>2. c.target_end_iz = bs[n].target_end_iz
    BY DEF MakeBlock
  <1>3. n \in Nat /\ n >= 1 /\ DOMAIN bs = 1 .. n
    OBVIOUS
  <1>4. cs[1] = IF n = 1 THEN c ELSE bs[1]
    BY <1>1, <1>3
  <1>5. cs # << >>
    BY <1>1, <1>3
  <1>6. QED
    BY <1>2, <1>4, <1>5

LEMMA UneditedStep ==
  ASSUME Typed, Making, Unedited, Next
  PROVE  Unedited'
  <1>0. /\ request \in Request /\ info \in BlockInfo /\ file \in BlockInfo
        /\ info.blocks \in Seq(Block) /\ file.blocks \in Seq(Block)
    BY InfoFields DEF Typed
  <1>1. CASE WriteHeader
    <2>1. /\ file'.nz = request.nz /\ file'.block_rows = request.block_rows
          /\ file'.overlap_rows = request.overlap_rows
          /\ file'.blocks = << >>
      BY <1>1 DEF WriteHeader, Header
    <2>2. QED
      BY <1>1, <2>1 DEF WriteHeader, Unedited, FileOfRequest
  <1>2. CASE WriteBlock
    <2> DEFINE n == Len(file.blocks)
    <2>1. /\ file' = WithBlocks(file, Append(file.blocks, info.blocks[n + 1]))
          /\ n < Len(info.blocks) /\ damage = "none" /\ damage' = "none"
          /\ pc' = "write" /\ pc = "write" /\ request' = request
      BY <1>2 DEF WriteBlock, Unedited
    <2>2. /\ file'.nz = file.nz /\ file'.block_rows = file.block_rows
          /\ file'.overlap_rows = file.overlap_rows
          /\ file'.nblock = file.nblock
          /\ file'.blocks = Append(file.blocks, info.blocks[n + 1])
      BY <2>1 DEF WithBlocks
    <2>3. info.blocks[1].target_end_iz = request.first_block_rows - 1
      BY <1>0, <2>1, FirstBlockType DEF Making, MadeFromRequest
    <2>4. ASSUME file.nblock >= 0
          PROVE  file'.blocks[1].target_end_iz = request.first_block_rows - 1
      <3>1. CASE file.blocks = << >>
        BY <2>2, <2>3, <3>1
      <3>2. CASE file.blocks # << >>
        <4>1. file'.blocks[1] = file.blocks[1]
          BY <1>0, <2>2, <3>2
        <4>2. QED
          BY <2>1, <2>4, <3>2, <4>1 DEF Unedited, FileOfRequest
      <3>3. QED
        BY <3>1, <3>2
    <2>5. QED
      BY <2>1, <2>2, <2>4 DEF Unedited, FileOfRequest
  <1>3. CASE Tear
    <2>2. pc' = "stored" /\ request' = request
      BY <1>3 DEF Tear
    <2>3. CASE file' = NoInfo
      BY <2>2, <2>3 DEF NoInfo, Unedited, FileOfRequest
    <2>4. CASE file' = file /\ damage # "edited"
      BY <2>2, <2>4 DEF Unedited, FileOfRequest
    <2>5. CASE /\ file.blocks # << >> /\ damage # "edited"
               /\ \E blocks \in CutNumber(file.blocks) :
                    file' = WithBlocks(file, blocks)
      <3>1. PICK blocks \in CutNumber(file.blocks) :
              file' = WithBlocks(file, blocks)
        BY <2>5
      <3>2. blocks[1].target_end_iz = file.blocks[1].target_end_iz
        BY <1>0, <2>5, CutKeepsEnds
      <3>3. /\ file'.nz = file.nz /\ file'.block_rows = file.block_rows
            /\ file'.overlap_rows = file.overlap_rows
            /\ file'.nblock = file.nblock /\ file'.blocks = blocks
        BY <3>1 DEF WithBlocks
      <3>4. QED
        BY <2>2, <2>5, <3>2, <3>3 DEF Unedited, FileOfRequest
    <2>6. damage # "edited"
      BY <1>3 DEF Tear, Unedited
    <2>7. QED
      BY <1>3, <2>3, <2>4, <2>5, <2>6 DEF Tear
  <1>4. CASE ReadFile
    BY <1>4 DEF ReadFile, Unedited, FileOfRequest
  <1>5. CASE AcceptFile
    BY <1>5 DEF AcceptFile, Unedited, FileOfRequest
  <1>6. CASE EditFile
    BY <1>6 DEF EditFile, Unedited
  <1>7. CASE AcceptBlock \/ RejectBlock
    BY <1>7 DEF AcceptBlock, RejectBlock, Unedited, FileOfRequest
  <1>8. CASE CloseFile \/ RefuseRequest \/ BuildFirstBlock \/ AppendBlock
             \/ ValidateMade
    BY <1>8 DEF CloseFile, RefuseRequest, BuildFirstBlock, AppendBlock,
       ValidateMade, Unedited, FileOfRequest
  <1>9. CASE Ended
    BY <1>9 DEF Ended, vars, Unedited, FileOfRequest
  <1>10. QED
    BY <1>1, <1>2, <1>3, <1>4, <1>5, <1>6, <1>7, <1>8, <1>9 DEF Next

(***************************************************************************)
(* A file that is accepted and was not edited holds all the blocks that    *)
(* make_block_info made, wherever a crash may have torn it.                *)
(***************************************************************************)
THEOREM TornFilesAreRejected == Spec => []UneditedFileIsWhole
<1>1. Init => Unedited
  BY DEF Init, Unedited, FileOfRequest, NoInfo
<1>2. IInv /\ Unedited /\ [Next]_vars => Unedited'
  <2>1. IInv => Typed /\ Making
    BY DEF IInv, TypeOK
  <2>2. UNCHANGED vars /\ Unedited => Unedited'
    BY DEF vars, Unedited, FileOfRequest
  <2>3. QED
    BY <2>1, <2>2, UneditedStep
<1>3. IInv /\ Unedited => UneditedFileIsWhole
  <2> SUFFICES ASSUME IInv, Unedited, pc = "accepted", damage # "edited"
               PROVE  /\ LastRow(info) = request.nz - 1
                      /\ info.blocks[1] = FirstBlock(request)
                      /\ \A k \in 2 .. Len(info.blocks) :
                           info.blocks[k]
                             = NextBlock(request,
                                         info.blocks[k - 1].target_end_iz)
    BY DEF UneditedFileIsWhole
  <2>1. /\ info = file /\ request \in Request /\ info \in BlockInfo
        /\ info.blocks \in Seq(Block)
        /\ Len(info.blocks) >= 2 /\ checked = Len(info.blocks)
        /\ LastRow(info) = info.nz - 1 /\ info.nz = request.nz
        /\ \A k \in 1 .. Len(info.blocks) : BlockValid(info, k)
    BY InfoFields
    DEF IInv, TypeOK, Typed, Validating, HeaderValid, Ending, Unedited
  <2>2. file.nblock >= 0
    BY <2>1 DEF Unedited
  <2>3. /\ info.block_rows = request.block_rows
        /\ info.overlap_rows = request.overlap_rows
        /\ info.blocks[1].target_end_iz = request.first_block_rows - 1
    BY <2>1, <2>2 DEF Unedited, FileOfRequest
  <2>4. info.blocks[1] = FirstBlock(request)
    <3> DEFINE b == info.blocks[1]
    <3>1. b \in Block /\ 1 \in 1 .. Len(info.blocks)
      BY <2>1, BlockFields
    <3>2. /\ b.source_iz = 0 /\ b.target_start_iz = 0
          /\ b.halo_end_iz = HaloEnd(info, b.target_end_iz)
      BY <2>1, <3>1 DEF BlockValid
    <3>3. HaloEnd(info, b.target_end_iz) = HaloEnd(request, b.target_end_iz)
      BY <2>1, <2>3, SameHeader
    <3> HIDE DEF b
    <3>4. b = MakeBlock(b.source_iz, b.target_start_iz, b.target_end_iz,
                        b.halo_end_iz)
      BY <3>1 DEF MakeBlock, Block
    <3>5. b.target_end_iz = request.first_block_rows - 1
      BY <2>3 DEF b
    <3>6. QED
      BY <3>2, <3>3, <3>4, <3>5 DEF FirstBlock, b
  <2>5. ASSUME NEW k \in 2 .. Len(info.blocks)
        PROVE  info.blocks[k]
                 = NextBlock(request, info.blocks[k - 1].target_end_iz)
    <3>1. k \in 1 .. Len(info.blocks) /\ k > 1
      BY <2>1
    <3>2. info.blocks[k] = NextBlock(info, info.blocks[k - 1].target_end_iz)
      BY <2>1, <3>1 DEF BlockValid
    <3>3. NextBlock(info, info.blocks[k - 1].target_end_iz)
            = NextBlock(request, info.blocks[k - 1].target_end_iz)
      BY <2>1, <2>3, SameHeader
    <3>4. QED
      BY <3>2, <3>3
  <2>6. QED
    BY <2>1, <2>4, <2>5
<1>4. QED
  BY Invariance, <1>1, <1>2, <1>3, PTL DEF Spec
=============================================================================
