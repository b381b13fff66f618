--------------------------- MODULE ReceiverSweep ---------------------------
(***************************************************************************)
(* calculate_receiver_wavefields, the recursive receiver sweep of the      *)
(* imaging workflow (SERECKIRCH/src/global_bf_imaging_workflow.cpp): block *)
(* after block, frequency after frequency and shot after shot, the field   *)
(* at the datum is propagated to the rows of the block, blended over the   *)
(* overlap with the block above, cached for the overlap with the block     *)
(* below, written as a tile to the ReceiverBlockStore and sampled at the   *)
(* next datum.  The stage is sequential, but five buffers, each with its   *)
(* own index arithmetic and its own lifetime, carry the state from one     *)
(* block to the next.                                                      *)
(*                                                                         *)
(* A wavefield is abstracted to where it comes from: the block, row, shot  *)
(* and frequency that computed it.  The block file is one validate_block_  *)
(* info has accepted (HuygensBlocks), and the traveltime tables were made  *)
(* by travel_time_solver for this block file or for another one.           *)
(***************************************************************************)
EXTENDS BlockGeometry, FiniteSets, SequencesExt

CONSTANTS
  Infos,       \* the accepted block files
  Shots,       \* number of selected shots
  Frequencies, \* number of frequencies
  DepthChunks, \* the values of bpack_depth_chunk
  MaximumCachedGeometries  \* kMaximumCachedGeometries, 16 in the code

ASSUME InfosAssumption ==
  \A i \in Infos : /\ i \in BlockInfo
                   /\ HeaderValid(i)
                   /\ \A k \in 1 .. Len(i.blocks) : BlockValid(i, k)
                   /\ LastRow(i) = i.nz - 1

ASSUME SizesAssumption ==
  /\ Shots \in Nat \ {0} /\ Frequencies \in Nat \ {0}
  /\ DepthChunks \subseteq Nat \ {0}
  /\ MaximumCachedGeometries \in Nat \ {0}

Shot == 0 .. Shots - 1
Frequency == 0 .. Frequencies - 1

VARIABLES
  info,      \* the block file of the run
  seam,      \* seam_enable
  tables,    \* the block file the tables were made for ...
  overlap_in_tables,  \* ... and include_propagation_overlap
  depth_chunk,        \* bpack_depth_chunk
  iblock,    \* the block being propagated
  ifrequency, ishot,
  boundary,  \* states[shot]: the datum field of each frequency
  rhs,       \* rhs_inputs: the datum fields apply_many works on
  depth_begin, \* the first depth of the next chunk
  propagated,  \* the rows of propagated_depth_major that chunks have filled
  geometry_cache,   \* the trees acquire_reusable_geometry keeps, oldest first
  geometry_reused,  \* whether the last operator found its trees there
  previous_overlap, next_overlap,
  store,     \* the tiles written so far, block by block
  pc

config == <<info, seam, tables, overlap_in_tables, depth_chunk>>
chunkVars == <<depth_begin, propagated>>
geometryVars == <<geometry_cache, geometry_reused>>
vars == <<config, iblock, ifrequency, ishot, boundary, rhs, chunkVars,
          geometryVars, previous_overlap, next_overlap, store, pc>>

-----------------------------------------------------------------------------
\* Where a field comes from; block 0 is the surface record of the shot.
Field == [block : Nat, row : Int, shot : Shot, frequency : Frequency]
FieldAt(k, row, s, f) ==
  [block |-> k, row |-> row, shot |-> s, frequency |-> f]

NoField == [block |-> 0, row |-> -1, shot |-> 0, frequency |-> 0]
NoCache == [depths |-> {}, entries |-> << >>]

Blocks == 1 .. Len(info.blocks)
LastBlock == iblock = Len(info.blocks)

ComputedRows(i, k, enabled) ==
  TargetRows(IF enabled THEN SchemeABlock(i, k) ELSE ImagingBlock(i, k))

Rows(k) == ComputedRows(info, k, seam)

\* intersect_depths of two neighbours, precomputed for the weights and
\* recomputed in every block for the caches.
CommonRows(k) == Rows(k) \intersect Rows(k + 1)

\* The rows travel_time_solver tabulated for block k, 1 < k.
TableRows(k) == ComputedRows(tables, k, overlap_in_tables)

\* Mutant: the shape of the table is not compared.
TableUnchecked(k) == k <= Len(tables.blocks)

\* validate_one_way_layer_tables: the file exists and has the depth count of
\* the block.  Its other check compares the block with its own geometry.
TableAccepted(k) ==
  /\ k <= Len(tables.blocks)
  /\ Cardinality(TableRows(k)) = Cardinality(Rows(k))

\* ReceiverBlockStore: the record of a shot and frequency in a tile file.
Record(s, f) == f * Shots + s

\* Mutant: one entry for all frequencies of a shot.
CacheEntryOfShot(s, f) == s * Frequencies

\* OverlapCache::index.
CacheEntry(s, f) == s * Frequencies + f

\* Mutant: the last official row of the block.
TargetEndAsDatum(k) == info.blocks[k].target_end_iz

\* The row of block k that is the datum of the next block.
NextDatum(k) == info.blocks[k + 1].source_iz

Records == 0 .. Shots * Frequencies - 1

MakeOverlapCache(depths) ==
  [depths |-> depths, entries |-> [r \in Records |-> NoField]]

\* The first depth after the chunk (make_bpack_depth_chunks).
NextChunk == depth_begin + depth_chunk

LocalDepth(row) == Cardinality({q \in Rows(iblock) : q < row})

\* The rows of the chunk at depth_begin; the last chunk may be short.
ChunkRows ==
  {row \in Rows(iblock) :
     LocalDepth(row) \in depth_begin .. depth_begin + depth_chunk - 1}

\* The coordinates a tree is built for: rows of targets and the datum.
Geometry == [rows |-> ChunkRows, datum |-> info.blocks[iblock].source_iz]

\* Mutant: the newest geometry is evicted.
EvictNewest == Front(geometry_cache)

Evict == Tail(geometry_cache)

\* acquire_reusable_geometry: a match moves to the end, a new geometry takes
\* the place of the oldest.
AcquireGeometry ==
  LET hits == {i \in DOMAIN geometry_cache : geometry_cache[i] = Geometry}
  IN  /\ geometry_reused' = (hits # {})
      /\ \/ \E i \in hits :
              geometry_cache' =
                Append(RemoveAt(geometry_cache, i), geometry_cache[i])
         \/ /\ hits = {}
            /\ geometry_cache' =
                 Append(IF Len(geometry_cache) = MaximumCachedGeometries
                        THEN Evict ELSE geometry_cache, Geometry)

Init ==
  /\ info \in Infos
  /\ seam \in BOOLEAN
  /\ tables \in {i \in Infos : i.nz = info.nz}
  /\ overlap_in_tables \in BOOLEAN
  /\ iblock = 1 /\ ifrequency = 0 /\ ishot = 0
  /\ boundary = [s \in Shot |-> [f \in Frequency |-> FieldAt(0, 0, s, f)]]
  /\ depth_chunk \in DepthChunks
  /\ rhs = << >> /\ depth_begin = 0 /\ propagated = {}
  /\ geometry_cache = << >> /\ geometry_reused = FALSE
  /\ previous_overlap = NoCache /\ next_overlap = NoCache
  /\ store = << >>
  /\ pc = "preview"

-----------------------------------------------------------------------------
Fail ==
  /\ pc' = "failed"
  /\ UNCHANGED <<config, iblock, ifrequency, ishot, boundary, rhs, chunkVars,
                 geometryVars, previous_overlap, next_overlap, store>>

\* The configuration and, with Scheme A, the count of the shared rows.
PreviewAccepted ==
  seam => /\ info.overlap_rows > 0
          /\ \A k \in 1 .. Len(info.blocks) - 1 :
               Cardinality(CommonRows(k)) = info.overlap_rows

Preview ==
  /\ pc = "preview" /\ PreviewAccepted
  /\ pc' = "begin"
  /\ UNCHANGED <<config, iblock, ifrequency, ishot, boundary, rhs, chunkVars,
                 geometryVars, previous_overlap, next_overlap, store>>

RefusePreview == pc = "preview" /\ ~PreviewAccepted /\ Fail

\* Block 0 is propagated by phase shift, every other one with a table; the
\* cache must hold the rows shared with the block above.
BlockAccepted ==
  iblock > 1 =>
    /\ TableAccepted(iblock)
    /\ seam => previous_overlap.depths = CommonRows(iblock - 1)

BeginBlock ==
  /\ pc = "begin" /\ BlockAccepted
  /\ store' = Append(store, [r \in Records |-> << >>])
  /\ next_overlap' = IF seam /\ ~LastBlock
                     THEN MakeOverlapCache(CommonRows(iblock)) ELSE NoCache
  /\ ifrequency' = 0 /\ ishot' = 0
  /\ pc' = "propagate"
  /\ UNCHANGED <<config, iblock, boundary, rhs, chunkVars, geometryVars,
                 previous_overlap>>

RefuseBlock == pc = "begin" /\ ~BlockAccepted /\ Fail

\* The right-hand sides of all shots are copied before any shot is advanced.
Propagate ==
  /\ pc = "propagate"
  /\ IF iblock > 1
     THEN /\ rhs' = [s \in Shot |-> boundary[s][ifrequency]]
          /\ pc' = "chunk"
     ELSE rhs' = << >> /\ pc' = "post"
  /\ depth_begin' = 0 /\ propagated' = {}
  /\ UNCHANGED <<config, iblock, ifrequency, ishot, boundary, geometryVars,
                 previous_overlap, next_overlap, store>>

\* One operator is built, applied to the fields of all shots and destroyed,
\* and its rows are scattered into the block.
ApplyChunk ==
  /\ pc = "chunk"
  /\ AcquireGeometry
  /\ propagated' = propagated \union ChunkRows
  /\ depth_begin' = NextChunk
  /\ pc' = IF NextChunk < Cardinality(Rows(iblock)) THEN "chunk" ELSE "post"
  /\ UNCHANGED <<config, iblock, ifrequency, ishot, boundary, rhs,
                 previous_overlap, next_overlap, store>>

\* The propagated field of the shot, with the overlap it is blended with.
Tile ==
  [shot |-> ishot, frequency |-> ifrequency,
   rows |-> IF iblock > 1 THEN propagated ELSE Rows(iblock),
   datum |-> IF iblock > 1 THEN rhs[ishot] ELSE boundary[ishot][ifrequency],
   blended |-> IF seam /\ iblock > 1 /\ previous_overlap.depths # {}
               THEN previous_overlap.entries[CacheEntry(ishot, ifrequency)]
               ELSE NoField,
   blended_rows |-> IF seam /\ iblock > 1
                    THEN previous_overlap.depths \intersect Rows(iblock)
                    ELSE {}]

\* The field of all shared rows is cached, whatever the row.
StoreNextOverlap ==
  IF seam /\ next_overlap.depths # {}
  THEN next_overlap' =
         [next_overlap EXCEPT !.entries[CacheEntry(ishot, ifrequency)] =
            FieldAt(iblock, -1, ishot, ifrequency)]
  ELSE UNCHANGED next_overlap

\* extract_next_boundary_batch leaves the old field when the row is missing.
ExtractNextBoundary ==
  IF ~LastBlock /\ NextDatum(iblock) \in Rows(iblock)
  THEN boundary' =
         [boundary EXCEPT ![ishot][ifrequency] =
            FieldAt(iblock, NextDatum(iblock), ishot, ifrequency)]
  ELSE UNCHANGED boundary

\* Mutant: the shot loop goes one too far.
NextShotPastTheLast ==
  /\ ishot' = ishot + 1
  /\ ifrequency' = IF ishot = Shots - 1 THEN ifrequency + 1 ELSE ifrequency
  /\ pc' = IF ishot < Shots - 1 THEN "post"
           ELSE IF ifrequency < Frequencies - 1 THEN "propagate" ELSE "end"

NextShot ==
  IF ishot < Shots - 1
  THEN ishot' = ishot + 1 /\ pc' = "post" /\ UNCHANGED ifrequency
  ELSE /\ ishot' = 0
       /\ ifrequency' = ifrequency + 1
       /\ pc' = IF ifrequency < Frequencies - 1 THEN "propagate" ELSE "end"

\* One shot of the loop after the propagation of a frequency.  The second
\* condition is the check of store_next_overlap, which throws.
PostShot ==
  /\ pc = "post"
  /\ next_overlap.depths \subseteq Rows(iblock)
  /\ store' = [store EXCEPT ![iblock][Record(ishot, ifrequency)] = Tile]
  /\ StoreNextOverlap
  /\ ExtractNextBoundary
  /\ NextShot
  /\ UNCHANGED <<config, iblock, rhs, chunkVars, geometryVars,
                 previous_overlap>>

\* The cache of the overlap above is released, that of the overlap below moved.
EndBlock ==
  /\ pc = "end"
  /\ previous_overlap' = IF seam THEN next_overlap ELSE NoCache
  /\ next_overlap' = NoCache
  /\ rhs' = << >> /\ depth_begin' = 0 /\ propagated' = {}
  /\ iblock' = IF LastBlock THEN iblock ELSE iblock + 1
  /\ pc' = IF LastBlock THEN "finalized" ELSE "begin"
  /\ UNCHANGED <<config, ifrequency, ishot, boundary, geometryVars, store>>

\* The stage is over: the tiles are read from now on, or the program exits.
Ended == pc \in {"finalized", "failed"} /\ UNCHANGED vars

Next ==
  \/ Preview \/ RefusePreview
  \/ BeginBlock \/ RefuseBlock
  \/ Propagate \/ ApplyChunk \/ PostShot \/ EndBlock
  \/ Ended

Spec == Init /\ [][Next]_vars

-----------------------------------------------------------------------------
(***************************************************************************)
(* ReceiverBlockStore::load adds the tiles of one shot and frequency: the  *)
(* weight with which a row of each is added.  The raised cosine of the     *)
(* overlap, which falls from one to zero, is replaced by a line through    *)
(* the same ends, in units of 1 / TaperUnits.                              *)
(***************************************************************************)
TaperUnits == 12  \* divisible by two and by one less than each overlap

TopRow(rows) == CHOOSE r \in rows : \A q \in rows : r <= q

\* previous_weight on the rows two neighbours share.
PreviousWeight(common, row) ==
  IF Cardinality(common) = 1 THEN TaperUnits \div 2
  ELSE TaperUnits
         - ((row - TopRow(common)) * TaperUnits) \div (Cardinality(common) - 1)

UpperTaper(k, row) ==
  IF k < Len(info.blocks) /\ row \in CommonRows(k)
  THEN PreviousWeight(CommonRows(k), row) ELSE TaperUnits

LowerTaper(k, row) ==
  IF k > 1 /\ row \in CommonRows(k - 1)
  THEN TaperUnits - PreviousWeight(CommonRows(k - 1), row) ELSE TaperUnits

\* Mutant: the lower block of an overlap is not tapered.
WeightUpperOnly(k, row) ==
  IF seam THEN UpperTaper(k, row) * TaperUnits ELSE TaperUnits * TaperUnits

\* The weight of a row of a tile, before the weights are divided by their
\* sum; without Scheme A it is one.
Weight(k, row) ==
  IF seam THEN UpperTaper(k, row) * LowerTaper(k, row)
  ELSE TaperUnits * TaperUnits
=============================================================================
