----------------------- MODULE ReceiverSweepProperties -----------------------
(***************************************************************************)
(* What must be true of the receiver wavefields the sweep leaves.          *)
(***************************************************************************)
EXTENDS ReceiverStoreLoads, FiniteSetsExt

Cached == [Records -> Field]

(***************************************************************************)
(* Type invariant.  A tile file exists for each block begun.               *)
(***************************************************************************)
TypeOK ==
  /\ info \in Infos /\ tables \in Infos /\ depth_chunk \in DepthChunks
  /\ seam \in BOOLEAN /\ overlap_in_tables \in BOOLEAN
  /\ iblock \in Blocks
  /\ ifrequency \in 0 .. Frequencies /\ ishot \in Shot
  /\ boundary \in [Shot -> [Frequency -> Field]]
  /\ rhs \in {<< >>} \union [Shot -> Field]
  /\ \A cache \in {previous_overlap, next_overlap} :
       cache = NoCache \/ cache.entries \in Cached
  /\ Len(store) = (IF pc \in {"propagate", "chunk", "post", "end", "finalized"}
                   THEN iblock ELSE iblock - 1)
  /\ \A k \in 1 .. Len(store) : DOMAIN store[k] = Records
  /\ propagated \subseteq Rows(iblock)
  /\ Len(geometry_cache) <= MaximumCachedGeometries
  /\ geometry_reused \in BOOLEAN
  /\ pc \in {"preview", "begin", "propagate", "chunk", "post", "end", "finalized",
             "failed"}
  /\ position \in [Blocks -> 0 .. Shots * Frequencies]
  /\ reader \in Loaders \union {NoLoader}
  /\ \A w \in Loaders : /\ load[w].shot \in Shot
                        /\ load[w].frequency \in Frequency
                        /\ Len(load[w].field) <= Len(info.blocks)

\* The records of block k that are written.
Written(k) == {r \in Records : store[k][r] # << >>}

(***************************************************************************)
(* A tile of block k was propagated from the field which block k - 1 left, *)
(* for the same shot and the same frequency, at the row of block k's       *)
(* datum, although the boundary buffers are overwritten in place while     *)
(* other shots and frequencies of the block are still to be propagated.    *)
(***************************************************************************)
DatumChain ==
  \A k \in 1 .. Len(store) : \A r \in Written(k) :
    LET t == store[k][r]
    IN  t.datum = FieldAt(k - 1, info.blocks[k].source_iz,
                          t.shot, t.frequency)

(***************************************************************************)
(* The comment in acquire_reusable_geometry: the common chunks survive     *)
(* across frequencies.  So a block that has no more chunks than the cache  *)
(* has entries builds its trees once, for its first frequency, whatever    *)
(* earlier blocks left in the cache.                                       *)
(***************************************************************************)
TreesSurviveFrequencies ==
  [][pc = "chunk" /\ ifrequency > 0
       /\ Cardinality(Rows(iblock)) <= MaximumCachedGeometries * depth_chunk
     => geometry_reused']_vars

(***************************************************************************)
(* With Scheme A every tile but the first is blended, over exactly the     *)
(* rows it shares with the block above, with what that block cached for    *)
(* the same shot and frequency.                                            *)
(***************************************************************************)
SeamFromBlockAbove ==
  \A k \in 2 .. Len(store) : \A r \in Written(k) :
    LET t == store[k][r]
    IN  IF seam
        THEN /\ t.blended = FieldAt(k - 1, -1, t.shot, t.frequency)
             /\ t.blended_rows = CommonRows(k - 1)
        ELSE t.blended = NoField

(***************************************************************************)
(* A worker that reads the store gets, for each block, the tile of the     *)
(* shot and the frequency it asked for, with a field in every row, while   *)
(* other workers move the same streams: no record was overwritten or is    *)
(* missing, no worker reads at the position of another one, and the chunks *)
(* of depths left no row of the buffer, which starts as zeros, as it was.  *)
(***************************************************************************)
LoadsReturnTheirTiles ==
  \A w \in Loaders : \A k \in DOMAIN load[w].field :
    LET t == load[w].field[k]
    IN  /\ t # << >>
        /\ t.shot = load[w].shot /\ t.frequency = load[w].frequency
        /\ t.rows = Rows(k)

\* The first block is longer than the overlap, as make_block_info builds it:
\* validate_block_info compares the overlap with the header only.
OverlapInFirstBlock == info.overlap_rows < info.blocks[1].target_end_iz

(***************************************************************************)
(* A decomposition that the validator accepts, with tables made for it     *)
(* with the rows the workflow wants, passes all the checks of the sweep.   *)
(***************************************************************************)
MatchingInputIsAccepted ==
  /\ tables = info /\ overlap_in_tables = seam
  /\ seam => info.overlap_rows > 0 /\ OverlapInFirstBlock
  => pc # "failed"

(***************************************************************************)
(* Tables of the right block file are never used with another overlap flag *)
(* than theirs: the count of their depths gives the mismatch away.         *)
(***************************************************************************)
OwnTablesMatch ==
  tables = info =>
    \A k \in 2 .. Len(store) : TableRows(k) = Rows(k)

\* The row has total weight one in the assembled field, so that dividing the
\* weights by their sum changes nothing.
CountedOnce(row) ==
  LET holders == {k \in Blocks : row \in Rows(k)}
  IN  MapThenSumSet(LAMBDA k : Weight(k, row), holders)
        = TaperUnits * TaperUnits

(***************************************************************************)
(* When the blocks overlap, every row under the surface is counted with    *)
(* total weight one in the assembled field, with Scheme A and without.     *)
(***************************************************************************)
OverlappedRowsCountOnce ==
  pc = "finalized" /\ info.overlap_rows > 0 =>
    \A row \in 1 .. info.nz - 1 : CountedOnce(row)

(***************************************************************************)
(* program_help.hpp, huygens_block_info: the output depth intervals are    *)
(* contiguous and nothing is written twice into the image or wavefield     *)
(* grid.  The sweep breaks this without overlap: see the README.           *)
(***************************************************************************)
NoRowIsCountedTwice ==
  pc = "finalized" => \A row \in 1 .. info.nz - 1 : CountedOnce(row)

-----------------------------------------------------------------------------
(***************************************************************************)
(* The strengthening that makes these properties inductive: which entries  *)
(* of each buffer are from this block and which from the one above.        *)
(***************************************************************************)
InBlock == pc \in {"propagate", "chunk", "post", "end", "finalized"}

Typed ==
  /\ info \in Infos /\ seam \in BOOLEAN /\ depth_chunk \in DepthChunks
  /\ iblock \in Blocks
  /\ ifrequency \in 0 .. Frequencies /\ ishot \in Shot
  /\ depth_begin \in Nat
  /\ pc \in {"preview", "begin", "propagate", "chunk", "post", "end", "finalized",
             "failed"}

\* What of the frequency and shot loops of the block is still to come.
Loops ==
  /\ pc = "preview" => iblock = 1
  /\ pc \in {"propagate", "chunk", "post"} => ifrequency < Frequencies
  /\ pc \in {"propagate", "chunk"} => ishot = 0
  /\ pc \in {"end", "finalized"} => ifrequency = Frequencies
  /\ pc = "chunk" => iblock > 1
  /\ pc = "finalized" => LastBlock
  /\ pc \notin {"preview", "failed"} => PreviewAccepted

\* The shot has been advanced to this block at this frequency.
Done(s, f) == InBlock /\ (f < ifrequency \/ (f = ifrequency /\ s < ishot))

\* The field the propagation of block k starts from.
DatumField(k, s, f) == FieldAt(k - 1, info.blocks[k].source_iz, s, f)

\* The datum fields are those of this block, or, of the shots that are done,
\* those of the next one.
DatumFields ==
  pc \notin {"finalized", "failed"} =>
    boundary = [s \in Shot |-> [f \in Frequency |->
      IF Done(s, f) /\ ~LastBlock THEN DatumField(iblock + 1, s, f)
                                 ELSE DatumField(iblock, s, f)]]

\* What apply_many works on was copied before any shot was advanced, and the
\* chunks so far have filled the first depths.
Propagated ==
  iblock > 1 =>
    /\ pc \in {"chunk", "post"} =>
         rhs = [s \in Shot |-> DatumField(iblock, s, ifrequency)]
    /\ pc = "chunk" =>
         propagated = {row \in Rows(iblock) : LocalDepth(row) < depth_begin}
    /\ pc = "post" => propagated = Rows(iblock)

\* The caches hold the shared rows; an entry is of the shots that are done.
HoldsOverlap(cache, k, s, f) ==
  cache.entries[CacheEntry(s, f)] = FieldAt(k, -1, s, f)

OverlapCaches ==
  seam =>
    /\ pc \in {"begin", "propagate", "chunk", "post", "end"} /\ iblock > 1 =>
         previous_overlap.depths = CommonRows(iblock - 1)
    /\ pc \in {"begin", "propagate", "chunk", "post", "end"} /\ iblock > 1 =>
         \A s \in Shot, f \in Frequency :
           HoldsOverlap(previous_overlap, iblock - 1, s, f)
    /\ pc \in {"propagate", "chunk", "post", "end"} /\ ~LastBlock =>
         /\ next_overlap.depths = CommonRows(iblock)
         /\ DOMAIN next_overlap.entries = Records
         /\ \A s \in Shot, f \in Frequency :
              Done(s, f) => HoldsOverlap(next_overlap, iblock, s, f)

\* The tile that the shot leaves in block k at a frequency.
TileOf(k, s, f, t) ==
  /\ t # << >>
  /\ t.shot = s /\ t.frequency = f
  /\ t.rows = Rows(k)
  /\ t.datum = DatumField(k, s, f)
  /\ k > 1 =>
       IF seam THEN /\ t.blended = FieldAt(k - 1, -1, s, f)
                    /\ t.blended_rows = CommonRows(k - 1)
               ELSE t.blended = NoField

TileRecord ==
  [shot : Shot, frequency : Frequency, rows : SUBSET Int, datum : Field,
   blended : Field, blended_rows : SUBSET Int]

Tiles ==
  /\ store \in Seq([Records -> TileRecord \union {<< >>}])
  /\ Len(store) = (IF InBlock THEN iblock ELSE iblock - 1)
  /\ \A k \in 1 .. Len(store) :
       /\ \A r \in Records :
            \/ store[k][r] = << >>
            \/ \E s \in Shot, f \in Frequency : TileOf(k, s, f, store[k][r])
       /\ \A s \in Shot, f \in Frequency :
            k < iblock \/ Done(s, f) => TileOf(k, s, f, store[k][Record(s, f)])

SweepInv ==
  Typed /\ Loops /\ DatumFields /\ Propagated /\ OverlapCaches /\ Tiles

\* The worker has read the first n tiles of its record; when it is about to
\* read the next one, it is alone at the streams and where it wants to be.
LoadIs(w, step, s, f, n) ==
  /\ DOMAIN load[w] = {"step", "shot", "frequency", "field"}
  /\ load[w].step = step /\ load[w].shot = s /\ load[w].frequency = f
  /\ load[w].field = [k \in 1 .. n |-> store[k][Record(s, f)]]
  /\ IF step = "idle" THEN n = 0 ELSE pc = "finalized"
  /\ step = "read" => /\ reader = w
                      /\ n + 1 \in Blocks
                      /\ position[n + 1] = Record(s, f)

Steps == {"idle", "load", "read"}

Loads ==
  /\ DOMAIN load = Loaders /\ DOMAIN position = Blocks
  /\ next_frequency \in Nat
  /\ \A w \in Loaders :
       \E step \in Steps, s \in Shot, f \in Frequency, n \in 0 .. Len(info.blocks) :
         LoadIs(w, step, s, f, n)

StoreInv == SweepInv /\ Loads

-----------------------------------------------------------------------------
(***************************************************************************)
(* What, besides, the buffers hold while a block uses them: the values     *)
(* they keep from one block to the next, and the trees of the geometries.  *)
(***************************************************************************)
OverlapCache == [depths : SUBSET Int, entries : Cached]

Buffers ==
  /\ tables \in Infos /\ overlap_in_tables \in BOOLEAN
  /\ boundary \in [Shot -> [Frequency -> Field]]
  /\ rhs \in {<< >>} \union [Shot -> Field]
  /\ previous_overlap \in {NoCache} \union OverlapCache
  /\ next_overlap \in {NoCache} \union OverlapCache
  /\ propagated \subseteq Rows(iblock)
  /\ position \in [Blocks -> 0 .. Shots * Frequencies]
  /\ reader \in Loaders \union {NoLoader}

\* The block has no more chunks than the cache has entries.
BlockFits ==
  Cardinality(Rows(iblock)) <= MaximumCachedGeometries * depth_chunk

\* The first depth of the chunks, which are counted from zero.
FirstDepth(c) == c * depth_chunk

Chunks == {c \in 0 .. MaximumCachedGeometries - 1 :
             FirstDepth(c) < Cardinality(Rows(iblock))}

\* The geometry of a chunk of the block.
Tree(c) ==
  [rows |-> {row \in Rows(iblock) :
               LocalDepth(row) \in FirstDepth(c) .. FirstDepth(c) + depth_chunk - 1},
   datum |-> info.blocks[iblock].source_iz]

\* The m geometries used last.
Newest(m) ==
  {geometry_cache[i] :
     i \in {j \in 1 .. Len(geometry_cache) : j > Len(geometry_cache) - m}}

TreeCache ==
  /\ geometry_cache \in Seq([rows : SUBSET Int, datum : Int])
  /\ Len(geometry_cache) <= MaximumCachedGeometries
  /\ geometry_reused \in BOOLEAN

\* At its first frequency a block has the trees of its chunks so far at the
\* end of the cache, so that none of them is the oldest one; later it has the
\* trees of all its chunks there.
TreesOfTheBlock ==
  iblock > 1 /\ BlockFits =>
    /\ pc = "chunk" =>
         \E c \in Chunks :
           /\ depth_begin = FirstDepth(c)
           /\ ifrequency = 0 => \A b \in 0 .. c - 1 : Tree(b) \in Newest(c)
    /\ pc = "post" \/ (pc \in {"propagate", "chunk"} /\ ifrequency > 0) =>
         \A c \in Chunks : Tree(c) \in Newest(MaximumCachedGeometries)

BufferInv == Buffers /\ TreeCache /\ TreesOfTheBlock
=============================================================================
