-------------------------- MODULE SesiMapProperties --------------------------
(***************************************************************************)
(* What the map of SesiMap keeps: the lists its user gave it.              *)
(***************************************************************************)
EXTENDS SesiMap

CellType ==
  [fold : 0 .. MaxFold, idx : Seq(Int), off : Nat]

(***************************************************************************)
(* Type invariant.  A small cell holds its indexes and a large one holds   *)
(* none; the cache holds a cell once, with an entry.                       *)
(***************************************************************************)
Consistent(c) == IF c.fold < 3 THEN Len(c.idx) = c.fold ELSE c.idx = << >>

TypeOK ==
  /\ byte_order \in ByteOrders
  /\ mode \in {"read_write", "read_only", "closed", "damaged"}
  /\ pc \in {"idle", "evict", "evict_info", "body", "write_info", "flush",
             "flush_info", "copy"}
  /\ \A c \in Cells : info[c] \in CellType /\ Consistent(info[c])
  /\ cell \in CellType /\ Consistent(cell)
  /\ DOMAIN words \subseteq ListArea .. file_end - 1
  /\ IsInjective(order)
  /\ \A c \in Cells : entry[c].list_size >= 0 <=>
                        c \in Range(order) \cup (IF pc = "evict_info"
                                                 THEN {victim} ELSE {})
  /\ todo \subseteq Range(order)

(***************************************************************************)
(* Two cells never share words of the list area, each list is followed by  *)
(* the size of its block, and the block is in the file: a list that grows  *)
(* in place up to that size changes no other (sesi_map_update_many_internal*)
(* keeps the block while block_size >= fold).                              *)
(***************************************************************************)
LargeOnDisk == {c \in Cells : info[c].fold > 2}
BlockSizeAt(file, c) == Word(file, c.off + c.fold)
BlockEnd(file, c) == c.off + BlockSizeAt(file, c)

BlocksAreDisjoint ==
  mode # "damaged" /\ ~ListInPlace =>
    \A c \in LargeOnDisk :
      /\ BlockSizeAt(words, info[c]) >= info[c].fold
      /\ BlockEnd(words, info[c]) < file_end
      /\ \A d \in LargeOnDisk \ {c} :
           \/ BlockEnd(words, info[c]) < info[d].off
           \/ BlockEnd(words, info[d]) < info[c].off

(***************************************************************************)
(* When a cell with more than two indexes is written back its entry holds  *)
(* the list (the comment at sesi_map_flush_cell_cache).                    *)
(***************************************************************************)
WriteBackHasItsList ==
  /\ pc = "evict" /\ MustEvict /\ mode = "read_write" => HasItsList(Head(order))
  /\ \A c \in todo : pc = "flush" => HasItsList(c)

(***************************************************************************)
(* The map as CellMap sees it.  What a reader gets is in the cache or in   *)
(* the file, and stays visible while it moves from one to the other.       *)
(***************************************************************************)
Stored(file, c) == IF c.fold < 3 THEN c.idx ELSE Front(ListAt(file, c))
Shown(file, c, e) ==
  IF e.list_size >= 0 /\ e.cell.fold < 3 THEN e.cell.idx
  ELSE IF e.list_size >= 0 /\ e.list # << >> THEN Front(e.list)
  ELSE Stored(file, c)

DiskIndexes(c) == Stored(words, info[c])
Visible(c) == Shown(words, info[c], entry[c])

Lists == [c \in Cells |-> Visible(c)]
SavedLists == [c \in Cells |-> DiskIndexes(c)]
Status ==
  IF mode \in {"damaged", "closed"} THEN mode
  ELSE IF Overwriting THEN "compacting"
  ELSE "open"

Promised == INSTANCE CellMap WITH
  map <- Lists, saved <- SavedLists, cached <- use_cache, status <- Status

(***************************************************************************)
(* The map implements CellMap: each read gives the indexes put in, in      *)
(* their order, whatever was evicted, moved or compacted in between; what  *)
(* a call without a cache wrote, and each cell written back, survives the  *)
(* death of the program.                                                   *)
(***************************************************************************)
ImplementsCellMap == Promised!Spec

(***************************************************************************)
(* The strengthening that makes these inductive, in parts.                 *)
(***************************************************************************)
Modes == {"read_write", "read_only", "closed", "damaged"}
Calls ==
  [op : {"none", "add", "set", "get", "fold", "close", "set_cache"},
   lidx : Cells \union {-1}, batch : Batches \union {<< >>}]

MapCell == {c \in CellType : Consistent(c)}
File(file, end) ==
  /\ DOMAIN file \subseteq ListArea .. end - 1 /\ end \in Nat
  /\ ListArea <= end
  /\ \A o \in DOMAIN file : file[o] \in Int

Types ==
  /\ byte_order \in ByteOrders /\ mode \in Modes
  /\ pc \in {"idle", "evict", "evict_info", "body", "write_info", "flush",
             "flush_info", "copy"}
  /\ use_cache \in BOOLEAN
  /\ info \in [Cells -> MapCell] /\ File(words, file_end)
  /\ order \in Seq(Cells)
  /\ entry \in [Cells -> [cell : MapCell, list : Seq(Int), list_size : Int]]
  /\ call \in Calls /\ cell \in MapCell
  /\ todo \in SUBSET Cells

\* A file that is not open has no call and no cache; without a cache no cell
\* is cached; a cached cell is cached once.
Cached(c) == entry[c].list_size >= 0

CacheIsOrdered ==
  /\ mode \in {"closed", "damaged"} => pc = "idle" /\ order = << >> /\ ~use_cache
  /\ ~use_cache => order = << >>
  /\ IsInjective(order)
  /\ \A c \in Cells : Cached(c) <=> InCache(c) \/ (pc = "evict_info" /\ c = victim)
  /\ pc \in {"evict_info", "flush_info"} =>
       /\ victim \in Cells /\ mode = "read_write"
       /\ victim \in Range(order) <=> pc = "flush_info"
  /\ todo \subseteq Range(order)
  /\ todo # {} => pc \in {"flush", "flush_info"} /\ mode = "read_write"
  /\ pc \in {"flush", "flush_info"} => call.op \in {"close", "set_cache"}
  /\ pc = "flush_info" => victim \in todo

\* An entry whose list was not read yet is what the file has; a list in an
\* entry is that of a large cell, with the size of its block.
EntriesAreWhole ==
  \A c \in Cells : Cached(c) /\ entry[c].cell.fold > 2 =>
    IF entry[c].list = << >> THEN entry[c].cell = info[c]
    ELSE Len(entry[c].list) = entry[c].cell.fold + 1

\* The call being served has the cell as a reader of the map sees it.
Updating ==
  /\ pc \in {"evict", "evict_info", "body", "write_info"}
  /\ call.op \in {"add", "set"}

CallHasItsCell ==
  /\ pc \in {"evict", "evict_info"} =>
       order # << >> /\ Last(order) = call.lidx
  /\ pc \in {"evict", "evict_info", "body"} =>
       /\ call.lidx \in Cells /\ cell = ReadInfo(call.lidx)
       /\ call.op \in {"add", "set", "get", "fold"}
       /\ use_cache => InCache(call.lidx)
  /\ Updating =>
       /\ mode = "read_write" /\ call.batch \in Batches
       /\ pc # "write_info" /\ call.op = "add" =>
            cell.fold + Len(call.batch) <= MaxFold
  /\ pc # "idle" => answer = NoAnswer

\* The block of a cell is in the file; the blocks of two cells share nothing.
BlockFits(file, end, c) ==
  c.fold > 2 => /\ c.off >= ListArea
                /\ BlockSizeAt(file, c) >= c.fold /\ BlockEnd(file, c) < end
Apart(file, c, d) ==
  c.fold > 2 /\ d.fold > 2 =>
    BlockEnd(file, c) < d.off \/ BlockEnd(file, d) < c.off

Fit(file, end, cells) ==
  /\ \A c \in Cells : BlockFits(file, end, cells[c])
  /\ \A c, d \in Cells : c # d => Apart(file, cells[c], cells[d])

\* The cells, and the cell a block belongs to while its list is rewritten in
\* place.
CellsOnDisk ==
  IF ListInPlace THEN [info EXCEPT ![call.lidx] = cell] ELSE info

BlocksFit == mode # "damaged" => Fit(words, file_end, CellsOnDisk)

\* A list that was written and has no cell in the file yet.
IndexesBefore == IF call.op = "add" THEN DiskIndexes(call.lidx) ELSE << >>

ListIsWritten ==
  pc = "write_info" =>
    /\ ~use_cache /\ mode = "read_write"
    /\ call.lidx \in Cells /\ call.op \in {"add", "set"}
    /\ cell.fold > 2 /\ Front(DiskList(cell)) = IndexesBefore \o call.batch
    /\ BlockFits(words, file_end, cell)
    /\ \A d \in Cells \ {call.lidx} : Apart(words, cell, info[d])

VictimIsWritten ==
  pc \in {"evict_info", "flush_info"} =>
    LET c == entry[victim].cell
    IN  /\ c.fold > 2 /\ entry[victim].list # << >>
        /\ DiskList(c) = entry[victim].list
        /\ BlockFits(words, file_end, c)
        /\ \A d \in Cells \ {victim} : Apart(words, c, info[d])

\* What may be dropped from the cache is in the file.
IsSaved(c) == Visible(c) = DiskIndexes(c)
DroppedIsSaved ==
  /\ mode = "read_only" => \A c \in Cells : IsSaved(c)
  /\ pc \in {"flush", "flush_info"} => \A c \in Cells \ todo : IsSaved(c)

\* The temporary file has the cells copied so far.
CopySoFar ==
  pc = "copy" =>
    /\ mode = "read_write"
    /\ tmp.next \in 0 .. CellCount
    /\ tmp.info \in [Cells -> MapCell] /\ File(tmp.words, tmp.end)
    /\ \A c \in Cells :
         IF c < tmp.next
         THEN /\ tmp.info[c].fold = ReadInfo(c).fold
              /\ Stored(tmp.words, tmp.info[c]) = CellList(c)
         ELSE tmp.info[c] = EmptyCell
    /\ Fit(tmp.words, tmp.end, tmp.info)

MapInv ==
  /\ Types
  /\ CacheIsOrdered
  /\ EntriesAreWhole
  /\ CallHasItsCell
  /\ BlocksFit
  /\ ListIsWritten
  /\ VictimIsWritten
  /\ DroppedIsSaved
  /\ CopySoFar
=============================================================================
