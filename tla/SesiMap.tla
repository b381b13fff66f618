------------------------------- MODULE SesiMap -------------------------------
(***************************************************************************)
(* The map of trace indexes of SEFILESYSTEM/src/sesi_map.cpp: an area of   *)
(* three words for each cell, then the lists of the cells that hold more   *)
(* than two indexes.  A list at an offset is fold + 1 words: the indexes   *)
(* and the size of its block.  A cell whose list outgrows its block gets a *)
(* new block at the end of the file; compact drops the old ones.  With a   *)
(* cache, cells are changed in memory and written back when they are       *)
(* evicted, oldest first, or when the map is closed.                       *)
(*                                                                         *)
(* A step ends after each write of a list or of a cell, so the program can *)
(* die between two of them; a single write is not torn.  A block being     *)
(* written with its padding is one step: nothing points to it yet.         *)
(***************************************************************************)
EXTENDS Integers, FiniteSets, FiniteSetsExt, SequencesExt

CONSTANTS
  CellCount,
  Batches,       \* the lists of indexes of one call
  GrowBy,        \* grow_by of sesi_map_create
  EntryWords,    \* the size of a cache entry without its list
  CacheLimits,   \* the values of max_cache_size, in words
  ByteOrders,    \* the byte orders of the data: "native", "swapped"
  MaxFold,       \* bound: no list is made longer
  MaxWords       \* bound: no call starts once so many words were written

ASSUME SizesAssumption ==
  /\ CellCount \in Nat \ {0}
  /\ GrowBy \in Nat \ {0}
  /\ MaxFold \in Nat /\ MaxWords \in Nat

ASSUME BatchesAssumption ==
  /\ \A batch \in Batches : batch \in Seq(Int) /\ Len(batch) <= MaxFold
  /\ ByteOrders \subseteq {"native", "swapped"} /\ ByteOrders # {}

Cells == 0 .. CellCount - 1

\* The first word after the area of the cells.
ListArea == 3 * CellCount

VARIABLES
  byte_order,
  mode,        \* "read_write", "read_only", "closed", or "damaged" on disk
  info,        \* the cells in the file
  words,       \* the words written in the list area; others in the file are 0
  file_end,
  use_cache,
  max_cache_size,
  order,       \* the cached cells, from oldest to newest
  entry,       \* their entries, and the one being evicted
  call,        \* the call being served
  cell,        \* its local copy of the cell
  pc,
  victim,      \* the cell being written back
  todo,        \* the cells the flush of the whole cache has not reached
  tmp,         \* the temporary file of a compaction and its next cell
  answer       \* what the last call returned

file_vars == <<info, words, file_end>>
cache_vars == <<use_cache, max_cache_size, order, entry>>
flush_vars == <<victim, todo>>
vars == <<byte_order, mode, file_vars, cache_vars, call, cell, pc, flush_vars,
          tmp, answer>>

(***************************************************************************)
(* Data                                                                    *)
(***************************************************************************)

\* idx holds the indexes of a cell of fold 0, 1 or 2; off locates the list
\* of a larger one.
SmallCell(list) == [fold |-> Len(list), idx |-> list, off |-> 0]
LargeCell(fold, off) == [fold |-> fold, idx |-> << >>, off |-> off]
EmptyCell == SmallCell(<< >>)

\* An entry's list is << >> where the pointer is NULL.
NoEntry == [cell |-> EmptyCell, list |-> << >>, list_size |-> -1]
NewEntry(c) == [cell |-> c, list |-> << >>, list_size |-> 0]

NoCall == [op |-> "none", lidx |-> -1, batch |-> << >>]
NoAnswer == [fold |-> -1, indexes |-> << >>]

InCache(c) == c \in Range(order)

\* sesi_map_cell_cache_size of all entries.
CacheSize ==
  MapThenSumSet(LAMBDA c : EntryWords + entry[c].list_size, Range(order))

\* A word of a file, and the fold + 1 words of the list of a cell in it.
Word(file, o) == IF o \in DOMAIN file THEN file[o] ELSE 0
ListAt(file, c) == [i \in 1 .. c.fold + 1 |-> Word(file, c.off + i - 1)]
DiskList(c) == ListAt(words, c)

\* The fold + 1 words of a cell in memory or in the file.
ListOf(lidx, c) ==
  IF InCache(lidx) /\ entry[lidx].list # << >>
  THEN entry[lidx].list
  ELSE DiskList(c)

Indexes(lidx, c) == IF c.fold < 3 THEN c.idx ELSE Front(ListOf(lidx, c))

\* What sesi_map_read_cell_info gives.
ReadInfo(lidx) == IF InCache(lidx) THEN entry[lidx].cell ELSE info[lidx]

\* se_fsio_write_int32 puts the words of its caller in the byte order of the
\* file and leaves them so.
Byte(n, place) == (n \div place) % 256
Swap32(n) ==
  LET top == IF Byte(n, 1) < 128 THEN Byte(n, 1) ELSE Byte(n, 1) - 256
  IN  top * 16777216 + Byte(n, 256) * 65536 + Byte(n, 65536) * 256
        + Byte(n, 16777216)
AfterWrite(n) == IF byte_order = "swapped" THEN Swap32(n) ELSE n

\* The block size after a list outgrew its block.
GrownBlock(block_size, fold) ==
  block_size + (1 + (fold - block_size + 1) \div GrowBy) * GrowBy

\* The words of a file after a list was written at an offset.
Written(file, list, off) ==
  LET place == off .. off + Len(list) - 1
  IN  [o \in place \union DOMAIN file |->
         IF o \in place THEN list[o - off + 1] ELSE file[o]]

\* A file of empty cells.
EmptyFile == [info |-> [c \in Cells |-> EmptyCell], words |-> << >>,
              end |-> ListArea, next |-> 0]

(***************************************************************************)
(* Opening                                                                 *)
(***************************************************************************)
NoCache ==
  /\ use_cache = FALSE /\ max_cache_size = 0
  /\ order = << >> /\ entry = [c \in Cells |-> NoEntry]

ForgetCache ==
  /\ use_cache' = FALSE /\ max_cache_size' = 0
  /\ order' = << >> /\ entry' = [c \in Cells |-> NoEntry]

Idle == pc = "idle" /\ mode \in {"read_write", "read_only"}

\* sesi_map_create: all cells are empty.
Init ==
  /\ byte_order \in ByteOrders
  /\ mode = "read_write"
  /\ info = EmptyFile.info /\ words = EmptyFile.words
  /\ file_end = EmptyFile.end
  /\ NoCache
  /\ call = NoCall /\ cell = EmptyCell /\ pc = "idle"
  /\ victim = -1 /\ todo = {} /\ tmp = EmptyFile
  /\ answer = NoAnswer

Open ==
  /\ mode = "closed"
  /\ mode' \in {"read_write", "read_only"}
  /\ UNCHANGED <<byte_order, file_vars, cache_vars, call, cell, pc,
                 flush_vars, tmp, answer>>

(***************************************************************************)
(* A call on a cell: add, set, get the indexes, get the fold.  It reads    *)
(* the cell and puts it in the cache, which may push out others.           *)
(***************************************************************************)
RoomLeft == Cardinality(DOMAIN words) <= MaxWords

\* An add or set of this cell, by a caller who opened the map for writing.
UpdateAllowed(op, c, batch) ==
  /\ mode = "read_write"
  /\ op = "add" => /\ batch # << >>
                   /\ ReadInfo(c).fold + Len(batch) <= MaxFold

\* Mutant: the cell is not looked up before it is inserted.
NeedsEntryAlways(c) == use_cache
NeedsEntry(c) == use_cache /\ ~InCache(c)

Begin(op, c, batch) ==
  /\ Idle /\ RoomLeft
  /\ op \in {"add", "set"} => UpdateAllowed(op, c, batch)
  /\ call' = [op |-> op, lidx |-> c, batch |-> batch]
  /\ cell' = ReadInfo(c)
  /\ answer' = NoAnswer
  /\ IF NeedsEntry(c)
     THEN /\ order' = Append(order, c)
          /\ entry' = [entry EXCEPT ![c] = NewEntry(ReadInfo(c))]
          /\ pc' = "evict"
     ELSE /\ pc' = "body"
          /\ UNCHANGED <<order, entry>>
  /\ UNCHANGED <<byte_order, mode, file_vars, use_cache, max_cache_size,
                 flush_vars, tmp>>

(***************************************************************************)
(* Writing one cached cell back (sesi_map_flush_cell_cache): a large cell  *)
(* gets a new block that just fits, then the cell is written.  A list that *)
(* was never read into the entry has no words to write: see Crash.         *)
(***************************************************************************)
HasItsList(c) == entry[c].cell.fold > 2 => entry[c].list # << >>

\* Mutant: the list goes where the entry says it is.
FlushOffsetKept(c) == entry[c].cell.off
FlushOffset(c) == file_end

FlushList(c) ==
  LET fold == entry[c].cell.fold
      list == [entry[c].list EXCEPT ![fold + 1] = fold]
  IN  /\ fold > 2 /\ HasItsList(c)
      /\ entry' = [entry EXCEPT ![c] =
           [cell |-> LargeCell(fold, FlushOffset(c)), list |-> list,
            list_size |-> entry[c].list_size]]
      /\ words' = Written(words, list, FlushOffset(c))
      /\ file_end' = Max({file_end, FlushOffset(c) + fold + 1})
      /\ UNCHANGED info

FlushInfo(c) ==
  /\ info' = [info EXCEPT ![c] = entry[c].cell]
  /\ UNCHANGED <<words, file_end>>

(***************************************************************************)
(* Eviction (sesi_map_cache_insert): the oldest entry goes, but never the  *)
(* new one.                                                                *)
(***************************************************************************)
MustEvict == CacheSize > max_cache_size /\ Head(order) # Last(order)

\* What an eviction leaves alone.
EvictFrame ==
  UNCHANGED <<byte_order, mode, use_cache, max_cache_size, call, cell, todo,
              tmp, answer>>

EvictReadOnly ==
  /\ pc = "evict" /\ MustEvict /\ mode = "read_only"
  /\ order' = Tail(order)
  /\ entry' = [entry EXCEPT ![Head(order)] = NoEntry]
  /\ UNCHANGED <<file_vars, pc, victim>> /\ EvictFrame

EvictSmall ==
  /\ pc = "evict" /\ MustEvict /\ mode = "read_write"
  /\ entry[Head(order)].cell.fold < 3
  /\ FlushInfo(Head(order))
  /\ order' = Tail(order)
  /\ entry' = [entry EXCEPT ![Head(order)] = NoEntry]
  /\ UNCHANGED <<pc, victim>> /\ EvictFrame

EvictList ==
  /\ pc = "evict" /\ MustEvict /\ mode = "read_write"
  /\ FlushList(Head(order))
  /\ order' = Tail(order)
  /\ victim' = Head(order) /\ pc' = "evict_info"
  /\ EvictFrame

EvictInfo ==
  /\ pc = "evict_info"
  /\ FlushInfo(victim)
  /\ entry' = [entry EXCEPT ![victim] = NoEntry]
  /\ victim' = -1 /\ pc' = "evict"
  /\ UNCHANGED order /\ EvictFrame

EvictEnd ==
  /\ pc = "evict" /\ ~MustEvict
  /\ pc' = "body"
  /\ UNCHANGED <<file_vars, order, entry, victim>> /\ EvictFrame

(***************************************************************************)
(* The rest of a call                                                      *)
(***************************************************************************)

\* What every call leaves alone.
CallFrame ==
  UNCHANGED <<byte_order, mode, use_cache, max_cache_size, order, flush_vars,
              tmp>>

Return(result) ==
  /\ pc' = "idle" /\ call' = NoCall /\ cell' = EmptyCell /\ answer' = result

GetFold ==
  /\ pc = "body" /\ call.op = "fold"
  /\ Return([fold |-> cell.fold, indexes |-> << >>])
  /\ UNCHANGED <<file_vars, entry>> /\ CallFrame

\* The list_size of an entry after room was made for a list of this fold.
RoomFor(list_size, fold) ==
  IF list_size < fold + 2 THEN fold + 2 + GrowBy \div 2 ELSE list_size

\* The entry of a cell after sesi_map_read_cell_list.
AfterReadList(c) ==
  IF entry[c].list # << >>
  THEN entry[c]
  ELSE [entry[c] EXCEPT !.list = ListOf(c, cell),
                        !.list_size = RoomFor(entry[c].list_size, cell.fold)]

GetIndexes ==
  /\ pc = "body" /\ call.op = "get"
  /\ Return([fold |-> cell.fold, indexes |-> Indexes(call.lidx, cell)])
  /\ entry' = IF cell.fold > 2 /\ InCache(call.lidx)
              THEN [entry EXCEPT ![call.lidx] = AfterReadList(call.lidx)]
              ELSE entry
  /\ UNCHANGED file_vars /\ CallFrame

(***************************************************************************)
(* sesi_map_update_many_internal: the indexes kept, then those of the      *)
(* batch.  Up to two stay in the cell; more go to a list, in its old block *)
(* while that is large enough.                                             *)
(***************************************************************************)
StartFold == IF call.op = "add" THEN cell.fold ELSE 0
Kept == IF StartFold = 0 THEN << >> ELSE Indexes(call.lidx, cell)
NewList == Kept \o call.batch
NewFold == Len(NewList)

OldBlock == IF StartFold < 3 THEN 0 ELSE Last(ListOf(call.lidx, cell))
\* Mutant: off by one.
OutgrownLate == OldBlock + 1 < NewFold
Outgrown == OldBlock < NewFold
BlockSize == IF Outgrown THEN GrownBlock(OldBlock, NewFold) ELSE OldBlock
NewCell == LargeCell(NewFold, IF Outgrown THEN file_end ELSE cell.off)

UpdateSmall ==
  /\ pc = "body" /\ call.op \in {"add", "set"} /\ NewFold < 3
  /\ IF use_cache
     THEN /\ entry' = [entry EXCEPT ![call.lidx] =
               [entry[call.lidx] EXCEPT !.cell = SmallCell(NewList)]]
          /\ UNCHANGED info
     ELSE /\ info' = [info EXCEPT ![call.lidx] = SmallCell(NewList)]
          /\ UNCHANGED entry
  /\ Return(NoAnswer)
  /\ UNCHANGED <<words, file_end>> /\ CallFrame

\* In the cache nothing is written, whatever offset the cell now holds.
UpdateCachedList ==
  /\ pc = "body" /\ call.op \in {"add", "set"} /\ NewFold > 2 /\ use_cache
  /\ LET c == call.lidx
         read == IF StartFold < 3 THEN entry[c] ELSE AfterReadList(c)
     IN  entry' = [entry EXCEPT ![c] =
           [cell |-> NewCell, list |-> Append(NewList, BlockSize),
            list_size |-> RoomFor(read.list_size, NewFold)]]
  /\ Return(NoAnswer)
  /\ UNCHANGED file_vars /\ CallFrame

\* The padding of a new block is counted from the block size that the write
\* of the list left in memory.
Padding ==
  LET left == AfterWrite(BlockSize) - NewFold
  IN  IF Outgrown /\ left > 0 THEN left ELSE 0

UpdateList ==
  /\ pc = "body" /\ call.op \in {"add", "set"} /\ NewFold > 2 /\ ~use_cache
  /\ words' = Written(words, Append(NewList, BlockSize), NewCell.off)
  /\ file_end' = Max({file_end, NewCell.off + NewFold + 1 + Padding})
  /\ cell' = NewCell /\ pc' = "write_info"
  /\ UNCHANGED <<info, entry, call, answer>> /\ CallFrame

WriteInfo ==
  /\ pc = "write_info"
  /\ info' = [info EXCEPT ![call.lidx] = cell]
  /\ Return(NoAnswer)
  /\ UNCHANGED <<words, file_end, entry>> /\ CallFrame

(***************************************************************************)
(* Flush of the whole cache, by sesi_map_close and by sesi_map_set_cache   *)
(***************************************************************************)
BeginFlush(op) ==
  /\ Idle /\ RoomLeft
  /\ call' = [NoCall EXCEPT !.op = op]
  /\ todo' = IF use_cache /\ mode = "read_write" THEN Range(order) ELSE {}
  /\ pc' = "flush" /\ answer' = NoAnswer
  /\ UNCHANGED <<byte_order, mode, file_vars, cache_vars, cell, victim, tmp>>

FlushFrame ==
  UNCHANGED <<byte_order, mode, use_cache, max_cache_size, order, call, cell,
              tmp, answer>>

\* The buckets are walked in the order of their hash: any order of the cells.
FlushSmallCell(c) ==
  /\ pc = "flush" /\ c \in todo /\ entry[c].cell.fold < 3
  /\ FlushInfo(c)
  /\ todo' = todo \ {c}
  /\ UNCHANGED <<entry, pc, victim>> /\ FlushFrame

FlushCellList(c) ==
  /\ pc = "flush" /\ c \in todo
  /\ FlushList(c)
  /\ victim' = c /\ pc' = "flush_info"
  /\ UNCHANGED todo /\ FlushFrame

FlushCellInfo ==
  /\ pc = "flush_info"
  /\ FlushInfo(victim)
  /\ todo' = todo \ {victim} /\ victim' = -1 /\ pc' = "flush"
  /\ UNCHANGED entry /\ FlushFrame

Close ==
  /\ pc = "flush" /\ todo = {} /\ call.op = "close"
  /\ mode' = "closed"
  /\ ForgetCache
  /\ Return(NoAnswer)
  /\ UNCHANGED <<byte_order, file_vars, flush_vars, tmp>>

\* The buckets of the new cache are not cleared (sesi_map.cpp:1066): a lookup may follow
\* a stray pointer, which ends the program: see Crash.
SetCache ==
  /\ pc = "flush" /\ todo = {} /\ call.op = "set_cache"
  /\ use_cache' = TRUE
  /\ max_cache_size' \in CacheLimits
  /\ order' = << >> /\ entry' = [c \in Cells |-> NoEntry]
  /\ Return(NoAnswer)
  /\ UNCHANGED <<byte_order, mode, file_vars, flush_vars, tmp>>

(***************************************************************************)
(* sesi_map_compact: each cell, from the cache or the file, goes to a      *)
(* temporary file with a block that just fits; that file is copied over    *)
(* the map.                                                                *)
(***************************************************************************)
CellList(c) == Indexes(c, ReadInfo(c))

\* Every cell is in the temporary file, which goes over the map.
Overwriting == pc = "copy" /\ tmp.next = CellCount

BeginCopy ==
  /\ Idle /\ mode = "read_write"
  /\ pc' = "copy" /\ tmp' = EmptyFile /\ answer' = NoAnswer
  /\ UNCHANGED <<byte_order, mode, file_vars, cache_vars, call, cell,
                 flush_vars>>

CopyFrame ==
  UNCHANGED <<byte_order, mode, use_cache, max_cache_size, call, cell,
              flush_vars, answer>>

CopySmall ==
  /\ pc = "copy" /\ tmp.next < CellCount
  /\ LET c == ReadInfo(tmp.next)
     IN  /\ c.fold < 3
         /\ tmp' = [info |-> [tmp.info EXCEPT ![tmp.next] = c],
                    words |-> tmp.words, end |-> tmp.end,
                    next |-> tmp.next + 1]
  /\ UNCHANGED <<file_vars, order, entry, pc>> /\ CopyFrame

CopyList ==
  /\ pc = "copy" /\ tmp.next < CellCount
  /\ LET fold == ReadInfo(tmp.next).fold
     IN  /\ fold > 2
         /\ tmp' = [info |-> [tmp.info EXCEPT ![tmp.next] =
                              LargeCell(fold, tmp.end)],
                    words |-> Written(tmp.words,
                                      Append(CellList(tmp.next), fold), tmp.end),
                    end |-> tmp.end + fold + 1,
                    next |-> tmp.next + 1]
  /\ UNCHANGED <<file_vars, order, entry, pc>> /\ CopyFrame

Compact ==
  /\ Overwriting
  /\ info' = tmp.info /\ words' = tmp.words /\ file_end' = tmp.end
  /\ order' = << >> /\ entry' = [c \in Cells |-> NoEntry]
  /\ tmp' = EmptyFile /\ pc' = "idle"
  /\ CopyFrame

(***************************************************************************)
(* The program dies, by a signal or by its own doing: the write-back of an *)
(* entry without its list reads through a NULL pointer.  The file is not   *)
(* sound when the words of a list in use had been changed and the cell had *)
(* not, or while the temporary file goes over the map.                     *)
(***************************************************************************)
ListInPlace ==
  /\ pc = "write_info"
  /\ info[call.lidx].fold > 2 /\ info[call.lidx].off = cell.off

Crash ==
  /\ mode \in {"read_write", "read_only"}
  /\ mode' = IF Overwriting \/ ListInPlace THEN "damaged" ELSE "closed"
  /\ ForgetCache
  /\ Return(NoAnswer)
  /\ victim' = -1 /\ todo' = {} /\ tmp' = EmptyFile
  /\ UNCHANGED <<byte_order, file_vars>>

\* Nothing is promised of a damaged file.
Damaged == mode = "damaged" /\ UNCHANGED vars

Next ==
  \/ Open
  \/ \E c \in Cells :
       \/ \E batch \in Batches, op \in {"add", "set"} : Begin(op, c, batch)
       \/ \E op \in {"get", "fold"} : Begin(op, c, << >>)
       \/ FlushSmallCell(c) \/ FlushCellList(c)
  \/ EvictReadOnly \/ EvictSmall \/ EvictList \/ EvictInfo \/ EvictEnd
  \/ GetFold \/ GetIndexes
  \/ UpdateSmall \/ UpdateCachedList \/ UpdateList \/ WriteInfo
  \/ \E op \in {"close", "set_cache"} : BeginFlush(op)
  \/ FlushCellInfo \/ Close \/ SetCache
  \/ BeginCopy \/ CopySmall \/ CopyList \/ Compact
  \/ Crash \/ Damaged

Spec == Init /\ [][Next]_vars
=============================================================================
