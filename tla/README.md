# Verification of the Kirchhoff/GMRES imaging code

The repository images the subsurface in the frequency domain. A velocity model
is cut into *Huygens blocks* of depth rows; a receiver wavefield is carried from
block to block with one-way Kirchhoff operators, compressed by butterfly
factorisation; a source wavefield is built from fast-marching traveltimes; both
are corrected by a global preconditioned GMRES and correlated into images. The
programs run one after the other and hand files to each other. A program for
two-dimensional reverse-time migration and the file library with its trace map
(`sesi_map`) stand beside this pipeline.

This directory holds TLA+ models of the parts of that system which decide
*what* is computed, in which order and from which data, the TLC runs that check
them on small instances, and TLAPS proofs for every value of the constants.
The floating-point arithmetic is abstracted: a wavefield is where it came from,
a sum is the order of its terms, a time is a small integer.

Paths below are relative to `src/`. `GBF` stands for
`SERECKIRCH/src/global_bf_imaging_workflow.cpp`, `HS` for
`SERECKIRCH/src/huygens_sweep.cpp`.

## 1. Inventory

Vendored and left aside: `OpenBLAS`, `eigen`, `fftw`, `superlu`,
`ButterflyPACK`, `SEBASIC/src/sqlite3.c`. `ref/` and `ref_image/` are earlier
prototypes that no build file compiles.

| Part | State | Operations | Hard behaviour | Correct when |
|---|---|---|---|---|
| Frequency-parallel stage (GBF 1005-1032, 2054-2330; loop in `patch`) | memory slots, one `FrequencyState` per frequency, three kinds of order counters, images | `process_frequency` = begin, source, correct, correlate for each shot, end | OpenMP team, two mutexes, two condition variables, exceptions in the region | images are sums in the legacy order; never more frequencies in memory than slots; every frequency gets in |
| Block decomposition (HS 168-412, `src/huygens_block_info.cpp`) | `BlockInfo`, the block file | make, validate, write, read; Scheme A and imaging forms of a block | text file written in place, edited by users; boundary arithmetic | official rows partition the model; each datum is computed by the block above |
| Receiver sweep (GBF 1157-2052) | boundary fields, overlap caches, chunk buffer, tree cache, tile store | for each block, frequency, chunk, shot: propagate, blend, cache, store, sample | buffers updated in place with different lifetimes; tables from another program run | each tile comes from the field above it, of its own shot and frequency; no row counted twice |
| Receiver store (GBF 833-988) | tiles per block in memory or scratch files, one stream per block | begin_block, write, finalize, load | parallel loads through one `fstream` | a load returns the tiles of its shot and frequency |
| Butterfly wrapper (`SERECKIRCH/src/se_butterfly.cpp`) | matrices, bounded cache of trees | build, apply, acquire geometry | eviction | trees survive the frequencies of a block |
| Fast marching (`SERECKIRCH/src/efmm.cpp`) | tentative and accepted times, narrow band | seed, pop, recompute neighbours | the band is a second copy of the times, kept sorted by hand | returns a time for every point; accepted times are final |
| Traveltime tables (`src/travel_time_solver.cpp`) | tables of a block, failure flag | solve three marches per source, fill rows, write tables | dynamic OpenMP loop with failures | only complete tables reach the disk; the loop ends |
| Scripts (`script/*.sh`) and SEP files (`SEFILESYSTEM/src/se_fs_sep.cpp`, `se_fs_io.cpp`) | result files | six stages, each skipped when its result exists | kill, full disk, reuse | cut data never reaches an image |
| RTM of `SEWAVE/sewave2d.cpp` | snapshot series, per-shot images, stack | propagate, snapshot, correlate, write, stack | snapshots paired in reversed time, parallel shots, files of earlier runs | paired snapshots are of one time; the stack has each wanted shot of this run once |
| SEP map (`SEFILESYSTEM/src/sesi_map.cpp`) | cells and lists on disk, cache of cells | create, open, add, set, get, fold, set_cache, compact, close | eviction and write-back, lists that grow and move, death of the program | a read gives what was put in; what was written back survives |
| GMRES (`SELINEAR/include/global_preconditioned_gmres.hpp`) | Krylov basis, residual, step count | restart cycles | breakdown, last short cycle | residual of the result reported |
| Legacy tools (`neighbors.cpp`, `pqueue.cpp`, `eikods.cpp`, `kirmig.cpp`, ...) | heap of pointers | insert, extract, update | keys changed inside the heap | earliest point first |
| `SEBASIC`, rest of `SEFILESYSTEM` | containers, logs, SEG-Y indexes | general utilities | - | outside the imaging path |

How they interact: `huygens_block_info` writes the block file;
`travel_time_solver` reads it and writes, per block, the tables; the imaging
program reads both, runs the sweep (sequential), which fills the receiver store,
and then the frequency-parallel stage, whose workers load from the store. The
script starts them in this order. `PROJECT.json` lists every part, with its
state of modelling and the reason for what is left out, and every hazard with
the line where it bites and the properties that watch it.

## 2. Modules

| Module | Models |
|---|---|
| `OrderedAccumulation` | abstract: frequency by frequency, shot by shot, one addition at a time, then the images are written |
| `FrequencyPipeline` | the threaded stage: team, slots, ordered waits, notifications, exceptions |
| `BlockGeometry` | pure: requests, blocks, the validator's conditions, rows a block computes |
| `HuygensBlocks` | request, making, file, crash or edit, reading, validation, use |
| `ReceiverSweep` | the recursive sweep over accepted block files (uses `BlockGeometry`) |
| `ReceiverStoreLoads` | the sweep composed with the workers that load its tiles (extends `ReceiverSweep`) |
| `FastMarching` | the solver and its narrow band |
| `TravelTimeWorkers` | the source loop of the table program |
| `ImagingScript` | stages, files, kills, reuse |
| `ShotImaging` | the RTM: threads, snapshots, shot files, stack, runs in one directory |
| `CellMap` | abstract: a list for each cell and what of it is in the file |
| `SesiMap` | the map on disk, its cache, growth and compaction; implements `CellMap` |
| `<M>Properties` | the properties of `<M>`, and the strengthening that makes them inductive (`ReceiverSweepProperties` is about `ReceiverStoreLoads` too) |
| `<M>Proofs` | the theorems about `<M>` and their proofs |
| `MC<M>` | instances for TLC |

A definition whose comment begins with *Mutant* is a plausible wrong form of the
definition after it. It is used nowhere in the specifications: put in the place
of that definition, it makes TLC refute the property it is listed with, which
shows that the property depends on that piece of code.

### FrequencyPipeline

`pc[w]` is where worker `w` is in `process_frequency`. Each critical section is
one action. A `condition_variable::wait` is split into the test that puts the
thread to sleep (`SleepForSlot`, `SleepForTurn`) and the test that lets it
through (`AcquireSlot`, `AddBefore`, `AddAfter`, `Commit`); a spurious wakeup is
such a test that fails, so it adds no behaviour. `notify_all` and `notify_one`
come after the unlock in the code and are actions of their own
(`NotifyAccumulation`, `NotifySlot`). Frequencies are handed out in increasing
order by the dynamic schedule (`TakeIndex`). `Fail` is an exception: nothing
catches inside the parallel region, so the program terminates.

`frequency_states[f]` keeps which operators are allocated and which shots are
stored. An image is the sequence of the terms added to it; the order alone
distinguishes two floating-point sums. Timing metrics and their mutex are left
out.

`src/patch` holds the caller: the loop over frequencies with
`num_threads(frequency_parallelism())`. The main program itself is not in the
tree, the patch file quotes it.

### BlockGeometry and HuygensBlocks

Rows and counts are those of the code, one depth row a number. `make_block_info`
is `BuildFirstBlock`, then one `AppendBlock` for each turn of its loop, then its
own validation. Writing is one action for the header and one for each line. A
crash may leave any prefix (`damage = "torn"`, also with a line cut in two), and
an editor may change one number (`"edited"`). The reader validates again, block
by block (`AcceptBlock`, `RejectBlock`). Lateral sampling is left out, and
strides are one.

### ReceiverSweep and ReceiverStoreLoads

The stage is sequential, and what can go wrong is which buffer holds what. A
field is `[block, row, shot, frequency]`. `Propagate` copies the right-hand
sides of all shots (`rhs_inputs`), `ApplyChunk` builds one operator with trees
from the bounded cache and scatters the rows of a chunk of depths, `PostShot` is
the body of the shot loop: blend with the overlap above, cache for the overlap
below, write the tile, sample the next datum in place. `EndBlock` moves the
caches. The tables may be those of another block file with the same depth of
model.

When the sweep is over, the workers of the frequency loop take frequencies and
load the tiles of each shot from all blocks. With a store on disk `SeekTile` and
`ReadTile` are two steps under `read_mutex_`, at a stream whose position is
shared; with a store in memory `CopyTile` takes no lock. `Weight` is the weight
of a row of a tile; the cosine taper is replaced by a line through the same
ends, which keeps that the two weights of a shared row add up to one.

### FastMarching

`recpt`, `alive` and `band` are the code's fields; `PopMin` accepts a point,
`UpdateNeighbour` and `SkipNeighbour` do its four neighbours in the code's
order. The stencil (`NewTimes`) is any time allowed by the checks the code makes
on the result: causal stencils not before the latest neighbour used, otherwise
the fallback. The source lies in any cell and its seeds have any times, since
the code computes them from local velocities. Left out: the tolerance of 1e-12,
an infinite result from a vanishing coefficient, and failing allocations. The
claim that points are accepted in order of time is deliberately not made: the
fallback stencil may give a time before the last one accepted.

### TravelTimeWorkers

One action for taking a source (with the relaxed read of `failed`, which may
miss it), for filling its rows, for the `fetch_add`, for the
`compare_exchange`, for the message, and after the implicit barrier either the
throw or the tables. A block may be refused for the size of its tables, and a
table file may fail to open.

### ImagingScript

A result file has a header level (none, started, located, shaped, whole), its
data (none, short, whole) and whether it was computed from misread input.
`sep_open` empties both files, data is written, `sep_close` appends the header
line by line. `Kill` may come in any state of a run and the disk may fill.
Assumed: a header line is written whole, `rm -rf` is atomic, all runs have the
same parameters, and of the three tables of a block the one the imaging program
reads stands for all.

### ShotImaging

Threads take the shots of a range; a shot whose source is outside the model is
skipped. `SourceStep` and `ReceiverStep` advance one time step and keep every
`snapshot_interval`-th wavefield: the source series from an offset, in memory or
in a file, the receiver series in reversed time; `CorrelateStep` pairs them. A
snapshot is the number of its time step, so that a wrong pairing shows. The image files of the
shots have the same names in every run; `shot_files` says which run wrote each,
or that it was cut. The program may die in any state and be started again with
other settings.

### CellMap and SesiMap

A cell of `SesiMap` has a fold and either up to two indexes or the offset of a
list; a list is followed by the size of its block. Calls are cut where the
program can die: the eviction of another cell, its write-back, the body of the
call, the write of a cell. `words` is the list area in the file; `byte_order`
decides from which form of its size the padding of a block is counted.
Compaction copies cell after cell to a temporary file (`tmp`) and then the
temporary file over the map (`Overwriting`): a death before that last copy loses
the cache and nothing else. `CellMap` knows nothing of offsets, folds or
caches: it has what a reader sees (`map`), what is in the file (`saved`), and
what may be lost. Under the refinement mapping, an eviction is a `WriteBack`,
the growth of a block is invisible, and a reopened map shows what was saved.
Axes, headers and coordinates are left out: a cell is named by its index.

## 3. Runs

| Run | Instance | Distinct states | Shows |
|---|---|---|---|
| `frequency_safety` | 4 workers, 3 slots, 4 frequencies, 2 shots, per-shot images | 1,464,849 | order of additions, memory bound, no lost wakeup, complete images, refinement of `OrderedAccumulation` |
| `frequency_liveness` | 3 workers, 3 slots, 4 frequencies, 1 shot | 35,474 | with a slot for each worker every frequency is committed; nobody waits for a slot; no deadlock |
| `frequency_stall` | 2 workers, 1 slot | counterexample | finding 1 |
| `huygens_blocks` | all requests for models up to 10 rows | 451,121 | maker and validator agree; a torn file never passes; accepted files partition the rows, cover each datum, keep overlaps apart |
| `receiver_sweep` | 10 rows, up to 5 blocks, 2 shots, 3 frequencies, chunks of 2 or 4 depths, a tree cache of 2, 2 loaders | 432,186 | provenance of each tile, seams, parallel loads, tables, weights, reuse of trees |
| `sweep_counts_twice` | same files, 1 shot, 1 frequency | counterexample | finding 2 |
| `fast_marching` | 2 x 3 points, all source cells and seed times up to 3 | 300,589 | band and times agree; times only improve; the solver returns with every point reached |
| `traveltime_workers` | 3 workers, 5 sources, 2 blocks | 21,519 | only complete tables are written; the loop ends |
| `imaging_script` | 3 runs of the script, 2 tables | 195,785 | cut data never reaches an image |
| `shot_imaging` | 2 threads, 2 shots, 4 or 5 steps, intervals 0 to 7, 2 runs | 103,985 | snapshots of one time are paired; the stack is of this run; every run ends |
| `sesi_map` | 2 cells, folds up to 8, both byte orders, caches that hold both cells or not | 1,498,602 | blocks never overlap; refinement of `CellMap` |
| `sesi_map_no_list` | 2 cells | counterexample | finding 3 |

**Why these bounds.** Four workers over three slots give a sleeper on the slot
while two others wait for their turn; a fourth frequency makes an index be taken
after a release. Two shots separate the per-shot counters from the image
counter. With ten rows there are up to five blocks, short last blocks, and every
overlap the request allows, so that first, inner and last blocks all occur and
two overlaps could meet. Two shots and three frequencies tell `shot * F + f` from
`frequency * S + s`. Two cached trees with blocks of up to three chunks make the
cache both sufficient and too small, and the code's own 16
(`MaximumCachedGeometries`) is only larger. Two loaders are enough to move one
another's streams; `LoadsExplored` restricts the loads to the runs whose tables
are their own, since the store does not depend on the tables. Six grid points
include a point with neighbours on two axes and allow a decrease of a key past
others. A second block in `traveltime_workers` shows that flag and counters
start afresh. Three runs of the script let a damaged file be reused by a run
whose results are reused in turn. In `shot_imaging` the intervals divide the
last step, do not, and exceed the run; a second run finds the files of the
first. In `sesi_map` blocks grow by seven (`GrowBy`), so that a block of seven
holds lists of three to six and a list of eight must move; a list may then be
shortened into its cell and grow again. `MaxFold` and `MaxWords` end the
growth: no list gets longer, and no call starts, beyond them.

`CHECK_DEADLOCK FALSE` is set where the system really stops: the slots of
`frequency_safety` can run out (finding 1), and the script's runs end.

**Fairness.** `FrequencyPipeline`, `TravelTimeWorkers` and `ShotImaging` assume
weak fairness of each thread and of the main thread: an operating system runs
every thread that is not blocked. No strong fairness is assumed: mutexes are held
for one action only. `WF` of a worker does not force it to succeed; a solve may
always fail, and a program may die. That the user starts a run is not assumed.
The other modules have no liveness property and no fairness.

## 4. Findings

1. **Stall with fewer slots than threads** (`GBF:2082`). The team is sized by
   `frequency_threads`, the slots by the available memory. A later frequency may
   take the last slot and then wait, holding it, for an earlier frequency that
   waits for a slot. The help text promises that the number of resident
   frequencies is limited automatically.
2. **Halo rows counted twice** (`GBF:1364`). Without overlap and Scheme A (the
   overlap of zero is a default of `huygens_block_info`), the halo row of a block
   is also the first row of the next, and both tiles enter a load with weight one.
3. **A cached cell without its list is written back** (`sesi_map.cpp:763`). The
   fold of a cell is read into the cache without its list; the write-back stores
   the size of the block through the pointer to the list, which is `NULL`, in
   spite of the comment that "we need to have a list" there.

Seen while modelling, without a run of its own:

* The target depths of a traveltime table are compared with a geometry made from
  the block itself (`HS:690`), so a table of another block file with the same
  number of depths passes. `OwnTablesMatch` says what the check does guarantee.
* A header that a kill has cut is reused by the script, and the sampling it lacks
  takes default values (`script/...multishot.sh:193`).
  `WrongImageOnlyFromCutHeader` says that this is the only way to a wrong image.
* A short write does not end a program (`se_fs_io.cpp:742`); the reader stops at
  the early end of file.
* The estimate of the receiver store (`GBF:1291`) counts no halo rows, so with
  several blocks and no overlap the tiles need more than estimated.
* A receiver gather is recognised by a size other than `nt`
  (`sewave2d.cpp:513`), so the gather of a single receiver is taken for a source
  signature and injected at the source.
* The validator compares the overlap with the header only (`HS:251`): a file
  whose header allows an overlap of 2 (`first_block_rows` 4, `block_rows` 3) and
  whose first block was edited to end at row 2 is accepted, and then refused by
  the preview of Scheme A, since the first two blocks share one row.
  `make_block_info` never writes such a file. `MatchingInputIsAccepted` has the
  premise `OverlapInFirstBlock` for it.
* `sesi_map`: the write of a list swaps its words in memory, so padding is
  counted from a swapped size on a little-endian machine (`:735`). Up to 127
  words that is too much padding. A size whose low byte is 128 or more swaps to a
  negative number: the block gets no padding, and the next list is written into
  it. The default `grow_by` of 100 reaches that size. `BlocksStayApart` and
  `ImplementsMap` name the condition (`PaddingIsWhole`).
* `sesi_map`: a `grow_by` of zero is refused when a map is opened but not when it
  is created; the buckets of a new cache are not cleared (`:1066`); a death
  during an update in place without a cache, or while a compacted file is copied
  over the map (`:951`), damages the file, which is why `CellMap` has a step
  `Damage`.

## 5. Proofs

Assumptions are the named ones of the modules: a finite non-empty team and
positive counts, a grid, block files the validator accepts (`InfosAssumption`,
the conditions of `validate_block_info`), and the like. One premise is not an
assumption of a module: the theorems about `SesiMap` say `PaddingIsWhole`, since
the code breaks them otherwise (section 4). It relates constants only, holds
whenever `MaxFold + GrowBy < 127` (`SmallBlocksArePadded`) or words are not
swapped, and fails first at a block of 128 words (`LargeBlockIsNotPadded`).
Nothing else is assumed. Every theorem is for all values of the constants.

**FrequencyPipelineProofs**, for every team, number of slots, frequencies and
shots:

* `TypeCorrect`, `LegacyOrderOfCommits`, `MemoryBound`, `WrittenIsComplete`,
  `SlotsSuffice`: `Spec` implies always `TypeOK`, `ImageInLegacyOrder`,
  `OperatorsWithinBudget`, `WrittenImagesAreComplete`, `NobodyWaitsForASlot`.
* `ImplementsLegacyOrder`: `Spec` implies `OrderedAccumulation!Spec`.
* `NoLostTurn`, `NoLostSlot`: always `TurnIsNotified` and `FreeSlotIsNotified`.

That a commit has every shot is not inductive by itself: it depends on whose
frequency a worker holds and on what it has stored. `IInv` adds that slots count
the workers between taking and returning one (`SlotsAreCounted`), that every
frequency handed out and not committed has exactly one owner
(`FrequenciesHaveOneOwner`), that allocated operators have a solver
(`OperatorsHaveASolver`), that the stored terms of a worker are those of the
shots it has passed (`TermsAreStored`), and that the per-shot counters are ahead
of the image counter by the same measure (`PerShotTermsPrecede`,
`PerShotCounters`). There is one lemma per part (`SlotStep`, `OwnerStep`,
`SolverStep`, `PerShotStep`, `ImageStep`, `WrittenStep`), each by cases of the
next-state relation, and `TeamDone` shows that when all workers have left the
loop every frequency is committed. The memory bound follows from an injection of
the frequencies with operators into the workers in the section. For the
refinement, each action is mapped to one addition, the final write, or a stutter
(`LegacyStep`); the counters of the abstract module are those of the workflow.

For the last two, `WakeupInv` adds that a sleeper is at the wait it called. A
free slot needs an argument by counting: the sleepers, the workers about to
notify and those awake at the test are compared with the free slots in each step
that changes one of them.

**HuygensBlocksProofs**, for models of any depth and every request:
`TypeCorrect`, `MakerNeverRejects`, `OfficialRowsPartition`, `DatumRowComputed`,
`OverlapsNeverMeet`, `TornFilesAreRejected`.

The invariant says what the maker has appended so far (`Making`) and what the
validation loop has accepted so far (`Validating`, `Stacked`): the blocks up to
`checked` are valid, increasing, and leave no row out. `MadeBlockIsValid` is the
heart of `MakerNeverRejects`: a block made from an allowed request meets each
condition of the validator. The next three follow from the accepted file alone
(`AcceptedBlocks`, `FullBlocks`), so they hold whatever a crash or an editor did.
`TornFilesAreRejected` needs `Unedited`: a file nobody edited has the header of
the request, and a cut in its first line keeps the end of the first block, so
that two accepted files of one request are the same.

**ReceiverSweepProofs**, for all accepted files, shots, frequencies, depths of
chunks and any number of loaders: `TypeCorrect`, `DatumsComeFromAbove`,
`SeamsComeFromAbove`, `WorkersGetTheirTiles`, `TreesAreReused`,
`MatchingInputPasses`, `OwnTablesAreForTheirRows`, `RowsCountOnce`. `SweepInv`
says which entries of each buffer are from this block and which from the one
above: a shot is *done* (`Done`) when it has passed this block at this
frequency, and the boundary holds the datum of the next block exactly for the
done shots (`DatumFields`), the next cache holds their overlap
(`OverlapCaches`), and their tiles are in the store (`Tiles`).
That shots and frequencies never share a record or a cache entry is
`IndexedOnce`; that the row of the next datum is computed, so that the sample is
always taken, is `DatumComputed`, from the conditions of the validator; that the
chunks leave no row out is `Propagated`. `Loads` says that a worker has read the
tiles of its own record so far, and that one which is about to read holds the
mutex and stands at its record (`LoadIs`).

`BufferInv` is the invariant of the rest: the types of the buffers, and
`TreesOfTheBlock` for the cache of trees. At the first frequency of a block the
trees of its chunks so far are the newest entries of the cache (`Newest`), so
that none of them is the oldest when the next is built; at later frequencies all
of them are there, and a hit moves an entry to the end without losing one
(`FoundMovesToTheEnd`, `Acquired`).

`OwnTablesAreForTheirRows` and `MatchingInputPasses` are about what the checks
tell apart: with and without the overlap the rows of a block end at the same
row, so equally many rows are the same rows (`EquallyManyRows`), and two
neighbours share exactly `overlap_rows` rows (`SharedRowsAreTheOverlap`) when
the overlap ends inside the first block. For `RowsCountOnce` that last condition
follows from the count of the preview (`PreviewedOverlap`); then a row is in one
block or in two neighbours and in no third (`Holders`), since an overlap is
shorter than a block (`EndsGrow`), and the two weights add up to one. The fold
over the blocks of a row is unrolled for sets of one and of two (`SumOfFew`),
and arguments along the blocks take the least counterexample (`Least`).

**FastMarchingProofs**, for every grid and all times: `TypeCorrect`,
`BandIsSound`, `BandIsInOrder`, `TimesSpread`, `EveryPoint`, `OnlyImproves`.
Insertion and decrease of a key shift a range of the array
(`BubbleLeft`): lemmas say that the result has the same entries, once each, and
is sorted. `MarchInv` adds that each pop accepts one point more
(`EachPopAccepts`) and that all neighbours of an accepted point have a time
(`NeighboursAreReached`); then an empty band leaves no point without a time,
since a path over the grid leads from the source to it. Where an argument needs
the least number of a set, it cites `Least`, from the library's theorem on
well-founded relations.

**TravelTimeWorkersProofs**, for every team, sources and blocks: `TypeCorrect`,
`TablesAreComplete`. `IInv` says that a source handed out has its rows, has a
worker, or was given up after a failure (`NoneIsLost`), and that the rows that
are not counted are those of workers about to count (`RowsAreCounted`).

**ShotImagingProofs**, for every team, number of shots and runs, every number of
time steps and every interval: `StackIsSound`, `PairsAreOfOneTime`. `StackInv`
says that no shot has two threads, that a wanted shot which was handed out is
imaged or has a thread unless the program died, and that an imaged shot's file
is one of this run. `SeriesInv` says of each loop over time which snapshots it
has kept so far (`KeptBefore`). `RoomForBoth` is why the pairing works: with the
remainder of `nt - 1` as its offset, the source series has as many snapshots as
the receiver series and its last one is taken at the last step, so that the one
counted from the end is the other counted from the start (`NextPair`).

**ImagingScriptProofs**, for every number of tables and runs and a disk that
fills or not: `TypeCorrect`, `WrongImageHasACutHeader`. `ScriptInv` says that a
file computed from misread input always has its cause beside it
(`AlteredHasACause`): a header of an earlier stage that was left cut, which no
program rewrites unless what depends on it is removed or written again.

**SesiMapProofs**, for any number of cells, any batches, any `grow_by` and any
limit of the cache, in both byte orders: `TypeCorrect`, `BlocksStayApart`,
`ImplementsMap`, all from `MapInvariance`. That blocks stay apart is not
inductive by itself: between the two writes of an update or of a write-back the
list area already has a list which no cell points to. `MapInv` says

* what is cached and in which order (`CacheIsOrdered`), and that an entry with a
  list has all of it, while one without has what the file has
  (`EntriesAreWhole`);
* that the call being served has the cell as a reader sees it
  (`CallHasItsCell`);
* that the blocks of the cells on disk fit and are apart (`BlocksFit`), and that
  a list already written for a cell not yet written is whole and apart from the
  others (`ListIsWritten` in an update, `VictimIsWritten` in a write-back);
* that what may be dropped from the cache is in the file (`DroppedIsSaved`);
* that the temporary file of a compaction has the lists of the cells copied so
  far (`CopySoFar`).

There is one lemma per action. For the refinement each action maps to a step of
`CellMap` or to a stutter:

| Actions of `SesiMap` | Steps of `CellMap` |
|---|---|
| `Begin`, `BeginFlush`, `BeginCopy` | `Forget` |
| `EvictReadOnly`, `EvictList`, `EvictEnd`, `FlushCellList`, `UpdateList` | stutter |
| `EvictSmall`, `EvictInfo`, `FlushSmallCell`, `FlushCellInfo` | `WriteBack` |
| `GetFold`, `GetIndexes` | `Count`, `Read` |
| `UpdateSmall`, `UpdateCachedList`, `WriteInfo` | `Update` |
| `CopySmall`, `CopyList` | stutter, the last one `BeginCompact` |
| `Compact` | `EndCompact` |
| `Close`, `SetCache`, `Open` | the step of that name |
| `Crash` | `Crash` or `Damage` |

**Only model-checked.** Liveness under fairness is out of the prover's reach:
`EveryFrequencyCommits`, `SolverEnds`, `EveryRunEnds`. Every other property of a
passing run is a theorem. The counterexamples of section 4 are TLC's.

## 6. Plan

Done in this order, the most important behaviour first: the frequency stage with
its abstract specification and proofs, the block decomposition with proofs, the
sweep, the marching solver, the table program, the script; then the parallel
loads, the RTM, the SEP map with its abstract specification; then the proofs
about all of them.

Next:

1. An abstract specification of the receiver store (what a load may return) that
   `ReceiverStoreLoads` implements, and one of the table stage (tables appear
   whole or not at all) that `TravelTimeWorkers` implements, with their proofs.
2. The steps of the liveness arguments that need no `ENABLED`: measures that
   decrease with each turn of the frequency stage and of the source loop.

## 7. Not modelled, and why

* Numeric kernels: Kirchhoff entries, filters, phase shift, finite differences,
  Arnoldi and least squares, splines, tapers. They have no state to speak of and
  real-valued results. Of the GMRES nothing would be left but the bound of its
  loop.
* `ray_helmholtz_iteration`, `test_bf_kir`, `smooth_velocity_model` and
  `mute_direct_wave` are sequential programs around them; the files of the last
  two are stages of `ImagingScript`.
* Forward modelling in `sewave2d.cpp`: its threads write disjoint slices of one
  array and share nothing else.
* The owned and borrowed handles of a butterfly matrix: they matter to a program
  that holds two matrices at once, and none here does.
* The MPI program of `SEWAVE` and the legacy Kirchhoff tools with their heap are
  not part of the workflow; `efmm.cpp` replaced the heap.
* `SEBASIC` and the SEG-Y, URI and parameter parts of `SEFILESYSTEM` serve other
  programs.
* Failing memory allocation inside the C parts (`efmm.cpp:66`) and a second
  thread in the error handler (`se_log.cpp:431`) are hazards without a property:
  they would need models of the C library's heap and of `exit`.
* `src/` holds several vendored libraries, which are most of its lines; the
  pipeline's own programs are a small part of it.

## 8. Running

```
tlc -workers 2 -config FrequencyPipelineSafety.cfg MCFrequencyPipeline
tlapm FrequencyPipelineProofs.tla
```

The module of each run and its configuration are in `PROJECT.json`. The longest
run and the longest proof take about two minutes.
