------------------------- MODULE ReceiverStoreLoads -------------------------
(***************************************************************************)
(* The receiver sweep and what follows it: the workers of the frequency    *)
(* loop (FrequencyPipeline) read the tiles back, each the shots of its own *)
(* frequency, with ReceiverBlockStore::load.  A store on disk has one      *)
(* stream for each block, whose position all workers share; read_mutex_    *)
(* makes a seek and the read after it one step.  A store in memory is read *)
(* without a lock.                                                         *)
(***************************************************************************)
EXTENDS ReceiverSweep

CONSTANTS
  Loaders,  \* the workers
  NoLoader

ASSUME LoadersAssumption == NoLoader \notin Loaders

VARIABLES
  memory_backed,  \* memory_backed_
  position,       \* of the stream of each block, in records
  reader,         \* the worker that holds read_mutex_
  next_frequency, \* the next frequency the schedule hands out
  load            \* the load each worker is in

loadVars == <<memory_backed, position, reader, next_frequency, load>>

\* field has the tiles read so far, block by block.
NoLoad == [step |-> "idle", shot |-> 0, frequency |-> 0, field |-> << >>]

\* The tiles were written one after the other; the streams are at their ends.
LoadInit ==
  /\ memory_backed \in BOOLEAN
  /\ position = [k \in Blocks |-> Shots * Frequencies]
  /\ reader = NoLoader
  /\ next_frequency = 0
  /\ load = [w \in Loaders |-> NoLoad]

\* The block whose tile the worker reads next.
NextBlockOf(w) == Len(load[w].field) + 1

Loading(w) == load[w].step = "load" /\ NextBlockOf(w) \in Blocks

Requested(w) == Record(load[w].shot, load[w].frequency)

\* Bound: loads are explored in the runs whose tables are their own.
LoadsExplored == tables = info /\ overlap_in_tables = seam

\* The stage of the receivers is over before a frequency is handed out.
TakeFrequency(w) ==
  /\ pc = "finalized" /\ LoadsExplored
  /\ load[w].step = "idle" /\ next_frequency < Frequencies
  /\ load' = [load EXCEPT ![w] =
       [NoLoad EXCEPT !.step = "load", !.frequency = next_frequency]]
  /\ next_frequency' = next_frequency + 1
  /\ UNCHANGED <<memory_backed, position, reader>>

CopyTile(w) ==
  /\ Loading(w) /\ memory_backed
  /\ load' = [load EXCEPT ![w].field =
       Append(@, store[NextBlockOf(w)][Requested(w)])]
  /\ UNCHANGED <<memory_backed, position, reader, next_frequency>>

\* Mutant: the reads are not serialized.
ReadMutexUnused == TRUE

ReadMutexFree == reader = NoLoader

SeekTile(w) ==
  /\ Loading(w) /\ ~memory_backed
  /\ ReadMutexFree
  /\ reader' = w
  /\ position' = [position EXCEPT ![NextBlockOf(w)] = Requested(w)]
  /\ load' = [load EXCEPT ![w].step = "read"]
  /\ UNCHANGED <<memory_backed, next_frequency>>

\* The position is one of a record: a read past the last one throws.
ReadTile(w) ==
  /\ load[w].step = "read"
  /\ position[NextBlockOf(w)] \in Records
  /\ load' = [load EXCEPT ![w].step = "load",
                          ![w].field = Append(@,
       store[NextBlockOf(w)][position[NextBlockOf(w)]])]
  /\ position' = [position EXCEPT ![NextBlockOf(w)] = @ + 1]
  /\ reader' = NoLoader
  /\ UNCHANGED <<memory_backed, next_frequency>>

\* The shot is imaged; then comes the next one of the frequency.
EndLoad(w) ==
  /\ load[w].step = "load" /\ NextBlockOf(w) \notin Blocks
  /\ load' = [load EXCEPT ![w] =
       IF load[w].shot < Shots - 1
       THEN [load[w] EXCEPT !.shot = @ + 1, !.field = << >>] ELSE NoLoad]
  /\ UNCHANGED <<memory_backed, position, reader, next_frequency>>

LoadNext ==
  \E w \in Loaders :
    TakeFrequency(w) \/ CopyTile(w) \/ SeekTile(w) \/ ReadTile(w) \/ EndLoad(w)

StoreInit == Init /\ LoadInit

StoreNext ==
  \/ Next /\ UNCHANGED loadVars
  \/ LoadNext /\ UNCHANGED vars

StoreSpec == StoreInit /\ [][StoreNext]_<<vars, loadVars>>
=============================================================================
