----------------------------- MODULE ShotImaging -----------------------------
(***************************************************************************)
(* The reverse-time migration of SEWAVE/sewave2d.cpp (rtm_image): OpenMP   *)
(* threads take the shots; each propagates the source forward and the      *)
(* receivers backward in time, keeps every snapshot_interval-th wavefield, *)
(* correlates the two series and writes an image of the shot to a file.    *)
(* After the parallel loop the images of the shots are stacked from their  *)
(* files.  The files stay on disk for later runs of the program; a run may *)
(* die at any point, by a signal or by an exception in a thread, which     *)
(* ends the whole program.                                                 *)
(*                                                                         *)
(* A snapshot is the number of the time step it was taken after.  The      *)
(* temporary files of the series have names of their own in each run and   *)
(* do not outlive the shot; what a dying run leaves of them is never read. *)
(***************************************************************************)
EXTENDS Integers, FiniteSets, Sequences

CONSTANTS
  Threads,
  Shots,      \* data.ns
  Steps,      \* the values of data.nt
  Intervals,  \* the values of snapshot_interval
  Ranges,     \* the values of shot_begin and shot_end
  MaxRuns     \* bound: runs of the program one after the other

ASSUME StepsAssumption ==
  /\ Steps \subseteq Nat \ {0} /\ Intervals \subseteq Int
  /\ Shots \in Nat \ {0}
  /\ IsFiniteSet(Threads) /\ Threads # {}
  /\ Ranges \subseteq Int \X Int

Shot == 0 .. Shots - 1

VARIABLES
  run,        \* the runs so far
  nt,
  snapshot_interval,
  in_memory,  \* in_memory_snapshots: of the source
  shot0,
  shot1,
  inside,     \* the shots whose source is inside the model
  next,       \* the next shot the schedule hands out
  job,        \* the shot of each thread
  step,       \* what each thread does
  it,         \* its time step
  snaps,      \* its source snapshots
  rec_snaps,  \* its receiver snapshots
  local,      \* the pairs of snapshots in its image
  shot_files, \* the run that wrote each image file; 0: none, -1: cut short
  shot_imaged,
  image,      \* the shots stacked so far, each with the run that imaged it
  status

config == <<run, nt, snapshot_interval, in_memory, shot0, shot1, inside>>
threadVars == <<job, step, it, snaps, rec_snaps, local>>
vars == <<config, next, threadVars, shot_files, shot_imaged,
          image, status>>

(***************************************************************************)
(* Snapshots                                                               *)
(***************************************************************************)
NoStep == -1

Larger(a, b) == IF a > b THEN a ELSE b
Smaller(a, b) == IF a < b THEN a ELSE b

RecOffset == 0

\* Mutant: both series are stored at the same offset.
SrcOffsetZero == 0
SrcOffset == (nt - 1) % snapshot_interval

\* store_snapshot_step and stored_snapshot_index.  C rounds the quotient of a
\* negative number up, but then the remainder is not zero either.
Stored(t, offset) == (t - offset) % snapshot_interval = 0
StoredIndex(t, offset) == (t - offset) \div snapshot_interval

\* count_stored_snapshots, of the receiver series: room for both.
StoredCount == (nt - 1 - RecOffset) \div snapshot_interval + 1

SnapAt(series, index) ==
  IF index + 1 \in DOMAIN series THEN series[index + 1] ELSE NoStep

\* The source series in memory is an array, the others are files.
AddSource(series, t) ==
  IF in_memory
  THEN [series EXCEPT ![StoredIndex(t, SrcOffset) + 1] = t]
  ELSE Append(series, t)

(***************************************************************************)
(* A run                                                                   *)
(***************************************************************************)
Start ==
  /\ nt' \in Steps
  /\ \E i \in Intervals : snapshot_interval' = Larger(1, i)
  /\ in_memory' \in BOOLEAN
  /\ \E r \in Ranges :
       /\ shot0' = Larger(0, r[1])
       /\ shot1' = IF r[2] < 0 THEN Shots - 1 ELSE Smaller(Shots - 1, r[2])
       /\ status' = IF shot0' > shot1' THEN "terminated" ELSE "imaging"
  /\ inside' \in SUBSET Shot
  /\ next' = shot0'
  /\ job' = [w \in Threads |-> -1]
  /\ step' = [w \in Threads |-> "idle"]
  /\ it' = [w \in Threads |-> 0]
  /\ snaps' = [w \in Threads |-> << >>]
  /\ rec_snaps' = snaps' /\ local' = snaps'
  /\ shot_imaged' = [s \in Shot |-> FALSE]
  /\ image' = << >>

\* Nothing runs yet.
Init ==
  /\ run = 0
  /\ nt = 1 /\ snapshot_interval = 1 /\ in_memory = FALSE
  /\ shot0 = 0 /\ shot1 = 0 /\ inside = {}
  /\ next = 0
  /\ job = [w \in Threads |-> -1]
  /\ step = [w \in Threads |-> "idle"]
  /\ it = [w \in Threads |-> 0]
  /\ snaps = [w \in Threads |-> << >>] /\ rec_snaps = snaps /\ local = snaps
  /\ shot_files = [s \in Shot |-> 0]
  /\ shot_imaged = [s \in Shot |-> FALSE]
  /\ image = << >>
  /\ status = "ended"

\* The program is started, again in the directory of an earlier run.
Run ==
  /\ status \in {"ended", "terminated"} /\ run < MaxRuns
  /\ run' = run + 1
  /\ Start
  /\ UNCHANGED shot_files

HandedOut == next > shot1

SkipShot(w) ==
  /\ status = "imaging" /\ step[w] = "idle" /\ ~HandedOut
  /\ next \notin inside
  /\ next' = next + 1
  /\ UNCHANGED <<config, threadVars, shot_files, shot_imaged,
                 image, status>>

TakeShot(w) ==
  /\ status = "imaging" /\ step[w] = "idle" /\ ~HandedOut
  /\ next \in inside
  /\ next' = next + 1
  /\ job' = [job EXCEPT ![w] = next]
  /\ step' = [step EXCEPT ![w] = "source"]
  /\ it' = [it EXCEPT ![w] = 0]
  /\ snaps' = [snaps EXCEPT ![w] =
       IF in_memory THEN [i \in 1 .. StoredCount |-> NoStep] ELSE << >>]
  /\ rec_snaps' = [rec_snaps EXCEPT ![w] = << >>]
  /\ local' = [local EXCEPT ![w] = << >>]
  /\ UNCHANGED <<config, shot_files, shot_imaged, image, status>>

\* The step of a loop over time, and what follows the loop.
NextStep(w, after) ==
  /\ it' = [it EXCEPT ![w] = (@ + 1) % nt]
  /\ step' = [step EXCEPT ![w] = IF it[w] = nt - 1 THEN after ELSE @]

SourceStep(w) ==
  /\ status = "imaging" /\ step[w] = "source"
  /\ snaps' = [snaps EXCEPT ![w] =
       IF Stored(it[w], SrcOffset) THEN AddSource(@, it[w]) ELSE @]
  /\ NextStep(w, "receivers")
  /\ UNCHANGED <<config, next, job, rec_snaps, local, shot_files,
                 shot_imaged, image, status>>

\* Step t injects the sample nt - 1 - t of the gather.
ReceiverStep(w) ==
  /\ status = "imaging" /\ step[w] = "receivers"
  /\ rec_snaps' = [rec_snaps EXCEPT ![w] =
       IF Stored(it[w], RecOffset) THEN Append(@, nt - 1 - it[w]) ELSE @]
  /\ NextStep(w, "correlate")
  /\ UNCHANGED <<config, next, job, snaps, local, shot_files,
                 shot_imaged, image, status>>

Pair(w) ==
  <<SnapAt(snaps[w], StoredIndex(nt - 1 - it[w], SrcOffset)),
    SnapAt(rec_snaps[w], StoredIndex(it[w], RecOffset))>>

CorrelateStep(w) ==
  /\ status = "imaging" /\ step[w] = "correlate"
  /\ local' = [local EXCEPT ![w] =
       IF Stored(it[w], RecOffset) THEN Append(@, Pair(w)) ELSE @]
  /\ NextStep(w, "write")
  /\ UNCHANGED <<config, next, job, snaps, rec_snaps, shot_files,
                 shot_imaged, image, status>>

\* The critical section: one thread writes an image at a time.
BeginWrite(w) ==
  /\ status = "imaging" /\ step[w] = "write"
  /\ \A v \in Threads : step[v] # "writing"
  /\ shot_files' = [shot_files EXCEPT ![job[w]] = -1]
  /\ step' = [step EXCEPT ![w] = "writing"]
  /\ UNCHANGED <<config, next, job, it, snaps, rec_snaps, local,
                 shot_imaged, image, status>>

EndWrite(w) ==
  /\ status = "imaging" /\ step[w] = "writing"
  /\ shot_files' = [shot_files EXCEPT ![job[w]] = run]
  /\ shot_imaged' = [shot_imaged EXCEPT ![job[w]] = TRUE]
  /\ step' = [step EXCEPT ![w] = "idle"]
  /\ job' = [job EXCEPT ![w] = -1]
  /\ snaps' = [snaps EXCEPT ![w] = << >>]
  /\ rec_snaps' = [rec_snaps EXCEPT ![w] = << >>]
  /\ local' = [local EXCEPT ![w] = << >>]
  /\ UNCHANGED <<config, next, it, image, status>>

\* Mutant: the loop ends when every shot of the range has an image.
JoinedWhenImaged == HandedOut /\ \A s \in shot0 .. shot1 : shot_imaged[s]
Joined == HandedOut /\ \A w \in Threads : step[w] = "idle"

Join ==
  /\ status = "imaging" /\ Joined
  /\ status' = "stacking" /\ next' = shot0
  /\ UNCHANGED <<config, threadVars, shot_files, shot_imaged,
                 image>>

\* Mutant: every image file found is stacked.
HasImageFile(s) == shot_files[s] # 0
HasImage(s) == shot_imaged[s]

StackShot ==
  /\ status = "stacking" /\ ~HandedOut
  /\ image' = IF HasImage(next)
              THEN Append(image, <<next, shot_files[next]>>) ELSE image
  /\ next' = next + 1
  /\ UNCHANGED <<config, threadVars, shot_files, shot_imaged,
                 status>>

EndStack ==
  /\ status = "stacking" /\ HandedOut
  /\ status' = "ended"
  /\ UNCHANGED <<config, next, threadVars, shot_files,
                 shot_imaged, image>>

\* A signal, or an exception that leaves a thread of the team.
Die ==
  /\ status \in {"imaging", "stacking"}
  /\ status' = "terminated"
  /\ job' = [w \in Threads |-> -1]
  /\ step' = [w \in Threads |-> "idle"]
  /\ it' = [w \in Threads |-> 0]
  /\ snaps' = [w \in Threads |-> << >>]
  /\ rec_snaps' = snaps' /\ local' = snaps'
  /\ image' = << >>
  /\ UNCHANGED <<config, next, shot_files, shot_imaged>>

\* No run is left.
Finished == status \in {"ended", "terminated"} /\ run = MaxRuns
            /\ UNCHANGED vars

ThreadStep(w) ==
  \/ SkipShot(w) \/ TakeShot(w)
  \/ SourceStep(w) \/ ReceiverStep(w) \/ CorrelateStep(w)
  \/ BeginWrite(w) \/ EndWrite(w)

Next ==
  \/ Run
  \/ \E w \in Threads : ThreadStep(w)
  \/ Join \/ StackShot \/ EndStack
  \/ Die \/ Finished

\* The operating system runs every thread.
Fairness ==
  /\ \A w \in Threads : WF_vars(ThreadStep(w))
  /\ WF_vars(Join \/ StackShot \/ EndStack)

Spec == Init /\ [][Next]_vars /\ Fairness
=============================================================================
