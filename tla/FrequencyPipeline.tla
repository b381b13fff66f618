------------------------- MODULE FrequencyPipeline -------------------------
(***************************************************************************)
(* The frequency-parallel correction and imaging stage of                  *)
(* SERECKIRCH/src/global_bf_imaging_workflow.cpp, driven by the OpenMP     *)
(* orchestration of patch: a team of workers takes frequency indices from  *)
(* a dynamic schedule; each runs process_frequency, whose stages share     *)
(*   - the slot counter active_frequencies, guarded by                     *)
(*     frequency_slot_mutex / frequency_slot_ready, and                    *)
(*   - the ordered accumulators, guarded by accumulation_mutex /           *)
(*     accumulation_ready.                                                 *)
(* A critical section is one action.  A condition_variable wait is two     *)
(* actions, the test that puts the thread to sleep and the test that lets  *)
(* it through; a notify, issued after the unlock, is an action of its own. *)
(* A term of a floating-point sum is the frequency it belongs to, because  *)
(* only the order of the additions changes the result.                     *)
(***************************************************************************)
EXTENDS Naturals, Sequences, FiniteSets

CONSTANTS
  Workers,               \* threads of the OpenMP team: frequency_parallelism()
  FrequencyCount,        \* axis.frequencies.size()
  ShotCount,             \* states.size()
  ConcurrentFrequencies, \* concurrent_frequencies, the memory-safe workers
  WritePerShot           \* write_per_shot_images

ASSUME WorkersAssumption == IsFiniteSet(Workers) /\ Workers # {}
ASSUME CountsAssumption ==
  /\ FrequencyCount \in Nat \ {0}
  /\ ShotCount \in Nat \ {0}
  /\ ConcurrentFrequencies \in Nat \ {0}
ASSUME WritePerShotAssumption == WritePerShot \in BOOLEAN

Frequencies == 0 .. FrequencyCount - 1
Shots == 0 .. ShotCount - 1

VARIABLES
  next_index,            \* next index the dynamic schedule hands out
  pc,                    \* where each worker is in process_frequency
  frequency,             \* the frequency each worker processes
  shot,                  \* the shot each worker is at
  active_frequencies,    \* slots taken
  frequency_states,      \* one FrequencyState for every frequency
  next_before_frequency, \* per shot: the frequency allowed to add next
  next_after_frequency,
  next_image_frequency,
  per_shot_before,       \* per shot: the terms added so far, in order
  per_shot_after,
  image,                 \* the commits made so far, in order
  slot_waiters,          \* threads asleep on frequency_slot_ready
  accumulation_waiters,  \* threads asleep on accumulation_ready
  outcome                \* "running", then "written" or "terminated"

teamVars == <<next_index, pc, frequency, shot>>
slotVars == <<active_frequencies, slot_waiters>>
perShotVars == <<next_before_frequency, per_shot_before,
                 next_after_frequency, per_shot_after>>
imageVars == <<next_image_frequency, image>>
vars == <<teamVars, slotVars, frequency_states, perShotVars, imageVars,
          accumulation_waiters, outcome>>

(***************************************************************************)
(* A FrequencyState: whether the Helmholtz operators, fields and           *)
(* contribution buffers are allocated (operators), the shot whose fields   *)
(* it holds, and the shots whose contribution has been stored (terms).     *)
(***************************************************************************)
FrequencyState ==
  [operators : BOOLEAN, shot : Shots, terms : SUBSET Shots]

ReleasedState == [operators |-> FALSE, shot |-> 0, terms |-> {}]

ProgramCounters ==
  {"schedule", "slot", "build", "source", "before", "notify_before",
   "correct", "correlate", "after", "notify_after", "commit",
   "notify_image", "release", "notify_slot", "done"}

Init ==
  /\ next_index = 0
  /\ pc = [w \in Workers |-> "schedule"]
  /\ frequency = [w \in Workers |-> 0]
  /\ shot = [w \in Workers |-> 0]
  /\ active_frequencies = 0
  /\ frequency_states = [f \in Frequencies |-> ReleasedState]
  /\ next_before_frequency = [s \in Shots |-> 0]
  /\ next_after_frequency = [s \in Shots |-> 0]
  /\ next_image_frequency = 0
  /\ per_shot_before = [s \in Shots |-> << >>]
  /\ per_shot_after = [s \in Shots |-> << >>]
  /\ image = << >>
  /\ slot_waiters = {}
  /\ accumulation_waiters = {}
  /\ outcome = "running"

Goto(w, label) == pc' = [pc EXCEPT ![w] = label]

At(w, label) == outcome = "running" /\ pc[w] = label

(***************************************************************************)
(* The OpenMP team: the dynamic schedule hands out one index at a time, in *)
(* increasing order, and a worker leaves the loop when none is left.       *)
(***************************************************************************)
TakeIndex(w) ==
  /\ At(w, "schedule")
  /\ next_index < FrequencyCount
  /\ frequency' = [frequency EXCEPT ![w] = next_index]
  /\ next_index' = next_index + 1
  /\ Goto(w, "slot")
  /\ UNCHANGED <<shot, slotVars, frequency_states, perShotVars, imageVars,
                 accumulation_waiters, outcome>>

LeaveLoop(w) ==
  /\ At(w, "schedule")
  /\ next_index = FrequencyCount
  /\ Goto(w, "done")
  /\ UNCHANGED <<next_index, frequency, shot, slotVars, frequency_states,
                 perShotVars, imageVars, accumulation_waiters, outcome>>

(***************************************************************************)
(* begin_frequency: wait for a slot, then allocate the contribution        *)
(* buffers and build the operators of the frequency.                       *)
(***************************************************************************)
\* Mutant: one frequency too many is let in.
SlotFreeOffByOne == active_frequencies <= ConcurrentFrequencies

SlotFree == active_frequencies < ConcurrentFrequencies

SleepForSlot(w) ==
  /\ At(w, "slot") /\ w \notin slot_waiters
  /\ ~SlotFree
  /\ slot_waiters' = slot_waiters \union {w}
  /\ UNCHANGED <<teamVars, active_frequencies, frequency_states, perShotVars,
                 imageVars, accumulation_waiters, outcome>>

AcquireSlot(w) ==
  /\ At(w, "slot") /\ w \notin slot_waiters
  /\ SlotFree
  /\ active_frequencies' = active_frequencies + 1
  /\ Goto(w, "build")
  /\ UNCHANGED <<next_index, frequency, shot, slot_waiters, frequency_states,
                 perShotVars, imageVars, accumulation_waiters, outcome>>

BuildOperators(w) ==
  /\ At(w, "build")
  /\ frequency_states' =
       [frequency_states EXCEPT ![frequency[w]] =
          [operators |-> TRUE, shot |-> @.shot, terms |-> {}]]
  /\ shot' = [shot EXCEPT ![w] = 0]
  /\ Goto(w, "source")
  /\ UNCHANGED <<next_index, frequency, slotVars, perShotVars, imageVars,
                 accumulation_waiters, outcome>>

(***************************************************************************)
(* The three stages of one shot.  Only the per-shot images make the first  *)
(* and the last of them enter the ordered section.                         *)
(***************************************************************************)
CalculateSource(w) ==
  /\ At(w, "source")
  /\ frequency_states' =
       [frequency_states EXCEPT ![frequency[w]] =
          [operators |-> @.operators, shot |-> shot[w], terms |-> @.terms]]
  /\ Goto(w, IF WritePerShot THEN "before" ELSE "correct")
  /\ UNCHANGED <<next_index, frequency, shot, slotVars, perShotVars,
                 imageVars, accumulation_waiters, outcome>>

\* Mutant: the commit of end_frequency does not wait for its turn.
CommitAnyTime(w) ==
  \/ pc[w] = "before" /\ next_before_frequency[shot[w]] = frequency[w]
  \/ pc[w] = "after" /\ next_after_frequency[shot[w]] = frequency[w]
  \/ pc[w] = "commit"

\* Mutant: the after-image does not wait for its turn.
AfterAnyTime(w) ==
  \/ pc[w] = "before" /\ next_before_frequency[shot[w]] = frequency[w]
  \/ pc[w] = "after"
  \/ pc[w] = "commit" /\ next_image_frequency = frequency[w]

\* The predicate of the accumulation_ready.wait the worker stands at.
Turn(w) ==
  \/ pc[w] = "before" /\ next_before_frequency[shot[w]] = frequency[w]
  \/ pc[w] = "after" /\ next_after_frequency[shot[w]] = frequency[w]
  \/ pc[w] = "commit" /\ next_image_frequency = frequency[w]

AtOrderedSection(w) ==
  /\ outcome = "running"
  /\ pc[w] \in {"before", "after", "commit"}
  /\ w \notin accumulation_waiters

SleepForTurn(w) ==
  /\ AtOrderedSection(w)
  /\ ~Turn(w)
  /\ accumulation_waiters' = accumulation_waiters \union {w}
  /\ UNCHANGED <<teamVars, slotVars, frequency_states, perShotVars,
                 imageVars, outcome>>

AddBefore(w) ==
  /\ AtOrderedSection(w) /\ pc[w] = "before" /\ Turn(w)
  /\ per_shot_before' =
       [per_shot_before EXCEPT ![shot[w]] = Append(@, frequency[w])]
  /\ next_before_frequency' =
       [next_before_frequency EXCEPT ![shot[w]] = @ + 1]
  /\ Goto(w, "notify_before")
  /\ UNCHANGED <<next_index, frequency, shot, slotVars, frequency_states,
                 next_after_frequency, per_shot_after, imageVars,
                 accumulation_waiters, outcome>>

\* A shot other than the one whose fields are loaded raises logic_error,
\* which Fail covers: the exception leaves the parallel region.
IterativelyCorrect(w) ==
  /\ At(w, "correct")
  /\ frequency_states[frequency[w]].shot = shot[w]
  /\ Goto(w, "correlate")
  /\ UNCHANGED <<next_index, frequency, shot, slotVars, frequency_states,
                 perShotVars, imageVars, accumulation_waiters, outcome>>

\* What follows the last stage of a shot: the next shot, or end_frequency.
NextShot(w) ==
  IF shot[w] + 1 < ShotCount
  THEN /\ shot' = [shot EXCEPT ![w] = @ + 1]
       /\ Goto(w, "source")
  ELSE /\ shot' = shot
       /\ Goto(w, "commit")

CrossCorrelate(w) ==
  /\ At(w, "correlate")
  /\ frequency_states[frequency[w]].shot = shot[w]
  /\ frequency_states' =
       [frequency_states EXCEPT ![frequency[w]] =
          [operators |-> @.operators, shot |-> @.shot,
           terms |-> @.terms \union {shot[w]}]]
  /\ IF WritePerShot
     THEN Goto(w, "after") /\ UNCHANGED shot
     ELSE NextShot(w)
  /\ UNCHANGED <<next_index, frequency, slotVars, perShotVars, imageVars,
                 accumulation_waiters, outcome>>

AddAfter(w) ==
  /\ AtOrderedSection(w) /\ pc[w] = "after" /\ Turn(w)
  /\ per_shot_after' =
       [per_shot_after EXCEPT ![shot[w]] = Append(@, frequency[w])]
  /\ next_after_frequency' =
       [next_after_frequency EXCEPT ![shot[w]] = @ + 1]
  /\ Goto(w, "notify_after")
  /\ UNCHANGED <<next_index, frequency, shot, slotVars, frequency_states,
                 next_before_frequency, per_shot_before, imageVars,
                 accumulation_waiters, outcome>>

(***************************************************************************)
(* end_frequency: the ordered commit adds every stored contribution in     *)
(* shot order, releases the operators, wakes every sleeper, and only then  *)
(* gives the slot back and wakes one worker that waits for it.             *)
(***************************************************************************)
\* Mutant: the sparse operators outlive the commit.
KeepOperators(state) ==
  [operators |-> state.operators, shot |-> state.shot, terms |-> {}]

Released(state) ==
  [operators |-> FALSE, shot |-> state.shot, terms |-> {}]

Commit(w) ==
  /\ AtOrderedSection(w) /\ pc[w] = "commit" /\ Turn(w)
  /\ image' = Append(image, <<frequency[w],
                              frequency_states[frequency[w]].terms>>)
  /\ frequency_states' =
       [frequency_states EXCEPT ![frequency[w]] = Released(@)]
  /\ next_image_frequency' = next_image_frequency + 1
  /\ Goto(w, "notify_image")
  /\ UNCHANGED <<next_index, frequency, shot, slotVars, perShotVars,
                 accumulation_waiters, outcome>>

\* Mutant: notify_one wakes one of the sleepers, whose turn it may not be.
WakeOneSleeper ==
  \/ accumulation_waiters = {} /\ UNCHANGED accumulation_waiters
  \/ \E v \in accumulation_waiters :
       accumulation_waiters' = accumulation_waiters \ {v}

\* accumulation_ready.notify_all()
WakeAllSleepers == accumulation_waiters' = {}

\* The notification, and what the worker does after it.
NotifyAccumulation(w) ==
  /\ outcome = "running"
  /\ WakeAllSleepers
  /\ \/ At(w, "notify_before") /\ Goto(w, "correct") /\ UNCHANGED shot
     \/ At(w, "notify_after") /\ NextShot(w)
     \/ At(w, "notify_image") /\ Goto(w, "release") /\ UNCHANGED shot
  /\ UNCHANGED <<next_index, frequency, slotVars, frequency_states,
                 perShotVars, imageVars, outcome>>

\* Mutant: the slot is never given back.
SlotsKept == active_frequencies

SlotsAfterRelease == active_frequencies - 1

ReleaseSlot(w) ==
  /\ At(w, "release")
  /\ active_frequencies' = SlotsAfterRelease
  /\ Goto(w, "notify_slot")
  /\ UNCHANGED <<next_index, frequency, shot, slot_waiters, frequency_states,
                 perShotVars, imageVars, accumulation_waiters, outcome>>

\* Mutant: the notification is forgotten.
WakeNobodyForSlot == UNCHANGED slot_waiters

\* frequency_slot_ready.notify_one wakes any one of the sleepers.
WakeOneForSlot ==
  \/ slot_waiters = {} /\ UNCHANGED slot_waiters
  \/ \E v \in slot_waiters : slot_waiters' = slot_waiters \ {v}

NotifySlot(w) ==
  /\ At(w, "notify_slot")
  /\ Goto(w, "schedule")
  /\ WakeOneForSlot
  /\ UNCHANGED <<next_index, frequency, shot, active_frequencies,
                 frequency_states, perShotVars, imageVars,
                 accumulation_waiters, outcome>>

(***************************************************************************)
(* The stages that allocate, read the receiver scratch file or solve may   *)
(* throw.  Nothing catches inside the parallel region, so the exception    *)
(* leaves it and the run-time calls std::terminate.                        *)
(***************************************************************************)
Fail(w) ==
  /\ outcome = "running"
  /\ pc[w] \in {"build", "source", "correct", "correlate"}
  /\ outcome' = "terminated"
  /\ UNCHANGED <<teamVars, slotVars, frequency_states, perShotVars,
                 imageVars, accumulation_waiters>>

\* Mutant: the loop is declared nowait.
FirstWorkerDone == \E w \in Workers : pc[w] = "done"

AllWorkersDone == \A w \in Workers : pc[w] = "done"

\* After the region's closing barrier the main thread writes the images.
WriteImages ==
  /\ outcome = "running"
  /\ AllWorkersDone
  /\ outcome' = "written"
  /\ UNCHANGED <<teamVars, slotVars, frequency_states, perShotVars,
                 imageVars, accumulation_waiters>>

Work(w) ==
  \/ TakeIndex(w) \/ LeaveLoop(w)
  \/ SleepForSlot(w) \/ AcquireSlot(w) \/ BuildOperators(w)
  \/ CalculateSource(w) \/ SleepForTurn(w) \/ AddBefore(w)
  \/ IterativelyCorrect(w) \/ CrossCorrelate(w) \/ AddAfter(w)
  \/ Commit(w) \/ NotifyAccumulation(w)
  \/ ReleaseSlot(w) \/ NotifySlot(w)

\* The program has ended; the stutter keeps TLC from calling it a deadlock.
Ended == outcome # "running" /\ UNCHANGED vars

Next ==
  \/ \E w \in Workers : Work(w) \/ Fail(w)
  \/ WriteImages
  \/ Ended

Spec == Init /\ [][Next]_vars

\* The operating system runs every thread that is neither asleep on a
\* condition variable nor at the end of the loop, and the main thread.
Fairness ==
  /\ \A w \in Workers : WF_vars(Work(w))
  /\ WF_vars(WriteImages)

FairSpec == Spec /\ Fairness
=============================================================================
