-------------------- MODULE FrequencyPipelineProperties --------------------
(***************************************************************************)
(* What must be true of the frequency-parallel stage.                      *)
(***************************************************************************)
EXTENDS FrequencyPipeline

(***************************************************************************)
(* Type invariant of the shared state of the workflow lambdas.             *)
(***************************************************************************)
TypeOK ==
  /\ next_index \in 0 .. FrequencyCount
  /\ pc \in [Workers -> ProgramCounters]
  /\ frequency \in [Workers -> Frequencies]
  /\ shot \in [Workers -> Shots]
  /\ active_frequencies \in 0 .. ConcurrentFrequencies
  /\ frequency_states \in [Frequencies -> FrequencyState]
  /\ next_before_frequency \in [Shots -> 0 .. FrequencyCount]
  /\ next_after_frequency \in [Shots -> 0 .. FrequencyCount]
  /\ next_image_frequency \in 0 .. FrequencyCount
  /\ per_shot_before \in [Shots -> Seq(Frequencies)]
  /\ per_shot_after \in [Shots -> Seq(Frequencies)]
  /\ image \in Seq(Frequencies \X SUBSET Shots)
  /\ slot_waiters \subseteq Workers
  /\ accumulation_waiters \subseteq Workers
  /\ outcome \in {"running", "written", "terminated"}

(***************************************************************************)
(* The commits are those of frequencies 0, 1, 2, ... in order, none twice, *)
(* and each carries the contribution of every shot, whatever the order in  *)
(* which the workers finish their solves (the comment above                *)
(* next_before_frequency: "must still occur in the legacy                  *)
(* frequency-major/shot-major order").                                     *)
(***************************************************************************)
ImageInLegacyOrder ==
  /\ Len(image) = next_image_frequency
  /\ \A i \in 1 .. Len(image) : image[i] = <<i - 1, Shots>>

(***************************************************************************)
(* The memory bound: no more than concurrent_frequencies frequencies hold  *)
(* their sparse operators at once, although the slot is returned in a      *)
(* critical section other than the one that releases the operators (the    *)
(* comment in end_frequency on the "memory-bounded section").              *)
(***************************************************************************)
HoldingOperators == {f \in Frequencies : frequency_states[f].operators}

OperatorsWithinBudget ==
  Cardinality(HoldingOperators) <= ConcurrentFrequencies

(***************************************************************************)
(* No wakeup of accumulation_ready is lost: a worker asleep although it is *)
(* its turn is about to be woken, by a worker between its unlock and its   *)
(* notify_all.                                                             *)
(***************************************************************************)
TurnIsNotified ==
  outcome = "running" =>
    \A w \in accumulation_waiters :
      Turn(w) => \E v \in Workers :
        pc[v] \in {"notify_before", "notify_after", "notify_image"}

(***************************************************************************)
(* No wakeup of frequency_slot_ready is lost although it is a notify_one   *)
(* and a newcomer may take the slot first: while workers sleep, every free *)
(* slot has a worker about to notify, or one awake that is about to test.  *)
(***************************************************************************)
Notifying == {w \in Workers : pc[w] = "notify_slot"}
AwakeForSlot == {w \in Workers : pc[w] = "slot" /\ w \notin slot_waiters}

FreeSlotIsNotified ==
  slot_waiters # {} =>
    ConcurrentFrequencies - active_frequencies
      <= Cardinality(Notifying) + Cardinality(AwakeForSlot)

(***************************************************************************)
(* The images written at the end hold every frequency: the closing barrier *)
(* and the absence of a catch inside the region make a partial stack       *)
(* impossible to write.                                                    *)
(***************************************************************************)
WrittenImagesAreComplete ==
  outcome = "written" =>
    /\ Len(image) = FrequencyCount
    /\ WritePerShot =>
         \A s \in Shots : /\ Len(per_shot_before[s]) = FrequencyCount
                          /\ Len(per_shot_after[s]) = FrequencyCount

(***************************************************************************)
(* The stage implements the legacy order of additions: the accumulators of *)
(* OrderedAccumulation are those of the workflow, thread state is hidden.  *)
(***************************************************************************)
Legacy == INSTANCE OrderedAccumulation WITH written <- (outcome = "written")

LegacyOrder == Legacy!Spec

(***************************************************************************)
(* A frequency that has been handed out is committed, unless an exception  *)
(* ends the program: the ordered waits never close a cycle.                *)
(***************************************************************************)
EveryFrequencyCommits == <>(outcome \in {"written", "terminated"})

(***************************************************************************)
(* A worker sleeps on the slot only if the team is larger than the number  *)
(* of slots; with a slot for every worker begin_frequency never blocks.    *)
(***************************************************************************)
NobodyWaitsForASlot ==
  Cardinality(Workers) <= ConcurrentFrequencies => slot_waiters = {}

-----------------------------------------------------------------------------
(***************************************************************************)
(* The strengthening that makes the safety properties inductive.           *)
(***************************************************************************)
\* Workers between taking a slot and returning it.
InSection == {w \in Workers :
  pc[w] \notin {"schedule", "slot", "notify_slot", "done"}}

\* Workers whose frequency is handed out and not committed yet.
Owners == {w \in Workers :
  pc[w] \notin {"schedule", "notify_image", "release", "notify_slot", "done"}}

\* Workers between building the operators and releasing them.
Solving == Owners \ {w \in Workers : pc[w] \in {"slot", "build"}}

SlotsAreCounted == active_frequencies = Cardinality(InSection)

FrequenciesHaveOneOwner ==
  /\ next_image_frequency <= next_index
  /\ \A w \in Owners : frequency[w] \in next_image_frequency .. next_index - 1
  /\ \A v, w \in Owners : frequency[v] = frequency[w] => v = w
  /\ \A f \in next_image_frequency .. next_index - 1 :
       \E w \in Owners : frequency[w] = f
  /\ \A w \in Workers : pc[w] = "done" => next_index = FrequencyCount

OperatorsHaveASolver ==
  \A f \in HoldingOperators : \E w \in Solving : frequency[w] = f

\* The shots whose terms a worker has stored, added to its before-image and
\* added to its after-image.
Stored(w) ==
  CASE pc[w] = "commit" -> Shots
    [] pc[w] \in {"after", "notify_after"} -> 0 .. shot[w]
    [] OTHER -> 0 .. shot[w] - 1

PassedBefore(w) ==
  CASE pc[w] = "commit" -> Shots
    [] pc[w] \in {"notify_before", "correct", "correlate", "after",
                  "notify_after"} -> 0 .. shot[w]
    [] OTHER -> 0 .. shot[w] - 1

PassedAfter(w) ==
  CASE pc[w] = "commit" -> Shots
    [] pc[w] = "notify_after" -> 0 .. shot[w]
    [] OTHER -> 0 .. shot[w] - 1

TermsAreStored ==
  \A w \in Solving : frequency_states[frequency[w]].terms = Stored(w)

PerShotTermsPrecede ==
  WritePerShot => \A w \in Solving :
    /\ \A s \in PassedBefore(w) : next_before_frequency[s] > frequency[w]
    /\ \A s \in PassedAfter(w) : next_after_frequency[s] > frequency[w]

PerShotCounters ==
  /\ \A s \in Shots :
       /\ Len(per_shot_before[s]) = next_before_frequency[s]
       /\ Len(per_shot_after[s]) = next_after_frequency[s]
  /\ WritePerShot => \A s \in Shots :
       /\ next_image_frequency <= next_before_frequency[s]
       /\ next_image_frequency <= next_after_frequency[s]

\* Only the per-shot images send a worker through the per-shot sections.
PerShotStages ==
  \A w \in Workers :
    pc[w] \in {"before", "notify_before", "after", "notify_after"} =>
      WritePerShot

IInv ==
  /\ TypeOK
  /\ PerShotStages
  /\ SlotsAreCounted
  /\ FrequenciesHaveOneOwner
  /\ OperatorsHaveASolver
  /\ TermsAreStored
  /\ PerShotTermsPrecede
  /\ PerShotCounters
  /\ ImageInLegacyOrder
  /\ WrittenImagesAreComplete

\* A worker sleeps only at the wait it called, and no wakeup is lost.
SleepersAreAtTheirWait ==
  /\ \A w \in slot_waiters : pc[w] = "slot"
  /\ \A w \in accumulation_waiters : pc[w] \in {"before", "after", "commit"}

WakeupInv ==
  /\ SleepersAreAtTheirWait
  /\ TurnIsNotified
  /\ FreeSlotIsNotified
=============================================================================
