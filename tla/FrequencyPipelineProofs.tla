----------------------- MODULE FrequencyPipelineProofs -----------------------
(***************************************************************************)
(* Proofs about the frequency-parallel stage, for any team of workers, any *)
(* number of frequencies, shots and slots.                                 *)
(***************************************************************************)
EXTENDS FrequencyPipelineProperties, FiniteSetTheorems, TLAPS

(***************************************************************************)
(* A step of one worker, by action: the case analysis of every proof.      *)
(***************************************************************************)
LEMMA StepCases ==
  ASSUME [Next]_vars
  PROVE  \/ \E w \in Workers :
              \/ TakeIndex(w) \/ LeaveLoop(w) \/ SleepForSlot(w)
              \/ AcquireSlot(w) \/ BuildOperators(w) \/ CalculateSource(w)
              \/ SleepForTurn(w) \/ AddBefore(w) \/ IterativelyCorrect(w)
              \/ CrossCorrelate(w) \/ AddAfter(w) \/ Commit(w)
              \/ NotifyAccumulation(w) \/ ReleaseSlot(w) \/ NotifySlot(w)
              \/ Fail(w)
         \/ WriteImages
         \/ UNCHANGED vars
BY DEF Next, Work, Ended

LEMMA NextShotType ==
  ASSUME TypeOK, NEW w \in Workers, NextShot(w)
  PROVE  pc' \in [Workers -> ProgramCounters] /\ shot' \in [Workers -> Shots]
<1>1. CASE shot[w] + 1 < ShotCount
  <2>0. shot[w] \in Shots
    BY DEF TypeOK
  <2>1. shot[w] + 1 \in Shots
    BY <1>1, <2>0, CountsAssumption DEF Shots
  <2>2. QED
    BY <1>1, <2>1 DEF TypeOK, NextShot, Goto, ProgramCounters
<1>2. CASE ~(shot[w] + 1 < ShotCount)
  BY <1>2 DEF TypeOK, NextShot, Goto, ProgramCounters
<1>3. QED
  BY <1>1, <1>2

LEMMA InitIInv == Init => IInv
<1> SUFFICES ASSUME Init PROVE IInv
  OBVIOUS
<1> USE WorkersAssumption, CountsAssumption, WritePerShotAssumption
<1>1. TypeOK
  BY DEF Init, TypeOK, ProgramCounters, Frequencies, Shots, FrequencyState,
         ReleasedState
<1>2. InSection = {} /\ Owners = {} /\ Solving = {} /\ HoldingOperators = {}
  BY DEF Init, InSection, Owners, Solving, HoldingOperators, ReleasedState
<1>3. SlotsAreCounted
  BY <1>2, FS_EmptySet DEF Init, SlotsAreCounted
<1>4. FrequenciesHaveOneOwner /\ OperatorsHaveASolver
  BY <1>2 DEF Init, FrequenciesHaveOneOwner, OperatorsHaveASolver
<1>5. TermsAreStored /\ PerShotTermsPrecede
  BY <1>2 DEF TermsAreStored, PerShotTermsPrecede
<1>6. PerShotCounters /\ ImageInLegacyOrder /\ WrittenImagesAreComplete
  BY DEF Init, PerShotCounters, ImageInLegacyOrder, WrittenImagesAreComplete,
         Shots
<1>7. PerShotStages
  BY DEF Init, PerShotStages
<1>8. QED
  BY <1>1, <1>3, <1>4, <1>5, <1>6, <1>7 DEF IInv

(***************************************************************************)
(* Slots: active_frequencies counts the workers between begin_frequency    *)
(* and the release in end_frequency.                                       *)
(***************************************************************************)
LEMMA SlotStep ==
  ASSUME IInv, [Next]_vars
  PROVE  SlotsAreCounted' /\ active_frequencies' \in 0 .. ConcurrentFrequencies
<1> USE DEF IInv, SlotsAreCounted, TypeOK
<1>0. IsFiniteSet(InSection)
  BY WorkersAssumption, FS_Subset DEF InSection
<1>1. ASSUME NEW w \in Workers, AcquireSlot(w)
      PROVE  /\ active_frequencies' = Cardinality(InSection')
             /\ active_frequencies' \in 0 .. ConcurrentFrequencies
  <2>1. w \notin InSection /\ InSection' = InSection \union {w}
    BY <1>1 DEF AcquireSlot, At, Goto, InSection
  <2>2. Cardinality(InSection') = Cardinality(InSection) + 1
    BY <1>0, <2>1, FS_AddElement
  <2>3. QED
    BY <1>1, <2>2, CountsAssumption DEF AcquireSlot, SlotFree
<1>2. ASSUME NEW w \in Workers, ReleaseSlot(w)
      PROVE  /\ active_frequencies' = Cardinality(InSection')
             /\ active_frequencies' \in 0 .. ConcurrentFrequencies
  <2>1. w \in InSection /\ InSection' = InSection \ {w}
    BY <1>2 DEF ReleaseSlot, SlotsAfterRelease, At, Goto, InSection
  <2>2. /\ Cardinality(InSection') = Cardinality(InSection) - 1
        /\ Cardinality(InSection) # 0
    BY <1>0, <2>1, FS_RemoveElement, FS_EmptySet
  <2>3. QED
    BY <1>2, <2>2, CountsAssumption DEF ReleaseSlot, SlotsAfterRelease
<1>3. ASSUME NEW w \in Workers,
             \/ TakeIndex(w) \/ LeaveLoop(w) \/ SleepForSlot(w)
             \/ BuildOperators(w) \/ CalculateSource(w) \/ SleepForTurn(w)
             \/ AddBefore(w) \/ IterativelyCorrect(w) \/ AddAfter(w)
             \/ Commit(w) \/ NotifySlot(w) \/ Fail(w)
      PROVE  InSection' = InSection /\ UNCHANGED active_frequencies
  BY <1>3 DEF TakeIndex, LeaveLoop, SleepForSlot, BuildOperators,
     CalculateSource, SleepForTurn, AddBefore, IterativelyCorrect, AddAfter,
     Commit, Released, NotifySlot, WakeOneForSlot, Fail, At, AtOrderedSection,
     Goto, InSection, slotVars, teamVars
<1>4. ASSUME NEW w \in Workers, CrossCorrelate(w) \/ NotifyAccumulation(w)
      PROVE  InSection' = InSection /\ UNCHANGED active_frequencies
  BY <1>4 DEF CrossCorrelate, NotifyAccumulation, WakeAllSleepers, NextShot,
     At, Goto, InSection, slotVars
<1>5. CASE WriteImages \/ UNCHANGED vars
  BY <1>5 DEF WriteImages, AllWorkersDone, vars, teamVars, slotVars, InSection
<1>6. QED
  BY <1>1, <1>2, <1>3, <1>4, <1>5, StepCases
(***************************************************************************)
(* Types.                                                                  *)
(***************************************************************************)
LEMMA TypeStep ==
  ASSUME IInv, [Next]_vars
  PROVE  TypeOK'
<1> USE DEF IInv, TypeOK
<1>0. active_frequencies' \in 0 .. ConcurrentFrequencies
  BY SlotStep
<1>1. ASSUME NEW w \in Workers, TakeIndex(w)
      PROVE  TypeOK'
  <2>1. next_index' \in 0 .. FrequencyCount /\ next_index \in Frequencies
    BY <1>1, CountsAssumption DEF TakeIndex, Frequencies
  <2>2. frequency' \in [Workers -> Frequencies]
    BY <1>1, <2>1 DEF TakeIndex
  <2>3. pc' \in [Workers -> ProgramCounters]
    BY <1>1 DEF TakeIndex, Goto, ProgramCounters
  <2>4. QED
    BY <1>0, <1>1, <2>1, <2>2, <2>3 DEF TakeIndex, slotVars, perShotVars,
       imageVars
<1>2. ASSUME NEW w \in Workers,
             \/ LeaveLoop(w) \/ SleepForSlot(w) \/ AcquireSlot(w)
             \/ SleepForTurn(w) \/ IterativelyCorrect(w)
             \/ ReleaseSlot(w) \/ NotifySlot(w) \/ Fail(w)
      PROVE  TypeOK'
  <2>1. pc' \in [Workers -> ProgramCounters]
    BY <1>2 DEF LeaveLoop, SleepForSlot, AcquireSlot, SleepForTurn, teamVars,
       IterativelyCorrect, ReleaseSlot, SlotsAfterRelease, NotifySlot,
       WakeOneForSlot, Fail, Goto, ProgramCounters
  <2>2. slot_waiters' \subseteq Workers /\ accumulation_waiters' \subseteq Workers
    BY <1>2 DEF LeaveLoop, SleepForSlot, AcquireSlot, SleepForTurn, slotVars,
       IterativelyCorrect, ReleaseSlot, SlotsAfterRelease, NotifySlot,
       WakeOneForSlot, Fail
  <2>3. UNCHANGED <<next_index, frequency, shot, frequency_states, perShotVars,
                    imageVars>>
    BY <1>2 DEF LeaveLoop, SleepForSlot, AcquireSlot, SleepForTurn, teamVars,
       IterativelyCorrect, ReleaseSlot, SlotsAfterRelease, NotifySlot,
       WakeOneForSlot, Fail
  <2>4. outcome' \in {"running", "written", "terminated"}
    BY <1>2 DEF LeaveLoop, SleepForSlot, AcquireSlot, SleepForTurn,
       IterativelyCorrect, ReleaseSlot, SlotsAfterRelease, NotifySlot,
       WakeOneForSlot, Fail
  <2>5. QED
    BY <1>0, <2>1, <2>2, <2>3, <2>4 DEF perShotVars, imageVars
<1>3. ASSUME NEW w \in Workers, BuildOperators(w) \/ CalculateSource(w)
      PROVE  TypeOK'
  <2>0. 0 \in Shots /\ {} \in SUBSET Shots
    BY CountsAssumption DEF Shots
  <2>1. frequency_states' \in [Frequencies -> FrequencyState]
    <3>1. CASE BuildOperators(w)
      BY <3>1, <2>0 DEF BuildOperators, FrequencyState
    <3>2. CASE CalculateSource(w)
      BY <3>2 DEF CalculateSource, FrequencyState
    <3>3. QED
      BY <1>3, <3>1, <3>2
  <2>2. shot' \in [Workers -> Shots]
    BY <1>3, <2>0 DEF BuildOperators, CalculateSource
  <2>3. pc' \in [Workers -> ProgramCounters]
    BY <1>3 DEF BuildOperators, CalculateSource, Goto, ProgramCounters
  <2>4. QED
    BY <1>0, <1>3, <2>1, <2>2, <2>3 DEF BuildOperators, CalculateSource,
         slotVars, perShotVars, imageVars
<1>5. ASSUME NEW w \in Workers, AddBefore(w)
      PROVE  TypeOK'
  <2>1. frequency[w] + 1 \in 0 .. FrequencyCount
    BY CountsAssumption DEF Frequencies
  <2>2. next_before_frequency' =
          [next_before_frequency EXCEPT ![shot[w]] = frequency[w] + 1]
    BY <1>5 DEF AddBefore, Turn
  <2>3. next_before_frequency' \in [Shots -> 0 .. FrequencyCount]
    BY <2>1, <2>2
  <2>4. per_shot_before' \in [Shots -> Seq(Frequencies)]
    BY <1>5 DEF AddBefore
  <2>5. pc' \in [Workers -> ProgramCounters]
    BY <1>5 DEF AddBefore, Goto, ProgramCounters
  <2>6. QED
    BY <1>0, <1>5, <2>3, <2>4, <2>5 DEF AddBefore, slotVars, imageVars
<1>6. ASSUME NEW w \in Workers, AddAfter(w)
      PROVE  TypeOK'
  <2>1. frequency[w] + 1 \in 0 .. FrequencyCount
    BY CountsAssumption DEF Frequencies
  <2>2. next_after_frequency' =
          [next_after_frequency EXCEPT ![shot[w]] = frequency[w] + 1]
    BY <1>6 DEF AddAfter, Turn
  <2>3. next_after_frequency' \in [Shots -> 0 .. FrequencyCount]
    BY <2>1, <2>2
  <2>4. per_shot_after' \in [Shots -> Seq(Frequencies)]
    BY <1>6 DEF AddAfter
  <2>5. pc' \in [Workers -> ProgramCounters]
    BY <1>6 DEF AddAfter, Goto, ProgramCounters
  <2>6. QED
    BY <1>0, <1>6, <2>3, <2>4, <2>5 DEF AddAfter, slotVars, imageVars
<1>7. ASSUME NEW w \in Workers, CrossCorrelate(w)
      PROVE  TypeOK'
  <2>1. frequency_states' \in [Frequencies -> FrequencyState]
    BY <1>7 DEF CrossCorrelate, FrequencyState
  <2>2. pc' \in [Workers -> ProgramCounters] /\ shot' \in [Workers -> Shots]
    <3>1. CASE WritePerShot
      BY <1>7, <3>1 DEF CrossCorrelate, Goto, ProgramCounters
    <3>2. CASE ~WritePerShot
      BY <1>7, <3>2, NextShotType DEF CrossCorrelate
    <3>3. QED
      BY <3>1, <3>2
  <2>3. QED
    BY <1>0, <1>7, <2>1, <2>2 DEF CrossCorrelate, slotVars, perShotVars,
       imageVars
<1>8. ASSUME NEW w \in Workers, Commit(w)
      PROVE  TypeOK'
  <2>1. next_image_frequency' \in 0 .. FrequencyCount
    BY <1>8, CountsAssumption DEF Commit, Released, Turn, Frequencies
  <2>2. image' \in Seq(Frequencies \X SUBSET Shots)
    <3>1. frequency_states[frequency[w]].terms \in SUBSET Shots
      BY DEF FrequencyState
    <3>2. <<frequency[w], frequency_states[frequency[w]].terms>>
            \in Frequencies \X SUBSET Shots
      BY <3>1
    <3>3. QED
      BY <1>8, <3>2 DEF Commit, Released
  <2>3. frequency_states' \in [Frequencies -> FrequencyState]
    BY <1>8 DEF Commit, Released, FrequencyState
  <2>4. pc' \in [Workers -> ProgramCounters]
    BY <1>8 DEF Commit, Released, Goto, ProgramCounters
  <2>5. QED
    BY <1>0, <1>8, <2>1, <2>2, <2>3, <2>4 DEF Commit, Released, slotVars,
       perShotVars
<1>9. ASSUME NEW w \in Workers, NotifyAccumulation(w)
      PROVE  TypeOK'
  <2>1. pc' \in [Workers -> ProgramCounters] /\ shot' \in [Workers -> Shots]
    <3>1. CASE NextShot(w)
      BY <3>1, NextShotType
    <3>2. CASE UNCHANGED shot /\ (Goto(w, "correct") \/ Goto(w, "release"))
      BY <3>2 DEF Goto, ProgramCounters
    <3>3. QED
      BY <1>9, <3>1, <3>2 DEF NotifyAccumulation, WakeAllSleepers
  <2>2. QED
    BY <1>0, <1>9, <2>1 DEF NotifyAccumulation, WakeAllSleepers, slotVars,
       perShotVars, imageVars
<1>10. CASE WriteImages \/ UNCHANGED vars
  BY <1>10 DEF WriteImages, AllWorkersDone, vars, teamVars, slotVars,
     perShotVars, imageVars
<1>11. QED
  BY <1>1, <1>2, <1>3, <1>5, <1>6, <1>7, <1>8, <1>9, <1>10, StepCases

(***************************************************************************)
(* Ownership: the frequencies handed out and not committed are exactly     *)
(* those of the owners, one each.                                          *)
(***************************************************************************)
LEMMA OwnersOnlyChange ==
  ASSUME IInv, NEW w \in Workers,
         \/ LeaveLoop(w) \/ SleepForSlot(w) \/ AcquireSlot(w)
         \/ BuildOperators(w) \/ CalculateSource(w) \/ SleepForTurn(w)
         \/ AddBefore(w) \/ IterativelyCorrect(w) \/ CrossCorrelate(w)
         \/ AddAfter(w) \/ NotifyAccumulation(w) \/ ReleaseSlot(w)
         \/ NotifySlot(w) \/ Fail(w)
  PROVE  /\ Owners' = Owners
         /\ UNCHANGED <<frequency, next_index, imageVars>>
<1> USE DEF IInv, TypeOK
<1>1. CASE \/ LeaveLoop(w) \/ SleepForSlot(w) \/ AcquireSlot(w)
           \/ BuildOperators(w) \/ CalculateSource(w) \/ SleepForTurn(w)
  BY <1>1 DEF LeaveLoop, SleepForSlot, AcquireSlot, BuildOperators,
       CalculateSource, SleepForTurn, At, Goto, Owners, teamVars
<1>2. CASE \/ AddBefore(w) \/ IterativelyCorrect(w) \/ AddAfter(w)
           \/ ReleaseSlot(w) \/ NotifySlot(w) \/ Fail(w)
  BY <1>2 DEF AddBefore, IterativelyCorrect, AddAfter, ReleaseSlot,
     SlotsAfterRelease, NotifySlot, WakeOneForSlot, Fail, At, Goto, Owners,
     teamVars
<1>3. CASE CrossCorrelate(w) \/ NotifyAccumulation(w)
  BY <1>3 DEF CrossCorrelate, NotifyAccumulation, WakeAllSleepers, NextShot,
     At, Goto, Owners
<1>4. QED
  BY <1>1, <1>2, <1>3

LEMMA OwnerStep ==
  ASSUME IInv, [Next]_vars
  PROVE  FrequenciesHaveOneOwner'
<1> USE DEF IInv
<1>0. /\ next_index \in 0 .. FrequencyCount
      /\ next_image_frequency \in 0 .. FrequencyCount
      /\ pc \in [Workers -> ProgramCounters]
      /\ frequency \in [Workers -> Frequencies]
      /\ FrequencyCount \in Nat
  BY CountsAssumption DEF TypeOK
<1>1. ASSUME NEW w \in Workers, TakeIndex(w)
      PROVE  FrequenciesHaveOneOwner'
  <2>1. /\ w \notin Owners /\ Owners' = Owners \union {w}
        /\ next_index' = next_index + 1
        /\ next_image_frequency' = next_image_frequency
        /\ frequency' = [frequency EXCEPT ![w] = next_index]
        /\ \A v \in Workers : pc'[v] = "done" => v # w /\ pc[v] = "done"
        /\ next_index < FrequencyCount
    BY <1>0, <1>1 DEF TakeIndex, At, Goto, Owners, imageVars
  <2>2. Owners \subseteq Workers
    BY DEF Owners
  <2>3. \A v \in Owners : frequency'[v] = frequency[v] /\ frequency'[w] = next_index
    BY <1>0, <2>1, <2>2
  <2>4. \A v \in Owners : frequency[v] \in next_image_frequency .. next_index - 1
    BY DEF FrequenciesHaveOneOwner
  <2>5. next_image_frequency <= next_index
    BY DEF FrequenciesHaveOneOwner
  <2>6. \A v \in Owners' : frequency'[v] \in next_image_frequency' .. next_index' - 1
    BY <1>0, <2>1, <2>2, <2>3, <2>4, <2>5
  <2>7. \A u, v \in Owners' : frequency'[u] = frequency'[v] => u = v
    BY <1>0, <2>1, <2>2, <2>3, <2>4 DEF FrequenciesHaveOneOwner
  <2>8. \A f \in next_image_frequency' .. next_index' - 1 :
           \E v \in Owners' : frequency'[v] = f
    BY <1>0, <2>1, <2>2, <2>3 DEF FrequenciesHaveOneOwner
  <2>9. \A v \in Workers : pc'[v] = "done" => next_index' = FrequencyCount
    BY <1>0, <2>1 DEF FrequenciesHaveOneOwner
  <2>10. QED
    BY <1>0, <2>1, <2>5, <2>6, <2>7, <2>8, <2>9 DEF FrequenciesHaveOneOwner
<1>2. ASSUME NEW w \in Workers, Commit(w)
      PROVE  FrequenciesHaveOneOwner'
  <2>1. /\ w \in Owners /\ Owners' = Owners \ {w}
        /\ next_index' = next_index
        /\ frequency[w] = next_image_frequency
        /\ next_image_frequency' = next_image_frequency + 1
        /\ frequency' = frequency
        /\ \A v \in Workers : pc'[v] = "done" => pc[v] = "done"
    BY <1>0, <1>2 DEF Commit, Released, AtOrderedSection, Turn, Goto, Owners
  <2>2. Owners \subseteq Workers
    BY DEF Owners
  <2>3. \A v \in Owners' : frequency[v] # next_image_frequency
    BY <2>1 DEF FrequenciesHaveOneOwner
  <2>4. /\ next_image_frequency' <= next_index'
        /\ \A v \in Owners' : frequency'[v] \in next_image_frequency' .. next_index' - 1
    BY <1>0, <2>1, <2>2, <2>3 DEF FrequenciesHaveOneOwner
  <2>5. \A f \in next_image_frequency' .. next_index' - 1 :
           \E v \in Owners' : frequency'[v] = f
    BY <1>0, <2>1 DEF FrequenciesHaveOneOwner
  <2>6. QED
    BY <2>1, <2>4, <2>5 DEF FrequenciesHaveOneOwner
<1>3. ASSUME NEW w \in Workers,
             \/ LeaveLoop(w) \/ SleepForSlot(w) \/ AcquireSlot(w)
             \/ BuildOperators(w) \/ CalculateSource(w) \/ SleepForTurn(w)
             \/ AddBefore(w) \/ IterativelyCorrect(w) \/ CrossCorrelate(w)
             \/ AddAfter(w) \/ NotifyAccumulation(w) \/ ReleaseSlot(w)
             \/ NotifySlot(w) \/ Fail(w)
      PROVE  FrequenciesHaveOneOwner'
  <2>1. Owners' = Owners /\ UNCHANGED <<frequency, next_index, imageVars>>
    BY <1>3, OwnersOnlyChange
  <2>2. \A v \in Workers : pc'[v] = "done" => next_index = FrequencyCount
    <3>1. CASE LeaveLoop(w)
      BY <3>1 DEF LeaveLoop
    <3>2. CASE NotifyAccumulation(w) \/ CrossCorrelate(w)
      BY <1>0, <3>2 DEF NotifyAccumulation, WakeAllSleepers, CrossCorrelate,
         NextShot, Goto, FrequenciesHaveOneOwner
    <3>3. CASE ~(LeaveLoop(w) \/ NotifyAccumulation(w) \/ CrossCorrelate(w))
      BY <1>0, <1>3, <3>3 DEF SleepForSlot, AcquireSlot, BuildOperators,
         CalculateSource, SleepForTurn, AddBefore, IterativelyCorrect,
         AddAfter, ReleaseSlot, SlotsAfterRelease, NotifySlot, WakeOneForSlot,
         Fail, Goto, teamVars, FrequenciesHaveOneOwner
    <3>4. QED
      BY <3>1, <3>2, <3>3
  <2>3. QED
    BY <2>1, <2>2 DEF FrequenciesHaveOneOwner, imageVars
<1>4. CASE WriteImages \/ UNCHANGED vars
  BY <1>4 DEF WriteImages, AllWorkersDone, vars, teamVars, imageVars, Owners,
       FrequenciesHaveOneOwner
<1>5. QED
  BY <1>1, <1>2, <1>3, <1>4, StepCases

(***************************************************************************)
(* Solvers: the workers whose frequency has its operators allocated, and   *)
(* the shots they have stored and added.                                   *)
(***************************************************************************)
LEMMA NextShotCompletes ==
  ASSUME TypeOK, NEW w \in Workers, NextShot(w)
  PROVE  /\ pc'[w] \in {"source", "commit"}
         /\ \A v \in Workers \ {w} : pc'[v] = pc[v] /\ shot'[v] = shot[v]
         /\ Stored(w)' = 0 .. shot[w]
         /\ PassedBefore(w)' = 0 .. shot[w]
         /\ PassedAfter(w)' = 0 .. shot[w]
<1>0. shot[w] \in Shots /\ shot \in [Workers -> Shots] /\ pc \in [Workers -> ProgramCounters]
  BY DEF TypeOK
<1>1. CASE shot[w] + 1 < ShotCount
  <2>1. shot'[w] = shot[w] + 1 /\ pc'[w] = "source"
    BY <1>0, <1>1 DEF NextShot, Goto
  <2>2. 0 .. shot'[w] - 1 = 0 .. shot[w]
    BY <1>0, <2>1, CountsAssumption DEF Shots
  <2>3. QED
    BY <1>0, <1>1, <2>1, <2>2 DEF NextShot, Goto, Stored, PassedBefore,
       PassedAfter
<1>2. CASE ~(shot[w] + 1 < ShotCount)
  <2>1. pc'[w] = "commit" /\ shot' = shot
    BY <1>0, <1>2 DEF NextShot, Goto
  <2>2. Shots = 0 .. shot[w]
    BY <1>0, <1>2, CountsAssumption DEF Shots
  <2>3. QED
    BY <1>0, <1>2, <2>1, <2>2 DEF NextShot, Goto, Stored, PassedBefore,
       PassedAfter
<1>3. QED
  BY <1>1, <1>2

\* Workers other than the one that moves keep their place, and their
\* frequency is another one.
LEMMA OthersStay ==
  ASSUME IInv, NEW w \in Workers, NEW v \in Solving, v # w, w \in Owners,
         NEW label, pc' = [pc EXCEPT ![w] = label],
         \/ shot' = shot
         \/ \E s : shot' = [shot EXCEPT ![w] = s]
  PROVE  /\ v \in Workers /\ frequency[v] # frequency[w]
         /\ pc'[v] = pc[v] /\ shot'[v] = shot[v]
         /\ Stored(v)' = Stored(v)
         /\ PassedBefore(v)' = PassedBefore(v)
         /\ PassedAfter(v)' = PassedAfter(v)
<1>1. v \in Workers /\ v \in Owners
  BY DEF Solving, Owners
<1>2. frequency[v] # frequency[w]
  BY <1>1 DEF IInv, FrequenciesHaveOneOwner
<1>3. pc'[v] = pc[v] /\ shot'[v] = shot[v]
  BY <1>1 DEF IInv, TypeOK
<1>4. QED
  BY <1>1, <1>2, <1>3 DEF Stored, PassedBefore, PassedAfter

LEMMA SolverStep ==
  ASSUME IInv, [Next]_vars
  PROVE  OperatorsHaveASolver' /\ TermsAreStored'
<1> USE DEF IInv
<1>0. /\ pc \in [Workers -> ProgramCounters]
      /\ shot \in [Workers -> Shots]
      /\ frequency \in [Workers -> Frequencies]
      /\ frequency_states \in [Frequencies -> FrequencyState]
      /\ Solving \subseteq Workers
  BY DEF TypeOK, Solving, Owners
<1>1. ASSUME NEW w \in Workers, BuildOperators(w)
      PROVE  OperatorsHaveASolver' /\ TermsAreStored'
  <2>1. /\ w \in Owners
        /\ Solving' = Solving \union {w} /\ w \notin Solving
        /\ frequency' = frequency
        /\ pc' = [pc EXCEPT ![w] = "source"]
        /\ shot' = [shot EXCEPT ![w] = 0]
    BY <1>0, <1>1 DEF BuildOperators, At, Goto, Solving, Owners
  <2>2. /\ frequency_states'[frequency[w]].terms = {}
        /\ \A f \in Frequencies \ {frequency[w]} :
             frequency_states'[f] = frequency_states[f]
    BY <1>0, <1>1 DEF BuildOperators
  <2>3. Stored(w)' = {}
    BY <1>0, <2>1 DEF Stored
  <2>4. TermsAreStored'
    <3>1. \A v \in Solving :
             /\ frequency[v] # frequency[w]
             /\ Stored(v)' = Stored(v)
      BY <2>1, OthersStay
    <3>2. QED
      BY <1>0, <2>1, <2>2, <2>3, <3>1 DEF TermsAreStored
  <2>5. OperatorsHaveASolver'
    BY <1>0, <2>1, <2>2 DEF OperatorsHaveASolver, HoldingOperators
  <2>6. QED
    BY <2>4, <2>5
<1>2. ASSUME NEW w \in Workers, CalculateSource(w)
      PROVE  OperatorsHaveASolver' /\ TermsAreStored'
  <2>1. /\ w \in Owners /\ w \in Solving
        /\ Solving' = Solving
        /\ frequency' = frequency
        /\ pc' = [pc EXCEPT ![w] = IF WritePerShot THEN "before" ELSE "correct"]
        /\ pc[w] = "source"
        /\ shot' = shot
    BY <1>0, <1>2 DEF CalculateSource, At, Goto, Solving, Owners
  <2>2. \A f \in Frequencies :
             /\ frequency_states'[f].terms = frequency_states[f].terms
             /\ frequency_states'[f].operators = frequency_states[f].operators
    BY <1>0, <1>2 DEF CalculateSource
  <2>3. Stored(w)' = Stored(w)
    BY <1>0, <2>1 DEF Stored
  <2>4. \A v \in Solving : Stored(v)' = Stored(v)
    BY <2>1, <2>3, OthersStay
  <2>5. QED
    BY <1>0, <2>1, <2>2, <2>4 DEF TermsAreStored, OperatorsHaveASolver,
       HoldingOperators
<1>3. ASSUME NEW w \in Workers, CrossCorrelate(w)
      PROVE  OperatorsHaveASolver' /\ TermsAreStored'
  <2>1. /\ w \in Owners /\ w \in Solving
        /\ Stored(w) = 0 .. shot[w] - 1
        /\ frequency' = frequency
    BY <1>0, <1>3 DEF CrossCorrelate, At, Solving, Owners, Stored
  <2>2. /\ frequency_states'[frequency[w]].terms = Stored(w) \union {shot[w]}
        /\ frequency_states'[frequency[w]].operators
             = frequency_states[frequency[w]].operators
        /\ \A f \in Frequencies \ {frequency[w]} :
             frequency_states'[f] = frequency_states[f]
    BY <1>0, <1>3, <2>1 DEF CrossCorrelate, TermsAreStored
  <2>3. (0 .. shot[w] - 1) \union {shot[w]} = 0 .. shot[w]
    BY <1>0, CountsAssumption DEF Shots
  <2>4. /\ Stored(w)' = 0 .. shot[w]
        /\ Solving' = Solving
        /\ \E label : pc' = [pc EXCEPT ![w] = label]
        /\ \/ shot' = shot
           \/ \E s : shot' = [shot EXCEPT ![w] = s]
    <3>1. CASE WritePerShot
      BY <1>0, <1>3, <2>1, <3>1 DEF CrossCorrelate, At, Goto, Stored, Solving,
         Owners
    <3>2. CASE ~WritePerShot
      <4>1. NextShot(w) /\ pc[w] = "correlate"
        BY <1>3, <3>2 DEF CrossCorrelate, At
      <4>2. Stored(w)' = 0 .. shot[w] /\ pc'[w] \in {"source", "commit"}
        BY <4>1, NextShotCompletes
      <4>3. QED
        BY <1>0, <4>1, <4>2 DEF NextShot, Goto, Solving, Owners
    <3>3. QED
      BY <3>1, <3>2
  <2>5. \A v \in Solving \ {w} :
           Stored(v)' = Stored(v) /\ frequency[v] # frequency[w]
    BY <2>1, <2>4, OthersStay
  <2>6. TermsAreStored'
    BY <1>0, <2>1, <2>2, <2>3, <2>4, <2>5 DEF TermsAreStored
  <2>7. OperatorsHaveASolver'
    BY <1>0, <2>1, <2>2, <2>4 DEF OperatorsHaveASolver, HoldingOperators
  <2>8. QED
    BY <2>6, <2>7
<1>4. ASSUME NEW w \in Workers, Commit(w)
      PROVE  OperatorsHaveASolver' /\ TermsAreStored'
  <2>1. /\ w \in Owners /\ w \in Solving
        /\ Solving' = Solving \ {w}
        /\ frequency' = frequency /\ shot' = shot
        /\ pc' = [pc EXCEPT ![w] = "notify_image"]
    BY <1>0, <1>4 DEF Commit, Released, AtOrderedSection, Goto, Solving, Owners
  <2>2. /\ frequency_states'[frequency[w]].operators = FALSE
        /\ \A f \in Frequencies \ {frequency[w]} :
             frequency_states'[f] = frequency_states[f]
    BY <1>0, <1>4 DEF Commit, Released
  <2>3. \A v \in Solving \ {w} :
           Stored(v)' = Stored(v) /\ frequency[v] # frequency[w]
    BY <2>1, OthersStay
  <2>4. QED
    BY <1>0, <2>1, <2>2, <2>3 DEF TermsAreStored, OperatorsHaveASolver,
       HoldingOperators
<1>5. ASSUME NEW w \in Workers,
             AddBefore(w) \/ IterativelyCorrect(w) \/ AddAfter(w)
      PROVE  OperatorsHaveASolver' /\ TermsAreStored'
  <2>1. /\ w \in Owners /\ w \in Solving
        /\ Solving' = Solving
        /\ frequency' = frequency /\ frequency_states' = frequency_states
        /\ \E label : pc' = [pc EXCEPT ![w] = label]
        /\ shot' = shot
        /\ Stored(w)' = Stored(w)
    BY <1>0, <1>5 DEF AddBefore, IterativelyCorrect, AddAfter, At,
       AtOrderedSection, Goto, Solving, Owners, Stored
  <2>2. \A v \in Solving : Stored(v)' = Stored(v)
    BY <2>1, OthersStay
  <2>3. QED
    BY <1>0, <2>1, <2>2 DEF TermsAreStored, OperatorsHaveASolver,
       HoldingOperators
<1>6. ASSUME NEW w \in Workers, NotifyAccumulation(w)
      PROVE  OperatorsHaveASolver' /\ TermsAreStored'
  <2>0. frequency' = frequency /\ frequency_states' = frequency_states
    BY <1>6 DEF NotifyAccumulation, WakeAllSleepers
  <2>1. CASE At(w, "notify_before") /\ Goto(w, "correct") /\ UNCHANGED shot
    <3>1. /\ w \in Owners /\ w \in Solving /\ Solving' = Solving
          /\ Stored(w)' = Stored(w)
      BY <1>0, <2>1 DEF At, Goto, Solving, Owners, Stored
    <3>2. \A v \in Solving : Stored(v)' = Stored(v)
      BY <2>1, <3>1, OthersStay DEF Goto
    <3>3. QED
      BY <1>0, <2>0, <3>1, <3>2 DEF TermsAreStored, OperatorsHaveASolver,
         HoldingOperators
  <2>2. CASE At(w, "notify_after") /\ NextShot(w)
    <3>0. Stored(w)' = 0 .. shot[w] /\ pc'[w] \in {"source", "commit"}
      BY <2>2, NextShotCompletes
    <3>1. /\ w \in Owners /\ w \in Solving /\ Solving' = Solving
          /\ Stored(w)' = Stored(w)
          /\ \E label : pc' = [pc EXCEPT ![w] = label]
          /\ \/ shot' = shot
             \/ \E s : shot' = [shot EXCEPT ![w] = s]
      BY <1>0, <2>2, <3>0 DEF At, NextShot, Goto, Solving, Owners, Stored
    <3>2. \A v \in Solving : Stored(v)' = Stored(v)
      BY <3>1, OthersStay
    <3>3. QED
      BY <1>0, <2>0, <3>1, <3>2 DEF TermsAreStored, OperatorsHaveASolver,
         HoldingOperators
  <2>3. CASE At(w, "notify_image") /\ Goto(w, "release") /\ UNCHANGED shot
    <3>1. /\ w \notin Solving /\ Solving' = Solving
          /\ \A v \in Solving : pc'[v] = pc[v] /\ shot'[v] = shot[v]
      BY <1>0, <2>3 DEF At, Goto, Solving, Owners
    <3>2. QED
      BY <1>0, <2>0, <3>1 DEF TermsAreStored, OperatorsHaveASolver,
         HoldingOperators, Stored
  <2>4. QED
    BY <1>6, <2>1, <2>2, <2>3 DEF NotifyAccumulation, WakeAllSleepers
<1>7. ASSUME NEW w \in Workers,
             \/ TakeIndex(w) \/ LeaveLoop(w) \/ SleepForSlot(w)
             \/ AcquireSlot(w) \/ SleepForTurn(w) \/ ReleaseSlot(w)
             \/ NotifySlot(w) \/ Fail(w)
      PROVE  OperatorsHaveASolver' /\ TermsAreStored'
  <2>1. /\ Solving' = Solving /\ frequency_states' = frequency_states
        /\ \A v \in Solving :
             pc'[v] = pc[v] /\ shot'[v] = shot[v] /\ frequency'[v] = frequency[v]
    <3>1. CASE TakeIndex(w) \/ LeaveLoop(w) \/ SleepForSlot(w) \/ AcquireSlot(w)
      BY <1>0, <3>1 DEF TakeIndex, LeaveLoop, SleepForSlot, AcquireSlot, At,
         Goto, Solving, Owners, teamVars
    <3>2. CASE SleepForTurn(w) \/ ReleaseSlot(w) \/ NotifySlot(w) \/ Fail(w)
      BY <1>0, <3>2 DEF SleepForTurn, ReleaseSlot, SlotsAfterRelease,
         NotifySlot, WakeOneForSlot, Fail, At, Goto, Solving, Owners, teamVars
    <3>3. QED
      BY <1>7, <3>1, <3>2
  <2>2. QED
    BY <1>0, <2>1 DEF TermsAreStored, OperatorsHaveASolver, HoldingOperators,
       Stored
<1>8. CASE WriteImages \/ UNCHANGED vars
  BY <1>8 DEF WriteImages, AllWorkersDone, vars, teamVars, Solving, Owners,
     TermsAreStored, OperatorsHaveASolver, HoldingOperators, Stored
<1>9. QED
  BY <1>1, <1>2, <1>3, <1>4, <1>5, <1>6, <1>7, <1>8, StepCases

(***************************************************************************)
(* The per-shot accumulators.                                              *)
(***************************************************************************)
LEMMA ShotIntervals ==
  ASSUME NEW s \in Shots
  PROVE  /\ 0 .. s \subseteq Shots /\ 0 .. s - 1 \subseteq Shots
         /\ 0 .. s = (0 .. s - 1) \union {s}
BY CountsAssumption DEF Shots

LEMMA PerShotStep ==
  ASSUME IInv, [Next]_vars
  PROVE  PerShotTermsPrecede' /\ PerShotCounters'
<1> USE DEF IInv
<1>0. /\ pc \in [Workers -> ProgramCounters]
      /\ shot \in [Workers -> Shots]
      /\ frequency \in [Workers -> Frequencies]
      /\ next_before_frequency \in [Shots -> 0 .. FrequencyCount]
      /\ next_after_frequency \in [Shots -> 0 .. FrequencyCount]
      /\ next_image_frequency \in 0 .. FrequencyCount
      /\ per_shot_before \in [Shots -> Seq(Frequencies)]
      /\ per_shot_after \in [Shots -> Seq(Frequencies)]
      /\ Solving \subseteq Workers
      /\ Frequencies \subseteq Nat /\ FrequencyCount \in Nat
      /\ ShotCount \in Nat
      /\ next_before_frequency' \in [Shots -> 0 .. FrequencyCount]
      /\ next_after_frequency' \in [Shots -> 0 .. FrequencyCount]
  BY TypeStep, CountsAssumption DEF TypeOK, Solving, Owners, Frequencies
<1>00. \A w \in Solving : PassedBefore(w) \subseteq Shots /\ PassedAfter(w) \subseteq Shots
  <2>1. \A w \in Solving : 0 .. shot[w] \subseteq Shots /\ 0 .. shot[w] - 1 \subseteq Shots
    BY <1>0, ShotIntervals
  <2>2. QED
    BY <2>1 DEF PassedBefore, PassedAfter
<1>1. ASSUME NEW w \in Workers, AddBefore(w)
      PROVE  PerShotTermsPrecede' /\ PerShotCounters'
  <2>1. /\ w \in Owners /\ w \in Solving /\ Solving' = Solving
        /\ frequency' = frequency /\ shot' = shot
        /\ pc' = [pc EXCEPT ![w] = "notify_before"]
        /\ pc[w] = "before"
        /\ next_image_frequency' = next_image_frequency
        /\ next_after_frequency' = next_after_frequency
        /\ per_shot_after' = per_shot_after
    BY <1>0, <1>1 DEF AddBefore, At, AtOrderedSection, Goto, Solving, Owners,
       imageVars
  <2>2. /\ frequency[w] = next_before_frequency[shot[w]]
        /\ next_before_frequency' = [next_before_frequency EXCEPT
             ![shot[w]] = frequency[w] + 1]
        /\ per_shot_before' = [per_shot_before EXCEPT
             ![shot[w]] = Append(@, frequency[w])]
    BY <1>0, <1>1 DEF AddBefore, Turn
  <2>3. \A s \in Shots : next_before_frequency'[s] >= next_before_frequency[s]
    BY <1>0, <2>2
  <2>4. /\ PassedBefore(w)' = 0 .. shot[w] /\ PassedBefore(w) = 0 .. shot[w] - 1
        /\ PassedAfter(w)' = PassedAfter(w)
    BY <1>0, <2>1 DEF PassedBefore, PassedAfter
  <2>5. 0 .. shot[w] = (0 .. shot[w] - 1) \union {shot[w]}
    BY <1>0, ShotIntervals
  <2>6. \A v \in Solving \ {w} : /\ PassedBefore(v)' = PassedBefore(v)
                                 /\ PassedAfter(v)' = PassedAfter(v)
    BY <2>1, OthersStay
  <2>7. next_before_frequency'[shot[w]] > frequency[w]
    BY <1>0, <2>2
  <2>8. ASSUME WritePerShot, NEW v \in Solving, NEW s \in PassedBefore(v)'
        PROVE  next_before_frequency'[s] > frequency[v]
    <3>1. CASE s \in PassedBefore(v)
      <4>1. /\ next_before_frequency[s] > frequency[v] /\ s \in Shots
            /\ frequency[v] \in Nat
        BY <1>0, <1>00, <2>8, <3>1 DEF PerShotTermsPrecede
      <4>2. QED
        BY <1>0, <2>3, <4>1
    <3>2. CASE s \notin PassedBefore(v)
      BY <2>4, <2>5, <2>6, <2>7, <2>8, <3>2
    <3>3. QED
      BY <3>1, <3>2
  <2>9. PerShotTermsPrecede'
    BY <2>1, <2>4, <2>6, <2>8 DEF PerShotTermsPrecede
  <2>10. PerShotCounters'
    <3>1. \A s \in Shots : Len(per_shot_before'[s]) = next_before_frequency'[s]
      BY <1>0, <2>2 DEF PerShotCounters
    <3>2. WritePerShot => \A s \in Shots :
             next_image_frequency' <= next_before_frequency'[s]
      <4>1. WritePerShot => \A s \in Shots :
               next_image_frequency <= next_before_frequency[s]
        BY DEF PerShotCounters
      <4>2. QED
        BY <1>0, <2>1, <2>3, <4>1
    <3>3. QED
      BY <2>1, <3>1, <3>2 DEF PerShotCounters
  <2>11. QED
    BY <2>9, <2>10
<1>2. ASSUME NEW w \in Workers, AddAfter(w)
      PROVE  PerShotTermsPrecede' /\ PerShotCounters'
  <2>1. /\ w \in Owners /\ w \in Solving /\ Solving' = Solving
        /\ frequency' = frequency /\ shot' = shot
        /\ pc' = [pc EXCEPT ![w] = "notify_after"]
        /\ pc[w] = "after"
        /\ next_image_frequency' = next_image_frequency
        /\ next_before_frequency' = next_before_frequency
        /\ per_shot_before' = per_shot_before
    BY <1>0, <1>2 DEF AddAfter, At, AtOrderedSection, Goto, Solving, Owners,
       imageVars
  <2>2. /\ frequency[w] = next_after_frequency[shot[w]]
        /\ next_after_frequency' = [next_after_frequency EXCEPT
             ![shot[w]] = frequency[w] + 1]
        /\ per_shot_after' = [per_shot_after EXCEPT
             ![shot[w]] = Append(@, frequency[w])]
    BY <1>0, <1>2 DEF AddAfter, Turn
  <2>3. \A s \in Shots : next_after_frequency'[s] >= next_after_frequency[s]
    BY <1>0, <2>2
  <2>4. /\ PassedAfter(w)' = 0 .. shot[w] /\ PassedAfter(w) = 0 .. shot[w] - 1
        /\ PassedBefore(w)' = PassedBefore(w)
    BY <1>0, <2>1 DEF PassedBefore, PassedAfter
  <2>5. 0 .. shot[w] = (0 .. shot[w] - 1) \union {shot[w]}
    BY <1>0, ShotIntervals
  <2>6. \A v \in Solving \ {w} : /\ PassedBefore(v)' = PassedBefore(v)
                                 /\ PassedAfter(v)' = PassedAfter(v)
    BY <2>1, OthersStay
  <2>7. next_after_frequency'[shot[w]] > frequency[w]
    BY <1>0, <2>2
  <2>8. ASSUME WritePerShot, NEW v \in Solving, NEW s \in PassedAfter(v)'
        PROVE  next_after_frequency'[s] > frequency[v]
    <3>1. CASE s \in PassedAfter(v)
      <4>1. /\ next_after_frequency[s] > frequency[v] /\ s \in Shots
            /\ frequency[v] \in Nat
        BY <1>0, <1>00, <2>8, <3>1 DEF PerShotTermsPrecede
      <4>2. QED
        BY <1>0, <2>3, <4>1
    <3>2. CASE s \notin PassedAfter(v)
      BY <2>4, <2>5, <2>6, <2>7, <2>8, <3>2
    <3>3. QED
      BY <3>1, <3>2
  <2>9. PerShotTermsPrecede'
    BY <2>1, <2>4, <2>6, <2>8 DEF PerShotTermsPrecede
  <2>10. PerShotCounters'
    <3>1. \A s \in Shots : Len(per_shot_after'[s]) = next_after_frequency'[s]
      BY <1>0, <2>2 DEF PerShotCounters
    <3>2. WritePerShot => \A s \in Shots :
             next_image_frequency' <= next_after_frequency'[s]
      <4>1. WritePerShot => \A s \in Shots :
               next_image_frequency <= next_after_frequency[s]
        BY DEF PerShotCounters
      <4>2. QED
        BY <1>0, <2>1, <2>3, <4>1
    <3>3. QED
      BY <2>1, <3>1, <3>2 DEF PerShotCounters
  <2>11. QED
    BY <2>9, <2>10
<1>3. ASSUME NEW w \in Workers, Commit(w)
      PROVE  PerShotTermsPrecede' /\ PerShotCounters'
  <2>1. /\ w \in Owners /\ w \in Solving
        /\ Solving' = Solving \ {w}
        /\ frequency' = frequency /\ shot' = shot
        /\ pc[w] = "commit"
        /\ pc' = [pc EXCEPT ![w] = "notify_image"]
        /\ frequency[w] = next_image_frequency
        /\ next_image_frequency' = next_image_frequency + 1
        /\ UNCHANGED perShotVars
    BY <1>0, <1>3 DEF Commit, Released, AtOrderedSection, Turn, Goto, Solving,
       Owners
  <2>2. PassedBefore(w) = Shots /\ PassedAfter(w) = Shots
    BY <2>1 DEF PassedBefore, PassedAfter
  <2>3. WritePerShot => \A s \in Shots :
           next_before_frequency[s] > frequency[w] /\ next_after_frequency[s] > frequency[w]
    BY <2>1, <2>2 DEF PerShotTermsPrecede
  <2>4. \A v \in Solving \ {w} : /\ PassedBefore(v)' = PassedBefore(v)
                                 /\ PassedAfter(v)' = PassedAfter(v)
    BY <2>1, OthersStay
  <2>5. PerShotTermsPrecede'
    BY <2>1, <2>4 DEF PerShotTermsPrecede, perShotVars
  <2>6. PerShotCounters'
    BY <1>0, <2>1, <2>3 DEF PerShotCounters, perShotVars
  <2>7. QED
    BY <2>5, <2>6
<1>4. ASSUME UNCHANGED <<perShotVars, next_image_frequency>>,
             \A v \in Solving' : frequency'[v] = frequency[v],
             \A v \in Solving' : 
               \/ PassedBefore(v)' = {}
               \/ v \in Solving /\ PassedBefore(v)' = PassedBefore(v),
             \A v \in Solving' : 
               \/ PassedAfter(v)' = {}
               \/ v \in Solving /\ PassedAfter(v)' = PassedAfter(v)
      PROVE  PerShotTermsPrecede' /\ PerShotCounters'
  <2>1. PerShotCounters'
    BY <1>4 DEF PerShotCounters, perShotVars
  <2>2. PerShotTermsPrecede'
    BY <1>4 DEF PerShotTermsPrecede, perShotVars
  <2>3. QED
    BY <2>1, <2>2
<1>5. ASSUME NEW w \in Workers, BuildOperators(w)
      PROVE  PerShotTermsPrecede' /\ PerShotCounters'
  <2>1. /\ w \in Owners
        /\ Solving' = Solving \union {w} /\ w \notin Solving
        /\ frequency' = frequency
        /\ pc' = [pc EXCEPT ![w] = "source"]
        /\ shot' = [shot EXCEPT ![w] = 0]
        /\ UNCHANGED <<perShotVars, next_image_frequency>>
    BY <1>0, <1>5 DEF BuildOperators, At, Goto, Solving, Owners, imageVars
  <2>2. PassedBefore(w)' = {} /\ PassedAfter(w)' = {}
    BY <1>0, <2>1 DEF PassedBefore, PassedAfter
  <2>3. \A v \in Solving : /\ PassedBefore(v)' = PassedBefore(v)
                           /\ PassedAfter(v)' = PassedAfter(v)
    BY <2>1, OthersStay
  <2>4. PerShotCounters'
    BY <2>1 DEF PerShotCounters, perShotVars
  <2>5. PerShotTermsPrecede'
    <3>1. ASSUME WritePerShot, NEW v \in Solving'
          PROVE  /\ \A s \in PassedBefore(v)' : next_before_frequency'[s] > frequency'[v]
                 /\ \A s \in PassedAfter(v)' : next_after_frequency'[s] > frequency'[v]
      <4>1. CASE v = w
        BY <2>2, <4>1
      <4>2. CASE v # w
        BY <2>1, <2>3, <3>1, <4>2 DEF PerShotTermsPrecede, perShotVars
      <4>3. QED
        BY <4>1, <4>2
    <3>2. QED
      BY <3>1 DEF PerShotTermsPrecede
  <2>6. QED
    BY <2>4, <2>5
<1>6. ASSUME NEW w \in Workers, CalculateSource(w) \/ IterativelyCorrect(w)
      PROVE  PerShotTermsPrecede' /\ PerShotCounters'
  <2>1. /\ w \in Owners /\ w \in Solving /\ Solving' = Solving
        /\ frequency' = frequency /\ shot' = shot
        /\ \E label : pc' = [pc EXCEPT ![w] = label]
        /\ UNCHANGED <<perShotVars, next_image_frequency>>
    BY <1>0, <1>6 DEF CalculateSource, IterativelyCorrect, At, Goto, Solving,
       Owners, imageVars
  <2>2. WritePerShot =>
           PassedBefore(w)' = PassedBefore(w) /\ PassedAfter(w)' = PassedAfter(w)
    BY <1>0, <1>6 DEF CalculateSource, IterativelyCorrect, At, Goto,
       PassedBefore, PassedAfter
  <2>3. \A v \in Solving \ {w} : /\ PassedBefore(v)' = PassedBefore(v)
                                 /\ PassedAfter(v)' = PassedAfter(v)
    BY <2>1, OthersStay
  <2>4. QED
    BY <2>1, <2>2, <2>3 DEF PerShotTermsPrecede, PerShotCounters, perShotVars
<1>7. ASSUME NEW w \in Workers, CrossCorrelate(w)
      PROVE  PerShotTermsPrecede' /\ PerShotCounters'
  <2>1. /\ frequency' = frequency
        /\ UNCHANGED <<perShotVars, next_image_frequency>>
    BY <1>7 DEF CrossCorrelate, imageVars
  <2>2. CASE ~WritePerShot
    BY <2>1, <2>2 DEF PerShotTermsPrecede, PerShotCounters, perShotVars
  <2>3. CASE WritePerShot
    <3>1. /\ w \in Owners /\ w \in Solving /\ Solving' = Solving
          /\ pc' = [pc EXCEPT ![w] = "after"] /\ shot' = shot
          /\ pc[w] = "correlate"
      BY <1>0, <1>7, <2>3 DEF CrossCorrelate, At, Goto, Solving, Owners
    <3>2. PassedBefore(w)' = PassedBefore(w) /\ PassedAfter(w)' = PassedAfter(w)
      BY <1>0, <3>1 DEF PassedBefore, PassedAfter
    <3>3. \A v \in Solving \ {w} : /\ PassedBefore(v)' = PassedBefore(v)
                                   /\ PassedAfter(v)' = PassedAfter(v)
      BY <3>1, OthersStay
    <3>4. QED
      BY <1>4, <2>1, <3>1, <3>2, <3>3
  <2>4. QED
    BY <2>2, <2>3
<1>8. ASSUME NEW w \in Workers, NotifyAccumulation(w)
      PROVE  PerShotTermsPrecede' /\ PerShotCounters'
  <2>0. /\ frequency' = frequency
        /\ UNCHANGED <<perShotVars, next_image_frequency>>
    BY <1>8 DEF NotifyAccumulation, WakeAllSleepers, imageVars
  <2>1. CASE At(w, "notify_before") /\ Goto(w, "correct") /\ UNCHANGED shot
    <3>1. /\ w \in Owners /\ w \in Solving /\ Solving' = Solving
          /\ PassedBefore(w)' = PassedBefore(w) /\ PassedAfter(w)' = PassedAfter(w)
      BY <1>0, <2>1 DEF At, Goto, Solving, Owners, PassedBefore, PassedAfter
    <3>2. \A v \in Solving \ {w} : /\ PassedBefore(v)' = PassedBefore(v)
                                   /\ PassedAfter(v)' = PassedAfter(v)
      BY <2>1, <3>1, OthersStay DEF Goto
    <3>3. QED
      BY <1>4, <2>0, <3>1, <3>2
  <2>2. CASE At(w, "notify_after") /\ NextShot(w)
    <3>0. /\ PassedBefore(w)' = 0 .. shot[w] /\ PassedAfter(w)' = 0 .. shot[w]
          /\ pc'[w] \in {"source", "commit"}
      BY <2>2, NextShotCompletes
    <3>1. /\ w \in Owners /\ w \in Solving /\ Solving' = Solving
          /\ PassedBefore(w)' = PassedBefore(w) /\ PassedAfter(w)' = PassedAfter(w)
          /\ \E label : pc' = [pc EXCEPT ![w] = label]
          /\ \/ shot' = shot
             \/ \E s : shot' = [shot EXCEPT ![w] = s]
      BY <1>0, <2>2, <3>0 DEF At, NextShot, Goto, Solving, Owners,
         PassedBefore, PassedAfter
    <3>2. \A v \in Solving \ {w} : /\ PassedBefore(v)' = PassedBefore(v)
                                   /\ PassedAfter(v)' = PassedAfter(v)
      BY <3>1, OthersStay
    <3>3. QED
      BY <1>4, <2>0, <3>1, <3>2
  <2>3. CASE At(w, "notify_image") /\ Goto(w, "release") /\ UNCHANGED shot
    <3>1. /\ w \notin Solving /\ Solving' = Solving
          /\ \A v \in Solving : pc'[v] = pc[v] /\ shot'[v] = shot[v]
      BY <1>0, <2>3 DEF At, Goto, Solving, Owners
    <3>2. QED
      BY <1>4, <2>0, <3>1 DEF PassedBefore, PassedAfter
  <2>4. QED
    BY <1>8, <2>1, <2>2, <2>3 DEF NotifyAccumulation, WakeAllSleepers
<1>9. ASSUME NEW w \in Workers,
             \/ TakeIndex(w) \/ LeaveLoop(w) \/ SleepForSlot(w)
             \/ AcquireSlot(w) \/ SleepForTurn(w) \/ ReleaseSlot(w)
             \/ NotifySlot(w) \/ Fail(w)
      PROVE  PerShotTermsPrecede' /\ PerShotCounters'
  <2>1. /\ Solving' = Solving
        /\ UNCHANGED <<perShotVars, next_image_frequency>>
        /\ \A v \in Solving :
             pc'[v] = pc[v] /\ shot'[v] = shot[v] /\ frequency'[v] = frequency[v]
    <3>1. CASE TakeIndex(w) \/ LeaveLoop(w) \/ SleepForSlot(w) \/ AcquireSlot(w)
      BY <1>0, <3>1 DEF TakeIndex, LeaveLoop, SleepForSlot, AcquireSlot, At,
         Goto, Solving, Owners, teamVars, imageVars
    <3>2. CASE SleepForTurn(w) \/ ReleaseSlot(w) \/ NotifySlot(w) \/ Fail(w)
      BY <1>0, <3>2 DEF SleepForTurn, ReleaseSlot, SlotsAfterRelease,
         NotifySlot, WakeOneForSlot, Fail, At, Goto, Solving, Owners, teamVars,
         imageVars
    <3>3. QED
      BY <1>9, <3>1, <3>2
  <2>2. QED
    BY <1>4, <2>1 DEF PassedBefore, PassedAfter
<1>10. CASE WriteImages \/ UNCHANGED vars
  BY <1>4, <1>10 DEF WriteImages, AllWorkersDone, vars, teamVars, imageVars,
     Solving, Owners, PassedBefore, PassedAfter
<1>11. QED
  BY <1>1, <1>2, <1>3, <1>5, <1>6, <1>7, <1>8, <1>9, <1>10, StepCases

(***************************************************************************)
(* The stacked image.                                                      *)
(***************************************************************************)
LEMMA ImageStep ==
  ASSUME IInv, [Next]_vars
  PROVE  ImageInLegacyOrder'
<1> USE DEF IInv
<1>1. ASSUME NEW w \in Workers, Commit(w)
      PROVE  ImageInLegacyOrder'
  <2>1. /\ frequency[w] = next_image_frequency
        /\ next_image_frequency' = next_image_frequency + 1
        /\ image' = Append(image, <<frequency[w],
                                    frequency_states[frequency[w]].terms>>)
        /\ w \in Solving /\ Stored(w) = Shots
    BY <1>1 DEF Commit, Released, AtOrderedSection, Turn, Solving, Owners,
       Stored
  <2>2. frequency_states[frequency[w]].terms = Shots
    BY <2>1 DEF TermsAreStored
  <2>3. image \in Seq(Frequencies \X SUBSET Shots) /\ next_image_frequency \in Nat
    BY CountsAssumption DEF TypeOK
  <2>4. image' = Append(image, <<Len(image), Shots>>)
    BY <2>1, <2>2 DEF ImageInLegacyOrder
  <2>5. Len(image') = next_image_frequency'
    BY <2>1, <2>3, <2>4 DEF ImageInLegacyOrder
  <2>6. ASSUME NEW i \in 1 .. Len(image')
        PROVE  image'[i] = <<i - 1, Shots>>
    <3>1. CASE i \in 1 .. Len(image)
      BY <2>3, <2>4, <3>1 DEF ImageInLegacyOrder
    <3>2. CASE i = Len(image) + 1
      BY <2>3, <2>4, <3>2
    <3>3. QED
      BY <2>3, <2>4, <2>6, <3>1, <3>2
  <2>7. QED
    BY <2>5, <2>6 DEF ImageInLegacyOrder
<1>2. CASE UNCHANGED imageVars
  BY <1>2 DEF ImageInLegacyOrder, imageVars
<1>3. ASSUME NEW w \in Workers,
             \/ TakeIndex(w) \/ LeaveLoop(w) \/ SleepForSlot(w)
             \/ AcquireSlot(w) \/ BuildOperators(w) \/ CalculateSource(w)
             \/ SleepForTurn(w) \/ AddBefore(w) \/ IterativelyCorrect(w)
             \/ CrossCorrelate(w) \/ AddAfter(w) \/ NotifyAccumulation(w)
             \/ ReleaseSlot(w) \/ NotifySlot(w) \/ Fail(w)
      PROVE  UNCHANGED imageVars
  BY <1>3 DEF TakeIndex, LeaveLoop, SleepForSlot, AcquireSlot, BuildOperators,
     CalculateSource, SleepForTurn, AddBefore, IterativelyCorrect,
     CrossCorrelate, AddAfter, NotifyAccumulation, WakeAllSleepers,
     ReleaseSlot, SlotsAfterRelease, NotifySlot, WakeOneForSlot, Fail
<1>4. CASE WriteImages \/ UNCHANGED vars
  BY <1>2, <1>4 DEF WriteImages, AllWorkersDone, vars
<1>5. QED
  BY <1>1, <1>2, <1>3, <1>4, StepCases

\* When the team has left the loop every accumulator is full.
LEMMA TeamDone ==
  ASSUME IInv, \A w \in Workers : pc[w] = "done"
  PROVE  /\ Len(image) = FrequencyCount
         /\ WritePerShot =>
              \A s \in Shots : /\ Len(per_shot_before[s]) = FrequencyCount
                               /\ Len(per_shot_after[s]) = FrequencyCount
<1> USE DEF IInv
<1>1. Owners = {}
  BY DEF Owners
<1>2. next_index = FrequencyCount
  BY WorkersAssumption DEF FrequenciesHaveOneOwner
<1>3. /\ next_image_frequency \in 0 .. FrequencyCount
      /\ FrequencyCount \in Nat
      /\ \A s \in Shots : /\ next_before_frequency[s] \in 0 .. FrequencyCount
                          /\ next_after_frequency[s] \in 0 .. FrequencyCount
  BY CountsAssumption DEF TypeOK
<1>4. next_image_frequency = FrequencyCount
  <2>1. SUFFICES ASSUME next_image_frequency # FrequencyCount PROVE FALSE
    OBVIOUS
  <2>2. next_image_frequency \in next_image_frequency .. next_index - 1
    BY <1>2, <1>3, <2>1
  <2>3. \E w \in Owners : frequency[w] = next_image_frequency
    BY <2>2 DEF FrequenciesHaveOneOwner
  <2>4. QED
    BY <1>1, <2>3
<1>5. Len(image) = FrequencyCount
  BY <1>4 DEF ImageInLegacyOrder
<1>6. ASSUME WritePerShot, NEW s \in Shots
      PROVE  /\ Len(per_shot_before[s]) = FrequencyCount
             /\ Len(per_shot_after[s]) = FrequencyCount
  <2>1. /\ FrequencyCount <= next_before_frequency[s]
        /\ FrequencyCount <= next_after_frequency[s]
    BY <1>4, <1>6 DEF PerShotCounters
  <2>2. QED
    BY <1>3, <2>1 DEF PerShotCounters
<1>7. QED
  BY <1>5, <1>6

LEMMA WrittenStep ==
  ASSUME IInv, [Next]_vars
  PROVE  WrittenImagesAreComplete'
<1> USE DEF IInv
<1>1. CASE WriteImages
  BY <1>1, TeamDone DEF WriteImages, AllWorkersDone, WrittenImagesAreComplete,
     imageVars, perShotVars
<1>2. ASSUME NEW w \in Workers,
             \/ TakeIndex(w) \/ LeaveLoop(w) \/ SleepForSlot(w)
             \/ AcquireSlot(w) \/ BuildOperators(w) \/ CalculateSource(w)
             \/ SleepForTurn(w) \/ AddBefore(w) \/ IterativelyCorrect(w)
             \/ CrossCorrelate(w) \/ AddAfter(w) \/ Commit(w)
             \/ NotifyAccumulation(w) \/ ReleaseSlot(w) \/ NotifySlot(w)
             \/ Fail(w)
      PROVE  outcome' # "written"
  BY <1>2 DEF TakeIndex, LeaveLoop, SleepForSlot, AcquireSlot, BuildOperators,
     CalculateSource, SleepForTurn, AddBefore, IterativelyCorrect,
     CrossCorrelate, AddAfter, Commit, Released, NotifyAccumulation,
     WakeAllSleepers, ReleaseSlot, SlotsAfterRelease, NotifySlot,
     WakeOneForSlot, Fail, At, AtOrderedSection
<1>3. CASE UNCHANGED vars
  BY <1>3 DEF vars, WrittenImagesAreComplete, imageVars, perShotVars
<1>4. QED
  BY <1>1, <1>2, <1>3, StepCases DEF WrittenImagesAreComplete

\* The per-shot sections are entered only when per-shot images are written.
LEMMA PerShotStagesStep ==
  ASSUME IInv, [Next]_vars
  PROVE  PerShotStages'
<1> USE DEF IInv
<1>0. pc \in [Workers -> ProgramCounters]
  BY DEF TypeOK
<1>1. ASSUME NEW w \in Workers,
             \/ TakeIndex(w) \/ LeaveLoop(w) \/ SleepForSlot(w)
             \/ AcquireSlot(w) \/ BuildOperators(w) \/ CalculateSource(w)
             \/ SleepForTurn(w) \/ IterativelyCorrect(w) \/ Commit(w)
             \/ ReleaseSlot(w) \/ NotifySlot(w) \/ Fail(w)
      PROVE  PerShotStages'
  BY <1>0, <1>1 DEF TakeIndex, LeaveLoop, SleepForSlot, AcquireSlot,
     BuildOperators, CalculateSource, SleepForTurn, IterativelyCorrect, Commit,
     Released, ReleaseSlot, SlotsAfterRelease, NotifySlot, WakeOneForSlot,
     Fail, Goto, teamVars, PerShotStages
<1>2. ASSUME NEW w \in Workers, AddBefore(w) \/ AddAfter(w)
      PROVE  PerShotStages'
  BY <1>0, <1>2 DEF AddBefore, AddAfter, Goto, PerShotStages
<1>3. ASSUME NEW w \in Workers, CrossCorrelate(w) \/ NotifyAccumulation(w)
      PROVE  PerShotStages'
  BY <1>0, <1>3 DEF CrossCorrelate, NotifyAccumulation, WakeAllSleepers,
     NextShot, Goto, PerShotStages
<1>4. CASE WriteImages \/ UNCHANGED vars
  BY <1>4 DEF WriteImages, AllWorkersDone, vars, teamVars, PerShotStages
<1>5. QED
  BY <1>1, <1>2, <1>3, <1>4, StepCases

LEMMA InductiveStep == IInv /\ [Next]_vars => IInv'
BY TypeStep, SlotStep, OwnerStep, SolverStep, PerShotStep, ImageStep,
   WrittenStep, PerShotStagesStep DEF IInv

LEMMA Invariance == Spec => []IInv
BY InitIInv, InductiveStep, PTL DEF Spec

-----------------------------------------------------------------------------
(***************************************************************************)
(* The state of the workflow is well typed; in particular                  *)
(* active_frequencies never exceeds concurrent_frequencies nor goes below  *)
(* zero.                                                                   *)
(***************************************************************************)
THEOREM TypeCorrect == Spec => []TypeOK
BY Invariance, PTL DEF IInv

(***************************************************************************)
(* The floating-point additions of the stacked image happen in the legacy  *)
(* order and miss no shot, for every team and every number of slots.       *)
(***************************************************************************)
THEOREM LegacyOrderOfCommits == Spec => []ImageInLegacyOrder
BY Invariance, PTL DEF IInv

(***************************************************************************)
(* No incomplete image is written.                                         *)
(***************************************************************************)
THEOREM WrittenIsComplete == Spec => []WrittenImagesAreComplete
BY Invariance, PTL DEF IInv

(***************************************************************************)
(* The operators of at most concurrent_frequencies frequencies are alive.  *)
(***************************************************************************)
LEMMA BudgetFromSlots == IInv => OperatorsWithinBudget
<1> SUFFICES ASSUME IInv PROVE OperatorsWithinBudget
  OBVIOUS
<1>1. IsFiniteSet(InSection) /\ Cardinality(InSection) <= ConcurrentFrequencies
      /\ Cardinality(InSection) \in Nat
  <2>1. IsFiniteSet(InSection)
    BY WorkersAssumption, FS_Subset DEF InSection
  <2>2. QED
    BY <2>1, FS_CardinalityType, CountsAssumption DEF IInv, TypeOK,
       SlotsAreCounted
<1>2. Solving \subseteq InSection
  BY DEF Solving, Owners, InSection
<1>3. IsFiniteSet(Solving) /\ Cardinality(Solving) <= Cardinality(InSection)
  BY <1>1, <1>2, FS_Subset
<1> DEFINE owned == [w \in Solving |-> frequency[w]]
           range == {frequency[w] : w \in Solving}
<1>4. owned \in Surjection(Solving, range)
  BY DEF Surjection
<1>5. IsFiniteSet(range) /\ Cardinality(range) <= Cardinality(Solving)
  BY <1>3, <1>4, FS_Surjection
<1>6. HoldingOperators \subseteq range
  BY DEF IInv, OperatorsHaveASolver
<1>7. Cardinality(HoldingOperators) <= Cardinality(range)
  BY <1>5, <1>6, FS_Subset
<1>8. /\ Cardinality(HoldingOperators) \in Nat /\ Cardinality(range) \in Nat
      /\ Cardinality(Solving) \in Nat
  BY <1>3, <1>5, <1>6, FS_Subset, FS_CardinalityType
<1>9. QED
  BY <1>1, <1>3, <1>5, <1>7, <1>8, CountsAssumption DEF OperatorsWithinBudget

(***************************************************************************)
(* At no time are the operators of more frequencies allocated than there   *)
(* are slots, which is what concurrent_frequencies is computed for.        *)
(***************************************************************************)
THEOREM MemoryBound == Spec => []OperatorsWithinBudget
BY Invariance, BudgetFromSlots, PTL

(***************************************************************************)
(* With a slot for every worker begin_frequency never blocks: the stall    *)
(* that the memory bound makes possible needs a team larger than           *)
(* concurrent_frequencies.                                                 *)
(***************************************************************************)
THEOREM SlotsSuffice == Spec => []NobodyWaitsForASlot
<1>1. Init => NobodyWaitsForASlot
  BY DEF Init, NobodyWaitsForASlot
<1>2. IInv /\ NobodyWaitsForASlot /\ [Next]_vars => NobodyWaitsForASlot'
  <2> SUFFICES ASSUME IInv, NobodyWaitsForASlot, [Next]_vars,
                      Cardinality(Workers) <= ConcurrentFrequencies
               PROVE  slot_waiters' = {}
    BY DEF NobodyWaitsForASlot
  <2>0. slot_waiters = {}
    BY DEF NobodyWaitsForASlot
  <2>1. ASSUME NEW w \in Workers, SleepForSlot(w)
        PROVE  FALSE
    <3>1. InSection \subseteq Workers \ {w}
      BY <2>1 DEF SleepForSlot, At, InSection
    <3>2. /\ IsFiniteSet(Workers \ {w})
          /\ Cardinality(Workers \ {w}) = Cardinality(Workers) - 1
      BY WorkersAssumption, FS_RemoveElement
    <3>3. /\ IsFiniteSet(InSection)
          /\ Cardinality(InSection) <= Cardinality(Workers \ {w})
      BY <3>1, <3>2, FS_Subset
    <3>4. /\ Cardinality(InSection) \in Nat /\ Cardinality(Workers) \in Nat
          /\ Cardinality(Workers \ {w}) \in Nat
      BY <3>2, <3>3, WorkersAssumption, FS_CardinalityType
    <3>5. active_frequencies = Cardinality(InSection)
      BY DEF IInv, SlotsAreCounted
    <3>6. ~(active_frequencies < ConcurrentFrequencies)
      BY <2>1 DEF SleepForSlot, SlotFree
    <3>7. QED
      BY <3>2, <3>3, <3>4, <3>5, <3>6, CountsAssumption
  <2>2. ASSUME NEW w \in Workers,
               \/ TakeIndex(w) \/ LeaveLoop(w) \/ AcquireSlot(w)
               \/ BuildOperators(w) \/ CalculateSource(w) \/ SleepForTurn(w)
               \/ AddBefore(w) \/ IterativelyCorrect(w) \/ CrossCorrelate(w)
               \/ AddAfter(w) \/ Commit(w) \/ NotifyAccumulation(w)
               \/ ReleaseSlot(w) \/ NotifySlot(w) \/ Fail(w)
        PROVE  slot_waiters' = {}
    BY <2>0, <2>2 DEF TakeIndex, LeaveLoop, AcquireSlot, BuildOperators,
       CalculateSource, SleepForTurn, AddBefore, IterativelyCorrect,
       CrossCorrelate, AddAfter, Commit, Released, NotifyAccumulation,
       WakeAllSleepers, ReleaseSlot, SlotsAfterRelease, NotifySlot,
       WakeOneForSlot, Fail, slotVars
  <2>3. CASE WriteImages \/ UNCHANGED vars
    BY <2>0, <2>3 DEF WriteImages, AllWorkersDone, vars, slotVars
  <2>4. QED
    BY <2>1, <2>2, <2>3, StepCases
<1>3. QED
  BY <1>1, <1>2, Invariance, PTL DEF Spec

(***************************************************************************)
(* The stage implements OrderedAccumulation: every step of a thread is one *)
(* addition of the legacy program, in its order, or changes no accumulator.*)
(***************************************************************************)
LEMMA LegacyStep ==
  ASSUME IInv, [Next]_vars
  PROVE  [Legacy!Next]_(Legacy!vars)
<1> USE DEF IInv
<1>0. /\ shot \in [Workers -> Shots] /\ frequency \in [Workers -> Frequencies]
      /\ per_shot_before \in [Shots -> Seq(Frequencies)]
      /\ per_shot_after \in [Shots -> Seq(Frequencies)]
      /\ FrequencyCount \in Nat
  BY CountsAssumption DEF TypeOK
<1>1. Legacy!AllShots = Shots
  BY DEF Legacy!AllShots, Shots
<1>2. ASSUME NEW w \in Workers, AddBefore(w), WritePerShot
      PROVE  Legacy!Next
  <2>1. /\ Len(per_shot_before[shot[w]]) = frequency[w]
        /\ frequency[w] < FrequencyCount
        /\ outcome = "running"
    BY <1>0, <1>2 DEF AddBefore, AtOrderedSection, Turn, PerShotCounters,
       Frequencies
  <2>2. Legacy!AddBefore(shot[w])
    BY <1>2, <2>1 DEF AddBefore, Legacy!AddBefore, Legacy!AddTerm, imageVars
  <2>3. QED
    BY <1>0, <1>1, <2>2 DEF Legacy!Next
<1>3. ASSUME NEW w \in Workers, AddAfter(w), WritePerShot
      PROVE  Legacy!Next
  <2>1. /\ w \in Solving /\ PassedBefore(w) = 0 .. shot[w]
        /\ Len(per_shot_after[shot[w]]) = frequency[w]
        /\ outcome = "running"
    BY <1>0, <1>3 DEF AddAfter, AtOrderedSection, Turn, PerShotCounters,
       Solving, Owners, PassedBefore
  <2>2. shot[w] \in 0 .. shot[w]
    BY <1>0, ShotIntervals
  <2>3. frequency[w] < Len(per_shot_before[shot[w]])
    <3>1. next_before_frequency[shot[w]] > frequency[w]
      BY <1>3, <2>1, <2>2 DEF PerShotTermsPrecede
    <3>2. Len(per_shot_before[shot[w]]) = next_before_frequency[shot[w]]
      BY <1>0 DEF PerShotCounters
    <3>3. QED
      BY <3>1, <3>2
  <2>4. Legacy!AddAfter(shot[w])
    BY <1>3, <2>1, <2>3 DEF AddAfter, Legacy!AddAfter, Legacy!AddTerm,
       imageVars
  <2>5. QED
    BY <1>0, <1>1, <2>4 DEF Legacy!Next
<1>4. ASSUME NEW w \in Workers, Commit(w)
      PROVE  Legacy!Next
  <2>1. /\ frequency[w] = Len(image)
        /\ frequency[w] < FrequencyCount
        /\ w \in Solving /\ Stored(w) = Shots /\ PassedAfter(w) = Shots
        /\ outcome = "running"
    BY <1>0, <1>4 DEF Commit, Released, AtOrderedSection, Turn, Solving,
       Owners, Stored, PassedAfter, ImageInLegacyOrder, Frequencies
  <2>2. frequency_states[frequency[w]].terms = Shots
    BY <2>1 DEF TermsAreStored
  <2>3. image' = Append(image, <<Len(image), Shots>>)
    BY <1>4, <2>1, <2>2 DEF Commit, Released
  <2>4. WritePerShot => \A s \in Shots : Len(image) < Len(per_shot_after[s])
    <3>1. WritePerShot => \A s \in Shots : next_after_frequency[s] > frequency[w]
      BY <2>1 DEF PerShotTermsPrecede
    <3>2. \A s \in Shots : Len(per_shot_after[s]) = next_after_frequency[s]
      BY DEF PerShotCounters
    <3>3. QED
      BY <2>1, <3>1, <3>2
  <2>5. UNCHANGED <<per_shot_before, per_shot_after, outcome>>
    BY <1>4 DEF Commit, Released, perShotVars
  <2>6. Legacy!AddAllShots
    BY <1>1, <2>1, <2>3, <2>4, <2>5 DEF Legacy!AddAllShots
  <2>7. QED
    BY <2>6 DEF Legacy!Next
<1>5. CASE WriteImages
  <2>1. Len(image) = FrequencyCount
    BY <1>5, TeamDone DEF WriteImages, AllWorkersDone
  <2>2. Legacy!Write
    BY <1>5, <2>1 DEF WriteImages, AllWorkersDone, Legacy!Write, imageVars,
       perShotVars
  <2>3. QED
    BY <2>2 DEF Legacy!Next
<1>6. ASSUME NEW w \in Workers,
             \/ TakeIndex(w) \/ LeaveLoop(w) \/ SleepForSlot(w)
             \/ AcquireSlot(w) \/ BuildOperators(w) \/ CalculateSource(w)
             \/ SleepForTurn(w) \/ IterativelyCorrect(w) \/ CrossCorrelate(w)
             \/ NotifyAccumulation(w) \/ ReleaseSlot(w) \/ NotifySlot(w)
             \/ Fail(w)
      PROVE  UNCHANGED Legacy!vars
  <2>1. UNCHANGED <<perShotVars, imageVars>>
    BY <1>6 DEF TakeIndex, LeaveLoop, SleepForSlot, AcquireSlot,
       BuildOperators, CalculateSource, SleepForTurn, IterativelyCorrect,
       CrossCorrelate, NotifyAccumulation, WakeAllSleepers, ReleaseSlot,
       SlotsAfterRelease, NotifySlot, WakeOneForSlot, Fail
  <2>2. (outcome' = "written") = (outcome = "written")
    BY <1>6 DEF TakeIndex, LeaveLoop, SleepForSlot, AcquireSlot,
       BuildOperators, CalculateSource, SleepForTurn, IterativelyCorrect,
       CrossCorrelate, NotifyAccumulation, WakeAllSleepers, ReleaseSlot,
       SlotsAfterRelease, NotifySlot, WakeOneForSlot, Fail
  <2>3. QED
    BY <2>1, <2>2 DEF Legacy!vars, perShotVars, imageVars
<1>7. CASE UNCHANGED vars
  BY <1>7 DEF vars, Legacy!vars, perShotVars, imageVars
<1>8. ASSUME NEW w \in Workers, AddBefore(w) \/ AddAfter(w)
      PROVE  WritePerShot
  BY <1>8 DEF AddBefore, AddAfter, PerShotStages
<1>9. QED
  BY <1>2, <1>3, <1>4, <1>5, <1>6, <1>7, <1>8, StepCases

(***************************************************************************)
(* The threaded workflow implements the sequential one: each of its steps  *)
(* is one addition in the legacy order, the final write, or a stutter.     *)
(***************************************************************************)
THEOREM ImplementsLegacyOrder == Spec => LegacyOrder
<1>1. Init => Legacy!Init
  BY DEF Init, Legacy!Init, Legacy!AllShots, Shots
<1>2. QED
  BY <1>1, Invariance, LegacyStep, PTL DEF Spec, LegacyOrder, Legacy!Spec

(***************************************************************************)
(* No wakeup is lost: the conditions under which a thread sleeps, and what *)
(* is on its way to wake it.                                               *)
(***************************************************************************)
LEMMA InitWakeupInv == Init => WakeupInv
BY DEF Init, WakeupInv, SleepersAreAtTheirWait, TurnIsNotified,
       FreeSlotIsNotified

(***************************************************************************)
(* What a step changes of the other workers: nothing.                      *)
(***************************************************************************)
OthersStand(w) ==
  \A v \in Workers : v # w =>
    pc'[v] = pc[v] /\ shot'[v] = shot[v] /\ frequency'[v] = frequency[v]

Turns == <<next_before_frequency, next_after_frequency, next_image_frequency>>

LEMMA GotoStands ==
  ASSUME TypeOK, NEW w \in Workers, NEW l, Goto(w, l),
         shot' = shot, frequency' = frequency
  PROVE  OthersStand(w) /\ pc'[w] = l
BY DEF TypeOK, Goto, OthersStand

LEMMA NextShotStands ==
  ASSUME TypeOK, NEW w \in Workers, NextShot(w), frequency' = frequency
  PROVE  OthersStand(w) /\ pc'[w] \in {"source", "commit"}
BY DEF TypeOK, NextShot, Goto, OthersStand

\* The steps outside the critical sections.
Inner(w) ==
  \/ TakeIndex(w) \/ LeaveLoop(w) \/ BuildOperators(w) \/ CalculateSource(w)
  \/ IterativelyCorrect(w) \/ CrossCorrelate(w)

LEMMA InnerStep ==
  ASSUME TypeOK, NEW w \in Workers, Inner(w)
  PROVE  /\ OthersStand(w)
         /\ pc[w] \in {"schedule", "build", "source", "correct", "correlate"}
         /\ UNCHANGED <<slotVars, accumulation_waiters, Turns>>
<1>1. CASE TakeIndex(w)
  BY <1>1 DEF TypeOK, TakeIndex, At, Goto, OthersStand, slotVars, perShotVars,
     imageVars, Turns
<1>2. CASE LeaveLoop(w)
  BY <1>2, GotoStands DEF LeaveLoop, At, slotVars, perShotVars, imageVars, Turns
<1>3. CASE BuildOperators(w)
  BY <1>3 DEF TypeOK, BuildOperators, At, Goto, OthersStand, slotVars,
     perShotVars, imageVars, Turns
<1>4. CASE CalculateSource(w)
  BY <1>4, GotoStands DEF CalculateSource, At, slotVars, perShotVars,
     imageVars, Turns
<1>5. CASE IterativelyCorrect(w)
  BY <1>5, GotoStands DEF IterativelyCorrect, At, slotVars, perShotVars,
     imageVars, Turns
<1>6. CASE CrossCorrelate(w)
  <2>1. OthersStand(w)
    BY <1>6, GotoStands, NextShotStands DEF CrossCorrelate
  <2>2. QED
    BY <1>6, <2>1 DEF CrossCorrelate, At, slotVars, perShotVars, imageVars, Turns
<1>7. QED
  BY <1>1, <1>2, <1>3, <1>4, <1>5, <1>6 DEF Inner

LEMMA AcquireStep ==
  ASSUME TypeOK, NEW w \in Workers, AcquireSlot(w)
  PROVE  /\ OthersStand(w) /\ pc[w] = "slot" /\ pc'[w] = "build"
         /\ w \notin slot_waiters
         /\ active_frequencies' = active_frequencies + 1
         /\ UNCHANGED <<slot_waiters, accumulation_waiters, Turns>>
BY GotoStands DEF AcquireSlot, At, perShotVars, imageVars, Turns

LEMMA OrderedStep ==
  ASSUME TypeOK, NEW w \in Workers, AddBefore(w) \/ AddAfter(w) \/ Commit(w)
  PROVE  /\ OthersStand(w)
         /\ pc[w] \in {"before", "after", "commit"} /\ w \notin accumulation_waiters
         /\ pc'[w] \in {"notify_before", "notify_after", "notify_image"}
         /\ UNCHANGED <<slotVars, accumulation_waiters>>
<1>1. CASE AddBefore(w)
  BY <1>1, GotoStands DEF AddBefore, AtOrderedSection, slotVars
<1>2. CASE AddAfter(w)
  BY <1>2, GotoStands DEF AddAfter, AtOrderedSection, slotVars
<1>3. CASE Commit(w)
  BY <1>3, GotoStands DEF Commit, AtOrderedSection, slotVars
<1>4. QED
  BY <1>1, <1>2, <1>3

LEMMA NotifyStep ==
  ASSUME TypeOK, NEW w \in Workers, NotifyAccumulation(w)
  PROVE  /\ OthersStand(w)
         /\ pc[w] \in {"notify_before", "notify_after", "notify_image"}
         /\ pc'[w] \in {"correct", "source", "commit", "release"}
         /\ accumulation_waiters' = {} /\ UNCHANGED slotVars
<1>1. /\ accumulation_waiters' = {} /\ UNCHANGED slotVars
      /\ pc[w] \in {"notify_before", "notify_after", "notify_image"}
  BY DEF NotifyAccumulation, WakeAllSleepers, At, slotVars
<1>2. OthersStand(w) /\ pc'[w] \in {"correct", "source", "commit", "release"}
  BY GotoStands, NextShotStands DEF NotifyAccumulation
<1>3. QED
  BY <1>1, <1>2

LEMMA ReleaseStep ==
  ASSUME TypeOK, NEW w \in Workers, ReleaseSlot(w)
  PROVE  /\ OthersStand(w) /\ pc[w] = "release" /\ pc'[w] = "notify_slot"
         /\ active_frequencies' = active_frequencies - 1
         /\ UNCHANGED <<slot_waiters, accumulation_waiters, Turns>>
BY GotoStands DEF ReleaseSlot, SlotsAfterRelease, At, perShotVars, imageVars, Turns

LEMMA NotifySlotStep ==
  ASSUME TypeOK, NEW w \in Workers, NotifySlot(w)
  PROVE  /\ OthersStand(w) /\ pc[w] = "notify_slot" /\ pc'[w] = "schedule"
         /\ \/ slot_waiters = {} /\ slot_waiters' = {}
            \/ \E v \in slot_waiters : slot_waiters' = slot_waiters \ {v}
         /\ UNCHANGED <<active_frequencies, accumulation_waiters, Turns>>
BY GotoStands DEF NotifySlot, WakeOneForSlot, At, perShotVars, imageVars, Turns

\* The steps after which every worker stands where it stood.
LEMMA StandingStep ==
  ASSUME NEW w \in Workers,
         \/ SleepForSlot(w) \/ SleepForTurn(w) \/ Fail(w) \/ WriteImages
         \/ UNCHANGED vars
  PROVE  /\ UNCHANGED <<pc, shot, frequency, active_frequencies, Turns>>
         /\ \/ UNCHANGED slot_waiters
            \/ /\ slot_waiters' = slot_waiters \union {w} /\ pc[w] = "slot"
               /\ ~(active_frequencies < ConcurrentFrequencies)
         /\ \/ UNCHANGED accumulation_waiters
            \/ /\ accumulation_waiters' = accumulation_waiters \union {w}
               /\ pc[w] \in {"before", "after", "commit"} /\ ~Turn(w)
BY DEF SleepForSlot, SlotFree, SleepForTurn, AtOrderedSection, At, Fail,
       WriteImages, vars, teamVars, slotVars, perShotVars, imageVars, Turns

LEMMA WakeupCases ==
  ASSUME [Next]_vars
  PROVE  \E w \in Workers :
           \/ Inner(w) \/ AcquireSlot(w) \/ AddBefore(w) \/ AddAfter(w)
           \/ Commit(w) \/ NotifyAccumulation(w) \/ ReleaseSlot(w)
           \/ NotifySlot(w)
           \/ SleepForSlot(w) \/ SleepForTurn(w) \/ Fail(w) \/ WriteImages
           \/ UNCHANGED vars
BY StepCases, WorkersAssumption DEF Inner

-----------------------------------------------------------------------------
LEMMA SleepersStep ==
  ASSUME IInv, SleepersAreAtTheirWait, [Next]_vars
  PROVE  SleepersAreAtTheirWait'
<1>0. TypeOK /\ slot_waiters \subseteq Workers /\ accumulation_waiters \subseteq Workers
  BY DEF IInv, TypeOK
<1>1. ASSUME NEW w \in Workers, OthersStand(w),
             slot_waiters' \subseteq slot_waiters \ {w},
             accumulation_waiters' \subseteq accumulation_waiters \ {w}
      PROVE  SleepersAreAtTheirWait'
  BY <1>0, <1>1 DEF SleepersAreAtTheirWait, OthersStand
<1>2. ASSUME NEW w \in Workers, Inner(w) \/ AcquireSlot(w) \/ ReleaseSlot(w)
      PROVE  SleepersAreAtTheirWait'
  <2>1. w \notin slot_waiters /\ w \notin accumulation_waiters
    BY <1>0, <1>2, InnerStep, AcquireStep, ReleaseStep DEF SleepersAreAtTheirWait
  <2>2. OthersStand(w) /\ UNCHANGED <<slot_waiters, accumulation_waiters>>
    BY <1>0, <1>2, InnerStep, AcquireStep, ReleaseStep DEF slotVars
  <2>3. QED
    BY <1>1, <2>1, <2>2
<1>3. ASSUME NEW w \in Workers, AddBefore(w) \/ AddAfter(w) \/ Commit(w)
      PROVE  SleepersAreAtTheirWait'
  <2>1. w \notin slot_waiters /\ w \notin accumulation_waiters
    BY <1>0, <1>3, OrderedStep DEF SleepersAreAtTheirWait
  <2>2. OthersStand(w) /\ UNCHANGED <<slot_waiters, accumulation_waiters>>
    BY <1>0, <1>3, OrderedStep DEF slotVars
  <2>3. QED
    BY <1>1, <2>1, <2>2
<1>4. ASSUME NEW w \in Workers, NotifyAccumulation(w)
      PROVE  SleepersAreAtTheirWait'
  <2>1. w \notin slot_waiters
    BY <1>0, <1>4, NotifyStep DEF SleepersAreAtTheirWait
  <2>2. OthersStand(w) /\ UNCHANGED slot_waiters /\ accumulation_waiters' = {}
    BY <1>0, <1>4, NotifyStep DEF slotVars
  <2>3. QED
    BY <1>1, <2>1, <2>2
<1>5. ASSUME NEW w \in Workers, NotifySlot(w)
      PROVE  SleepersAreAtTheirWait'
  <2>1. w \notin slot_waiters /\ w \notin accumulation_waiters
    BY <1>0, <1>5, NotifySlotStep DEF SleepersAreAtTheirWait
  <2>2. /\ OthersStand(w) /\ UNCHANGED accumulation_waiters
        /\ slot_waiters' \subseteq slot_waiters
    BY <1>0, <1>5, NotifySlotStep
  <2>3. QED
    BY <1>1, <2>1, <2>2
<1>6. ASSUME NEW w \in Workers,
             \/ SleepForSlot(w) \/ SleepForTurn(w) \/ Fail(w) \/ WriteImages
             \/ UNCHANGED vars
      PROVE  SleepersAreAtTheirWait'
  BY <1>6, StandingStep DEF SleepersAreAtTheirWait
<1>7. QED
  BY <1>2, <1>3, <1>4, <1>5, <1>6, WakeupCases

(***************************************************************************)
(* accumulation_ready: whoever makes it the turn of a sleeper is about to  *)
(* notify, and the notification wakes all.                                 *)
(***************************************************************************)
AboutToNotify ==
  {v \in Workers : pc[v] \in {"notify_before", "notify_after", "notify_image"}}

LEMMA TurnStep ==
  ASSUME IInv, WakeupInv, [Next]_vars
  PROVE  TurnIsNotified'
<1>0. /\ TypeOK /\ accumulation_waiters \subseteq Workers
      /\ \A u \in accumulation_waiters : pc[u] \in {"before", "after", "commit"}
  BY DEF IInv, TypeOK, WakeupInv, SleepersAreAtTheirWait
<1>1. SUFFICES ASSUME outcome' = "running", NEW u \in accumulation_waiters', Turn(u)'
      PROVE  AboutToNotify' # {}
  BY DEF TurnIsNotified, AboutToNotify
<1>2. outcome = "running"
  BY <1>1, StepCases
     DEF TakeIndex, LeaveLoop, SleepForSlot, AcquireSlot, BuildOperators,
         CalculateSource, SleepForTurn, AddBefore, IterativelyCorrect,
         CrossCorrelate, AddAfter, Commit, NotifyAccumulation, ReleaseSlot,
         NotifySlot, Fail, WriteImages, At, AtOrderedSection, vars
<1>3. ASSUME u \in accumulation_waiters, UNCHANGED Turns,
             pc'[u] = pc[u], shot'[u] = shot[u], frequency'[u] = frequency[u],
             AboutToNotify \subseteq AboutToNotify'
      PROVE  AboutToNotify' # {}
  <2>1. Turn(u)
    BY <1>1, <1>3 DEF Turn, Turns
  <2>2. AboutToNotify # {}
    BY <1>2, <1>3, <2>1 DEF WakeupInv, TurnIsNotified, AboutToNotify
  <2>3. QED
    BY <1>3, <2>2
<1>4. ASSUME NEW w \in Workers, OthersStand(w), UNCHANGED <<accumulation_waiters, Turns>>,
             w \notin accumulation_waiters, w \notin AboutToNotify
      PROVE  AboutToNotify' # {}
  <2>1. /\ u \in accumulation_waiters /\ u # w /\ u \in Workers
        /\ pc'[u] = pc[u] /\ shot'[u] = shot[u] /\ frequency'[u] = frequency[u]
    BY <1>0, <1>4 DEF OthersStand
  <2>2. AboutToNotify \subseteq AboutToNotify'
    BY <1>4 DEF OthersStand, AboutToNotify
  <2>3. QED
    BY <1>3, <1>4, <2>1, <2>2
<1>5. ASSUME NEW w \in Workers, \/ Inner(w) \/ AcquireSlot(w) \/ ReleaseSlot(w)
                                \/ NotifySlot(w)
      PROVE  AboutToNotify' # {}
  <2>1. /\ OthersStand(w) /\ UNCHANGED <<accumulation_waiters, Turns>>
        /\ pc[w] \in {"schedule", "build", "source", "correct", "correlate",
                      "slot", "release", "notify_slot"}
    BY <1>0, <1>5, InnerStep, AcquireStep, ReleaseStep, NotifySlotStep
  <2>2. w \notin accumulation_waiters /\ w \notin AboutToNotify
    BY <1>0, <2>1 DEF AboutToNotify
  <2>3. QED
    BY <1>4, <2>1, <2>2
<1>6. ASSUME NEW w \in Workers, AddBefore(w) \/ AddAfter(w) \/ Commit(w)
      PROVE  AboutToNotify' # {}
  <2>1. w \in AboutToNotify'
    BY <1>0, <1>6, OrderedStep DEF AboutToNotify
  <2>2. QED
    BY <2>1
<1>7. ASSUME NEW w \in Workers, NotifyAccumulation(w)
      PROVE  AboutToNotify' # {}
  <2>1. accumulation_waiters' = {}
    BY <1>0, <1>7, NotifyStep
  <2>2. QED
    BY <2>1
<1>8. ASSUME NEW w \in Workers,
             \/ SleepForSlot(w) \/ SleepForTurn(w) \/ Fail(w) \/ WriteImages
             \/ UNCHANGED vars
      PROVE  AboutToNotify' # {}
  <2>1. UNCHANGED <<pc, shot, frequency, Turns>>
    BY <1>8, StandingStep
  <2>2. Turn(u) /\ AboutToNotify' = AboutToNotify
    BY <1>1, <2>1 DEF Turn, Turns, AboutToNotify
  <2>3. u \in accumulation_waiters
    BY <1>8, <2>2, StandingStep
  <2>4. QED
    BY <1>3, <2>1, <2>2, <2>3
<1>9. QED
  BY <1>5, <1>6, <1>7, <1>8, WakeupCases

(***************************************************************************)
(* frequency_slot_ready: a slot that becomes free has a worker about to    *)
(* notify; the worker it wakes takes its place in the count.               *)
(***************************************************************************)
LEMMA AwakeAreFinite ==
  /\ IsFiniteSet(Notifying) /\ IsFiniteSet(AwakeForSlot)
  /\ Cardinality(Notifying) \in Nat /\ Cardinality(AwakeForSlot) \in Nat
<1>1. IsFiniteSet(Notifying) /\ IsFiniteSet(AwakeForSlot)
  BY WorkersAssumption, FS_Subset DEF Notifying, AwakeForSlot
<1>2. QED
  BY <1>1, FS_CardinalityType

LEMMA AwakeAreFiniteNext ==
  /\ IsFiniteSet(Notifying') /\ IsFiniteSet(AwakeForSlot')
  /\ Cardinality(Notifying') \in Nat /\ Cardinality(AwakeForSlot') \in Nat
<1>1. IsFiniteSet(Notifying') /\ IsFiniteSet(AwakeForSlot')
  BY WorkersAssumption, FS_Subset DEF Notifying, AwakeForSlot
<1>2. QED
  BY <1>1, FS_CardinalityType

LEMMA FreeSlotStep ==
  ASSUME IInv, WakeupInv, [Next]_vars
  PROVE  FreeSlotIsNotified'
<1>0. /\ TypeOK /\ slot_waiters \subseteq Workers
      /\ active_frequencies \in Nat /\ ConcurrentFrequencies \in Nat
      /\ \A u \in slot_waiters : pc[u] = "slot"
  BY CountsAssumption DEF IInv, TypeOK, WakeupInv, SleepersAreAtTheirWait
<1>1. SUFFICES ASSUME slot_waiters' # {}
      PROVE  ConcurrentFrequencies - active_frequencies'
               <= Cardinality(Notifying') + Cardinality(AwakeForSlot')
  BY DEF FreeSlotIsNotified
<1> USE AwakeAreFinite, AwakeAreFiniteNext
<1>2. slot_waiters # {} =>
        ConcurrentFrequencies - active_frequencies
          <= Cardinality(Notifying) + Cardinality(AwakeForSlot)
  BY DEF WakeupInv, FreeSlotIsNotified
<1>3. ASSUME UNCHANGED <<active_frequencies, slot_waiters>>,
             Notifying \subseteq Notifying', AwakeForSlot \subseteq AwakeForSlot'
      PROVE  ConcurrentFrequencies - active_frequencies'
               <= Cardinality(Notifying') + Cardinality(AwakeForSlot')
  <2>1. /\ Cardinality(Notifying) <= Cardinality(Notifying')
        /\ Cardinality(AwakeForSlot) <= Cardinality(AwakeForSlot')
    BY <1>3, FS_Subset
  <2>2. QED
    BY <1>0, <1>1, <1>2, <1>3, <2>1
<1>4. ASSUME NEW w \in Workers, OthersStand(w), UNCHANGED slotVars,
             pc[w] \notin {"slot", "notify_slot"}
      PROVE  ConcurrentFrequencies - active_frequencies'
               <= Cardinality(Notifying') + Cardinality(AwakeForSlot')
  <2>1. Notifying \subseteq Notifying' /\ AwakeForSlot \subseteq AwakeForSlot'
    BY <1>4 DEF Notifying, AwakeForSlot, OthersStand, slotVars
  <2>2. QED
    BY <1>3, <1>4, <2>1 DEF slotVars
<1>5. ASSUME NEW w \in Workers, \/ Inner(w) \/ AddBefore(w) \/ AddAfter(w)
                                \/ Commit(w) \/ NotifyAccumulation(w)
      PROVE  ConcurrentFrequencies - active_frequencies'
               <= Cardinality(Notifying') + Cardinality(AwakeForSlot')
  <2>1. OthersStand(w) /\ UNCHANGED slotVars /\ pc[w] \notin {"slot", "notify_slot"}
    BY <1>0, <1>5, InnerStep, OrderedStep, NotifyStep
  <2>2. QED
    BY <1>4, <2>1
<1>6. ASSUME NEW w \in Workers, AcquireSlot(w)
      PROVE  ConcurrentFrequencies - active_frequencies'
               <= Cardinality(Notifying') + Cardinality(AwakeForSlot')
  <2>1. /\ Notifying' = Notifying
        /\ AwakeForSlot' = AwakeForSlot \ {w} /\ w \in AwakeForSlot
    BY <1>0, <1>6, AcquireStep DEF Notifying, AwakeForSlot, OthersStand
  <2>2. Cardinality(AwakeForSlot') = Cardinality(AwakeForSlot) - 1
    BY <2>1, FS_RemoveElement
  <2>3. active_frequencies' = active_frequencies + 1 /\ slot_waiters' = slot_waiters
    BY <1>0, <1>6, AcquireStep
  <2>4. QED
    BY <1>0, <1>1, <1>2, <2>1, <2>2, <2>3
<1>7. ASSUME NEW w \in Workers, ReleaseSlot(w)
      PROVE  ConcurrentFrequencies - active_frequencies'
               <= Cardinality(Notifying') + Cardinality(AwakeForSlot')
  <2>1. /\ Notifying' = Notifying \union {w} /\ w \notin Notifying
        /\ AwakeForSlot' = AwakeForSlot
    BY <1>0, <1>7, ReleaseStep DEF Notifying, AwakeForSlot, OthersStand
  <2>2. Cardinality(Notifying') = Cardinality(Notifying) + 1
    BY <2>1, FS_AddElement
  <2>3. active_frequencies' = active_frequencies - 1 /\ slot_waiters' = slot_waiters
    BY <1>0, <1>7, ReleaseStep
  <2>4. QED
    BY <1>0, <1>1, <1>2, <2>1, <2>2, <2>3
<1>8. ASSUME NEW w \in Workers, NotifySlot(w)
      PROVE  ConcurrentFrequencies - active_frequencies'
               <= Cardinality(Notifying') + Cardinality(AwakeForSlot')
  <2>1. PICK v \in slot_waiters : slot_waiters' = slot_waiters \ {v}
    BY <1>0, <1>1, <1>8, NotifySlotStep
  <2>2. v \in Workers /\ pc[v] = "slot" /\ v # w
    BY <1>0, <1>8, NotifySlotStep
  <2>3. Notifying' = Notifying \ {w} /\ w \in Notifying
    BY <1>0, <1>8, NotifySlotStep DEF Notifying, OthersStand
  <2>4. AwakeForSlot' = AwakeForSlot \union {v} /\ v \notin AwakeForSlot
    BY <1>0, <1>8, <2>1, <2>2, NotifySlotStep DEF AwakeForSlot, OthersStand
  <2>5. /\ Cardinality(Notifying') = Cardinality(Notifying) - 1
        /\ Cardinality(AwakeForSlot') = Cardinality(AwakeForSlot) + 1
    BY <2>3, <2>4, FS_RemoveElement, FS_AddElement
  <2>6. active_frequencies' = active_frequencies
    BY <1>0, <1>8, NotifySlotStep
  <2>7. QED
    BY <1>0, <1>2, <2>1, <2>5, <2>6
<1>9. ASSUME NEW w \in Workers,
             \/ SleepForSlot(w) \/ SleepForTurn(w) \/ Fail(w) \/ WriteImages
             \/ UNCHANGED vars
      PROVE  ConcurrentFrequencies - active_frequencies'
               <= Cardinality(Notifying') + Cardinality(AwakeForSlot')
  <2>1. UNCHANGED <<pc, active_frequencies>>
    BY <1>9, StandingStep
  <2>2. CASE slot_waiters' = slot_waiters
    <3>1. Notifying' = Notifying /\ AwakeForSlot' = AwakeForSlot
      BY <2>1, <2>2 DEF Notifying, AwakeForSlot
    <3>2. QED
      BY <1>3, <2>1, <2>2, <3>1
  <2>3. CASE ~(active_frequencies < ConcurrentFrequencies)
    BY <1>0, <2>1, <2>3
  <2>4. QED
    BY <1>9, <2>2, <2>3, StandingStep
<1>10. QED
  BY <1>5, <1>6, <1>7, <1>8, <1>9, WakeupCases

LEMMA WakeupInvariance == Spec => []WakeupInv
<1>1. IInv /\ WakeupInv /\ [Next]_vars => WakeupInv'
  BY SleepersStep, TurnStep, FreeSlotStep DEF WakeupInv
<1>2. QED
  BY <1>1, InitWakeupInv, Invariance, PTL DEF Spec

(***************************************************************************)
(* No wakeup of accumulation_ready is lost.                                *)
(***************************************************************************)
THEOREM NoLostTurn == Spec => []TurnIsNotified
<1>1. WakeupInv => TurnIsNotified
  BY DEF WakeupInv
<1>2. QED
  BY <1>1, WakeupInvariance, PTL

(***************************************************************************)
(* No wakeup of frequency_slot_ready is lost, although it wakes one only.  *)
(***************************************************************************)
THEOREM NoLostSlot == Spec => []FreeSlotIsNotified
<1>1. WakeupInv => FreeSlotIsNotified
  BY DEF WakeupInv
<1>2. QED
  BY <1>1, WakeupInvariance, PTL
=============================================================================
