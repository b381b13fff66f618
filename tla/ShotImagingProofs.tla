-------------------------- MODULE ShotImagingProofs --------------------------
(***************************************************************************)
(* Proofs about the stack of the shot images and about the pairs of        *)
(* snapshots in each, for any team of threads, any number of shots, runs   *)
(* and time steps, and any interval.                                       *)
(***************************************************************************)
EXTENDS ShotImagingProperties, TLAPS

LEMMA InitStackInv == Init => StackInv
<1> SUFFICES ASSUME Init PROVE StackInv
  OBVIOUS
<1> USE StepsAssumption
<1>1. TypeOK
  BY DEF Init, TypeOK, Shot
<1>2. OneThreadEach /\ ImagedIsOfThisRun
  BY DEF Init, OneThreadEach, ImagedIsOfThisRun
<1>3. NoShotIsLost /\ StackSoFar
  BY DEF Init, NoShotIsLost, StackSoFar
<1>4. QED
  BY <1>1, <1>2, <1>3 DEF StackInv

(***************************************************************************)
(* A run begins with no shot imaged and nothing stacked.                   *)
(***************************************************************************)
LEMMA RunStep ==
  ASSUME StackInv, Run
  PROVE  StackInv'
<1> USE StepsAssumption
<1>1. PICK r \in Ranges :
        /\ shot0' = Larger(0, r[1])
        /\ shot1' = IF r[2] < 0 THEN Shots - 1 ELSE Smaller(Shots - 1, r[2])
        /\ status' = IF shot0' > shot1' THEN "terminated" ELSE "imaging"
  BY DEF Run, Start
<1>2. r[1] \in Int /\ r[2] \in Int
  OBVIOUS
<1>3. shot0' \in Nat /\ shot1' \in Int /\ shot1' < Shots
  BY <1>1, <1>2 DEF Larger, Smaller
<1>4. /\ run' = run + 1 /\ inside' \in SUBSET Shot /\ next' = shot0'
      /\ job' = [w \in Threads |-> -1]
      /\ step' = [w \in Threads |-> "idle"]
      /\ shot_imaged' = [s \in Shot |-> FALSE]
      /\ image' = << >> /\ shot_files' = shot_files
      /\ status' \in {"imaging", "terminated"}
  BY <1>1 DEF Run, Start
<1>5. TypeOK'
  BY <1>3, <1>4 DEF StackInv, TypeOK
<1>6. OneThreadEach' /\ ImagedIsOfThisRun'
  BY <1>4 DEF OneThreadEach, ImagedIsOfThisRun
<1>7. NoShotIsLost'
  BY <1>3, <1>4 DEF NoShotIsLost, Wanted
<1>8. StackSoFar'
  BY <1>4, <1>5 DEF StackInv, TypeOK, StackSoFar
<1>9. QED
  BY <1>5, <1>6, <1>7, <1>8 DEF StackInv

LEMMA SkipShotStep ==
  ASSUME StackInv, NEW w \in Threads, SkipShot(w)
  PROVE  StackInv'
<1>1. /\ UNCHANGED <<run, shot0, shot1, inside, job, step, shot_files,
                     shot_imaged, image, status>>
      /\ next' = next + 1 /\ next \in Nat /\ next \notin inside
      /\ status = "imaging"
  BY DEF SkipShot, config, threadVars, StackInv, TypeOK
<1>2. Wanted' = Wanted
  BY <1>1 DEF Wanted
<1>3. Wanted \subseteq Int /\ next \notin Wanted
  BY <1>1 DEF Wanted, StackInv, TypeOK
<1>4. TypeOK'
  BY <1>1 DEF StackInv, TypeOK
<1>5. OneThreadEach'
  <2>1. \A s \in Wanted : s < next => s < next + 1
    BY <1>1, <1>3
  <2>2. QED
    BY <1>1, <1>2, <2>1 DEF StackInv, OneThreadEach
<1>6. ImagedIsOfThisRun' /\ NoShotIsLost'
  <2>1. \A s \in Wanted : s < next + 1 <=> s < next
    BY <1>1, <1>3
  <2>2. ImagedIsOfThisRun'
    BY <1>1, <1>2, <2>1 DEF StackInv, ImagedIsOfThisRun
  <2>3. NoShotIsLost'
    BY <1>1, <1>2, <2>1 DEF StackInv, NoShotIsLost
  <2>4. QED
    BY <2>2, <2>3
<1>7. StackSoFar'
  BY <1>1 DEF StackInv, StackSoFar
<1>8. QED
  BY <1>4, <1>5, <1>6, <1>7 DEF StackInv

LEMMA TakeShotStep ==
  ASSUME StackInv, NEW w \in Threads, TakeShot(w)
  PROVE  StackInv'
<1>1. /\ UNCHANGED <<run, shot0, shot1, inside, shot_files, shot_imaged,
                     image, status>>
      /\ next' = next + 1 /\ next \in Nat /\ next \in inside
      /\ shot0 <= next /\ next <= shot1 /\ shot0 \in Int /\ shot1 \in Int
      /\ status = "imaging" /\ step[w] = "idle" /\ job[w] = -1
      /\ job' = [job EXCEPT ![w] = next]
      /\ step' = [step EXCEPT ![w] = "source"]
  BY DEF TakeShot, config, HandedOut, StackInv, TypeOK, OneThreadEach
<1>2. Wanted' = Wanted
  BY <1>1 DEF Wanted
<1>3. Wanted \subseteq Int /\ next \in Wanted /\ next \in Shot
  BY <1>1 DEF Wanted, StackInv, TypeOK
<1>4. ~shot_imaged[next] /\ next # -1
  BY <1>1, <1>3 DEF StackInv, TypeOK, ImagedIsOfThisRun
<1>5. TypeOK'
  BY <1>1, <1>3 DEF StackInv, TypeOK
<1>6. OneThreadEach'
  <2>1. \A v \in Threads : v # w => job'[v] = job[v] /\ step'[v] = step[v]
    BY <1>1 DEF StackInv, TypeOK
  <2>2. job'[w] = next /\ step'[w] = "source"
    BY <1>1 DEF StackInv, TypeOK
  <2>3. \A v \in Threads : v # w => job[v] # next
    BY <1>1, <1>4 DEF StackInv, TypeOK, OneThreadEach
  <2>4. \A v \in Threads : job[v] # -1 => job[v] \in Wanted /\ job[v] < next + 1
    <3>1. \A s \in Wanted : s < next => s < next + 1
      BY <1>1, <1>3
    <3>2. QED
      BY <3>1 DEF StackInv, OneThreadEach
  <2>5. QED
    BY <1>1, <1>2, <1>3, <1>4, <2>1, <2>2, <2>3, <2>4
       DEF StackInv, OneThreadEach
<1>7. ImagedIsOfThisRun'
  BY <1>1, <1>2, <1>3 DEF StackInv, TypeOK, ImagedIsOfThisRun
<1>8. NoShotIsLost'
  <2>1. \A s \in Wanted : s < next + 1 => s < next \/ s = next
    BY <1>1, <1>3
  <2>2. \A v \in Threads : job[v] # -1 => job'[v] = job[v]
    BY <1>1 DEF StackInv, TypeOK
  <2>3. job'[w] = next
    BY <1>1 DEF StackInv, TypeOK
  <2>4. \A s \in Wanted : s # -1
    BY DEF Wanted, StackInv, TypeOK, Shot
  <2>5. QED
    BY <1>1, <1>2, <2>1, <2>2, <2>3, <2>4 DEF StackInv, NoShotIsLost
<1>9. StackSoFar'
  BY <1>1 DEF StackInv, StackSoFar
<1>10. QED
  BY <1>5, <1>6, <1>7, <1>8, <1>9 DEF StackInv

(***************************************************************************)
(* What a thread does with its shot up to the write leaves the stack and   *)
(* the files of the other shots alone.                                     *)
(***************************************************************************)
LEMMA WorkOnShot ==
  ASSUME StackInv, NEW w \in Threads,
         SourceStep(w) \/ ReceiverStep(w) \/ CorrelateStep(w) \/ BeginWrite(w)
  PROVE  StackInv'
<1>1. /\ UNCHANGED <<run, shot0, shot1, inside, next, job, shot_imaged, image,
                     status>>
      /\ status = "imaging" /\ step[w] # "idle"
      /\ step' \in {[step EXCEPT ![w] = c] :
                      c \in {"source", "receivers", "correlate", "write",
                             "writing"}}
  BY DEF SourceStep, ReceiverStep, CorrelateStep, BeginWrite, NextStep, config,
         StackInv, TypeOK
<1>2. shot_files' = shot_files \/ shot_files' = [shot_files EXCEPT ![job[w]] = -1]
  BY DEF SourceStep, ReceiverStep, CorrelateStep, BeginWrite
<1>3. Wanted' = Wanted
  BY <1>1 DEF Wanted
<1>4. \A v \in Threads : step'[v] = "idle" <=> step[v] = "idle"
  BY <1>1 DEF StackInv, TypeOK
<1>5. TypeOK'
  <2>1. step' \in [Threads -> {"idle", "source", "receivers", "correlate",
                               "write", "writing"}]
    BY <1>1 DEF StackInv, TypeOK
  <2>2. shot_files' \in [Shot -> Int]
    BY <1>2 DEF StackInv, TypeOK
  <2>3. QED
    BY <1>1, <2>1, <2>2 DEF StackInv, TypeOK
<1>6. OneThreadEach'
  BY <1>1, <1>3, <1>4 DEF StackInv, OneThreadEach
<1>7. ImagedIsOfThisRun'
  <2>1. job[w] # -1 /\ ~shot_imaged[job[w]]
    BY <1>1 DEF StackInv, OneThreadEach
  <2>2. \A s \in Shot : shot_imaged[s] => shot_files'[s] = shot_files[s]
    BY <1>2, <2>1 DEF StackInv, TypeOK
  <2>3. QED
    BY <1>1, <1>3, <2>2 DEF StackInv, ImagedIsOfThisRun
<1>8. NoShotIsLost'
  BY <1>1, <1>3 DEF StackInv, NoShotIsLost
<1>9. StackSoFar'
  BY <1>1, <1>3 DEF StackInv, StackSoFar, StackedShots
<1>10. QED
  BY <1>5, <1>6, <1>7, <1>8, <1>9 DEF StackInv

LEMMA EndWriteStep ==
  ASSUME StackInv, NEW w \in Threads, EndWrite(w)
  PROVE  StackInv'
<1>1. /\ UNCHANGED <<run, shot0, shot1, inside, next, image, status>>
      /\ status = "imaging" /\ step[w] = "writing"
      /\ shot_files' = [shot_files EXCEPT ![job[w]] = run]
      /\ shot_imaged' = [shot_imaged EXCEPT ![job[w]] = TRUE]
      /\ step' = [step EXCEPT ![w] = "idle"]
      /\ job' = [job EXCEPT ![w] = -1]
  BY DEF EndWrite, config
<1>2. Wanted' = Wanted
  BY <1>1 DEF Wanted
<1>3. /\ job[w] # -1 /\ job[w] \in Wanted /\ job[w] < next
      /\ job[w] \in Shot
  BY <1>1 DEF StackInv, TypeOK, OneThreadEach, Wanted
<1>4. TypeOK'
  BY <1>1, <1>3 DEF StackInv, TypeOK
<1>5. OneThreadEach'
  <2>1. \A v \in Threads : v # w => job'[v] = job[v] /\ step'[v] = step[v]
    BY <1>1 DEF StackInv, TypeOK
  <2>2. job'[w] = -1 /\ step'[w] = "idle"
    BY <1>1 DEF StackInv, TypeOK
  <2>3. \A v \in Threads : v # w => job[v] # job[w]
    BY <1>3 DEF StackInv, OneThreadEach
  <2>4. \A s \in Shot : s # job[w] => shot_imaged'[s] = shot_imaged[s]
    BY <1>1 DEF StackInv, TypeOK
  <2>5. \A v \in Threads : job[v] # -1 => job[v] \in Shot
    BY DEF StackInv, TypeOK
  <2>6. QED
    BY <1>1, <1>2, <2>1, <2>2, <2>3, <2>4, <2>5 DEF StackInv, OneThreadEach
<1>6. ImagedIsOfThisRun'
  <2>1. \A s \in Shot : s # job[w] => /\ shot_imaged'[s] = shot_imaged[s]
                                     /\ shot_files'[s] = shot_files[s]
    BY <1>1 DEF StackInv, TypeOK
  <2>2. shot_files'[job[w]] = run
    BY <1>1, <1>3 DEF StackInv, TypeOK
  <2>3. QED
    BY <1>1, <1>2, <1>3, <2>1, <2>2 DEF StackInv, ImagedIsOfThisRun
<1>7. NoShotIsLost'
  <2>1. \A s \in Shot : shot_imaged[s] => shot_imaged'[s]
    BY <1>1 DEF StackInv, TypeOK
  <2>2. shot_imaged'[job[w]]
    BY <1>1, <1>3 DEF StackInv, TypeOK
  <2>3. \A v \in Threads : v # w => job'[v] = job[v]
    BY <1>1 DEF StackInv, TypeOK
  <2>4. Wanted \subseteq Shot
    BY DEF Wanted, StackInv, TypeOK
  <2>5. QED
    BY <1>1, <1>2, <2>1, <2>2, <2>3, <2>4 DEF StackInv, NoShotIsLost
<1>8. StackSoFar'
  BY <1>1 DEF StackInv, TypeOK, StackSoFar
<1>9. QED
  BY <1>4, <1>5, <1>6, <1>7, <1>8 DEF StackInv

-----------------------------------------------------------------------------
(***************************************************************************)
(* The main thread.                                                        *)
(***************************************************************************)
LEMMA JoinStep ==
  ASSUME StackInv, Join
  PROVE  StackInv'
<1>1. /\ UNCHANGED <<run, shot0, shot1, inside, job, step, shot_files,
                     shot_imaged, image>>
      /\ status = "imaging" /\ status' = "stacking" /\ next' = shot0
      /\ next > shot1 /\ \A w \in Threads : step[w] = "idle"
  BY DEF Join, config, threadVars, Joined, HandedOut
<1>2. Wanted' = Wanted
  BY <1>1 DEF Wanted
<1>3. \A w \in Threads : job[w] = -1
  BY <1>1 DEF StackInv, OneThreadEach
<1>4. TypeOK'
  BY <1>1 DEF StackInv, TypeOK
<1>5. OneThreadEach' /\ ImagedIsOfThisRun'
  BY <1>1, <1>2, <1>3 DEF StackInv, OneThreadEach, ImagedIsOfThisRun
<1>6. NoShotIsLost'
  <2>1. \A s \in Wanted : s < next
    BY <1>1 DEF Wanted, StackInv, TypeOK
  <2>2. QED
    BY <1>1, <1>2, <2>1 DEF StackInv, NoShotIsLost
<1>7. StackSoFar'
  <2>1. image = << >> /\ run # 0
    BY <1>1 DEF StackInv, StackSoFar
  <2>2. \A s \in Wanted : ~(s < shot0)
    BY DEF Wanted, StackInv, TypeOK
  <2>3. QED
    BY <1>1, <1>2, <2>1, <2>2 DEF StackSoFar
<1>8. QED
  BY <1>4, <1>5, <1>6, <1>7 DEF StackInv

LEMMA StackShotStep ==
  ASSUME StackInv, StackShot
  PROVE  StackInv'
<1>1. /\ UNCHANGED <<run, shot0, shot1, inside, job, step, shot_files,
                     shot_imaged, status>>
      /\ status = "stacking" /\ next' = next + 1 /\ next <= shot1
      /\ next \in Nat /\ shot0 <= next /\ shot0 \in Nat /\ shot1 \in Int
      /\ shot1 < Shots
  BY DEF StackShot, config, threadVars, HandedOut, StackInv, TypeOK
<1>2. Wanted' = Wanted /\ next \in Shot
  BY <1>1, StepsAssumption DEF Wanted, Shot
<1>3. /\ image \in Seq(Shot \X Int) /\ run > 0
      /\ \A i \in DOMAIN image :
           /\ image[i][2] = run
           /\ shot_imaged[image[i][1]] /\ image[i][1] < next
      /\ \A i, j \in DOMAIN image : i < j => image[i][1] < image[j][1]
      /\ \A s \in Wanted : s < next => s \in StackedShots
  BY <1>1 DEF StackInv, TypeOK, StackSoFar
<1>4. OneThreadEach' /\ ImagedIsOfThisRun' /\ NoShotIsLost'
  BY <1>1, <1>2
     DEF StackInv, OneThreadEach, ImagedIsOfThisRun, NoShotIsLost
<1>5. \A s \in Wanted : s < next + 1 => s < next \/ s = next
  BY <1>1 DEF Wanted, StackInv, TypeOK
<1>6. CASE shot_imaged[next]
  <2>1. /\ shot_files[next] = run
        /\ image' = Append(image, <<next, run>>)
    BY <1>1, <1>2, <1>6
       DEF StackShot, HasImage, StackInv, TypeOK, ImagedIsOfThisRun
  <2>2. <<next, run>> \in Shot \X Int /\ image' \in Seq(Shot \X Int)
    BY <1>2, <1>3, <2>1 DEF StackInv, TypeOK
  <2>3. /\ DOMAIN image' = DOMAIN image \union {Len(image) + 1}
        /\ \A i \in DOMAIN image : image'[i] = image[i]
        /\ image'[Len(image) + 1] = <<next, run>>
        /\ \A i \in DOMAIN image : i \in Nat /\ i <= Len(image)
        /\ Len(image) \in Nat
    BY <1>3, <2>1, <2>2
  <2>4. \A i \in DOMAIN image' :
          /\ image'[i][2] = run
          /\ shot_imaged[image'[i][1]] /\ image'[i][1] < next + 1
    BY <1>1, <1>3, <1>6, <2>2, <2>3 DEF Shot
  <2>5. \A i, j \in DOMAIN image' : i < j => image'[i][1] < image'[j][1]
    BY <1>3, <2>3
  <2>6. \A s \in Wanted : s < next + 1 => s \in StackedShots'
    BY <1>3, <1>5, <2>3 DEF StackedShots
  <2>7. TypeOK' /\ StackSoFar'
    BY <1>1, <1>2, <1>3, <2>2, <2>4, <2>5, <2>6 DEF StackInv, TypeOK, StackSoFar
  <2>8. QED
    BY <1>4, <2>7 DEF StackInv
<1>7. CASE ~shot_imaged[next]
  <2>1. image' = image
    BY <1>7 DEF StackShot, HasImage
  <2>2. next \notin Wanted
    <3>1. \A w \in Threads : job[w] # next
      BY <1>1, <1>2 DEF StackInv, OneThreadEach, Shot
    <3>2. QED
      BY <1>1, <1>3, <1>7, <3>1 DEF StackInv, NoShotIsLost
  <2>3. TypeOK'
    BY <1>1, <2>1 DEF StackInv, TypeOK
  <2>4. StackSoFar'
    <3>1. \A i \in DOMAIN image : image[i][1] < next + 1
      BY <1>1, <1>3 DEF Shot
    <3>2. StackedShots' = StackedShots
      BY <2>1 DEF StackedShots
    <3>3. \A s \in Wanted : s < next + 1 => s \in StackedShots
      BY <1>3, <1>5, <2>2
    <3>4. QED
      BY <1>1, <1>2, <1>3, <2>1, <3>1, <3>2, <3>3 DEF StackSoFar
  <2>5. QED
    BY <1>4, <2>3, <2>4 DEF StackInv
<1>8. QED
  BY <1>6, <1>7

LEMMA EndStackStep ==
  ASSUME StackInv, EndStack
  PROVE  StackInv'
<1>1. /\ UNCHANGED <<run, shot0, shot1, inside, next, job, step, shot_files,
                     shot_imaged, image>>
      /\ status = "stacking" /\ status' = "ended" /\ next > shot1
  BY DEF EndStack, config, threadVars, HandedOut
<1>2. Wanted' = Wanted /\ StackedShots' = StackedShots
  BY <1>1 DEF Wanted, StackedShots
<1>3. TypeOK'
  BY <1>1 DEF StackInv, TypeOK
<1>4. OneThreadEach' /\ ImagedIsOfThisRun' /\ NoShotIsLost'
  BY <1>1, <1>2
     DEF StackInv, OneThreadEach, ImagedIsOfThisRun, NoShotIsLost
<1>5. StackSoFar'
  BY <1>1, <1>2 DEF StackInv, TypeOK, StackSoFar
<1>6. QED
  BY <1>3, <1>4, <1>5 DEF StackInv

LEMMA DieStep ==
  ASSUME StackInv, Die
  PROVE  StackInv'
<1>1. /\ UNCHANGED <<run, shot0, shot1, inside, next, shot_files, shot_imaged>>
      /\ status \in {"imaging", "stacking"} /\ status' = "terminated"
      /\ job' = [w \in Threads |-> -1] /\ step' = [w \in Threads |-> "idle"]
      /\ image' = << >>
  BY DEF Die, config
<1>2. Wanted' = Wanted
  BY <1>1 DEF Wanted
<1>3. TypeOK'
  BY <1>1 DEF StackInv, TypeOK
<1>4. OneThreadEach' /\ NoShotIsLost'
  BY <1>1 DEF OneThreadEach, NoShotIsLost
<1>5. ImagedIsOfThisRun'
  BY <1>1, <1>2 DEF StackInv, ImagedIsOfThisRun
<1>6. StackSoFar'
  BY <1>1 DEF StackInv, StackSoFar
<1>7. QED
  BY <1>3, <1>4, <1>5, <1>6 DEF StackInv

LEMMA StutterStep ==
  ASSUME StackInv, UNCHANGED vars
  PROVE  StackInv'
<1>1. UNCHANGED <<run, shot0, shot1, inside, next, job, step, shot_files,
                  shot_imaged, image, status>>
  BY DEF vars, config, threadVars
<1>2. Wanted' = Wanted /\ StackedShots' = StackedShots
  BY <1>1 DEF Wanted, StackedShots
<1>3. QED
  BY <1>1, <1>2
     DEF StackInv, TypeOK, OneThreadEach, ImagedIsOfThisRun, NoShotIsLost,
         StackSoFar

LEMMA NextStackInv == StackInv /\ [Next]_vars => StackInv'
<1> SUFFICES ASSUME StackInv, [Next]_vars PROVE StackInv'
  OBVIOUS
<1>1. \/ \E w \in Threads :
            \/ SkipShot(w) \/ TakeShot(w) \/ EndWrite(w)
            \/ SourceStep(w) \/ ReceiverStep(w) \/ CorrelateStep(w)
            \/ BeginWrite(w)
      \/ Run \/ Join \/ StackShot \/ EndStack \/ Die \/ UNCHANGED vars
  BY DEF Next, ThreadStep, Finished
<1>2. QED
  BY <1>1, RunStep, SkipShotStep, TakeShotStep, WorkOnShot, EndWriteStep,
     JoinStep, StackShotStep, EndStackStep, DieStep, StutterStep

(***************************************************************************)
(* The stacked image has the wanted shots, in order, from the files this   *)
(* run wrote: for any team, any number of shots and of earlier runs.       *)
(***************************************************************************)
THEOREM StackIsSound == Spec => []StackIsOfThisRun
<1>1. StackInv => StackIsOfThisRun
  <2> SUFFICES ASSUME StackInv PROVE StackIsOfThisRun
    OBVIOUS
  <2>1. /\ \A i \in DOMAIN image : image[i][2] = run
        /\ \A i, j \in DOMAIN image : i < j => image[i][1] < image[j][1]
    BY DEF StackInv, StackSoFar
  <2>2. ASSUME status = "ended", run > 0
        PROVE  StackedShots = Wanted
    <3>1. \A s \in Wanted : s < next
      BY <2>2 DEF StackInv, StackSoFar, TypeOK, Wanted
    <3>2. Wanted \subseteq StackedShots
      BY <2>2, <3>1 DEF StackInv, StackSoFar
    <3>3. \A i \in DOMAIN image : image[i][1] \in Shot /\ shot_imaged[image[i][1]]
      BY DEF StackInv, StackSoFar, TypeOK
    <3>4. StackedShots \subseteq Wanted
      BY <3>3 DEF StackInv, ImagedIsOfThisRun, StackedShots
    <3>5. QED
      BY <3>2, <3>4
  <2>3. QED
    BY <2>1, <2>2 DEF StackIsOfThisRun, Wanted
<1>2. QED
  BY <1>1, InitStackInv, NextStackInv, PTL DEF Spec

-----------------------------------------------------------------------------
(***************************************************************************)
(* The two series.  Multiples of an interval: less means at least one      *)
(* interval less.                                                          *)
(***************************************************************************)
LEMMA Multiples ==
  ASSUME NEW d \in Nat \ {0}, NEW p \in Int, NEW q \in Int
  PROVE  /\ p * d \in Int
         /\ (p + 1) * d = p * d + d /\ (p - 1) * d = p * d - d
         /\ p * d < q * d <=> p < q
         /\ p * d = q * d <=> p = q
<1>1. p * d \in Int /\ (p + 1) * d = p * d + d /\ (p - 1) * d = p * d - d
  OBVIOUS
<1>2. p < q => p * d < q * d
  OBVIOUS
<1>3. q < p => q * d < p * d
  OBVIOUS
<1>4. QED
  BY <1>1, <1>2, <1>3

LEMMA Quotient ==
  ASSUME NEW d \in Nat \ {0}, NEW a \in Int
  PROVE  /\ a \div d \in Int /\ a % d \in 0 .. d - 1
         /\ a = (a \div d) * d + (a % d)
         /\ \A q \in Int : a = q * d => a % d = 0 /\ a \div d = q
<1>1. a \div d \in Int /\ a % d \in 0 .. d - 1 /\ a = (a \div d) * d + (a % d)
  <2>1. a \div d \in Int /\ a % d \in Int
    OBVIOUS
  <2>2. 0 <= a % d /\ a % d < d
    OBVIOUS
  <2>3. a = d * (a \div d) + (a % d)
    OBVIOUS
  <2>4. \A q, r \in Int : a = d * q + r => a = q * d + r
    OBVIOUS
  <2>5. a % d \in 0 .. d - 1
    BY <2>1, <2>2
  <2>6. QED
    BY <2>1, <2>3, <2>4, <2>5
<1>2. ASSUME NEW q \in Int, a = q * d
      PROVE  a % d = 0 /\ a \div d = q
  BY <1>2
<1>3. QED
  BY <1>1, <1>2

(***************************************************************************)
(* Both offsets leave the same number of snapshots: the last one is taken  *)
(* before the end, and there would be no next one.                         *)
(***************************************************************************)
LEMMA RoomForBoth ==
  ASSUME nt \in Nat \ {0}, snapshot_interval \in Nat \ {0}
  PROVE  /\ StoredCount \in Nat \ {0}
         /\ SrcOffset \in 0 .. snapshot_interval - 1
         /\ KeptTime(SrcOffset, StoredCount) = nt - 1
         /\ KeptTime(RecOffset, StoredCount) <= nt - 1
         /\ nt - 1 < KeptTime(RecOffset, StoredCount + 1)
         /\ nt - 1 < KeptTime(SrcOffset, StoredCount + 1)
<1> DEFINE d == snapshot_interval
           q == (nt - 1) \div d
<1>1. /\ q \in Int /\ (nt - 1) % d \in 0 .. d - 1
      /\ nt - 1 = q * d + ((nt - 1) % d)
  <2>1. nt - 1 \in Int
    OBVIOUS
  <2>2. QED
    BY <2>1, Quotient
<1>2. StoredCount = q + 1
  BY DEF StoredCount, RecOffset
<1>3. q >= 0
  <2>1. (-1) * d < q * d
    BY <1>1
  <2>2. QED
    BY <1>1, <2>1, Multiples
<1>4. q + 1 - 1 = q /\ q + 1 + 1 - 1 = q + 1 /\ (q + 1) * d = q * d + d
  BY <1>1, Multiples
<1>5. QED
  <2> HIDE DEF q
  <2>1. /\ KeptTime(SrcOffset, q + 1) = ((nt - 1) % d) + q * d
        /\ KeptTime(RecOffset, q + 1) = q * d
        /\ KeptTime(RecOffset, q + 1 + 1) = q * d + d
        /\ KeptTime(SrcOffset, q + 1 + 1) = ((nt - 1) % d) + q * d + d
    BY <1>1, <1>4 DEF KeptTime, SrcOffset, RecOffset
  <2>2. q * d \in Int
    BY <1>1, Multiples
  <2>3. SrcOffset = (nt - 1) % d /\ q + 1 \in Nat \ {0}
    BY <1>1, <1>3 DEF SrcOffset
  <2> DEFINE r == (nt - 1) % d
  <2> HIDE DEF r
  <2>4. r \in 0 .. d - 1 /\ nt - 1 = q * d + r
    BY <1>1, q = (nt - 1) \div d DEF r, q
  <2>5. /\ r + q * d = nt - 1 /\ q * d <= nt - 1
        /\ nt - 1 < q * d + d /\ nt - 1 < r + q * d + d
    BY <2>2, <2>4
  <2>6. QED
    BY <1>2, <2>1, <2>3, <2>4, <2>5 DEF r

(***************************************************************************)
(* A step keeps the next snapshot of its series or none, and when the loop *)
(* is over all of them are kept.                                           *)
(***************************************************************************)
LEMMA KeepOrPass ==
  ASSUME snapshot_interval \in Nat \ {0}, NEW offset \in 0 .. snapshot_interval - 1,
         NEW t \in Nat, NEW m, KeptBefore(t, offset, m)
  PROVE  /\ Stored(t, offset) =>
              /\ t = KeptTime(offset, m + 1) /\ StoredIndex(t, offset) = m
              /\ KeptBefore(t + 1, offset, m + 1)
         /\ ~Stored(t, offset) => KeptBefore(t + 1, offset, m)
<1> DEFINE d == snapshot_interval
<1>1. /\ m \in Nat /\ offset + (m - 1) * d < t /\ t <= offset + m * d
      /\ m + 1 - 1 = m /\ m + 1 + 1 - 1 = m + 1
      /\ m * d \in Int /\ (m - 1) * d = m * d - d /\ (m + 1) * d = m * d + d
  BY Multiples DEF KeptBefore, KeptTime
<1>2. /\ t - offset \in Int
      /\ \A p \in Int : t - offset = p * d =>
           (t - offset) % d = 0 /\ (t - offset) \div d = p
      /\ (t - offset) \div d \in Int
      /\ t - offset = ((t - offset) \div d) * d + ((t - offset) % d)
  <2>1. t - offset \in Int
    OBVIOUS
  <2>2. QED
    BY <2>1, Quotient
<1>3. ASSUME Stored(t, offset)
      PROVE  t - offset = m * d
  <2> DEFINE q == (t - offset) \div d
  <2>1. q \in Int /\ t - offset = q * d
    BY <1>2, <1>3 DEF Stored
  <2> HIDE DEF q
  <2>2. (m - 1) * d < q * d /\ ~(m * d < q * d)
    BY <1>1, <2>1
  <2>3. m - 1 < q /\ ~(m < q)
    BY <1>1, <2>1, <2>2, Multiples
  <2>4. q = m
    BY <1>1, <2>1, <2>3
  <2>5. QED
    BY <2>1, <2>4
<1>4. ASSUME Stored(t, offset)
      PROVE  /\ t = KeptTime(offset, m + 1) /\ StoredIndex(t, offset) = m
             /\ KeptBefore(t + 1, offset, m + 1)
  BY <1>1, <1>2, <1>3, <1>4 DEF KeptTime, KeptBefore, StoredIndex
<1>5. ASSUME ~Stored(t, offset)
      PROVE  KeptBefore(t + 1, offset, m)
  <2>1. t - offset # m * d
    BY <1>1, <1>2, <1>5 DEF Stored
  <2>2. QED
    BY <1>1, <2>1 DEF KeptTime, KeptBefore
<1>6. QED
  BY <1>4, <1>5

LEMMA KeptInTime ==
  ASSUME nt \in Nat \ {0}, snapshot_interval \in Nat \ {0},
         NEW offset \in {SrcOffset, RecOffset},
         NEW t \in 0 .. nt - 1, NEW m, KeptBefore(t, offset, m)
  PROVE  /\ Stored(t, offset) => m < StoredCount
         /\ \A k : KeptBefore(nt, offset, k) => k = StoredCount
<1> DEFINE d == snapshot_interval
<1>1. /\ StoredCount \in Nat \ {0} /\ offset \in 0 .. d - 1
      /\ KeptTime(offset, StoredCount) <= nt - 1
      /\ nt - 1 < KeptTime(offset, StoredCount + 1)
  BY RoomForBoth DEF RecOffset
<1>2. \A p \in Int : KeptTime(offset, p) \in Int
  BY <1>1 DEF KeptTime
<1>3. \A p, r \in Int : KeptTime(offset, p) < KeptTime(offset, r) => p < r
  <2> TAKE p, r \in Int
  <2>1. (p - 1) * d < (r - 1) * d <=> p - 1 < r - 1
    BY Multiples
  <2>2. (p - 1) * d \in Int /\ (r - 1) * d \in Int
    OBVIOUS
  <2>3. QED
    BY <1>1, <2>1, <2>2 DEF KeptTime
<1>4. ASSUME Stored(t, offset)
      PROVE  m < StoredCount
  <2>1. t = KeptTime(offset, m + 1) /\ m \in Nat
    BY <1>1, <1>4, KeepOrPass DEF KeptBefore
  <2>2. KeptTime(offset, m + 1) < KeptTime(offset, StoredCount + 1)
    BY <1>1, <1>2, <2>1
  <2>3. m + 1 < StoredCount + 1
    BY <1>1, <1>3, <2>1, <2>2
  <2>4. QED
    BY <1>1, <2>1, <2>3
<1>5. ASSUME NEW k, KeptBefore(nt, offset, k)
      PROVE  k = StoredCount
  <2>1. k \in Nat /\ KeptTime(offset, k) < nt /\ nt <= KeptTime(offset, k + 1)
    BY <1>5 DEF KeptBefore
  <2>2. /\ KeptTime(offset, k) < KeptTime(offset, StoredCount + 1)
        /\ KeptTime(offset, StoredCount) < KeptTime(offset, k + 1)
    BY <1>1, <1>2, <2>1
  <2>3. k < StoredCount + 1 /\ StoredCount < k + 1
    BY <1>1, <1>3, <2>1, <2>2
  <2>4. QED
    BY <1>1, <2>1, <2>3
<1>6. QED
  BY <1>4, <1>5

-----------------------------------------------------------------------------
(***************************************************************************)
(* Each loop over time adds the next snapshot or the next pair.            *)
(***************************************************************************)
LEMMA AppendExtends ==
  ASSUME NEW S, NEW m \in Nat, NEW s \in [1 .. m -> S],
         NEW g \in [1 .. m + 1 -> S], \A i \in 1 .. m : g[i] = s[i]
  PROVE  Append(s, g[m + 1]) = g
<1>1. s \in Seq(S) /\ g \in Seq(S) /\ Len(s) = m /\ Len(g) = m + 1
      /\ g[m + 1] \in S
  OBVIOUS
<1>2. /\ Append(s, g[m + 1]) \in Seq(S)
      /\ Len(Append(s, g[m + 1])) = m + 1
      /\ Append(s, g[m + 1])[m + 1] = g[m + 1]
      /\ \A i \in 1 .. m : Append(s, g[m + 1])[i] = s[i]
  BY <1>1
<1>3. \A i \in 1 .. m + 1 : Append(s, g[m + 1])[i] = g[i]
  BY <1>2
<1>4. DOMAIN Append(s, g[m + 1]) = 1 .. m + 1 /\ DOMAIN g = 1 .. m + 1
  BY <1>2
<1>5. QED
  BY <1>2, <1>3, <1>4

LEMMA NextSource ==
  ASSUME SeriesTypes, NEW m \in Nat, m < StoredCount,
         NEW t \in Nat, t = KeptTime(SrcOffset, m + 1),
         StoredIndex(t, SrcOffset) = m
  PROVE  AddSource(SourceSeries(m), t) = SourceSeries(m + 1)
<1>1. /\ StoredCount \in Nat \ {0} /\ SrcOffset \in Int
      /\ \A i \in Int : KeptTime(SrcOffset, i) \in Int
  BY RoomForBoth DEF SeriesTypes, KeptTime
<1>2. CASE in_memory
  <2> DEFINE s == [i \in 1 .. StoredCount |->
                     IF i <= m THEN KeptTime(SrcOffset, i) ELSE NoStep]
             g == [i \in 1 .. StoredCount |->
                     IF i <= m + 1 THEN KeptTime(SrcOffset, i) ELSE NoStep]
  <2>1. SourceSeries(m) = s /\ SourceSeries(m + 1) = g
    BY <1>2 DEF SourceSeries
  <2>2. AddSource(s, t) = [s EXCEPT ![m + 1] = t]
    BY <1>2 DEF AddSource
  <2>3. \A i \in 1 .. StoredCount : (i <= m + 1 <=> i <= m \/ i = m + 1)
                                    /\ (i <= m => i # m + 1)
    BY <1>1
  <2>4. [s EXCEPT ![m + 1] = t] = g
    BY <1>1, <2>3
  <2>5. QED
    BY <2>1, <2>2, <2>4
<1>3. CASE ~in_memory
  <2> DEFINE s == [i \in 1 .. m |-> KeptTime(SrcOffset, i)]
             g == [i \in 1 .. m + 1 |-> KeptTime(SrcOffset, i)]
  <2>1. SourceSeries(m) = s /\ SourceSeries(m + 1) = g
    BY <1>3 DEF SourceSeries
  <2>2. AddSource(s, t) = Append(s, t)
    BY <1>3 DEF AddSource
  <2>3. /\ s \in [1 .. m -> Int] /\ g \in [1 .. m + 1 -> Int]
        /\ g[m + 1] = t /\ \A i \in 1 .. m : g[i] = s[i]
    <3>1. \A i \in 1 .. m : i \in 1 .. m + 1 /\ i \in Int
      OBVIOUS
    <3>2. m + 1 \in 1 .. m + 1
      OBVIOUS
    <3>3. g[m + 1] = t /\ \A i \in 1 .. m : g[i] = s[i]
      BY <3>1, <3>2
    <3>4. s \in [1 .. m -> Int] /\ g \in [1 .. m + 1 -> Int]
      BY <1>1
    <3>5. QED
      BY <3>3, <3>4
  <2> HIDE DEF s, g
  <2>4. Append(s, t) = g
    BY <2>3, AppendExtends
  <2>5. QED
    BY <2>1, <2>2, <2>4
<1>4. QED
  BY <1>2, <1>3

LEMMA NextReceivers ==
  ASSUME SeriesTypes, NEW m \in Nat,
         NEW t \in Nat, t = KeptTime(RecOffset, m + 1)
  PROVE  Append(ReceiverSeries(m), nt - 1 - t) = ReceiverSeries(m + 1)
<1> DEFINE s == ReceiverSeries(m)
           g == ReceiverSeries(m + 1)
<1>1. /\ s \in [1 .. m -> Int] /\ g \in [1 .. m + 1 -> Int]
      /\ \A i \in 1 .. m : g[i] = s[i]
  BY DEF ReceiverSeries, SeriesTypes
<1>2. g[m + 1] = nt - 1 - t
  BY DEF ReceiverSeries, SeriesTypes, KeptTime, RecOffset
<1> HIDE DEF s, g
<1>3. Append(s, nt - 1 - t) = g
  BY <1>1, <1>2, AppendExtends
<1>4. QED
  BY <1>3 DEF s, g

(***************************************************************************)
(* A receiver snapshot meets the source snapshot of its own time: counted  *)
(* from the other end, the remainder of nt - 1 is the offset.              *)
(***************************************************************************)
LEMMA NextPair ==
  ASSUME SeriesTypes, NEW w \in Threads,
         snaps[w] = SourceSeries(StoredCount),
         rec_snaps[w] = ReceiverSeries(StoredCount),
         NEW m \in Nat, m < StoredCount,
         it[w] = KeptTime(RecOffset, m + 1),
         StoredIndex(it[w], RecOffset) = m
  PROVE  Append(FirstPairs(m), Pair(w)) = FirstPairs(m + 1)
<1> DEFINE d == snapshot_interval
           sample == nt - 1 - m * d
<1>1. /\ nt \in Nat /\ d \in Nat \ {0} /\ StoredCount \in Nat
      /\ SrcOffset \in Int /\ KeptTime(SrcOffset, StoredCount) = nt - 1
      /\ it[w] = m * d /\ m * d \in Int
  BY RoomForBoth, Multiples DEF SeriesTypes, KeptTime, RecOffset
<1>2. SnapAt(rec_snaps[w], m) = sample
  <2>1. m + 1 \in 1 .. StoredCount /\ m + 1 - 1 = m
    BY <1>1
  <2>2. DOMAIN ReceiverSeries(StoredCount) = 1 .. StoredCount
        /\ ReceiverSeries(StoredCount)[m + 1] = sample
    BY <2>1 DEF ReceiverSeries
  <2>3. QED
    BY <2>1, <2>2 DEF SnapAt
<1>3. StoredIndex(nt - 1 - it[w], SrcOffset) = StoredCount - 1 - m
      /\ KeptTime(SrcOffset, StoredCount - m) = sample
  <2>1. /\ nt - 1 = SrcOffset + (StoredCount - 1) * d
        /\ (StoredCount - 1 - m) * d = (StoredCount - 1) * d - m * d
        /\ (StoredCount - 1) * d \in Int
        /\ StoredCount - 1 - m \in Int
        /\ StoredCount - m - 1 = StoredCount - 1 - m
    BY <1>1 DEF KeptTime
  <2>2. sample - SrcOffset = (StoredCount - 1 - m) * d
    BY <1>1, <2>1
  <2>3. (sample - SrcOffset) \div d = StoredCount - 1 - m
    <3>1. sample - SrcOffset \in Int
      BY <1>1
    <3>2. \A q \in Int : sample - SrcOffset = q * d =>
            (sample - SrcOffset) \div d = q
      <4> HIDE DEF sample
      <4> QED
        BY <1>1, <3>1, Quotient
    <3>3. QED
      BY <2>1, <2>2, <3>2
  <2>4. KeptTime(SrcOffset, StoredCount - m) = SrcOffset + (StoredCount - 1 - m) * d
    BY <2>1 DEF KeptTime
  <2>5. KeptTime(SrcOffset, StoredCount - m) = sample
    BY <1>1, <2>1, <2>2, <2>4
  <2>6. QED
    BY <1>1, <2>3, <2>5 DEF StoredIndex
<1>4. SnapAt(snaps[w], StoredCount - 1 - m) = sample
  <2>1. /\ StoredCount - m \in 1 .. StoredCount
        /\ StoredCount - 1 - m + 1 = StoredCount - m
        /\ StoredCount - m <= StoredCount
    BY <1>1
  <2>2. /\ DOMAIN SourceSeries(StoredCount) = 1 .. StoredCount
        /\ \A i \in 1 .. StoredCount :
             i <= StoredCount =>
               SourceSeries(StoredCount)[i] = KeptTime(SrcOffset, i)
    BY DEF SourceSeries
  <2>3. QED
    BY <1>3, <2>1, <2>2 DEF SnapAt
<1>5. Pair(w) = <<sample, sample>>
  BY <1>2, <1>3, <1>4 DEF Pair
<1> DEFINE s == FirstPairs(m)
           g == FirstPairs(m + 1)
<1>6. /\ s \in [1 .. m -> Int \X Int] /\ g \in [1 .. m + 1 -> Int \X Int]
      /\ \A i \in 1 .. m : g[i] = s[i]
  BY <1>1 DEF FirstPairs
<1>7. g[m + 1] = <<sample, sample>>
  BY <1>1 DEF FirstPairs
<1> HIDE DEF s, g, sample
<1>8. Append(s, <<sample, sample>>) = g
  BY <1>6, <1>7, AppendExtends
<1>9. QED
  BY <1>5, <1>8 DEF s, g

-----------------------------------------------------------------------------
(***************************************************************************)
(* The invariant of the series, thread by thread.                          *)
(***************************************************************************)
LEMMA SameSettings ==
  ASSUME UNCHANGED <<nt, snapshot_interval, in_memory>>
  PROVE  /\ StoredCount' = StoredCount /\ SrcOffset' = SrcOffset
         /\ SameTimePairs' = SameTimePairs
         /\ \A m : /\ SourceSeries(m)' = SourceSeries(m)
                   /\ ReceiverSeries(m)' = ReceiverSeries(m)
                   /\ FirstPairs(m)' = FirstPairs(m)
<1>1. StoredCount' = StoredCount /\ SrcOffset' = SrcOffset
  BY DEF StoredCount, SrcOffset, RecOffset
<1>2. ASSUME NEW m
      PROVE  SourceSeries(m)' = SourceSeries(m)
  BY <1>1 DEF SourceSeries, KeptTime
<1>3. QED
  BY <1>1, <1>2 DEF SameTimePairs, ReceiverSeries, FirstPairs

LEMMA AllPairs == FirstPairs(StoredCount) = SameTimePairs
  BY DEF FirstPairs, SameTimePairs

LEMMA OtherThread ==
  ASSUME SeriesInv, NEW v \in Threads,
         UNCHANGED <<nt, snapshot_interval, in_memory>>,
         /\ step'[v] = step[v] /\ it'[v] = it[v] /\ snaps'[v] = snaps[v]
         /\ rec_snaps'[v] = rec_snaps[v] /\ local'[v] = local[v]
  PROVE  /\ SourceSoFar(v)' /\ ReceiversSoFar(v)' /\ PairsSoFar(v)'
         /\ step'[v] \in {"write", "writing"} => local'[v] = SameTimePairs'
<1>1. /\ SourceSoFar(v) /\ ReceiversSoFar(v) /\ PairsSoFar(v)
      /\ step[v] \in {"write", "writing"} => local[v] = SameTimePairs
  BY DEF SeriesInv, ImagePairsSameTimes
<1>2. SourceSoFar(v)'
  BY <1>1, SameSettings DEF SourceSoFar, KeptBefore, KeptTime
<1>3. ReceiversSoFar(v)'
  BY <1>1, SameSettings DEF ReceiversSoFar, KeptBefore, KeptTime, RecOffset
<1>4. PairsSoFar(v)'
  BY <1>1, SameSettings DEF PairsSoFar, KeptBefore, KeptTime, RecOffset
<1>5. QED
  BY <1>1, <1>2, <1>3, <1>4, SameSettings

LEMMA TimeAdvances ==
  ASSUME SeriesTypes, NEW w \in Threads, NEW after, NextStep(w, after)
  PROVE  /\ it' \in [Threads -> 0 .. nt - 1] /\ DOMAIN step' = Threads
         /\ it[w] = nt - 1 => it'[w] = 0 /\ step'[w] = after
         /\ it[w] # nt - 1 => it'[w] = it[w] + 1 /\ step'[w] = step[w]
         /\ \A v \in Threads : v # w => it'[v] = it[v] /\ step'[v] = step[v]
<1>1. /\ it' = [it EXCEPT ![w] = (it[w] + 1) % nt]
      /\ step' = [step EXCEPT ![w] = IF it[w] = nt - 1 THEN after ELSE step[w]]
  BY DEF NextStep
<1>2. /\ it \in [Threads -> 0 .. nt - 1] /\ DOMAIN step = Threads
      /\ it[w] \in 0 .. nt - 1 /\ nt \in Nat \ {0}
  BY DEF SeriesTypes
<1>3. /\ it[w] = nt - 1 => (it[w] + 1) % nt = 0
      /\ it[w] # nt - 1 => (it[w] + 1) % nt = it[w] + 1
  BY <1>2
<1>4. (it[w] + 1) % nt \in 0 .. nt - 1
  BY <1>2, <1>3
<1> DEFINE i == (it[w] + 1) % nt
<1> HIDE DEF i
<1>5. it' = [it EXCEPT ![w] = i] /\ i \in 0 .. nt - 1
  BY <1>1, <1>4 DEF i
<1>6. /\ it' \in [Threads -> 0 .. nt - 1] /\ it'[w] = i
      /\ \A v \in Threads : v # w => it'[v] = it[v]
  BY <1>2, <1>5
<1>7. /\ DOMAIN step' = Threads
      /\ step'[w] = IF it[w] = nt - 1 THEN after ELSE step[w]
      /\ \A v \in Threads : v # w => step'[v] = step[v]
  BY <1>1, <1>2
<1>8. QED
  BY <1>3, <1>6, <1>7 DEF i

\* Before the first step of a loop nothing is kept.
LEMMA NothingKept ==
  ASSUME snapshot_interval \in Nat \ {0}, NEW offset \in 0 .. snapshot_interval - 1
  PROVE  KeptBefore(0, offset, 0)
BY DEF KeptBefore, KeptTime

LEMMA EmptySeries ==
  ASSUME SeriesTypes
  PROVE  /\ ReceiverSeries(0) = << >> /\ FirstPairs(0) = << >>
         /\ SourceSeries(0) = IF in_memory
                              THEN [i \in 1 .. StoredCount |-> NoStep]
                              ELSE << >>
<1>1. 1 .. 0 = {}
  OBVIOUS
<1>2. ReceiverSeries(0) = << >> /\ FirstPairs(0) = << >>
  BY <1>1 DEF ReceiverSeries, FirstPairs
<1>3. StoredCount \in Nat /\ \A i \in 1 .. StoredCount : ~(i <= 0)
  BY RoomForBoth DEF SeriesTypes
<1>4. CASE in_memory
  BY <1>2, <1>3, <1>4 DEF SourceSeries
<1>5. CASE ~in_memory
  BY <1>1, <1>2, <1>5 DEF SourceSeries
<1>6. QED
  BY <1>2, <1>4, <1>5

LEMMA SourceStepSeries ==
  ASSUME SeriesInv, NEW w \in Threads, SourceStep(w)
  PROVE  SeriesInv'
<1>1. /\ UNCHANGED <<nt, snapshot_interval, in_memory, rec_snaps, local>>
      /\ step[w] = "source" /\ NextStep(w, "receivers")
      /\ snaps' = [snaps EXCEPT ![w] =
           IF Stored(it[w], SrcOffset) THEN AddSource(snaps[w], it[w])
           ELSE snaps[w]]
  BY DEF SourceStep, config
<1>2. SeriesTypes /\ it[w] \in 0 .. nt - 1 /\ nt \in Nat
      /\ SrcOffset \in 0 .. snapshot_interval - 1 /\ StoredCount \in Nat
  BY RoomForBoth DEF SeriesInv, SeriesTypes
<1>3. PICK m \in Nat : /\ KeptBefore(it[w], SrcOffset, m)
                       /\ snaps[w] = SourceSeries(m)
  BY <1>1 DEF SeriesInv, SourceSoFar
<1>4. rec_snaps[w] = << >> /\ local[w] = << >>
  BY <1>1 DEF SeriesInv, SourceSoFar
<1>5. /\ it' \in [Threads -> 0 .. nt - 1] /\ DOMAIN step' = Threads
      /\ it[w] = nt - 1 => it'[w] = 0 /\ step'[w] = "receivers"
      /\ it[w] # nt - 1 => it'[w] = it[w] + 1 /\ step'[w] = step[w]
      /\ \A v \in Threads : v # w => it'[v] = it[v] /\ step'[v] = step[v]
  BY <1>1, <1>2, TimeAdvances
<1>6. /\ DOMAIN snaps' = Threads
      /\ snaps'[w] = IF Stored(it[w], SrcOffset) THEN AddSource(snaps[w], it[w])
                     ELSE snaps[w]
      /\ \A v \in Threads : v # w => snaps'[v] = snaps[v]
  BY <1>1, <1>2 DEF SeriesTypes
<1>7. \E k \in Nat : /\ KeptBefore(it[w] + 1, SrcOffset, k)
                     /\ snaps'[w] = SourceSeries(k)
  <2>1. CASE Stored(it[w], SrcOffset)
    <3>1. /\ it[w] = KeptTime(SrcOffset, m + 1)
          /\ StoredIndex(it[w], SrcOffset) = m
          /\ KeptBefore(it[w] + 1, SrcOffset, m + 1) /\ m < StoredCount
      BY <1>2, <1>3, <2>1, KeepOrPass, KeptInTime DEF SeriesTypes
    <3>2. snaps'[w] = SourceSeries(m + 1)
      BY <1>2, <1>3, <1>6, <2>1, <3>1, NextSource
    <3>3. QED
      BY <3>1, <3>2
  <2>2. CASE ~Stored(it[w], SrcOffset)
    BY <1>2, <1>3, <1>6, <2>2, KeepOrPass DEF SeriesTypes
  <2>3. QED
    BY <2>1, <2>2
<1>8. SeriesTypes'
  BY <1>1, <1>2, <1>5, <1>6 DEF SeriesTypes
<1>9. /\ SourceSoFar(w)' /\ ReceiversSoFar(w)' /\ PairsSoFar(w)'
      /\ step'[w] \notin {"write", "writing"}
  <2>1. CASE it[w] = nt - 1
    <3>1. snaps'[w] = SourceSeries(StoredCount)
      BY <1>2, <1>3, <1>7, <2>1, KeptInTime DEF SeriesTypes
    <3>2. KeptBefore(0, RecOffset, 0) /\ rec_snaps[w] = ReceiverSeries(0)
      BY <1>2, <1>4, EmptySeries, NothingKept DEF SeriesTypes, RecOffset
    <3>3. QED
      BY <1>1, <1>4, <1>5, <2>1, <3>1, <3>2, SameSettings
         DEF SourceSoFar, ReceiversSoFar, PairsSoFar, KeptBefore, KeptTime,
             RecOffset
  <2>2. CASE it[w] # nt - 1
    BY <1>1, <1>4, <1>5, <1>7, <2>2, SameSettings
       DEF SourceSoFar, ReceiversSoFar, PairsSoFar, KeptBefore, KeptTime
  <2>3. QED
    BY <2>1, <2>2
<1>10. \A v \in Threads : v # w =>
         /\ SourceSoFar(v)' /\ ReceiversSoFar(v)' /\ PairsSoFar(v)'
         /\ step'[v] \in {"write", "writing"} => local'[v] = SameTimePairs'
  BY <1>1, <1>5, <1>6, OtherThread
<1>11. QED
  BY <1>8, <1>9, <1>10 DEF SeriesInv, ImagePairsSameTimes

LEMMA ReceiverStepSeries ==
  ASSUME SeriesInv, NEW w \in Threads, ReceiverStep(w)
  PROVE  SeriesInv'
<1>1. /\ UNCHANGED <<nt, snapshot_interval, in_memory, snaps, local>>
      /\ step[w] = "receivers" /\ NextStep(w, "correlate")
      /\ rec_snaps' = [rec_snaps EXCEPT ![w] =
           IF Stored(it[w], RecOffset) THEN Append(rec_snaps[w], nt - 1 - it[w])
           ELSE rec_snaps[w]]
  BY DEF ReceiverStep, config
<1>2. SeriesTypes /\ it[w] \in 0 .. nt - 1 /\ nt \in Nat
      /\ RecOffset \in 0 .. snapshot_interval - 1 /\ StoredCount \in Nat
  BY RoomForBoth DEF SeriesInv, SeriesTypes, RecOffset
<1>3. PICK m \in Nat : /\ KeptBefore(it[w], RecOffset, m)
                       /\ rec_snaps[w] = ReceiverSeries(m)
  BY <1>1 DEF SeriesInv, ReceiversSoFar
<1>4. snaps[w] = SourceSeries(StoredCount) /\ local[w] = << >>
  BY <1>1 DEF SeriesInv, ReceiversSoFar
<1>5. /\ it' \in [Threads -> 0 .. nt - 1] /\ DOMAIN step' = Threads
      /\ it[w] = nt - 1 => it'[w] = 0 /\ step'[w] = "correlate"
      /\ it[w] # nt - 1 => it'[w] = it[w] + 1 /\ step'[w] = step[w]
      /\ \A v \in Threads : v # w => it'[v] = it[v] /\ step'[v] = step[v]
  BY <1>1, <1>2, TimeAdvances
<1>6. /\ DOMAIN rec_snaps' = Threads
      /\ rec_snaps'[w] = IF Stored(it[w], RecOffset)
                         THEN Append(rec_snaps[w], nt - 1 - it[w])
                         ELSE rec_snaps[w]
      /\ \A v \in Threads : v # w => rec_snaps'[v] = rec_snaps[v]
  BY <1>1, <1>2 DEF SeriesTypes
<1>7. \E k \in Nat : /\ KeptBefore(it[w] + 1, RecOffset, k)
                     /\ rec_snaps'[w] = ReceiverSeries(k)
  <2>1. CASE Stored(it[w], RecOffset)
    <3>1. /\ it[w] = KeptTime(RecOffset, m + 1)
          /\ KeptBefore(it[w] + 1, RecOffset, m + 1)
      BY <1>2, <1>3, <2>1, KeepOrPass DEF SeriesTypes
    <3>2. rec_snaps'[w] = ReceiverSeries(m + 1)
      BY <1>2, <1>3, <1>6, <2>1, <3>1, NextReceivers
    <3>3. QED
      BY <3>1, <3>2
  <2>2. CASE ~Stored(it[w], RecOffset)
    BY <1>2, <1>3, <1>6, <2>2, KeepOrPass DEF SeriesTypes
  <2>3. QED
    BY <2>1, <2>2
<1>8. SeriesTypes'
  BY <1>1, <1>2, <1>5, <1>6 DEF SeriesTypes
<1>9. /\ SourceSoFar(w)' /\ ReceiversSoFar(w)' /\ PairsSoFar(w)'
      /\ step'[w] \notin {"write", "writing"}
  <2>1. CASE it[w] = nt - 1
    <3>1. rec_snaps'[w] = ReceiverSeries(StoredCount)
      BY <1>2, <1>3, <1>7, <2>1, KeptInTime DEF SeriesTypes
    <3>2. KeptBefore(0, RecOffset, 0) /\ local[w] = FirstPairs(0)
      BY <1>2, <1>4, EmptySeries, NothingKept DEF SeriesTypes
    <3>3. QED
      BY <1>1, <1>4, <1>5, <2>1, <3>1, <3>2, SameSettings
         DEF SourceSoFar, ReceiversSoFar, PairsSoFar, KeptBefore, KeptTime,
             RecOffset
  <2>2. CASE it[w] # nt - 1
    BY <1>1, <1>4, <1>5, <1>7, <2>2, SameSettings
       DEF SourceSoFar, ReceiversSoFar, PairsSoFar, KeptBefore, KeptTime,
           RecOffset
  <2>3. QED
    BY <2>1, <2>2
<1>10. \A v \in Threads : v # w =>
         /\ SourceSoFar(v)' /\ ReceiversSoFar(v)' /\ PairsSoFar(v)'
         /\ step'[v] \in {"write", "writing"} => local'[v] = SameTimePairs'
  BY <1>1, <1>5, <1>6, OtherThread
<1>11. QED
  BY <1>8, <1>9, <1>10 DEF SeriesInv, ImagePairsSameTimes

LEMMA CorrelateStepSeries ==
  ASSUME SeriesInv, NEW w \in Threads, CorrelateStep(w)
  PROVE  SeriesInv'
<1>1. /\ UNCHANGED <<nt, snapshot_interval, in_memory, snaps, rec_snaps>>
      /\ step[w] = "correlate" /\ NextStep(w, "write")
      /\ local' = [local EXCEPT ![w] =
           IF Stored(it[w], RecOffset) THEN Append(local[w], Pair(w))
           ELSE local[w]]
  BY DEF CorrelateStep, config
<1>2. SeriesTypes /\ it[w] \in 0 .. nt - 1 /\ nt \in Nat
      /\ RecOffset \in 0 .. snapshot_interval - 1 /\ StoredCount \in Nat
  BY RoomForBoth DEF SeriesInv, SeriesTypes, RecOffset
<1>3. PICK m \in Nat : /\ KeptBefore(it[w], RecOffset, m)
                       /\ local[w] = FirstPairs(m)
  BY <1>1 DEF SeriesInv, PairsSoFar
<1>4. /\ snaps[w] = SourceSeries(StoredCount)
      /\ rec_snaps[w] = ReceiverSeries(StoredCount)
  BY <1>1 DEF SeriesInv, PairsSoFar
<1>5. /\ it' \in [Threads -> 0 .. nt - 1] /\ DOMAIN step' = Threads
      /\ it[w] = nt - 1 => it'[w] = 0 /\ step'[w] = "write"
      /\ it[w] # nt - 1 => it'[w] = it[w] + 1 /\ step'[w] = step[w]
      /\ \A v \in Threads : v # w => it'[v] = it[v] /\ step'[v] = step[v]
  BY <1>1, <1>2, TimeAdvances
<1>6. /\ DOMAIN local' = Threads
      /\ local'[w] = IF Stored(it[w], RecOffset)
                     THEN Append(local[w], Pair(w)) ELSE local[w]
      /\ \A v \in Threads : v # w => local'[v] = local[v]
  BY <1>1, <1>2 DEF SeriesTypes
<1>7. \E k \in Nat : /\ KeptBefore(it[w] + 1, RecOffset, k)
                     /\ local'[w] = FirstPairs(k)
  <2>1. CASE Stored(it[w], RecOffset)
    <3>1. /\ it[w] = KeptTime(RecOffset, m + 1)
          /\ StoredIndex(it[w], RecOffset) = m
          /\ KeptBefore(it[w] + 1, RecOffset, m + 1) /\ m < StoredCount
      BY <1>2, <1>3, <2>1, KeepOrPass, KeptInTime DEF SeriesTypes
    <3>2. local'[w] = FirstPairs(m + 1)
      BY <1>2, <1>3, <1>4, <1>6, <2>1, <3>1, NextPair
    <3>3. QED
      BY <3>1, <3>2
  <2>2. CASE ~Stored(it[w], RecOffset)
    BY <1>2, <1>3, <1>6, <2>2, KeepOrPass DEF SeriesTypes
  <2>3. QED
    BY <2>1, <2>2
<1>8. SeriesTypes'
  BY <1>1, <1>2, <1>5, <1>6 DEF SeriesTypes
<1>9. /\ SourceSoFar(w)' /\ ReceiversSoFar(w)' /\ PairsSoFar(w)'
      /\ step'[w] \in {"write", "writing"} => local'[w] = SameTimePairs'
  <2>1. CASE it[w] = nt - 1
    <3>1. local'[w] = SameTimePairs
      BY <1>2, <1>3, <1>7, <2>1, KeptInTime, AllPairs DEF SeriesTypes
    <3>2. QED
      BY <1>1, <1>5, <2>1, <3>1, SameSettings
         DEF SourceSoFar, ReceiversSoFar, PairsSoFar
  <2>2. CASE it[w] # nt - 1
    BY <1>1, <1>4, <1>5, <1>7, <2>2, SameSettings
       DEF SourceSoFar, ReceiversSoFar, PairsSoFar, KeptBefore, KeptTime,
           RecOffset
  <2>3. QED
    BY <2>1, <2>2
<1>10. \A v \in Threads : v # w =>
         /\ SourceSoFar(v)' /\ ReceiversSoFar(v)' /\ PairsSoFar(v)'
         /\ step'[v] \in {"write", "writing"} => local'[v] = SameTimePairs'
  BY <1>1, <1>5, <1>6, OtherThread
<1>11. QED
  BY <1>8, <1>9, <1>10 DEF SeriesInv, ImagePairsSameTimes

(***************************************************************************)
(* A thread that takes a shot begins with empty series; one that writes    *)
(* keeps its image; the others have nothing to keep.                       *)
(***************************************************************************)
LEMMA TakeShotSeries ==
  ASSUME SeriesInv, NEW w \in Threads, TakeShot(w)
  PROVE  SeriesInv'
<1>1. /\ UNCHANGED <<nt, snapshot_interval, in_memory>>
      /\ step' = [step EXCEPT ![w] = "source"]
      /\ it' = [it EXCEPT ![w] = 0]
      /\ snaps' = [snaps EXCEPT ![w] =
           IF in_memory THEN [i \in 1 .. StoredCount |-> NoStep] ELSE << >>]
      /\ rec_snaps' = [rec_snaps EXCEPT ![w] = << >>]
      /\ local' = [local EXCEPT ![w] = << >>]
  BY DEF TakeShot, config
<1>2. SeriesTypes /\ SrcOffset \in 0 .. snapshot_interval - 1
  BY RoomForBoth DEF SeriesInv, SeriesTypes
<1>3. SeriesTypes'
  BY <1>1, <1>2 DEF SeriesTypes
<1>4. /\ step'[w] = "source" /\ it'[w] = 0 /\ snaps'[w] = SourceSeries(0)
      /\ rec_snaps'[w] = << >> /\ local'[w] = << >>
  BY <1>1, <1>2, EmptySeries DEF SeriesTypes
<1>5. KeptBefore(0, SrcOffset, 0)
  BY <1>2, NothingKept DEF SeriesTypes
<1>6. /\ SourceSoFar(w)' /\ ReceiversSoFar(w)' /\ PairsSoFar(w)'
      /\ step'[w] \notin {"write", "writing"}
  BY <1>1, <1>4, <1>5, SameSettings
     DEF SourceSoFar, ReceiversSoFar, PairsSoFar, KeptBefore, KeptTime
<1>7. \A v \in Threads : v # w =>
        /\ step'[v] = step[v] /\ it'[v] = it[v] /\ snaps'[v] = snaps[v]
        /\ rec_snaps'[v] = rec_snaps[v] /\ local'[v] = local[v]
  BY <1>1, <1>2 DEF SeriesTypes
<1>8. \A v \in Threads : v # w =>
        /\ SourceSoFar(v)' /\ ReceiversSoFar(v)' /\ PairsSoFar(v)'
        /\ step'[v] \in {"write", "writing"} => local'[v] = SameTimePairs'
  BY <1>1, <1>7, OtherThread
<1>9. QED
  BY <1>3, <1>6, <1>8 DEF SeriesInv, ImagePairsSameTimes

LEMMA WriteSeries ==
  ASSUME SeriesInv, NEW w \in Threads, BeginWrite(w) \/ EndWrite(w)
  PROVE  SeriesInv'
<1>1. /\ UNCHANGED <<nt, snapshot_interval, in_memory, it>>
      /\ step[w] \in {"write", "writing"}
      /\ \/ step' = [step EXCEPT ![w] = "writing"]
            /\ UNCHANGED <<snaps, rec_snaps, local>>
         \/ /\ step' = [step EXCEPT ![w] = "idle"]
            /\ snaps' = [snaps EXCEPT ![w] = << >>]
            /\ rec_snaps' = [rec_snaps EXCEPT ![w] = << >>]
            /\ local' = [local EXCEPT ![w] = << >>]
  BY DEF BeginWrite, EndWrite, config
<1>2. SeriesTypes /\ local[w] = SameTimePairs
  BY <1>1 DEF SeriesInv, ImagePairsSameTimes
<1>3. SeriesTypes'
  BY <1>1, <1>2 DEF SeriesTypes
<1>4. \/ step'[w] = "writing" /\ local'[w] = SameTimePairs
      \/ step'[w] = "idle"
  BY <1>1, <1>2 DEF SeriesTypes
<1>5. /\ SourceSoFar(w)' /\ ReceiversSoFar(w)' /\ PairsSoFar(w)'
      /\ step'[w] \in {"write", "writing"} => local'[w] = SameTimePairs'
  BY <1>1, <1>4, SameSettings DEF SourceSoFar, ReceiversSoFar, PairsSoFar
<1>6. \A v \in Threads : v # w =>
        /\ step'[v] = step[v] /\ it'[v] = it[v] /\ snaps'[v] = snaps[v]
        /\ rec_snaps'[v] = rec_snaps[v] /\ local'[v] = local[v]
  BY <1>1, <1>2 DEF SeriesTypes
<1>7. \A v \in Threads : v # w =>
        /\ SourceSoFar(v)' /\ ReceiversSoFar(v)' /\ PairsSoFar(v)'
        /\ step'[v] \in {"write", "writing"} => local'[v] = SameTimePairs'
  BY <1>1, <1>6, OtherThread
<1>8. QED
  BY <1>3, <1>5, <1>7 DEF SeriesInv, ImagePairsSameTimes

LEMMA IdleTeam ==
  ASSUME SeriesTypes, \A w \in Threads : step[w] = "idle"
  PROVE  SeriesInv
BY DEF SeriesInv, SourceSoFar, ReceiversSoFar, PairsSoFar, ImagePairsSameTimes

LEMMA RunSeries ==
  ASSUME Run
  PROVE  SeriesInv'
<1>1. PICK i \in Intervals : snapshot_interval' = Larger(1, i)
  BY DEF Run, Start
<1>2. snapshot_interval' \in Nat \ {0} /\ nt' \in Nat \ {0}
  BY <1>1, StepsAssumption DEF Run, Start, Larger
<1>3. SeriesTypes' /\ \A w \in Threads : step'[w] = "idle"
  <2>1. /\ it' = [w \in Threads |-> 0] /\ step' = [w \in Threads |-> "idle"]
        /\ snaps' = [w \in Threads |-> << >>]
        /\ rec_snaps' = snaps' /\ local' = snaps'
    BY DEF Run, Start
  <2>2. 0 \in 0 .. nt' - 1
    <3>1. \A n \in Nat \ {0} : 0 \in 0 .. n - 1
      OBVIOUS
    <3>2. QED
      BY <1>2, <3>1
  <2>3. QED
    BY <1>2, <2>1, <2>2 DEF SeriesTypes
<1>4. QED
  BY <1>3 DEF SeriesInv, SourceSoFar, ReceiversSoFar, PairsSoFar,
              ImagePairsSameTimes

LEMMA DieSeries ==
  ASSUME SeriesInv, Die
  PROVE  SeriesInv'
<1>1. SeriesTypes' /\ \A w \in Threads : step'[w] = "idle"
  BY DEF Die, config, SeriesInv, SeriesTypes
<1>2. QED
  BY <1>1 DEF SeriesInv, SourceSoFar, ReceiversSoFar, PairsSoFar,
              ImagePairsSameTimes

LEMMA SameThreads ==
  ASSUME SeriesInv,
         UNCHANGED <<nt, snapshot_interval, in_memory, step, it, snaps,
                     rec_snaps, local>>
  PROVE  SeriesInv'
<1>1. SeriesTypes'
  BY DEF SeriesInv, SeriesTypes
<1>2. \A v \in Threads :
        /\ SourceSoFar(v)' /\ ReceiversSoFar(v)' /\ PairsSoFar(v)'
        /\ step'[v] \in {"write", "writing"} => local'[v] = SameTimePairs'
  BY OtherThread
<1>3. QED
  BY <1>1, <1>2 DEF SeriesInv, ImagePairsSameTimes

(***************************************************************************)
(* Every image is made of the pairs of snapshots of one time, all of them: *)
(* for any number of time steps and any interval.                          *)
(***************************************************************************)
THEOREM PairsAreOfOneTime == Spec => []ImagePairsSameTimes
<1>1. Init => SeriesInv
  <2> SUFFICES ASSUME Init PROVE SeriesInv
    OBVIOUS
  <2>1. SeriesTypes /\ \A w \in Threads : step[w] = "idle"
    BY DEF Init, SeriesTypes
  <2>2. QED
    BY <2>1, IdleTeam
<1>2. SeriesInv /\ [Next]_vars => SeriesInv'
  <2> SUFFICES ASSUME SeriesInv, [Next]_vars PROVE SeriesInv'
    OBVIOUS
  <2>1. \/ \E w \in Threads :
              \/ TakeShot(w) \/ SourceStep(w) \/ ReceiverStep(w)
              \/ CorrelateStep(w) \/ BeginWrite(w) \/ EndWrite(w)
        \/ Run \/ Die
        \/ UNCHANGED <<nt, snapshot_interval, in_memory, step, it, snaps,
                       rec_snaps, local>>
    BY DEF Next, ThreadStep, SkipShot, Join, StackShot, EndStack, Finished,
           vars, config, threadVars
  <2>2. QED
    BY <2>1, TakeShotSeries, SourceStepSeries, ReceiverStepSeries,
       CorrelateStepSeries, WriteSeries, RunSeries, DieSeries, SameThreads
<1>3. SeriesInv => ImagePairsSameTimes
  BY DEF SeriesInv
<1>4. QED
  BY <1>1, <1>2, <1>3, PTL DEF Spec
=============================================================================
