------------------------ MODULE ImagingScriptProofs ------------------------
(***************************************************************************)
(* Proofs about the script, for every number of tables and of runs, and    *)
(* whether or not the disk may fill.                                       *)
(***************************************************************************)
EXTENDS ImagingScriptProperties, TLAPS

USE DEF Shot, Muted, Model, Blocks, TravelTimes, Imaging,
        Started, Located, Shaped, Whole

(***************************************************************************)
(* The files, by their numbers.                                            *)
(***************************************************************************)
LEMMA FilesAreNumbered ==
  /\ Tables \subseteq Nat /\ \A f \in Tables : f > 4
  /\ 5 \in Tables
  /\ Files = {1, 2, 3, 4} \union Tables
  <1>1. \A b \in 1 .. NTables : Table(b) \in Nat /\ Table(b) > 4
    BY ScriptAssumption DEF Table
  <1>2. 1 \in 1 .. NTables /\ Table(1) = 5
    BY ScriptAssumption DEF Table
  <1>3. QED
    BY <1>1, <1>2 DEF Tables, Files

LEMMA StageFiles ==
  ASSUME NEW s \in 1 .. 6
  PROVE  /\ s < 5 => Outputs(s) = {s}
         /\ s = 5 => Outputs(s) = Tables
         /\ s < 6 => Outputs(s) \subseteq Files
         /\ Inputs(s) \subseteq Files
         /\ s < 6 => Inputs(s) \subseteq {1, 2, 3, 4}
         /\ \A f \in Inputs(s) : f < 5 => f < s
  <1>1. /\ s < 5 => Outputs(s) = {s}
        /\ s = 5 => Outputs(s) = Tables
    BY DEF Outputs
  <1>2. s < 6 => Outputs(s) \subseteq Files
    BY <1>1, FilesAreNumbered
  <1>3. /\ s \in {1, 3} => Inputs(s) = {}
        /\ s = 2 => Inputs(s) = {1}
        /\ s = 4 => Inputs(s) = {3}
        /\ s = 5 => Inputs(s) = {3, 4}
        /\ s = 6 => Inputs(s) = {2, 3, 4} \union Tables
    BY DEF Inputs
  <1>4. s \in {1, 3} \/ s = 2 \/ s = 4 \/ s = 5 \/ s = 6
    OBVIOUS
  <1>5. Inputs(s) \subseteq Files
    BY <1>3, <1>4, FilesAreNumbered
  <1>6. s < 6 => Inputs(s) \subseteq {1, 2, 3, 4}
    BY <1>3, <1>4
  <1>7. \A f \in Inputs(s) : f < 5 => f < s
    <2>1. CASE s = 6
      <3>1. \A f \in Tables : ~(f < 5)
        BY FilesAreNumbered
      <3>2. QED
        BY <1>3, <2>1, <3>1
    <2>2. CASE s # 6
      BY <1>3, <1>4, <2>2
    <2>3. QED
      BY <2>1, <2>2
  <1>8. QED
    BY <1>1, <1>2, <1>5, <1>6, <1>7

LEMMA FirstOutputIsOne ==
  ASSUME NEW s \in 1 .. 5
  PROVE  FirstOutput(s) \in Outputs(s)
  <1>1. CASE s < 5
    <2>1. Outputs(s) = {s}
      BY <1>1, StageFiles
    <2>2. QED
      BY <2>1 DEF FirstOutput
  <1>2. CASE s = 5
    <2>1. Outputs(s) = Tables
      BY <1>2, StageFiles
    <2>2. ASSUME NEW g \in Outputs(s) PROVE 5 <= g
      <3>1. g \in Nat /\ g > 4
        BY <2>1, FilesAreNumbered
      <3>2. QED
        BY <3>1
    <2>3. \E f \in Outputs(s) : \A g \in Outputs(s) : f <= g
      BY <2>1, <2>2, FilesAreNumbered
    <2>4. QED
      BY <2>3 DEF FirstOutput
  <1>3. QED
    BY <1>1, <1>2

FileRecord == [header : 0 .. Whole, data : {"none", "short", "whole"},
               altered : BOOLEAN]

LEMMA NoFileType ==
  /\ NoFile \in FileRecord
  /\ NoFile.header = 0 /\ NoFile.data = "none" /\ ~NoFile.altered
  BY DEF NoFile, FileRecord

LEMMA DiskFields ==
  ASSUME TypeOK, NEW f \in Files
  PROVE  /\ disk[f] \in FileRecord
         /\ disk[f].header \in 0 .. 4
         /\ disk[f].data \in {"none", "short", "whole"}
         /\ disk[f].altered \in BOOLEAN
  BY DEF TypeOK, FileRecord

(***************************************************************************)
(* Types are preserved.                                                    *)
(***************************************************************************)
LEMMA TypeStep ==
  ASSUME TypeOK, WritesItsOutput, Next
  PROVE  TypeOK'
  <1>0. /\ disk \in [Files -> FileRecord] /\ stage \in 1 .. 6 /\ file \in Files
        /\ runs \in 0 .. MaxRuns /\ MaxRuns \in Nat
    BY ScriptAssumption DEF TypeOK, FileRecord
  <1>f. /\ {1, 2, 3, 4} \subseteq Files
    BY FilesAreNumbered
  <1>d. disk' \in [Files -> FileRecord]
    <2>1. CASE StartScript
      BY <1>0, <2>1, NoFileType DEF StartScript, Removed
    <2>2. CASE StartProgram
      BY <1>0, <2>2, NoFileType DEF StartProgram
    <2>3. CASE OpenOutput
      BY <1>0, <2>3, NoFileType DEF OpenOutput
    <2>4. CASE WriteData
      <3>1. PICK d \in {"whole", "short"} :
              disk' = [disk EXCEPT ![file] = [header |-> 0, data |-> d,
                                              altered |-> Altered(stage)]]
        BY <2>4 DEF WriteData
      <3>2. Altered(stage) \in BOOLEAN
        BY DEF Altered
      <3>3. [header |-> 0, data |-> d, altered |-> Altered(stage)] \in FileRecord
        BY <3>2 DEF FileRecord
      <3>4. QED
        BY <1>0, <3>1, <3>3
    <2>5. CASE AppendHeader
      <3> DEFINE old == disk[file]
                 new == [old EXCEPT !.header = @ + 1, !.altered = Altered(stage)]
      <3>1. Altered(stage) \in BOOLEAN
        BY DEF Altered
      <3>2. disk[file].header \in 0 .. 3
        BY <1>0, <2>5, DiskFields DEF AppendHeader
      <3>3. new \in FileRecord
        <4>1. old \in FileRecord /\ old.header + 1 \in 0 .. 4
          BY <1>0, <3>2
        <4> HIDE DEF old
        <4>2. QED
          BY <3>1, <4>1 DEF FileRecord
      <3>4. disk' = [disk EXCEPT ![file] = new]
        BY <1>0, <2>5 DEF AppendHeader, FileRecord
      <3>5. QED
        BY <1>0, <3>3, <3>4
    <2>6. CASE Kill
      <3>1. CASE UNCHANGED disk
        BY <1>0, <3>1
      <3>2. CASE disk' = [disk EXCEPT ![file].data = "short"]
        BY <1>0, <3>2 DEF FileRecord
      <3>3. QED
        BY <2>6, <3>1, <3>2 DEF Kill
    <2>7. CASE ReuseStage \/ CloseOutput \/ CheckStage \/ RunImaging
      BY <1>0, <2>7 DEF ReuseStage, CloseOutput, CheckStage, RunImaging
    <2>8. QED
      BY <2>1, <2>2, <2>3, <2>4, <2>5, <2>6, <2>7 DEF Next
  <1>t. disk' \in [Files -> [header : 0 .. Whole,
                             data : {"none", "short", "whole"},
                             altered : BOOLEAN]]
    BY <1>d DEF FileRecord
  <1>1. CASE StartScript
    BY <1>0, <1>t, <1>1 DEF StartScript, TypeOK
  <1>2. CASE ReuseStage
    BY <1>0, <1>t, <1>2 DEF ReuseStage, TypeOK
  <1>3. CASE StartProgram
    <2>1. stage \in 1 .. 5
      BY <1>0, <1>3 DEF StartProgram
    <2>2. FirstOutput(stage) \in Files
      BY <2>1, FirstOutputIsOne, StageFiles
    <2>3. QED
      BY <1>0, <1>t, <1>3, <2>2 DEF StartProgram, TypeOK
  <1>4. CASE OpenOutput \/ WriteData \/ AppendHeader
    BY <1>0, <1>t, <1>4 DEF OpenOutput, WriteData, AppendHeader, TypeOK
  <1>5. CASE CloseOutput
    <2>1. stage < 6
      BY <1>5 DEF CloseOutput, WritesItsOutput
    <2>2. file + 1 \in Outputs(stage) => file + 1 \in Files
      BY <1>0, <2>1, StageFiles
    <2>3. QED
      BY <1>0, <1>t, <1>5, <2>2 DEF CloseOutput, TypeOK
  <1>6. CASE CheckStage
    <2>1. stage < 6
      BY <1>6 DEF CheckStage, WritesItsOutput
    <2>2. QED
      BY <1>0, <1>t, <1>6, <2>1 DEF CheckStage, TypeOK
  <1>7. CASE RunImaging \/ Kill
    BY <1>0, <1>t, <1>7 DEF RunImaging, Kill, TypeOK
  <1>8. QED
    BY <1>1, <1>2, <1>3, <1>4, <1>5, <1>6, <1>7 DEF Next

(***************************************************************************)
(* A running program writes its own outputs, from inputs it could read.    *)
(***************************************************************************)
\* The files of the other stages are left alone.
LEMMA OtherFilesStay ==
  ASSUME TypeOK, WritesItsOutput, OpenOutput \/ WriteData \/ AppendHeader,
         NEW f \in {1, 2, 3, 4}, f # stage
  PROVE  disk'[f] = disk[f]
  <1>1. stage \in 1 .. 6 /\ stage < 6 /\ file \in Outputs(stage) /\ f \in Files
        /\ disk \in [Files -> FileRecord] /\ file \in Files
    BY FilesAreNumbered
    DEF TypeOK, FileRecord, WritesItsOutput, OpenOutput, WriteData, AppendHeader
  <1>2. f # file
    <2>1. CASE stage < 5
      BY <1>1, <2>1, StageFiles
    <2>2. CASE stage = 5
      BY <1>1, <2>2, StageFiles, FilesAreNumbered
    <2>3. QED
      BY <1>1, <2>1, <2>2
  <1>3. QED
    BY <1>1, <1>2 DEF OpenOutput, WriteData, AppendHeader

LEMMA WritesStep ==
  ASSUME TypeOK, WritesItsOutput, Next
  PROVE  WritesItsOutput'
  <1>0. stage \in 1 .. 6 /\ disk \in [Files -> FileRecord]
    BY DEF TypeOK, FileRecord
  <1>1. CASE StartScript \/ ReuseStage \/ RunImaging \/ Kill
    <2>1. phase' \notin {"open", "data", "header", "check"}
      BY <1>1 DEF StartScript, ReuseStage, RunImaging, Kill
    <2>2. QED
      BY <2>1 DEF WritesItsOutput, Writing
  <1>2. CASE StartProgram
    <2>1. stage \in 1 .. 5 /\ stage' = stage
      BY <1>0, <1>2 DEF StartProgram
    <2>2. CASE \A f \in Inputs(stage) : Readable(f)
      <3>1. phase' = "open" /\ file' = FirstOutput(stage)
        BY <1>2, <2>2 DEF StartProgram
      <3>2. \A f \in Inputs(stage) : disk'[f] = disk[f]
        <4>1. \A f \in Inputs(stage) : f \in Files /\ f \notin Tables
          BY <2>1, StageFiles, FilesAreNumbered
        <4>2. QED
          BY <1>2, <4>1 DEF StartProgram
      <3>3. \A f \in Inputs(stage) : Readable(f)'
        BY <2>2, <3>2 DEF Readable
      <3>4. file' \in Outputs(stage)
        BY <2>1, <3>1, FirstOutputIsOne
      <3>5. QED
        BY <2>1, <3>1, <3>3, <3>4 DEF WritesItsOutput
    <2>3. CASE ~(\A f \in Inputs(stage) : Readable(f))
      <3>1. phase' = "stopped"
        BY <1>2, <2>3 DEF StartProgram
      <3>2. QED
        BY <3>1 DEF WritesItsOutput, Writing
    <2>4. QED
      BY <2>2, <2>3
  <1>3. CASE OpenOutput \/ WriteData \/ AppendHeader
    <2>1. /\ stage' = stage /\ file' = file /\ Writing
          /\ stage < 6 /\ file \in Outputs(stage)
          /\ \A f \in Inputs(stage) : Readable(f)
      BY <1>3
      DEF OpenOutput, WriteData, AppendHeader, Writing, WritesItsOutput
    <2>2. \A f \in Inputs(stage) : f \in {1, 2, 3, 4} /\ f # stage
      BY <1>0, <2>1, StageFiles
    <2>3. \A f \in Inputs(stage) : disk'[f] = disk[f]
      BY <1>3, <2>2, OtherFilesStay
    <2>4. \A f \in Inputs(stage) : Readable(f)'
      BY <2>1, <2>3 DEF Readable
    <2>5. QED
      BY <2>1, <2>4 DEF WritesItsOutput
  <1>4. CASE CloseOutput
    BY <1>4 DEF CloseOutput, WritesItsOutput, Writing, Readable
  <1>5. CASE CheckStage
    <2>1. phase' \in {"script", "stopped"}
      BY <1>5 DEF CheckStage
    <2>2. QED
      BY <2>1 DEF WritesItsOutput, Writing
  <1>6. QED
    BY <1>1, <1>2, <1>3, <1>4, <1>5 DEF Next

(***************************************************************************)
(* Without REUSE a stage finds none of the files it has yet to make.       *)
(***************************************************************************)
LEMMA LaterFilesStep ==
  ASSUME TypeOK, WritesItsOutput, LaterFilesRemoved, Next
  PROVE  LaterFilesRemoved'
  <1>0. stage \in 1 .. 6 /\ disk \in [Files -> FileRecord]
        /\ 1 .. 4 = {1, 2, 3, 4} /\ {1, 2, 3, 4} \subseteq Files
        /\ \A f \in {1, 2, 3, 4} : f \notin Tables
    BY FilesAreNumbered DEF TypeOK, FileRecord
  <1>1. CASE StartScript
    BY <1>0, <1>1 DEF StartScript, Removed, LaterFilesRemoved
  <1>2. CASE ReuseStage
    BY <1>2 DEF ReuseStage, LaterFilesRemoved
  <1>3. CASE StartProgram
    <2>1. \A f \in {1, 2, 3, 4} : disk'[f] = disk[f]
      BY <1>0, <1>3 DEF StartProgram
    <2>2. /\ phase = "script" /\ phase' \in {"open", "stopped"}
          /\ stage' = stage /\ reuse' = reuse
      BY <1>3 DEF StartProgram
    <2>3. QED
      BY <1>0, <2>1, <2>2 DEF LaterFilesRemoved, Running
  <1>4. CASE OpenOutput \/ WriteData \/ AppendHeader
    <2>1. /\ phase \in {"open", "data", "header"}
          /\ phase' \in {"open", "data", "header"}
          /\ stage' = stage /\ reuse' = reuse
      BY <1>4 DEF OpenOutput, WriteData, AppendHeader
    <2>2. \A f \in {1, 2, 3, 4} : f # stage => disk'[f] = disk[f]
      BY <1>4, OtherFilesStay
    <2>3. QED
      BY <1>0, <2>1, <2>2 DEF LaterFilesRemoved, Running
  <1>5. CASE CloseOutput
    <2>1. /\ phase \in {"data", "header"} /\ phase' \in {"open", "check"}
          /\ stage' = stage /\ reuse' = reuse /\ disk' = disk
      BY <1>5 DEF CloseOutput
    <2>2. QED
      BY <2>1 DEF LaterFilesRemoved, Running
  <1>6. CASE CheckStage
    <2>1. /\ phase = "check" /\ reuse' = reuse /\ disk' = disk
          /\ \/ phase' = "script" /\ stage' = stage + 1
             \/ phase' = "stopped"
      BY <1>6 DEF CheckStage
    <2>2. QED
      BY <1>0, <2>1 DEF LaterFilesRemoved, Running
  <1>7. CASE RunImaging \/ Kill
    <2>1. phase' \in {"done", "stopped"}
      BY <1>7 DEF RunImaging, Kill
    <2>2. QED
      BY <2>1 DEF LaterFilesRemoved, Running
  <1>8. QED
    BY <1>1, <1>2, <1>3, <1>4, <1>5, <1>6, <1>7 DEF Next

LEMMA BlockFileStep ==
  ASSUME TypeOK, BlockFileIsText, Next
  PROVE  BlockFileIsText'
  <1>0. disk \in [Files -> FileRecord] /\ 4 \in Files /\ 4 \notin Tables
        /\ file \in Files
    BY FilesAreNumbered DEF TypeOK, FileRecord
  <1>1. CASE StartScript
    BY <1>0, <1>1, NoFileType DEF StartScript, Removed, BlockFileIsText
  <1>2. CASE StartProgram
    BY <1>0, <1>2 DEF StartProgram, BlockFileIsText
  <1>3. CASE OpenOutput
    BY <1>0, <1>3, NoFileType DEF OpenOutput, BlockFileIsText
  <1>4. CASE WriteData
    BY <1>0, <1>4 DEF WriteData, BlockFileIsText
  <1>5. CASE AppendHeader
    <2>1. disk'[4].data = disk[4].data
      BY <1>0, <1>5 DEF AppendHeader, FileRecord
    <2>2. QED
      BY <2>1 DEF BlockFileIsText
  <1>6. CASE Kill
    BY <1>0, <1>6 DEF Kill, BlockFileIsText
  <1>7. CASE ReuseStage \/ CloseOutput \/ CheckStage \/ RunImaging
    BY <1>7
    DEF ReuseStage, CloseOutput, CheckStage, RunImaging, BlockFileIsText
  <1>8. QED
    BY <1>1, <1>2, <1>3, <1>4, <1>5, <1>6, <1>7 DEF Next

(***************************************************************************)
(* What a stage computes from misread input has its cause among the files  *)
(* of the earlier stages.                                                  *)
(***************************************************************************)
LEMMA AlteredInputs ==
  ASSUME TypeOK, BlockFileIsText, AlteredHasACause, NEW s \in 1 .. 6,
         \A f \in Inputs(s) : Readable(f), Altered(s),
         Writing => s = stage
  PROVE  \E g \in {1, 2, 3} : LeftCut(g)
  <1>1. PICK f \in Inputs(s) : Misread(f)
    BY DEF Altered
  <1>2. f \in Files /\ Readable(f) /\ (f < 5 => f < s)
    BY StageFiles
  <1>3. CASE disk[f].altered
    BY <1>2, <1>3 DEF AlteredHasACause
  <1>4. CASE f \notin Tables /\ disk[f].header < 4
    <2>1. f \in {1, 2, 3, 4}
      BY <1>2, <1>4, FilesAreNumbered
    <2>2. f # 4 /\ disk[f].header >= 3
      BY <1>2, <1>4 DEF Readable
    <2>3. CutHeader(f)
      BY <1>2, <1>4, <2>2, DiskFields DEF CutHeader
    <2>4. ~(Writing /\ stage = f)
      BY <1>2, <2>1
    <2>5. QED
      BY <2>1, <2>2, <2>3, <2>4 DEF LeftCut
  <1>5. CASE disk[f].data = "short"
    BY <1>2, <1>5 DEF Readable, BlockFileIsText
  <1>6. QED
    BY <1>1, <1>3, <1>4, <1>5 DEF Misread

\* A cause stays as long as its file is left alone.
LEMMA CauseStays ==
  ASSUME NEW g \in {1, 2, 3}, LeftCut(g), disk'[g].header = disk[g].header,
         ~(phase' \in {"open", "data", "header"} /\ stage' = g)
  PROVE  LeftCut(g)'
  BY DEF LeftCut, CutHeader, Writing

LEMMA AlteredStep ==
  ASSUME ScriptInv, Next
  PROVE  AlteredHasACause'
  <1>0. /\ TypeOK /\ WritesItsOutput /\ LaterFilesRemoved /\ BlockFileIsText
        /\ AlteredHasACause
        /\ stage \in 1 .. 6 /\ disk \in [Files -> FileRecord] /\ file \in Files
        /\ {1, 2, 3, 4} \subseteq Files /\ 1 .. 4 = {1, 2, 3, 4}
        /\ \A f \in {1, 2, 3, 4} : f \notin Tables
    BY FilesAreNumbered DEF ScriptInv, TypeOK, FileRecord
  <1>s. SUFFICES ASSUME NEW f \in Files, disk'[f].altered
                 PROVE  \E g \in {1, 2, 3} : LeftCut(g)'
    BY DEF AlteredHasACause
  <1>1. CASE StartScript
    <2>1. CASE reuse'
      <3>1. disk' = disk /\ phase' = "script"
            /\ phase \notin {"open", "data", "header"}
        BY <1>1, <2>1 DEF StartScript, Running
      <3>2. PICK g \in {1, 2, 3} : LeftCut(g)
        BY <1>0, <1>s, <3>1 DEF AlteredHasACause
      <3>3. LeftCut(g)'
        BY <3>1, <3>2, CauseStays
      <3>4. QED
        BY <3>3
    <2>2. CASE ~reuse'
      BY <1>1, <1>s, <2>2, NoFileType DEF StartScript, Removed
    <2>3. QED
      BY <2>1, <2>2
  <1>2. CASE ReuseStage \/ CheckStage \/ RunImaging
    <2>1. disk' = disk /\ phase' \notin {"open", "data", "header"}
      BY <1>2 DEF ReuseStage, CheckStage, RunImaging
    <2>2. PICK g \in {1, 2, 3} : LeftCut(g)
      BY <1>0, <1>s, <2>1 DEF AlteredHasACause
    <2>3. LeftCut(g)'
      BY <2>1, <2>2, CauseStays
    <2>4. QED
      BY <2>3
  <1>3. CASE StartProgram
    <2>1. /\ \A g \in {1, 2, 3} : disk'[g] = disk[g]
          /\ disk[f].altered /\ stage' = stage
      BY <1>0, <1>3, <1>s, NoFileType DEF StartProgram
    <2>2. PICK g \in {1, 2, 3} : LeftCut(g)
      BY <1>0, <2>1 DEF AlteredHasACause
    <2>3. g # stage
      <3>1. SUFFICES ASSUME g = stage PROVE FALSE
        OBVIOUS
      <3>2. disk[g].header >= 3
        BY <1>0, <2>2, DiskFields DEF LeftCut, CutHeader
      <3>3. Exists(stage)
        BY <3>1, <3>2, <1>0, DiskFields DEF Exists
      <3>4. ~reuse /\ phase = "script"
        BY <1>3, <3>3 DEF StartProgram
      <3>5. disk[g] = NoFile
        BY <1>0, <3>1, <3>4 DEF LaterFilesRemoved, Running
      <3>6. QED
        BY <3>2, <3>5, NoFileType
    <2>4. LeftCut(g)'
      BY <2>1, <2>2, <2>3, CauseStays
    <2>5. QED
      BY <2>4
  <1>4. CASE OpenOutput \/ WriteData \/ AppendHeader
    <2>1. /\ stage' = stage /\ Writing /\ stage < 6
          /\ \A h \in Inputs(stage) : Readable(h)
      BY <1>0, <1>4
      DEF OpenOutput, WriteData, AppendHeader, Writing, WritesItsOutput
    <2>2. f # file => disk'[f] = disk[f]
      BY <1>0, <1>4 DEF OpenOutput, WriteData, AppendHeader
    <2>3. f = file => Altered(stage)
      <3>1. CASE OpenOutput
        BY <1>0, <1>s, <3>1, NoFileType DEF OpenOutput
      <3>2. CASE WriteData
        BY <1>0, <1>s, <3>2 DEF WriteData
      <3>3. CASE AppendHeader
        <4>1. f = file => disk'[f].altered = Altered(stage)
          BY <1>0, <3>3 DEF AppendHeader, FileRecord
        <4>2. QED
          BY <1>s, <4>1
      <3>4. QED
        BY <1>4, <3>1, <3>2, <3>3
    <2>4. PICK g \in {1, 2, 3} : LeftCut(g)
      <3>1. CASE f = file
        BY <1>0, <2>1, <2>3, <3>1, AlteredInputs
      <3>2. CASE f # file
        BY <1>0, <1>s, <2>2, <3>2 DEF AlteredHasACause
      <3>3. QED
        BY <3>1, <3>2
    <2>5. g # stage /\ g \in {1, 2, 3, 4}
      BY <2>1, <2>4 DEF LeftCut
    <2>6. disk'[g] = disk[g]
      BY <1>0, <1>4, <2>5, OtherFilesStay
    <2>7. LeftCut(g)'
      BY <2>1, <2>4, <2>5, <2>6, CauseStays
    <2>8. QED
      BY <2>7
  <1>5. CASE CloseOutput
    <2>1. disk' = disk /\ stage' = stage /\ Writing
      BY <1>5 DEF CloseOutput, Writing
    <2>2. PICK g \in {1, 2, 3} : LeftCut(g)
      BY <1>0, <1>s, <2>1 DEF AlteredHasACause
    <2>3. stage # g
      BY <2>1, <2>2 DEF LeftCut
    <2>4. LeftCut(g)'
      BY <2>1, <2>2, <2>3, CauseStays
    <2>5. QED
      BY <2>4
  <1>6. CASE Kill
    <2>1. /\ phase' = "stopped"
          /\ disk' = disk \/ disk' = [disk EXCEPT ![file].data = "short"]
      BY <1>6 DEF Kill
    <2>2. \A h \in Files : /\ disk'[h].altered = disk[h].altered
                           /\ disk'[h].header = disk[h].header
      BY <1>0, <2>1 DEF FileRecord
    <2>3. PICK g \in {1, 2, 3} : LeftCut(g)
      BY <1>0, <1>s, <2>2 DEF AlteredHasACause
    <2>4. LeftCut(g)'
      BY <1>0, <2>1, <2>2, <2>3, CauseStays
    <2>5. QED
      BY <2>4
  <1>7. QED
    BY <1>1, <1>2, <1>3, <1>4, <1>5, <1>6 DEF Next

(***************************************************************************)
(* A wrong image is made by the run that just ended, while its cause is    *)
(* there.                                                                  *)
(***************************************************************************)
LEMMA ImageStep ==
  ASSUME ScriptInv, Next
  PROVE  ImageHasACause' /\ WrongImageOnlyFromCutHeader'
  <1>0. TypeOK /\ BlockFileIsText /\ AlteredHasACause /\ ImageHasACause
        /\ stage \in 1 .. 6
    BY DEF ScriptInv, TypeOK
  <1>1. CASE StartScript
    BY <1>1 DEF StartScript, ImageHasACause, WrongImageOnlyFromCutHeader
  <1>2. CASE RunImaging
    <2>1. ASSUME image' = "wrong"
          PROVE  phase' = "done" /\ \E g \in {1, 2, 3} : LeftCut(g)
      <3>1. phase = "script" /\ stage = 6 /\ image # "wrong"
        BY <1>0, <1>2 DEF RunImaging, ImageHasACause
      <3>2. /\ phase' = "done" /\ Altered(6)
            /\ \A f \in Inputs(6) : Readable(f)
        BY <1>2, <2>1, <3>1 DEF RunImaging
      <3>3. QED
        BY <1>0, <3>1, <3>2, AlteredInputs DEF Writing
    <2>2. disk' = disk
      BY <1>2 DEF RunImaging
    <2>3. QED
      BY <2>1, <2>2
      DEF ImageHasACause, WrongImageOnlyFromCutHeader, LeftCut, CutHeader
  <1>3. CASE ~(StartScript \/ RunImaging)
    <2>1. image' = image /\ phase # "done"
      BY <1>3
      DEF Next, ReuseStage, StartProgram, OpenOutput, WriteData, AppendHeader,
          CloseOutput, CheckStage, Kill, Running
    <2>2. QED
      BY <1>0, <2>1 DEF ImageHasACause, WrongImageOnlyFromCutHeader
  <1>4. QED
    BY <1>1, <1>2, <1>3

(***************************************************************************)
(* Every stage, every kill and every reuse keeps the invariant of the      *)
(* files.                                                                  *)
(***************************************************************************)
THEOREM Invariance == Spec => []ScriptInv
<1>1. Init => ScriptInv
  <2> SUFFICES ASSUME Init PROVE ScriptInv
    OBVIOUS
  <2>1. disk = [f \in Files |-> NoFile] /\ phase = "stopped" /\ image = "none"
        /\ 1 \in Files /\ 4 \in Files /\ 0 \in 0 .. MaxRuns
    BY FilesAreNumbered, ScriptAssumption DEF Init
  <2>2. TypeOK
    <3>1. disk \in [Files -> FileRecord]
      BY <2>1, NoFileType
    <3>2. /\ reuse = FALSE /\ stage = 1 /\ file = 1 /\ runs = 0
          /\ phase = "stopped" /\ image = "none"
      BY DEF Init
    <3>3. reuse \in BOOLEAN
      BY <3>2
    <3>4. stage \in 1 .. 6 /\ file \in Files /\ runs \in 0 .. MaxRuns
      BY <2>1, <3>2
    <3>5. QED
      BY <2>1, <3>1, <3>3, <3>4 DEF TypeOK, FileRecord
  <2>3. WritesItsOutput /\ LaterFilesRemoved
    BY <2>1 DEF WritesItsOutput, Writing, LaterFilesRemoved, Running
  <2>4. BlockFileIsText /\ AlteredHasACause
    BY <2>1, NoFileType DEF BlockFileIsText, AlteredHasACause
  <2>5. ImageHasACause /\ WrongImageOnlyFromCutHeader
    BY <2>1 DEF ImageHasACause, WrongImageOnlyFromCutHeader
  <2>6. QED
    BY <2>2, <2>3, <2>4, <2>5 DEF ScriptInv
<1>2. ScriptInv /\ [Next]_vars => ScriptInv'
  <2> SUFFICES ASSUME ScriptInv, [Next]_vars PROVE ScriptInv'
    OBVIOUS
  <2>1. CASE UNCHANGED vars
    BY <2>1
    DEF vars, ScriptInv, TypeOK, WritesItsOutput, Writing, Readable,
        LaterFilesRemoved, Running, BlockFileIsText, AlteredHasACause, LeftCut,
        CutHeader, ImageHasACause, WrongImageOnlyFromCutHeader
  <2>2. CASE Next
    <3>1. TypeOK /\ WritesItsOutput /\ LaterFilesRemoved /\ BlockFileIsText
      BY DEF ScriptInv
    <3>2. TypeOK' /\ WritesItsOutput' /\ LaterFilesRemoved' /\ BlockFileIsText'
      BY <2>2, <3>1, TypeStep, WritesStep, LaterFilesStep, BlockFileStep
    <3>3. AlteredHasACause' /\ ImageHasACause' /\ WrongImageOnlyFromCutHeader'
      BY <2>2, AlteredStep, ImageStep
    <3>4. QED
      BY <3>2, <3>3 DEF ScriptInv
  <2>3. QED
    BY <2>1, <2>2
<1>3. QED
  BY <1>1, <1>2, PTL DEF Spec

(***************************************************************************)
(* Every variable keeps its type.                                          *)
(***************************************************************************)
THEOREM TypeCorrect == Spec => []TypeOK
BY Invariance, PTL DEF ScriptInv

(***************************************************************************)
(* Whatever is killed, rerun, reused or cut by a full disk, an image is    *)
(* wrong only while the header of a file before the tables lacks its last  *)
(* lines.                                                                  *)
(***************************************************************************)
THEOREM WrongImageHasACutHeader == Spec => []WrongImageOnlyFromCutHeader
BY Invariance, PTL DEF ScriptInv
=============================================================================
