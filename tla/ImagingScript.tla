---------------------------- MODULE ImagingScript ----------------------------
(***************************************************************************)
(* script/test_10_shot_f_image_rtm_kirch_multishot.sh: the programs of the *)
(* pipeline run one after the other and hand files to one another.  With   *)
(* REUSE=1 a stage is skipped when its file is not empty.  A run may be    *)
(* killed at any point and the disk may fill; then the script is started   *)
(* again.                                                                  *)
(*                                                                         *)
(* An RSF file is a header and a data file.  sep_open empties both, the    *)
(* data is written, and sep_close appends the header, line by line; its    *)
(* lines are taken in four groups.  The model of the user, the parameters  *)
(* and the programs stay the same in all runs.  Of the three tables of a   *)
(* block only the one the imaging program reads is modelled.               *)
(***************************************************************************)
EXTENDS Integers

CONSTANTS
  NTables,      \* propagation blocks, each with its table
  MaxRuns,      \* bound on the runs of the script
  DiskMayFill   \* whether writes may fail

ASSUME ScriptAssumption ==
  NTables \in Nat \ {0} /\ MaxRuns \in Nat /\ DiskMayFill \in BOOLEAN

VARIABLES
  disk,     \* the files
  reuse,    \* REUSE of this run
  stage,    \* the stage of the script
  phase,    \* "script", or what the running program does
  file,     \* the output file it writes
  image,    \* what the last stage of this run produced
  runs

vars == <<disk, reuse, stage, phase, file, image, runs>>

\* The stages, and the file each of the first four produces.
Shot == 1
Muted == 2
Model == 3
Blocks == 4
TravelTimes == 5
Imaging == 6

Table(b) == Blocks + b
Tables == {Table(b) : b \in 1 .. NTables}
Files == {Shot, Muted, Model, Blocks} \union Tables

\* Header lines up to: the program, in= and the format, n, and the rest.
Started == 1
Located == 2
Shaped == 3
Whole == 4

NoFile == [header |-> 0, data |-> "none", altered |-> FALSE]

Running == phase \in {"script", "open", "data", "header", "check"}

-----------------------------------------------------------------------------
\* rsf_exists, -s and traveltime_exists.
Exists(s) ==
  IF s = TravelTimes
  THEN \E f \in Tables : disk[f].header > 0
  ELSE disk[s].header > 0

\* Mutant: a short file reads as zeros, as it does when it is mapped.
ReadableMapped(f) ==
  IF f = Blocks THEN disk[f].header = Whole
  ELSE disk[f].header >= Shaped /\ disk[f].data # "none"

\* A program reads a file to its end or throws: in= and the axes must be
\* there and the data must not end early.  A torn block file is rejected.
Readable(f) ==
  IF f = Blocks THEN disk[f].header = Whole
  ELSE disk[f].header >= Shaped /\ disk[f].data = "whole"

Inputs(s) ==
  CASE s \in {Shot, Model} -> {}
    [] s = Muted -> {Shot}
    [] s = Blocks -> {Model}
    [] s = TravelTimes -> {Model, Blocks}
    [] s = Imaging -> {Muted, Model, Blocks} \union Tables

\* Mutant: one block too many.
OutputsPastTheLast(s) ==
  IF s = TravelTimes THEN Tables \union {Table(NTables + 1)} ELSE {s}

Outputs(s) == IF s = TravelTimes THEN Tables ELSE {s}

\* Header lines that are missing have defaults: origin 0, sampling 1.  Of a
\* table only the shape and the values are used.
Misread(f) ==
  \/ disk[f].altered
  \/ f \notin Tables /\ disk[f].header < Whole
  \/ disk[f].data = "short"

Altered(s) == \E f \in Inputs(s) : Misread(f)

-----------------------------------------------------------------------------
Init ==
  /\ disk = [f \in Files |-> NoFile]
  /\ reuse = FALSE /\ stage = Shot /\ phase = "stopped" /\ file = Shot
  /\ image = "none"
  /\ runs = 0

\* rm -rf "${WORK_DIR}"
Removed == [f \in Files |-> NoFile]

StartScript ==
  /\ ~Running
  /\ runs < MaxRuns /\ runs' = runs + 1
  /\ reuse' \in BOOLEAN
  /\ disk' = IF reuse' THEN disk ELSE Removed
  /\ stage' = Shot /\ phase' = "script" /\ image' = "none"
  /\ UNCHANGED file

ReuseStage ==
  /\ phase = "script" /\ stage < Imaging
  /\ reuse /\ Exists(stage)
  /\ stage' = stage + 1
  /\ UNCHANGED <<disk, reuse, phase, file, image, runs>>

FirstOutput(s) == CHOOSE f \in Outputs(s) : \A g \in Outputs(s) : f <= g

\* The script removes the old tables, and the program reads its inputs.
StartProgram ==
  /\ phase = "script" /\ stage < Imaging
  /\ ~(reuse /\ Exists(stage))
  /\ disk' = [f \in Files |->
                IF stage = TravelTimes /\ f \in Tables THEN NoFile ELSE disk[f]]
  /\ IF \A f \in Inputs(stage) : Readable(f)
     THEN phase' = "open" /\ file' = FirstOutput(stage)
     ELSE phase' = "stopped" /\ UNCHANGED file
  /\ UNCHANGED <<reuse, stage, image, runs>>

OpenOutput ==
  /\ phase = "open"
  /\ disk' = [disk EXCEPT ![file] = NoFile]
  /\ phase' = "data"
  /\ UNCHANGED <<reuse, stage, file, image, runs>>

\* se_fsio_raw_write: on a full disk it returns CODE_ERROR, and its callers
\* go on.
WriteData ==
  /\ phase = "data" /\ file # Blocks
  /\ \E d \in {"whole", "short"} :
       /\ d = "short" => DiskMayFill
       /\ disk' = [disk EXCEPT ![file] = [header |-> 0, data |-> d,
                                          altered |-> Altered(stage)]]
  /\ phase' = "header"
  /\ UNCHANGED <<reuse, stage, file, image, runs>>

\* The next lines of sep_headers_append, or of the block file.
AppendHeader ==
  /\ \/ phase = "header"
     \/ phase = "data" /\ file = Blocks
  /\ disk[file].header < Whole
  /\ disk' = [disk EXCEPT ![file].header = @ + 1,
                          ![file].altered = Altered(stage)]
  /\ UNCHANGED <<reuse, stage, phase, file, image, runs>>

\* The file is closed; that some of its lines did not fit goes unnoticed.
CloseOutput ==
  /\ \/ phase = "header"
     \/ phase = "data" /\ file = Blocks
  /\ disk[file].header = Whole \/ DiskMayFill
  /\ IF file + 1 \in Outputs(stage)
     THEN file' = file + 1 /\ phase' = "open"
     ELSE phase' = "check" /\ UNCHANGED file
  /\ UNCHANGED <<disk, reuse, stage, image, runs>>

\* The script stops when the output is still empty.
CheckStage ==
  /\ phase = "check"
  /\ IF Exists(stage)
     THEN phase' = "script" /\ stage' = stage + 1
     ELSE phase' = "stopped" /\ UNCHANGED stage
  /\ UNCHANGED <<disk, reuse, file, image, runs>>

RunImaging ==
  /\ phase = "script" /\ stage = Imaging
  /\ IF \A f \in Inputs(Imaging) : Readable(f)
     THEN /\ image' = IF Altered(Imaging) THEN "wrong" ELSE "right"
          /\ phase' = "done"
     ELSE phase' = "stopped" /\ UNCHANGED image
  /\ UNCHANGED <<disk, reuse, stage, file, runs>>

\* The script and its program die; a kill may cut the data being written.
Kill ==
  /\ Running
  /\ phase' = "stopped"
  /\ \/ UNCHANGED disk
     \/ /\ phase = "data" /\ file # Blocks
        /\ disk' = [disk EXCEPT ![file].data = "short"]
  /\ UNCHANGED <<reuse, stage, file, image, runs>>

Next ==
  \/ StartScript \/ ReuseStage \/ StartProgram
  \/ OpenOutput \/ WriteData \/ AppendHeader \/ CloseOutput
  \/ CheckStage \/ RunImaging \/ Kill

Spec == Init /\ [][Next]_vars
=============================================================================
