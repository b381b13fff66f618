----------------------- MODULE ImagingScriptProperties -----------------------
(***************************************************************************)
(* What a pipeline that is killed and started again may deliver.           *)
(***************************************************************************)
EXTENDS ImagingScript

(***************************************************************************)
(* Type invariant.                                                         *)
(***************************************************************************)
TypeOK ==
  /\ disk \in [Files -> [header : 0 .. Whole,
                         data : {"none", "short", "whole"},
                         altered : BOOLEAN]]
  /\ reuse \in BOOLEAN
  /\ stage \in Shot .. Imaging
  /\ phase \in {"script", "open", "data", "header", "check", "stopped", "done"}
  /\ file \in Files
  /\ image \in {"none", "right", "wrong"}
  /\ runs \in 0 .. MaxRuns

(***************************************************************************)
(* Data files that were cut by a kill or a full disk never reach the       *)
(* image, in this run or a later one that reuses them: an image is wrong   *)
(* only while a header lacks its last lines.  The scripts look at headers  *)
(* alone, so this rests on the data being written before the header and on *)
(* the readers that stop at an early end of file.                          *)
(***************************************************************************)
WrongImageOnlyFromCutHeader ==
  image = "wrong" =>
    \E f \in {Shot, Muted, Model} : disk[f].header \in Shaped .. Whole - 1
-----------------------------------------------------------------------------
(***************************************************************************)
(* The strengthening that makes the last property inductive.               *)
(***************************************************************************)
Writing == phase \in {"open", "data", "header"}

\* A program of the stage writes an output of the stage, from inputs it
\* could read.
WritesItsOutput ==
  /\ phase \in {"open", "data", "header", "check"} =>
       stage < Imaging /\ file \in Outputs(stage)
  /\ Writing => \A f \in Inputs(stage) : Readable(f)

\* Without REUSE the files of the stages to come are gone.
LaterFilesRemoved ==
  ~reuse /\ Running =>
    \A f \in Shot .. Blocks :
      (IF phase = "script" THEN stage <= f ELSE stage < f) => disk[f] = NoFile

\* The block file is text and has no data of its own.
BlockFileIsText == disk[Blocks].data = "none"

\* A header that lacks its last lines and that no program still writes.
CutHeader(f) == disk[f].header \in Shaped .. Whole - 1
LeftCut(f) == CutHeader(f) /\ ~(Writing /\ stage = f)

\* What was computed from misread input still has the cause beside it.
AlteredHasACause ==
  (\E f \in Files : disk[f].altered) => \E f \in {Shot, Muted, Model} : LeftCut(f)

ImageHasACause == image = "wrong" => phase = "done"

ScriptInv ==
  /\ TypeOK
  /\ WritesItsOutput
  /\ LaterFilesRemoved
  /\ BlockFileIsText
  /\ AlteredHasACause
  /\ ImageHasACause
  /\ WrongImageOnlyFromCutHeader
=============================================================================
