------------------------- MODULE OrderedAccumulation -------------------------
(***************************************************************************)
(* What the frequency-parallel stage promises, stated without threads: the *)
(* additions of the legacy program, "frequency-major/shot-major"           *)
(* (SERECKIRCH/src/global_bf_imaging_workflow.cpp).  Every accumulator     *)
(* receives the terms of frequency 0, 1, 2, ... in that order and once     *)
(* each; for one frequency a shot enters its before-image first, then its  *)
(* after-image, then the stacked image, which takes all shots at once; the *)
(* images are written when every frequency is in, or never.                *)
(***************************************************************************)
EXTENDS Naturals, Sequences

CONSTANTS FrequencyCount, ShotCount, WritePerShot

AllShots == 0 .. ShotCount - 1

VARIABLES per_shot_before, per_shot_after, image, written

vars == <<per_shot_before, per_shot_after, image, written>>

Init ==
  /\ per_shot_before = [s \in AllShots |-> << >>]
  /\ per_shot_after = [s \in AllShots |-> << >>]
  /\ image = << >>
  /\ written = FALSE

\* The next term of an accumulator is the frequency that many terms precede.
AddTerm(terms) == Append(terms, Len(terms))

AddBefore(s) ==
  /\ WritePerShot
  /\ ~written
  /\ Len(per_shot_before[s]) < FrequencyCount
  /\ per_shot_before' = [per_shot_before EXCEPT ![s] = AddTerm(@)]
  /\ UNCHANGED <<per_shot_after, image, written>>

AddAfter(s) ==
  /\ WritePerShot
  /\ ~written
  /\ Len(per_shot_after[s]) < Len(per_shot_before[s])
  /\ per_shot_after' = [per_shot_after EXCEPT ![s] = AddTerm(@)]
  /\ UNCHANGED <<per_shot_before, image, written>>

AddAllShots ==
  /\ ~written
  /\ Len(image) < FrequencyCount
  /\ WritePerShot =>
       \A s \in AllShots : Len(image) < Len(per_shot_after[s])
  /\ image' = Append(image, <<Len(image), AllShots>>)
  /\ UNCHANGED <<per_shot_before, per_shot_after, written>>

Write ==
  /\ ~written
  /\ Len(image) = FrequencyCount
  /\ written' = TRUE
  /\ UNCHANGED <<per_shot_before, per_shot_after, image>>

Next ==
  \/ \E s \in AllShots : AddBefore(s) \/ AddAfter(s)
  \/ AddAllShots
  \/ Write

Spec == Init /\ [][Next]_vars
=============================================================================
