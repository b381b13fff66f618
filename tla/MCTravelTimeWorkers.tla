------------------------- MODULE MCTravelTimeWorkers -------------------------
(***************************************************************************)
(* Two sources a worker, and a second block that starts where the first    *)
(* ends.                                                                   *)
(***************************************************************************)
EXTENDS TravelTimeWorkersProperties, TLC

CONSTANTS w1, w2, w3

MCWorkers == {w1, w2, w3}
=============================================================================
