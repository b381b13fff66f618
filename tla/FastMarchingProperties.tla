----------------------- MODULE FastMarchingProperties -----------------------
(***************************************************************************)
(* What a run of the solver must leave, and why its band never fails it.   *)
(***************************************************************************)
EXTENDS FastMarching

(***************************************************************************)
(* Type invariant.                                                         *)
(***************************************************************************)
Entries == [point : Points, t : Times]

TypeOK ==
  /\ cell \in Points /\ current \in Points
  /\ recpt \in [Points -> Times \union {TT_INF}]
  /\ alive \subseteq Points
  /\ band \in Seq(Entries)
  /\ iter \in 0 .. MaxIter
  /\ k \in 0 .. 4
  /\ status \in {"march", "done", "failed"}

(***************************************************************************)
(* The band holds exactly the points with a tentative time, each once and  *)
(* with that time: so band_decrease_key finds every point it looks for, no *)
(* entry popped is out of date, and the iteration bound is never reached   *)
(* with points left.                                                       *)
(***************************************************************************)
Front == {p \in Points \ alive : recpt[p] # TT_INF}

Holds(b, points, times) ==
  /\ {b[i].point : i \in 1 .. Len(b)} = points
  /\ \A i \in 1 .. Len(b) : b[i].t = times[b[i].point]
  /\ \A i, j \in 1 .. Len(b) : b[i].point = b[j].point => i = j

BandIsTheFront == Holds(band, Front, recpt)

(***************************************************************************)
(* The first entry of the band is a smallest one.                          *)
(***************************************************************************)
SortedBand(b) == \A i, j \in 1 .. Len(b) : i < j => b[i].t <= b[j].t

BandIsSorted == SortedBand(band)

(***************************************************************************)
(* Each accepted point other than the seeds got its time from an accepted  *)
(* neighbour that is not later: times spread from the source.              *)
(***************************************************************************)
Adjacent(p, q) == \E i \in 0 .. 3 : Neighbour(p, i) = q

TimesSpreadFromTheSource ==
  \A p \in alive \ Seeds(cell) :
    \E q \in alive : Adjacent(p, q) /\ recpt[q] <= recpt[p]

(***************************************************************************)
(* The solver returns success, and then it has a time for every point.     *)
(***************************************************************************)
EveryPointIsReached ==
  /\ status # "failed"
  /\ status = "done" => band = << >> /\ alive = Points

(***************************************************************************)
(* An accepted time is final, and a tentative one only decreases.          *)
(***************************************************************************)
TimesOnlyImprove ==
  [][/\ \A p \in Points : recpt'[p] <= recpt[p]
     /\ \A p \in alive : p \in alive' /\ recpt'[p] = recpt[p]]_vars

(***************************************************************************)
(* The strengthening that makes the invariants inductive: each pop accepts *)
(* a point, and when its neighbours are done all of them have a time, so   *)
(* the front surrounds the accepted points.                                *)
(***************************************************************************)
NeighboursAreReached ==
  \A q \in alive, i \in 0 .. 3 :
    Neighbour(q, i) \in Points /\ (q = current => i < k) =>
      recpt[Neighbour(q, i)] # TT_INF

EachPopAccepts ==
  /\ k < 4 => current \in alive
  /\ iter = Cardinality(alive)
  /\ status = "done" => band = << >> /\ k = 4
  /\ status # "failed"

ReachedFromTheSource ==
  /\ recpt[cell] # TT_INF
  /\ \A p \in alive : recpt[p] # TT_INF
  /\ \A p \in Points \ Seeds(cell) : recpt[p] # TT_INF =>
       \E q \in alive : Adjacent(p, q) /\ recpt[q] <= recpt[p]

MarchInv ==
  /\ TypeOK
  /\ BandIsTheFront
  /\ BandIsSorted
  /\ NeighboursAreReached
  /\ EachPopAccepts
  /\ ReachedFromTheSource
=============================================================================
