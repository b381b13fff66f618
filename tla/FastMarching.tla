---------------------------- MODULE FastMarching ----------------------------
(***************************************************************************)
(* efmm_solver (SERECKIRCH/src/efmm.cpp): the fast-marching traveltime     *)
(* solver, which is called once per source.  The points whose time is      *)
(* tentative are in the narrow band, an array sorted by time; the first is *)
(* accepted and its neighbours are recomputed.  The band is searched and   *)
(* reordered by hand, so it must agree with the time fields at every step. *)
(*                                                                         *)
(* Times are small integers.  Of the arithmetic of recompute_eff_point_    *)
(* aniso the model keeps which accepted neighbours a new time depends on   *)
(* and which bounds its checks put on it.  A new time is never infinite:   *)
(* the case of a vanishing coefficient is left out, and so is a malloc or  *)
(* realloc that fails.                                                     *)
(***************************************************************************)
EXTENDS Integers, Sequences, FiniteSets

CONSTANTS
  Nz, Nx,   \* the grid
  MaxTime   \* no time is larger

ASSUME GridAssumption ==
  Nz \in Nat \ {0} /\ Nx \in Nat \ {0} /\ MaxTime \in Nat \ {0}

VARIABLES
  cell,    \* the upper left point of the source's cell
  recpt,   \* the tentative or accepted time of each point
  alive,   \* the accepted points (those with aliveT # TT_INF)
  band,    \* narrow_band_t: points with their keys
  iter,
  current, \* the point accepted last
  k,       \* its neighbours recomputed so far
  status

vars == <<cell, recpt, alive, band, iter, current, k, status>>

Points == (0 .. Nz - 1) \X (0 .. Nx - 1)
Times == 0 .. MaxTime
TT_INF == MaxTime + 1

Earlier(a, b) == IF a <= b THEN a ELSE b

-----------------------------------------------------------------------------
(***************************************************************************)
(* The narrow band.                                                        *)
(***************************************************************************)
Entry(p, t) == [point |-> p, t |-> t]

\* Where the entry at pos stops: after the last earlier one not behind it.
StopOf(b, pos, t) ==
  CHOOSE j \in 0 .. pos - 1 :
    /\ j > 0 => b[j].t <= t
    /\ \A i \in j + 1 .. pos - 1 : b[i].t > t

BubbleLeft(b, pos) ==
  LET stop == StopOf(b, pos, b[pos].t)
  IN  [i \in 1 .. Len(b) |->
         IF i <= stop \/ i > pos THEN b[i]
         ELSE IF i = stop + 1 THEN b[pos] ELSE b[i - 1]]

BandInsert(b, p, t) == BubbleLeft(Append(b, Entry(p, t)), Len(b) + 1)

InBand(b, p) == {i \in 1 .. Len(b) : b[i].point = p}
Position(b, p) == CHOOSE i \in InBand(b, p) : \A j \in InBand(b, p) : i <= j

\* Mutant: the key is lowered in place.
LowerKeyInPlace(b, p, t) == [b EXCEPT ![Position(b, p)] = Entry(p, t)]

\* Mutant: a decreased entry is entered again.
InsertAgain(b, p, t) == BandInsert(b, p, t)

BandDecreaseKey(b, p, t) ==
  LET pos == Position(b, p)
  IN  BubbleLeft([b EXCEPT ![pos] = Entry(p, t)], pos)

-----------------------------------------------------------------------------
(***************************************************************************)
(* recompute_eff_point_aniso.                                              *)
(***************************************************************************)
AliveTime(p) == IF p \in alive THEN recpt[p] ELSE TT_INF

\* The earlier of two neighbours on an axis; the first one in a tie.
Upwind(a, b) == IF AliveTime(a) <= AliveTime(b) THEN a ELSE b
UpwindX(p) == Upwind(<<p[1], p[2] - 1>>, <<p[1], p[2] + 1>>)
UpwindZ(p) == Upwind(<<p[1] - 1, p[2]>>, <<p[1] + 1, p[2]>>)
Upwinds(p) == {q \in {UpwindX(p), UpwindZ(p)} : q \in alive}

Latest(S) == CHOOSE t \in {recpt[q] : q \in S} : \A q \in S : recpt[q] <= t
Soonest(S) == CHOOSE t \in {recpt[q] : q \in S} : \A q \in S : recpt[q] >= t

\* Mutant: no bound by the upwind neighbours.
AnyTime(p) == Times

\* Mutant: the infinite time of the fallback is not refused.
TimesOrNone(p) == Times \union {TT_INF}

\* The new time is not before the later of the upwind neighbours, or it comes
\* from the fallback, which takes the soonest one and one step.  The same
\* upwind neighbours as at the last call give the same time again, and recpt
\* is not later than that.
NewTimes(p) ==
  IF current \in Upwinds(p)
  THEN {t \in Times : t >= Earlier(Latest(Upwinds(p)),
                                   Earlier(Soonest(Upwinds(p)) + 1, MaxTime))}
  ELSE {recpt[p]}

-----------------------------------------------------------------------------
\* Bilinear seeding: the corners of the cell the source lies in.
Seeds(c) ==
  {p \in Points : p[1] \in {c[1], c[1] + 1} /\ p[2] \in {c[2], c[2] + 1}}

\* The seeds are inserted column by column.
SeedBand(c, f) ==
  LET Put(b, p) == IF p \in DOMAIN f THEN BandInsert(b, p, f[p]) ELSE b
  IN  Put(Put(Put(Put(<< >>, c), <<c[1] + 1, c[2]>>), <<c[1], c[2] + 1>>),
          <<c[1] + 1, c[2] + 1>>)

Init ==
  /\ cell \in Points
  /\ \E f \in [Seeds(cell) -> Times] :
       /\ recpt = [p \in Points |-> IF p \in DOMAIN f THEN f[p] ELSE TT_INF]
       /\ band = SeedBand(cell, f)
  /\ alive = {}
  /\ iter = 0 /\ current = cell /\ k = 4
  /\ status = "march"

\* Mutant: a bound for one pop per column.
IterPerColumn == Nx

MaxIter == 4 * Nz * Nx + 100

\* The first entry leaves the band; it is skipped when it is out of date.
PopMin ==
  /\ status = "march" /\ k = 4
  /\ band # << >> /\ iter < MaxIter
  /\ iter' = iter + 1
  /\ band' = Tail(band)
  /\ LET p == Head(band).point
     IN  IF p \in alive \/ Head(band).t > recpt[p]
         THEN UNCHANGED <<alive, current, k>>
         ELSE alive' = alive \union {p} /\ current' = p /\ k' = 0
  /\ UNCHANGED <<cell, recpt, status>>

Neighbour(p, i) ==
  CASE i = 0 -> <<p[1] - 1, p[2]>>
    [] i = 1 -> <<p[1] + 1, p[2]>>
    [] i = 2 -> <<p[1], p[2] - 1>>
    [] i = 3 -> <<p[1], p[2] + 1>>

\* A neighbour outside the grid or accepted already is left alone.
SkipNeighbour ==
  /\ status = "march" /\ k < 4
  /\ Neighbour(current, k) \in alive \/ Neighbour(current, k) \notin Points
  /\ k' = k + 1
  /\ UNCHANGED <<cell, recpt, alive, band, iter, current, status>>

\* Mutant: the new time is taken even when it is later.
AlwaysBetter(t, old) == TRUE

Better(t, old) == t < old

UpdateNeighbour ==
  /\ status = "march" /\ k < 4
  /\ LET p == Neighbour(current, k)
     IN  /\ p \in Points \ alive
         /\ \E t \in NewTimes(p) :
              IF recpt[p] = TT_INF
              THEN /\ recpt' = [recpt EXCEPT ![p] = t]
                   /\ band' = BandInsert(band, p, t)
                   /\ UNCHANGED status
              ELSE IF Better(t, recpt[p])
              THEN /\ recpt' = [recpt EXCEPT ![p] = t]
                   /\ IF InBand(band, p) # {}
                      THEN band' = BandDecreaseKey(band, p, t)
                           /\ UNCHANGED status
                      ELSE status' = "failed" /\ UNCHANGED band
              ELSE UNCHANGED <<recpt, band, status>>
  /\ k' = k + 1
  /\ UNCHANGED <<cell, alive, iter, current>>

Return ==
  /\ status = "march" /\ k = 4
  /\ band = << >> \/ iter >= MaxIter
  /\ status' = "done"
  /\ UNCHANGED <<cell, recpt, alive, band, iter, current, k>>

Ended == status \in {"done", "failed"} /\ UNCHANGED vars

Next == PopMin \/ SkipNeighbour \/ UpdateNeighbour \/ Return \/ Ended

\* The solver runs on.
Spec == Init /\ [][Next]_vars
=============================================================================
