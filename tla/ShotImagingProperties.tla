------------------------ MODULE ShotImagingProperties ------------------------
(***************************************************************************)
(* What must be true of the images ShotImaging makes.                      *)
(***************************************************************************)
EXTENDS ShotImaging

(***************************************************************************)
(* Every receiver snapshot enters the image of its shot once, in time      *)
(* order, with the source snapshot of the same time step, for any number   *)
(* of steps and any interval: although the two series are counted from     *)
(* opposite ends and stored at different offsets, no read misses its       *)
(* snapshot and the room made for the source series is enough.             *)
(***************************************************************************)
SameTimePairs ==
  [i \in 1 .. StoredCount |->
     LET sample == nt - 1 - (i - 1) * snapshot_interval
     IN  <<sample, sample>>]

ImagePairsSameTimes ==
  \A w \in Threads :
    step[w] \in {"write", "writing"} => local[w] = SameTimePairs

(***************************************************************************)
(* The stacked image has the shots of the range whose source is inside the *)
(* model, once each and in their order, whatever the order in which the    *)
(* threads finished, and none of them is the file of an earlier run or one *)
(* that was cut short (the files of all runs have the same names).         *)
(***************************************************************************)
StackedShots == {image[i][1] : i \in DOMAIN image}

StackIsOfThisRun ==
  /\ \A i \in DOMAIN image : image[i][2] = run
  /\ \A i, j \in DOMAIN image : i < j => image[i][1] < image[j][1]
  /\ status = "ended" /\ run > 0 =>
       StackedShots = inside \intersect (shot0 .. shot1)

(***************************************************************************)
(* A run that was started ends, with an image or with the death of the     *)
(* program: shots that are skipped, or a range without any shot inside,    *)
(* hold nobody up.                                                         *)
(***************************************************************************)
EveryRunEnds == status = "imaging" ~> status \in {"ended", "terminated"}

(***************************************************************************)
(* The strengthening that makes StackIsOfThisRun inductive: no shot has    *)
(* two threads; a shot that was handed out and is inside is imaged or has  *)
(* a thread; an imaged shot is one of this run and its file stays as the   *)
(* run wrote it; the stack follows the imaged shots.                       *)
(***************************************************************************)
TypeOK ==
  /\ run \in Nat
  /\ shot0 \in Nat /\ shot1 \in Int /\ shot1 < Shots
  /\ inside \subseteq Shot
  /\ next \in Nat /\ shot0 <= next
  /\ job \in [Threads -> Shot \union {-1}]
  /\ step \in [Threads -> {"idle", "source", "receivers", "correlate", "write",
                          "writing"}]
  /\ shot_files \in [Shot -> Int]
  /\ shot_imaged \in [Shot -> BOOLEAN]
  /\ image \in Seq(Shot \X Int)
  /\ status \in {"imaging", "stacking", "ended", "terminated"}

Wanted == inside \intersect (shot0 .. shot1)

OneThreadEach ==
  \A w \in Threads :
    /\ step[w] = "idle" <=> job[w] = -1
    /\ job[w] # -1 =>
         /\ status = "imaging"
         /\ job[w] \in Wanted /\ job[w] < next /\ ~shot_imaged[job[w]]
         /\ \A v \in Threads : job[v] = job[w] => v = w

ImagedIsOfThisRun ==
  \A s \in Shot : shot_imaged[s] =>
    /\ s \in Wanted /\ shot_files[s] = run
    /\ status = "imaging" => s < next

NoShotIsLost ==
  status # "terminated" /\ run > 0 =>
    \A s \in Wanted : (status = "imaging" => s < next) =>
      shot_imaged[s] \/ \E w \in Threads : job[w] = s

StackSoFar ==
  /\ run = 0 => status = "ended"
  /\ status \in {"imaging", "terminated"} \/ run = 0 => image = << >>
  /\ \A i \in DOMAIN image :
       /\ image[i][2] = run
       /\ shot_imaged[image[i][1]] /\ image[i][1] < next
  /\ \A i, j \in DOMAIN image : i < j => image[i][1] < image[j][1]
  /\ status \in {"stacking", "ended"} /\ run > 0 =>
       \A s \in Wanted : s < next => s \in StackedShots
  /\ status = "ended" /\ run > 0 => shot1 < next

StackInv ==
  /\ TypeOK
  /\ OneThreadEach
  /\ ImagedIsOfThisRun
  /\ NoShotIsLost
  /\ StackSoFar

(***************************************************************************)
(* The strengthening that makes ImagePairsSameTimes inductive: when a loop *)
(* over time is before step t, a series has the first m of its snapshots,  *)
(* and t is after the last of them and not after the next.                 *)
(***************************************************************************)
KeptTime(offset, i) == offset + (i - 1) * snapshot_interval

KeptBefore(t, offset, m) ==
  /\ m \in Nat
  /\ KeptTime(offset, m) < t /\ t <= KeptTime(offset, m + 1)

SourceSeries(m) ==
  IF in_memory
  THEN [i \in 1 .. StoredCount |->
          IF i <= m THEN KeptTime(SrcOffset, i) ELSE NoStep]
  ELSE [i \in 1 .. m |-> KeptTime(SrcOffset, i)]

ReceiverSeries(m) == [i \in 1 .. m |-> nt - 1 - (i - 1) * snapshot_interval]

FirstPairs(m) ==
  [i \in 1 .. m |-> LET sample == nt - 1 - (i - 1) * snapshot_interval
                    IN  <<sample, sample>>]

SourceSoFar(w) ==
  step[w] = "source" =>
    /\ \E m \in Nat : /\ KeptBefore(it[w], SrcOffset, m)
                      /\ snaps[w] = SourceSeries(m)
    /\ rec_snaps[w] = << >> /\ local[w] = << >>

ReceiversSoFar(w) ==
  step[w] = "receivers" =>
    /\ snaps[w] = SourceSeries(StoredCount)
    /\ \E m \in Nat : /\ KeptBefore(it[w], RecOffset, m)
                      /\ rec_snaps[w] = ReceiverSeries(m)
    /\ local[w] = << >>

PairsSoFar(w) ==
  step[w] = "correlate" =>
    /\ snaps[w] = SourceSeries(StoredCount)
    /\ rec_snaps[w] = ReceiverSeries(StoredCount)
    /\ \E m \in Nat : /\ KeptBefore(it[w], RecOffset, m)
                      /\ local[w] = FirstPairs(m)

SeriesTypes ==
  /\ nt \in Nat \ {0} /\ snapshot_interval \in Nat \ {0}
  /\ it \in [Threads -> 0 .. nt - 1]
  /\ DOMAIN step = Threads /\ DOMAIN snaps = Threads
  /\ DOMAIN rec_snaps = Threads /\ DOMAIN local = Threads

SeriesInv ==
  /\ SeriesTypes
  /\ \A w \in Threads : SourceSoFar(w) /\ ReceiversSoFar(w) /\ PairsSoFar(w)
  /\ ImagePairsSameTimes
=============================================================================
