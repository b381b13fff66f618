--------------------- MODULE TravelTimeWorkersProperties ---------------------
(***************************************************************************)
(* What the parallel source loop guarantees to the reader of its tables    *)
(* and to the user who reads its messages.                                 *)
(***************************************************************************)
EXTENDS TravelTimeWorkers

(***************************************************************************)
(* Type invariant.                                                         *)
(***************************************************************************)
TypeOK ==
  /\ block \in 1 .. Blocks
  /\ next \in 1 .. Sources + 1
  /\ job \in [Workers -> 0 .. Sources]
  /\ step \in [Workers -> {"idle", "solve", "count", "report"}]
  /\ rows \subseteq Source
  /\ completed \in 0 .. Sources
  /\ announced \in {0, 1}
  /\ failed \in BOOLEAN
  /\ message \in 0 .. Sources
  /\ tables \subseteq 1 .. Blocks
  /\ status \in {"solving", "thrown", "completed"}

(***************************************************************************)
(* Tables go to disk only when every source has filled its rows: rows left *)
(* at zero by a failure are never written.                                 *)
(***************************************************************************)
WrittenTablesAreComplete ==
  [][tables' # tables => rows = Source /\ completed = Sources]_vars

(***************************************************************************)
(* Whichever sources fail, the loop ends, with tables for every block or   *)
(* with an error.                                                          *)
(***************************************************************************)
SolverEnds == <>(status = "completed" \/ status = "thrown")

(***************************************************************************)
(* The strengthening that makes the properties inductive: each source that *)
(* was handed out has its rows, or a worker, or was given up after a       *)
(* failure; the rows not counted yet are those of the workers that are     *)
(* about to count.                                                         *)
(***************************************************************************)
Counting == {w \in Workers : step[w] = "count"}

JobsAreHeld ==
  \A w \in Workers :
    /\ step[w] = "idle" <=> job[w] = 0
    /\ job[w] < next
    /\ step[w] \in {"solve", "report"} => job[w] \notin rows
    /\ step[w] = "count" => job[w] \in rows

OneWriter ==
  \A v, w \in Workers : job[v] = job[w] /\ job[v] # 0 => v = w

RowsWereHandedOut == \A s \in rows : s < next

NoneIsLost ==
  ~failed => \A s \in Source :
    s < next => s \in rows \/ \E w \in Workers : step[w] = "solve" /\ job[w] = s

RowsAreCounted == completed + Cardinality(Counting) = Cardinality(rows)

AnnouncedOnce == announced = IF completed = Sources THEN 1 ELSE 0

IInv ==
  /\ TypeOK
  /\ JobsAreHeld
  /\ OneWriter
  /\ RowsWereHandedOut
  /\ NoneIsLost
  /\ RowsAreCounted
  /\ AnnouncedOnce
=============================================================================
