-------------------------- MODULE TravelTimeWorkers --------------------------
(***************************************************************************)
(* The loop of travel_time_solver (src/travel_time_solver.cpp) over the    *)
(* blocks and, with dynamic scheduling, over the sources of a block: each  *)
(* OpenMP worker solves a source and fills its rows of the tables.  A      *)
(* source that fails stops the others through an atomic flag, and after    *)
(* the parallel loop the main thread throws, or writes the tables.         *)
(*                                                                         *)
(* The flag is read with relaxed order, so a worker may miss that it is    *)
(* set.                                                                    *)
(***************************************************************************)
EXTENDS Integers, FiniteSets

CONSTANTS
  Workers,  \* the OpenMP threads
  Sources,  \* source_count
  Blocks    \* the propagation blocks

ASSUME WorkersAssumption ==
  /\ IsFiniteSet(Workers) /\ Workers # {}
  /\ Sources \in Nat \ {0} /\ Blocks \in Nat \ {0}

VARIABLES
  block,     \* the block of the outer loop
  next,      \* the next source the schedule hands out
  job,       \* the source of each worker, 0 for none
  step,      \* what each worker does
  rows,      \* the sources whose rows of the tables are filled
  completed, \* completed_sources
  announced, \* the counts that workers printed as the last one
  failed,
  message,   \* the source named in failure_message, 0 for none
  tables,    \* the blocks whose tables are on disk
  status

vars == <<block, next, job, step, rows, completed, announced, failed, message,
          tables, status>>

Source == 1 .. Sources

Init ==
  /\ block = 1
  /\ next = 1
  /\ job = [w \in Workers |-> 0]
  /\ step = [w \in Workers |-> "idle"]
  /\ rows = {} /\ completed = 0 /\ announced = 0
  /\ failed = FALSE /\ message = 0
  /\ tables = {}
  /\ status = "solving"

\* The tables of the block exceed max_table_mb: nothing is solved for it.
RejectBlock ==
  /\ status = "solving" /\ next = 1
  /\ status' = "thrown"
  /\ UNCHANGED <<block, next, job, step, rows, completed, announced, failed,
                 message, tables>>

\* Mutant: one source too many.
HandedOutLate == next > Sources + 1

\* The schedule has no source left.
HandedOut == next > Sources

\* The relaxed load of failed; TRUE may be missed.
SeesFailure == failed

TakeSource(w) ==
  /\ status = "solving" /\ step[w] = "idle"
  /\ ~HandedOut
  /\ next' = next + 1
  /\ \/ /\ job' = [job EXCEPT ![w] = next]
        /\ step' = [step EXCEPT ![w] = "solve"]
     \/ SeesFailure /\ UNCHANGED <<job, step>>
  /\ UNCHANGED <<block, rows, completed, announced, failed, message, tables,
                 status>>

\* The three solves, then the rows of this source.
FillRows(w) ==
  /\ step[w] = "solve"
  /\ rows' = rows \union {job[w]}
  /\ step' = [step EXCEPT ![w] = "count"]
  /\ UNCHANGED <<block, next, job, completed, announced, failed, message,
                 tables, status>>

\* fetch_add is one step.
CountSource(w) ==
  /\ step[w] = "count"
  /\ completed' = completed + 1
  /\ announced' = IF completed' = Sources THEN announced + 1 ELSE announced
  /\ job' = [job EXCEPT ![w] = 0]
  /\ step' = [step EXCEPT ![w] = "idle"]
  /\ UNCHANGED <<block, next, rows, failed, message, tables, status>>

\* compare_exchange_strong(false, true) succeeds.
FirstFailure == ~failed

SolveFails(w) ==
  /\ step[w] = "solve"
  /\ failed' = TRUE
  /\ step' = [step EXCEPT ![w] = IF FirstFailure THEN "report" ELSE "idle"]
  /\ job' = [job EXCEPT ![w] = IF FirstFailure THEN @ ELSE 0]
  /\ UNCHANGED <<block, next, rows, completed, announced, message, tables,
                 status>>

ReportFailure(w) ==
  /\ step[w] = "report"
  /\ message' = job[w]
  /\ job' = [job EXCEPT ![w] = 0]
  /\ step' = [step EXCEPT ![w] = "idle"]
  /\ UNCHANGED <<block, next, rows, completed, announced, failed, tables,
                 status>>

\* Mutant: the main thread does not wait for the workers (nowait).
JoinedEarly == HandedOut

\* Mutant: the end is taken from the count of the sources.
JoinedWhenCounted == HandedOut /\ completed = Sources

\* The end of the parallel loop.
Joined == HandedOut /\ \A w \in Workers : step[w] = "idle"

Throw ==
  /\ status = "solving" /\ Joined
  /\ failed
  /\ status' = "thrown"
  /\ UNCHANGED <<block, next, job, step, rows, completed, announced, failed,
                 message, tables>>

\* A table file cannot be opened; the files before it stay.
RefuseTables ==
  /\ status = "solving" /\ Joined
  /\ ~failed
  /\ status' = "thrown"
  /\ UNCHANGED <<block, next, job, step, rows, completed, announced, failed,
                 message, tables>>

\* The next block has fresh tables and a fresh flag.
WriteTables ==
  /\ status = "solving" /\ Joined
  /\ ~failed
  /\ tables' = tables \union {block}
  /\ IF block < Blocks
     THEN /\ block' = block + 1
          /\ next' = 1 /\ rows' = {} /\ completed' = 0 /\ announced' = 0
          /\ UNCHANGED status
     ELSE /\ status' = "completed"
          /\ UNCHANGED <<block, next, rows, completed, announced>>
  /\ UNCHANGED <<job, step, failed, message>>

Ended == status \in {"thrown", "completed"} /\ UNCHANGED vars

Next ==
  \/ \E w \in Workers :
       \/ TakeSource(w) \/ FillRows(w) \/ CountSource(w)
       \/ SolveFails(w) \/ ReportFailure(w)
  \/ RejectBlock \/ Throw \/ RefuseTables \/ WriteTables \/ Ended

\* The operating system runs every thread.
Fairness ==
  /\ WF_vars(Throw \/ RefuseTables \/ WriteTables)
  /\ \A w \in Workers :
       WF_vars(\/ TakeSource(w) \/ FillRows(w) \/ CountSource(w)
               \/ SolveFails(w) \/ ReportFailure(w))

Spec == Init /\ [][Next]_vars /\ Fairness
=============================================================================
