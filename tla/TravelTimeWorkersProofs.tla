----------------------- MODULE TravelTimeWorkersProofs -----------------------
(***************************************************************************)
(* Proofs about the source loop, for any team of workers and any number of *)
(* sources and blocks.                                                     *)
(***************************************************************************)
EXTENDS TravelTimeWorkersProperties, FiniteSetTheorems, TLAPS

LEMMA InitIInv == Init => IInv
<1> SUFFICES ASSUME Init PROVE IInv
  OBVIOUS
<1> USE WorkersAssumption
<1>1. TypeOK
  <2>1. 1 \in 1 .. Blocks /\ 1 \in 1 .. Sources + 1 /\ 0 \in 0 .. Sources
    OBVIOUS
  <2>2. QED
    BY <2>1 DEF Init, TypeOK
<1>2. Counting = {}
  BY DEF Init, Counting
<1>3. RowsAreCounted
  BY <1>2, FS_EmptySet DEF Init, RowsAreCounted
<1>4. QED
  BY <1>1, <1>3
     DEF Init, IInv, JobsAreHeld, OneWriter, RowsWereHandedOut, NoneIsLost,
         AnnouncedOnce, Source

(***************************************************************************)
(* The rows of a source are filled once, so the count of the workers and   *)
(* the rows grow together.                                                 *)
(***************************************************************************)
LEMMA FiniteRows ==
  ASSUME TypeOK
  PROVE  /\ IsFiniteSet(rows) /\ Cardinality(rows) \in Nat
         /\ IsFiniteSet(Counting) /\ Cardinality(Counting) \in Nat
         /\ Cardinality(rows) <= Sources
<1>1. IsFiniteSet(Source) /\ Cardinality(Source) = Sources
  BY FS_Interval, WorkersAssumption DEF Source
<1>2. IsFiniteSet(rows) /\ Cardinality(rows) <= Sources
  BY <1>1, FS_Subset DEF TypeOK
<1>3. IsFiniteSet(Counting)
  BY FS_Subset, WorkersAssumption DEF Counting
<1>4. QED
  BY <1>2, <1>3, FS_CardinalityType

LEMMA TakeSourceStep ==
  ASSUME IInv, NEW w \in Workers, TakeSource(w)
  PROVE  IInv'
<1> USE WorkersAssumption
<1>1. next \in 1 .. Sources
  BY DEF IInv, TypeOK, TakeSource, HandedOut
<1>2. CASE job' = [job EXCEPT ![w] = next] /\ step' = [step EXCEPT ![w] = "solve"]
  <2>1. TypeOK'
    BY <1>1, <1>2 DEF IInv, TypeOK, TakeSource
  <2>2. JobsAreHeld' /\ OneWriter' /\ RowsWereHandedOut' /\ NoneIsLost'
    BY <1>1, <1>2
       DEF IInv, TypeOK, TakeSource, JobsAreHeld, OneWriter,
           RowsWereHandedOut, NoneIsLost, Source
  <2>3. Counting' = Counting
    BY <1>2 DEF IInv, TypeOK, TakeSource, Counting
  <2>4. QED
    BY <2>1, <2>2, <2>3 DEF IInv, TakeSource, RowsAreCounted, AnnouncedOnce
<1>3. CASE SeesFailure /\ UNCHANGED <<job, step>>
  <2>1. TypeOK'
    BY <1>1, <1>3 DEF IInv, TypeOK, TakeSource
  <2>2. JobsAreHeld' /\ OneWriter' /\ RowsWereHandedOut' /\ NoneIsLost'
    BY <1>1, <1>3
       DEF IInv, TypeOK, TakeSource, SeesFailure, JobsAreHeld, OneWriter,
           RowsWereHandedOut, NoneIsLost, Source
  <2>3. Counting' = Counting
    BY <1>3 DEF Counting
  <2>4. QED
    BY <2>1, <2>2, <2>3 DEF IInv, TakeSource, RowsAreCounted, AnnouncedOnce
<1>4. QED
  BY <1>2, <1>3 DEF TakeSource

LEMMA FillRowsStep ==
  ASSUME IInv, NEW w \in Workers, FillRows(w)
  PROVE  IInv'
<1> USE WorkersAssumption
<1>1. job[w] \in Source /\ job[w] \notin rows
  BY DEF IInv, TypeOK, FillRows, JobsAreHeld, Source
<1>2. TypeOK'
  BY <1>1 DEF IInv, TypeOK, FillRows
<1>3. JobsAreHeld' /\ OneWriter' /\ RowsWereHandedOut' /\ NoneIsLost'
  BY <1>1
     DEF IInv, TypeOK, FillRows, JobsAreHeld, OneWriter, RowsWereHandedOut,
         NoneIsLost, Source
<1>4. Counting' = Counting \union {w} /\ w \notin Counting
  BY DEF IInv, TypeOK, FillRows, Counting
<1>5. Cardinality(Counting') = Cardinality(Counting) + 1
  BY <1>4, FiniteRows, FS_AddElement DEF IInv
<1>6. Cardinality(rows') = Cardinality(rows) + 1
  BY <1>1, FiniteRows, FS_AddElement DEF IInv, FillRows
<1>7. RowsAreCounted' /\ AnnouncedOnce'
  BY <1>5, <1>6, FiniteRows
     DEF IInv, TypeOK, FillRows, RowsAreCounted, AnnouncedOnce
<1>8. QED
  BY <1>2, <1>3, <1>7 DEF IInv

LEMMA CountSourceStep ==
  ASSUME IInv, NEW w \in Workers, CountSource(w)
  PROVE  IInv'
<1> USE WorkersAssumption
<1>1. w \in Counting /\ Counting' = Counting \ {w}
  BY DEF IInv, TypeOK, CountSource, Counting
<1>2. Cardinality(Counting') = Cardinality(Counting) - 1
  BY <1>1, FiniteRows, FS_RemoveElement DEF IInv
<1>3. Cardinality(Counting') \in Nat
  BY <1>1, FiniteRows, FS_RemoveElement, FS_CardinalityType DEF IInv
<1>4. completed + 1 <= Sources
  BY <1>2, <1>3, FiniteRows DEF IInv, TypeOK, RowsAreCounted
<1>5. TypeOK' /\ AnnouncedOnce'
  BY <1>4 DEF IInv, TypeOK, CountSource, AnnouncedOnce
<1>6. JobsAreHeld' /\ OneWriter' /\ RowsWereHandedOut' /\ NoneIsLost'
  BY DEF IInv, TypeOK, CountSource, JobsAreHeld, OneWriter,
         RowsWereHandedOut, NoneIsLost, Source
<1>7. RowsAreCounted'
  BY <1>2, FiniteRows DEF IInv, TypeOK, CountSource, RowsAreCounted
<1>8. QED
  BY <1>5, <1>6, <1>7 DEF IInv

LEMMA FailureStep ==
  ASSUME IInv, NEW w \in Workers, SolveFails(w) \/ ReportFailure(w)
  PROVE  IInv'
<1> USE WorkersAssumption
<1>1. Counting' = Counting
  BY DEF IInv, TypeOK, SolveFails, ReportFailure, FirstFailure, Counting
<1>2. CASE SolveFails(w)
  <2>1. TypeOK'
    BY <1>2 DEF IInv, TypeOK, SolveFails, FirstFailure
  <2>2. JobsAreHeld' /\ OneWriter' /\ RowsWereHandedOut' /\ NoneIsLost'
    BY <1>2
       DEF IInv, TypeOK, SolveFails, FirstFailure, JobsAreHeld, OneWriter,
           RowsWereHandedOut, NoneIsLost, Source
  <2>3. QED
    BY <1>1, <1>2, <2>1, <2>2
       DEF IInv, SolveFails, RowsAreCounted, AnnouncedOnce
<1>3. CASE ReportFailure(w)
  <2>1. TypeOK'
    BY <1>3 DEF IInv, TypeOK, ReportFailure
  <2>2. JobsAreHeld' /\ OneWriter' /\ RowsWereHandedOut' /\ NoneIsLost'
    BY <1>3
       DEF IInv, TypeOK, ReportFailure, JobsAreHeld, OneWriter,
           RowsWereHandedOut, NoneIsLost, Source
  <2>3. QED
    BY <1>1, <1>3, <2>1, <2>2
       DEF IInv, ReportFailure, RowsAreCounted, AnnouncedOnce
<1>4. QED
  BY <1>2, <1>3

(***************************************************************************)
(* When the workers are idle and no solve failed, every source has its     *)
(* rows and is counted.                                                    *)
(***************************************************************************)
LEMMA JoinedIsComplete ==
  ASSUME IInv, Joined, ~failed
  PROVE  rows = Source /\ completed = Sources
<1> USE WorkersAssumption
<1>1. rows = Source
  <2>1. \A s \in Source : s < next
    BY DEF IInv, TypeOK, Joined, HandedOut, Source
  <2>2. \A w \in Workers : step[w] # "solve"
    BY DEF Joined
  <2>3. Source \subseteq rows
    BY <2>1, <2>2 DEF IInv, NoneIsLost
  <2>4. QED
    BY <2>3 DEF IInv, TypeOK
<1>2. Counting = {}
  BY DEF Joined, Counting
<1>3. Cardinality(rows) = Sources
  BY <1>1, FS_Interval DEF Source
<1>4. completed = Sources
  BY <1>2, <1>3, FS_EmptySet DEF IInv, TypeOK, RowsAreCounted
<1>5. QED
  BY <1>1, <1>4

LEMMA WriteTablesStep ==
  ASSUME IInv, WriteTables
  PROVE  IInv'
<1> USE WorkersAssumption
<1>1. TypeOK'
  <2>1. TypeOK
    BY DEF IInv
  <2>2. tables' \subseteq 1 .. Blocks
    BY <2>1 DEF TypeOK, WriteTables
  <2>3. CASE block < Blocks
    <3>1. /\ block' \in 1 .. Blocks /\ 1 \in 1 .. Sources + 1
          /\ 0 \in 0 .. Sources
      BY <2>1, <2>3 DEF TypeOK, WriteTables
    <3>2. QED
      BY <2>1, <2>2, <2>3, <3>1 DEF TypeOK, WriteTables
  <2>4. CASE ~(block < Blocks)
    BY <2>1, <2>2, <2>4 DEF TypeOK, WriteTables
  <2>5. QED
    BY <2>3, <2>4
<1>2. \A w \in Workers : step[w] = "idle" /\ job[w] = 0
  BY DEF IInv, WriteTables, Joined, JobsAreHeld
<1>3. Counting = {} /\ Counting' = {}
  BY <1>2 DEF WriteTables, Counting
<1>4. CASE block < Blocks
  <2>1. JobsAreHeld' /\ OneWriter' /\ RowsWereHandedOut' /\ NoneIsLost'
    BY <1>2, <1>4
       DEF IInv, TypeOK, WriteTables, JobsAreHeld, OneWriter,
           RowsWereHandedOut, NoneIsLost, Source
  <2>2. RowsAreCounted' /\ AnnouncedOnce'
    BY <1>3, <1>4, FS_EmptySet
       DEF WriteTables, RowsAreCounted, AnnouncedOnce
  <2>3. QED
    BY <1>1, <2>1, <2>2 DEF IInv
<1>5. CASE ~(block < Blocks)
  BY <1>1, <1>3, <1>5
     DEF IInv, WriteTables, JobsAreHeld, OneWriter, RowsWereHandedOut,
         NoneIsLost, RowsAreCounted, AnnouncedOnce
<1>6. QED
  BY <1>4, <1>5

(***************************************************************************)
(* The steps that only end the program, and stuttering.                    *)
(***************************************************************************)
LEMMA EndStep ==
  ASSUME IInv,
         RejectBlock \/ Throw \/ RefuseTables \/ UNCHANGED vars
  PROVE  IInv'
<1>1. /\ UNCHANGED <<block, next, job, step, rows, completed, announced,
                     failed, message, tables>>
      /\ status' \in {status, "thrown"}
  BY DEF RejectBlock, Throw, RefuseTables, vars
<1>2. Counting' = Counting
  BY <1>1 DEF Counting
<1>3. TypeOK'
  BY <1>1 DEF IInv, TypeOK
<1>4. QED
  BY <1>1, <1>2, <1>3
     DEF IInv, JobsAreHeld, OneWriter, RowsWereHandedOut, NoneIsLost,
         RowsAreCounted, AnnouncedOnce

LEMMA NextIInv == IInv /\ [Next]_vars => IInv'
<1> SUFFICES ASSUME IInv, [Next]_vars PROVE IInv'
  OBVIOUS
<1>1. \/ \E w \in Workers :
            \/ TakeSource(w) \/ FillRows(w) \/ CountSource(w)
            \/ SolveFails(w) \/ ReportFailure(w)
      \/ RejectBlock \/ Throw \/ RefuseTables \/ UNCHANGED vars
      \/ WriteTables
  BY DEF Next, Ended
<1>2. QED
  BY <1>1, TakeSourceStep, FillRowsStep, CountSourceStep, FailureStep,
     WriteTablesStep, EndStep

LEMMA Invariance == Spec => []IInv
<1>1. QED
  BY InitIInv, NextIInv, PTL DEF Spec

(***************************************************************************)
(* Every variable keeps its type: no index runs past the last source, no   *)
(* count past their number.                                                *)
(***************************************************************************)
THEOREM TypeCorrect == Spec => []TypeOK
<1>1. IInv => TypeOK
  BY DEF IInv
<1>2. QED
  BY <1>1, Invariance, PTL

(***************************************************************************)
(* No table is written with the rows of a source left at zero, whichever   *)
(* sources fail and however the workers interleave.                        *)
(***************************************************************************)
THEOREM TablesAreComplete == Spec => WrittenTablesAreComplete
<1>1. IInv /\ [Next]_vars
        => [tables' # tables => rows = Source /\ completed = Sources]_vars
  <2> SUFFICES ASSUME IInv, [Next]_vars, tables' # tables
      PROVE  rows = Source /\ completed = Sources
    OBVIOUS
  <2>1. WriteTables
    BY DEF Next, Ended, vars, TakeSource, FillRows, CountSource, SolveFails,
           ReportFailure, RejectBlock, Throw, RefuseTables
  <2>2. QED
    BY <2>1, JoinedIsComplete DEF WriteTables
<1>2. QED
  BY <1>1, Invariance, PTL DEF Spec, WrittenTablesAreComplete
=============================================================================
