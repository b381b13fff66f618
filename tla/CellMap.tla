------------------------------- MODULE CellMap -------------------------------
(***************************************************************************)
(* What a SEP map (SEFILESYSTEM/src/sesi_map.cpp) promises its user: a     *)
(* list of trace indexes for each cell of a survey, of which a copy is in  *)
(* the file.  Without a cache an update is in the file when it returns.    *)
(* With a cache it is there when the cell has been written back, at the    *)
(* latest when the map is closed; a program that dies first loses what     *)
(* was not written back, cell by cell, and nothing else.                   *)
(*                                                                         *)
(* No promise is made when the program dies while it writes without a      *)
(* cache, or while a compacted file is copied over the old one.            *)
(***************************************************************************)
EXTENDS Integers, Sequences

CONSTANTS
  Cells,
  Batches  \* the lists of indexes one call adds or sets

VARIABLES
  map,     \* the list of each cell, as a reader of the open map sees it
  saved,   \* the list of each cell in the file
  answer,  \* what the last call returned
  cached,
  status   \* "open", "compacting", "closed" or "damaged"

vars == <<map, saved, answer, cached, status>>

NoAnswer == [fold |-> -1, indexes |-> << >>]

Init ==
  /\ map = [c \in Cells |-> << >>]
  /\ saved = map
  /\ answer = NoAnswer
  /\ cached = FALSE
  /\ status = "open"

\* Add the batch to the list of the cell, or put it in the place of the list.
Update(c, batch, append) ==
  /\ status = "open"
  /\ map' = [map EXCEPT ![c] = IF append THEN @ \o batch ELSE batch]
  /\ saved' = IF cached THEN saved ELSE map'
  /\ answer' = NoAnswer
  /\ UNCHANGED <<cached, status>>

Read(c) ==
  /\ status = "open"
  /\ answer' = [fold |-> Len(map[c]), indexes |-> map[c]]
  /\ UNCHANGED <<map, saved, cached, status>>

Count(c) ==
  /\ status = "open"
  /\ answer' = [fold |-> Len(map[c]), indexes |-> << >>]
  /\ UNCHANGED <<map, saved, cached, status>>

Forget ==
  /\ answer' = NoAnswer
  /\ UNCHANGED <<map, saved, cached, status>>

WriteBack(c) ==
  /\ status = "open"
  /\ saved' = [saved EXCEPT ![c] = map[c]]
  /\ UNCHANGED <<map, answer, cached, status>>

SetCache ==
  /\ status = "open" /\ saved = map
  /\ cached' = TRUE /\ answer' = NoAnswer
  /\ UNCHANGED <<map, saved, status>>

BeginCompact ==
  /\ status = "open"
  /\ status' = "compacting" /\ answer' = NoAnswer
  /\ UNCHANGED <<map, saved, cached>>

EndCompact ==
  /\ status = "compacting"
  /\ status' = "open" /\ saved' = map
  /\ UNCHANGED <<map, answer, cached>>

Close ==
  /\ status = "open" /\ saved = map
  /\ status' = "closed" /\ cached' = FALSE /\ answer' = NoAnswer
  /\ UNCHANGED <<map, saved>>

Open ==
  /\ status = "closed"
  /\ status' = "open"
  /\ UNCHANGED <<map, saved, answer, cached>>

\* The program dies: what was not written back is lost.
Crash ==
  /\ status = "open"
  /\ status' = "closed" /\ map' = saved
  /\ cached' = FALSE /\ answer' = NoAnswer
  /\ UNCHANGED saved

Damage ==
  /\ status = "compacting" \/ (status = "open" /\ ~cached)
  /\ status' = "damaged" /\ map' = saved
  /\ cached' = FALSE /\ answer' = NoAnswer
  /\ UNCHANGED saved

Next ==
  \/ \E c \in Cells :
       \/ \E batch \in Batches, append \in BOOLEAN : Update(c, batch, append)
       \/ Read(c) \/ Count(c)
       \/ WriteBack(c)
  \/ Forget
  \/ SetCache \/ BeginCompact \/ EndCompact
  \/ Close \/ Open \/ Crash \/ Damage

Spec == Init /\ [][Next]_vars
=============================================================================
