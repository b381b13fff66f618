---------------------------- MODULE SesiMapProofs ----------------------------
(***************************************************************************)
(* Proofs about the map of SesiMap for any number of cells, any batches,   *)
(* any grow_by and any limit of the cache.                                 *)
(***************************************************************************)
EXTENDS SesiMapProperties, SequenceTheorems, TLAPS

USE SizesAssumption

(***************************************************************************)
(* Numbers and sequences.                                                  *)
(***************************************************************************)
LEMMA MaxOfTwo ==
  ASSUME NEW a \in Int, NEW b \in Int
  PROVE  Max({a, b}) = IF a >= b THEN a ELSE b
<1>1. \A x : x \in {a, b} /\ (\A y \in {a, b} : x >= y)
               <=> x = (IF a >= b THEN a ELSE b)
  OBVIOUS
<1>2. Max({a, b}) \in {a, b} /\ \A y \in {a, b} : Max({a, b}) >= y
  BY <1>1 DEF Max
<1>3. QED
  BY <1>1, <1>2

\* The indexes of a list are the words before its last one.
LEMMA FrontOfList ==
  ASSUME NEW s \in Seq(Int), s # << >>
  PROVE  /\ Front(s) \in Seq(Int) /\ Len(Front(s)) = Len(s) - 1
         /\ \A i \in 1 .. Len(s) - 1 : Front(s)[i] = s[i]
         /\ Last(s) = s[Len(s)] /\ Last(s) \in Int
<1>1. PICK n \in Nat : n = Len(s) - 1
  OBVIOUS
<1>2. \A i \in 1 .. n + 1 : s[i] \in Int
  BY <1>1
<1> DEFINE f == SubSeq(s, 1, n)
<1>3. /\ f \in Seq(Int)
      /\ Len(f) = IF 1 <= n THEN n - 1 + 1 ELSE 0
      /\ \A i \in 1 .. n - 1 + 1 : f[i] = s[1 + i - 1]
  BY <1>1, <1>2, SubSeqProperties
<1> HIDE DEF f
<1>4. Len(f) = n /\ \A i \in 1 .. n : f[i] = s[i]
  BY <1>1, <1>3
<1>5. Front(s) = f /\ Last(s) = s[n + 1] /\ Last(s) \in Int
  BY <1>1, <1>2 DEF Front, Last, f
<1>6. QED
  BY <1>1, <1>3, <1>4, <1>5

LEMMA FrontOfAppend ==
  ASSUME NEW s \in Seq(Int), NEW n \in Int
  PROVE  Front(Append(s, n)) = s /\ Last(Append(s, n)) = n
<1>1. /\ Append(s, n) \in Seq(Int) /\ Append(s, n) # << >>
      /\ Len(Append(s, n)) = Len(s) + 1
      /\ \A i \in 1 .. Len(s) : Append(s, n)[i] = s[i]
      /\ Append(s, n)[Len(s) + 1] = n
  BY AppendProperties
<1>2. /\ Front(Append(s, n)) \in Seq(Int)
      /\ Len(Front(Append(s, n))) = Len(s)
      /\ \A i \in 1 .. Len(s) : Front(Append(s, n))[i] = Append(s, n)[i]
      /\ Last(Append(s, n)) = Append(s, n)[Len(s) + 1]
  <2>1. Len(s) \in Nat
    OBVIOUS
  <2>2. Len(Append(s, n)) - 1 = Len(s)
    BY <1>1, <2>1
  <2>3. QED
    BY <1>1, <2>2, FrontOfList
<1>3. QED
  BY <1>1, <1>2, SeqEqual

\* The size of a block may be put in the place of the last word.
LEMMA FrontOfResized ==
  ASSUME NEW s \in Seq(Int), s # << >>, NEW n \in Int
  PROVE  LET t == [s EXCEPT ![Len(s)] = n]
         IN  /\ t \in Seq(Int) /\ Len(t) = Len(s) /\ t # << >>
             /\ t[Len(s)] = n /\ Front(t) = Front(s)
<1> DEFINE t == [s EXCEPT ![Len(s)] = n]
<1>1. Len(s) \in 1 .. Len(s)
  OBVIOUS
<1>2. /\ t \in Seq(Int) /\ Len(t) = Len(s)
      /\ \A i \in 1 .. Len(s) : t[i] = IF i = Len(s) THEN n ELSE s[i]
  BY <1>1, ExceptSeq
<1> HIDE DEF t
<1>3. t # << >> /\ t[Len(s)] = n
  BY <1>1, <1>2
<1>4. Front(t) = Front(s)
  <2>1. \A i \in 1 .. Len(s) - 1 : t[i] = s[i]
    BY <1>2
  <2>2. /\ Front(t) \in Seq(Int) /\ Len(Front(t)) = Len(s) - 1
        /\ \A i \in 1 .. Len(s) - 1 : Front(t)[i] = t[i]
    BY <1>2, <1>3, FrontOfList
  <2>3. /\ Front(s) \in Seq(Int) /\ Len(Front(s)) = Len(s) - 1
        /\ \A i \in 1 .. Len(s) - 1 : Front(s)[i] = s[i]
    BY FrontOfList
  <2>4. QED
    BY <2>1, <2>2, <2>3, SeqEqual
<1>5. QED
  BY <1>2, <1>3, <1>4 DEF t

\* The cache: a cell appended that is not in it, and the oldest taken out.
LEMMA AppendToOrder ==
  ASSUME NEW S, NEW s \in Seq(S), NEW c \in S, c \notin Range(s), IsInjective(s)
  PROVE  LET t == Append(s, c)
         IN  /\ t \in Seq(S) /\ t # << >> /\ IsInjective(t)
             /\ Range(t) = Range(s) \union {c} /\ Last(t) = c
<1> DEFINE t == Append(s, c)
<1>1. /\ t \in Seq(S) /\ t # << >> /\ Len(t) = Len(s) + 1
      /\ \A i \in 1 .. Len(s) : t[i] = s[i]
      /\ t[Len(s) + 1] = c
  BY AppendProperties
<1>2. Len(s) \in Nat /\ DOMAIN s = 1 .. Len(s) /\ DOMAIN t = 1 .. Len(s) + 1
  BY <1>1
<1> HIDE DEF t
<1>3. \A i \in 1 .. Len(s) : s[i] # c
  BY <1>2 DEF Range
<1>4. IsInjective(t)
  BY <1>1, <1>2, <1>3 DEF IsInjective
<1>5. Range(t) = Range(s) \union {c}
  <2>1. \A x \in Range(s) : x \in Range(t)
    BY <1>1, <1>2 DEF Range
  <2>2. c \in Range(t)
    BY <1>1, <1>2 DEF Range
  <2>3. \A x \in Range(t) : x = c \/ x \in Range(s)
    BY <1>1, <1>2 DEF Range
  <2>4. QED
    BY <2>1, <2>2, <2>3
<1>6. Last(t) = c
  BY <1>1, <1>2 DEF Last
<1>7. QED
  BY <1>1, <1>4, <1>5, <1>6 DEF t

LEMMA TailOfOrder ==
  ASSUME NEW S, NEW s \in Seq(S), s # << >>, IsInjective(s)
  PROVE  /\ Tail(s) \in Seq(S) /\ IsInjective(Tail(s))
         /\ Head(s) \in Range(s)
         /\ Range(Tail(s)) = Range(s) \ {Head(s)}
         /\ Head(s) # Last(s) => Tail(s) # << >> /\ Last(Tail(s)) = Last(s)
<1> DEFINE t == Tail(s)
<1>1. /\ t \in Seq(S) /\ Len(t) = Len(s) - 1
      /\ \A i \in 1 .. Len(t) : t[i] = s[i + 1]
  BY HeadTailProperties
<1>2. /\ Len(s) \in Nat \ {0} /\ DOMAIN s = 1 .. Len(s) /\ Head(s) = s[1]
      /\ DOMAIN t = 1 .. Len(s) - 1
  BY <1>1
<1> HIDE DEF t
<1>3. IsInjective(t)
  BY <1>1, <1>2 DEF IsInjective
<1>4. Head(s) \in Range(s)
  BY <1>2 DEF Range
<1>5. Range(t) = Range(s) \ {Head(s)}
  <2>1. \A x \in Range(t) : x \in Range(s) /\ x # Head(s)
    BY <1>1, <1>2 DEF Range, IsInjective
  <2>2. ASSUME NEW x \in Range(s), x # Head(s)
        PROVE  x \in Range(t)
    <3>1. PICK i \in 1 .. Len(s) : s[i] = x
      BY <1>2 DEF Range
    <3>2. i # 1 /\ i - 1 \in 1 .. Len(s) - 1
      BY <1>2, <2>2, <3>1
    <3>3. t[i - 1] = s[i]
      BY <1>1, <1>2, <3>2
    <3>4. QED
      BY <1>2, <3>1, <3>2, <3>3 DEF Range
  <2>3. QED
    BY <2>1, <2>2
<1>6. ASSUME Head(s) # Last(s) PROVE t # << >> /\ Last(t) = Last(s)
  <2>1. Len(s) # 1
    BY <1>2, <1>6 DEF Last
  <2>2. Len(t) \in 1 .. Len(t) /\ Len(t) + 1 = Len(s)
    BY <1>1, <1>2, <2>1
  <2>3. QED
    BY <1>1, <1>2, <2>2 DEF Last
<1>7. QED
  BY <1>1, <1>3, <1>4, <1>5, <1>6 DEF t

(***************************************************************************)
(* Words of a file.                                                        *)
(***************************************************************************)
LEMMA WordType ==
  ASSUME NEW file, NEW end, File(file, end), NEW o
  PROVE  Word(file, o) \in Int
BY DEF File, Word

LEMMA ListAtType ==
  ASSUME NEW file, NEW end, File(file, end), NEW c \in MapCell
  PROVE  LET list == ListAt(file, c)
         IN  /\ list \in Seq(Int) /\ Len(list) = c.fold + 1 /\ list # << >>
             /\ \A i \in 1 .. c.fold + 1 : list[i] = Word(file, c.off + i - 1)
             /\ Last(list) = BlockSizeAt(file, c)
             /\ Front(list) \in Seq(Int) /\ Len(Front(list)) = c.fold
             /\ \A i \in 1 .. c.fold : Front(list)[i] = Word(file, c.off + i - 1)
<1>1. PICK n \in Nat : n = c.fold
  BY DEF MapCell, CellType
<1>2. c.off \in Nat
  BY DEF MapCell, CellType
<1> DEFINE list == ListAt(file, c)
<1>3. list = [i \in 1 .. n + 1 |-> Word(file, c.off + i - 1)]
  BY <1>1 DEF ListAt
<1> HIDE DEF list
<1>4. \A i \in 1 .. n + 1 : Word(file, c.off + i - 1) \in Int
  BY WordType
<1>5. list \in Seq(Int) /\ Len(list) = n + 1 /\ list # << >>
  <2>1. list \in [1 .. n + 1 -> Int]
    BY <1>3, <1>4
  <2>2. list \in Seq(Int)
    BY <2>1, SeqDef
  <2>3. Len(list) = n + 1
    BY <2>1, <2>2
  <2>4. QED
    BY <2>2, <2>3
<1>6. \A i \in 1 .. n + 1 : list[i] = Word(file, c.off + i - 1)
  BY <1>3
<1>7. /\ Front(list) \in Seq(Int) /\ Len(Front(list)) = n
      /\ \A i \in 1 .. n : Front(list)[i] = list[i]
      /\ Last(list) = list[n + 1]
  <2>1. Len(list) - 1 = n
    BY <1>5
  <2>2. QED
    BY <1>5, <2>1, FrontOfList
<1>8. Last(list) = BlockSizeAt(file, c)
  <2>1. c.off + (n + 1) - 1 = c.off + n
    BY <1>2
  <2>2. list[n + 1] = Word(file, c.off + (n + 1) - 1)
    BY <1>6
  <2>3. BlockSizeAt(file, c) = Word(file, c.off + n)
    BY <1>1 DEF BlockSizeAt
  <2>4. QED
    BY <1>7, <2>1, <2>2, <2>3
<1>9. \A i \in 1 .. n : Front(list)[i] = Word(file, c.off + i - 1)
  BY <1>6, <1>7
<1>10. QED
  BY <1>1, <1>5, <1>6, <1>7, <1>8, <1>9 DEF list

LEMMA StoredType ==
  ASSUME NEW file, NEW end, File(file, end), NEW c \in MapCell
  PROVE  Stored(file, c) \in Seq(Int) /\ Len(Stored(file, c)) = c.fold
<1>1. c.fold < 3 => c.idx \in Seq(Int) /\ Len(c.idx) = c.fold
  BY DEF MapCell, CellType, Consistent
<1>2. Front(ListAt(file, c)) \in Seq(Int) /\ Len(Front(ListAt(file, c))) = c.fold
  BY ListAtType
<1>3. QED
  BY <1>1, <1>2 DEF Stored

\* A list whose words are the same in two files is the same in both.
LEMMA ListKept ==
  ASSUME NEW file, NEW end, File(file, end),
         NEW later, NEW end2, File(later, end2), NEW c \in MapCell,
         \A o \in c.off .. c.off + c.fold : Word(later, o) = Word(file, o)
  PROVE  /\ ListAt(later, c) = ListAt(file, c)
         /\ BlockSizeAt(later, c) = BlockSizeAt(file, c)
         /\ Stored(later, c) = Stored(file, c)
<1>1. c.fold \in Nat /\ c.off \in Nat
  BY DEF MapCell, CellType
<1>2. \A i \in 1 .. c.fold + 1 :
        Word(later, c.off + i - 1) = Word(file, c.off + i - 1)
  BY <1>1
<1>3. ListAt(later, c) = ListAt(file, c)
  BY <1>2 DEF ListAt
<1>4. BlockSizeAt(later, c) = BlockSizeAt(file, c)
  BY <1>1 DEF BlockSizeAt
<1>5. QED
  BY <1>3, <1>4 DEF Stored

\* A list written into a file.
LEMMA WrittenWords ==
  ASSUME NEW file, NEW end, File(file, end), NEW list \in Seq(Int),
         NEW off \in Nat, off >= ListArea,
         NEW end2 \in Nat, off + Len(list) <= end2, end <= end2
  PROVE  /\ File(Written(file, list, off), end2)
         /\ \A o \in Int : Word(Written(file, list, off), o) =
              IF o \in off .. off + Len(list) - 1 THEN list[o - off + 1]
              ELSE Word(file, o)
<1> DEFINE place == off .. off + Len(list) - 1
           new == Written(file, list, off)
<1>1. /\ DOMAIN new = place \union DOMAIN file
      /\ \A o \in place \union DOMAIN file :
           new[o] = IF o \in place THEN list[o - off + 1] ELSE file[o]
  BY DEF Written
<1> HIDE DEF new
<1>2. Len(list) \in Nat /\ ListArea \in Nat
  BY DEF ListArea
<1>3. \A o \in place : o - off + 1 \in 1 .. Len(list)
  BY <1>2
<1>4. \A i \in 1 .. Len(list) : list[i] \in Int
  BY <1>2
<1>5. \A o \in DOMAIN new : new[o] \in Int
  BY <1>1, <1>3, <1>4 DEF File
<1>6. DOMAIN new \subseteq ListArea .. end2 - 1
  <2>1. place \subseteq ListArea .. end2 - 1
    BY <1>2
  <2>2. DOMAIN file \subseteq ListArea .. end2 - 1
    BY <1>2 DEF File
  <2>3. QED
    BY <1>1, <2>1, <2>2
<1>7. File(new, end2)
  BY <1>2, <1>5, <1>6 DEF File
<1>8. ASSUME NEW o \in Int
      PROVE  Word(new, o) = IF o \in place THEN list[o - off + 1]
                            ELSE Word(file, o)
  BY <1>1 DEF Word
<1>9. QED
  BY <1>7, <1>8 DEF new

\* The list just written is the one at that offset.
LEMMA ListWritten ==
  ASSUME NEW file, NEW end, File(file, end), NEW list \in Seq(Int),
         NEW c \in MapCell, c.off >= ListArea, Len(list) = c.fold + 1,
         NEW end2 \in Nat, c.off + c.fold < end2, end <= end2
  PROVE  ListAt(Written(file, list, c.off), c) = list
<1>1. PICK off \in Nat, n \in Nat : off = c.off /\ n = c.fold
  BY DEF MapCell, CellType
<1> DEFINE new == Written(file, list, off)
<1>2. off + Len(list) <= end2 /\ off >= ListArea /\ Len(list) = n + 1
  BY <1>1 DEF ListArea
<1>3. /\ File(new, end2)
      /\ \A o \in Int : Word(new, o) =
           IF o \in off .. off + Len(list) - 1 THEN list[o - off + 1]
           ELSE Word(file, o)
  BY <1>2, WrittenWords
<1> HIDE DEF new
<1>4. /\ ListAt(new, c) \in Seq(Int) /\ Len(ListAt(new, c)) = Len(list)
      /\ \A i \in 1 .. n + 1 : ListAt(new, c)[i] = Word(new, off + i - 1)
  BY <1>1, <1>3, ListAtType
<1>5. ASSUME NEW i \in 1 .. Len(list) PROVE ListAt(new, c)[i] = list[i]
  <2>1. /\ off + i - 1 \in off .. off + Len(list) - 1
        /\ off + i - 1 \in Int /\ (off + i - 1) - off + 1 = i
    BY <1>2
  <2>2. Word(new, off + i - 1) = list[i]
    BY <1>3, <2>1
  <2>3. QED
    BY <1>2, <1>4, <2>2
<1>6. ListAt(new, c) = list
  BY <1>4, <1>5, SeqEqual
<1>7. QED
  BY <1>1, <1>6 DEF new

(***************************************************************************)
(* Blocks of a file.                                                       *)
(***************************************************************************)
LEMMA BlockSizeType ==
  ASSUME NEW file, NEW end, File(file, end), NEW c \in MapCell
  PROVE  /\ BlockSizeAt(file, c) \in Int /\ c.off \in Nat /\ c.fold \in Nat
         /\ BlockEnd(file, c) = c.off + BlockSizeAt(file, c)
BY WordType DEF MapCell, CellType, BlockSizeAt, BlockEnd

\* What a write above the block of a cell or below it leaves alone.
LEMMA BlockKept ==
  ASSUME NEW file, NEW end, File(file, end), NEW list \in Seq(Int),
         NEW off \in Nat, off >= ListArea,
         NEW end2 \in Nat, off + Len(list) <= end2, end <= end2,
         NEW c \in MapCell, c.fold > 2 => BlockFits(file, end, c),
         c.fold > 2 => BlockEnd(file, c) < off \/ c.off >= off + Len(list)
  PROVE  LET new == Written(file, list, off)
         IN  /\ Stored(new, c) = Stored(file, c)
             /\ c.fold > 2 => /\ BlockSizeAt(new, c) = BlockSizeAt(file, c)
                              /\ BlockEnd(new, c) = BlockEnd(file, c)
                              /\ ListAt(new, c) = ListAt(file, c)
             /\ BlockFits(new, end2, c)
<1> DEFINE new == Written(file, list, off)
<1>1. /\ File(new, end2)
      /\ \A o \in Int : Word(new, o) =
           IF o \in off .. off + Len(list) - 1 THEN list[o - off + 1]
           ELSE Word(file, o)
  BY WrittenWords
<1> HIDE DEF new
<1>2. /\ BlockSizeAt(file, c) \in Int /\ c.off \in Nat /\ c.fold \in Nat
      /\ BlockEnd(file, c) = c.off + BlockSizeAt(file, c)
  BY BlockSizeType
<1>3. BlockSizeAt(new, c) \in Int /\ BlockEnd(new, c) = c.off + BlockSizeAt(new, c)
  BY <1>1, BlockSizeType
<1>4. CASE c.fold < 3
  BY <1>2, <1>4 DEF new, Stored, BlockFits
<1>5. CASE c.fold > 2
  <2>1. /\ BlockSizeAt(file, c) >= c.fold /\ BlockEnd(file, c) < end
        /\ c.off >= ListArea
    BY <1>5 DEF BlockFits
  <2>2. ASSUME NEW o \in c.off .. c.off + c.fold
        PROVE  Word(new, o) = Word(file, o)
    <3>1. o \in Int /\ o \notin off .. off + Len(list) - 1
      BY <1>2, <1>5, <2>1
    <3>2. QED
      BY <1>1, <3>1
  <2>3. /\ ListAt(new, c) = ListAt(file, c)
        /\ BlockSizeAt(new, c) = BlockSizeAt(file, c)
        /\ Stored(new, c) = Stored(file, c)
    BY <1>1, <2>2, ListKept
  <2>4. BlockEnd(new, c) = BlockEnd(file, c)
    BY <1>2, <1>3, <2>3
  <2>5. BlockEnd(new, c) < end2
    <3>1. end \in Nat
      BY DEF File
    <3>2. QED
      BY <1>2, <2>1, <2>4, <3>1
  <2>6. BlockFits(new, end2, c)
    BY <2>1, <2>3, <2>5 DEF BlockFits
  <2>7. QED
    BY <2>3, <2>4, <2>6 DEF new
<1>6. QED
  BY <1>2, <1>4, <1>5

\* A list put in a new block at the end of the file.
LEMMA BlockAppended ==
  ASSUME NEW file, NEW end, File(file, end),
         NEW cells \in [Cells -> MapCell], Fit(file, end, cells),
         NEW list \in Seq(Int), NEW c \in MapCell, c.fold > 2, c.off = end,
         Len(list) = c.fold + 1, Last(list) >= c.fold,
         NEW end2 \in Nat, end + Last(list) < end2
  PROVE  LET new == Written(file, list, end)
         IN  /\ File(new, end2) /\ Fit(new, end2, cells)
             /\ ListAt(new, c) = list /\ BlockFits(new, end2, c)
             /\ \A d \in Cells : /\ Apart(new, c, cells[d])
                                 /\ Stored(new, cells[d]) = Stored(file, cells[d])
<1> DEFINE new == Written(file, list, end)
<1>1. end \in Nat /\ ListArea <= end /\ ListArea \in Nat
  BY DEF File, ListArea
<1>2. c.fold \in Nat /\ list # << >> /\ Last(list) \in Int
  <2>1. c.fold \in Nat
    BY DEF MapCell, CellType
  <2>2. list # << >>
    BY <2>1
  <2>3. QED
    BY <2>1, <2>2, FrontOfList
<1>3. end + Len(list) <= end2 /\ end <= end2
  BY <1>1, <1>2
<1>4. File(new, end2)
  BY <1>1, <1>3, WrittenWords
<1>5. ListAt(new, c) = list
  <2>1. c.off >= ListArea /\ c.off + c.fold < end2
    BY <1>1, <1>2
  <2>2. ListAt(Written(file, list, c.off), c) = list
    BY <1>3, <2>1, ListWritten
  <2>3. QED
    BY <2>2
<1>6. BlockSizeAt(new, c) = Last(list)
  BY <1>4, <1>5, ListAtType
<1>7. BlockFits(new, end2, c)
  BY <1>1, <1>2, <1>6 DEF BlockFits, BlockEnd
<1>8. ASSUME NEW d \in Cells
      PROVE  /\ Stored(new, cells[d]) = Stored(file, cells[d])
             /\ cells[d].fold > 2 => BlockEnd(new, cells[d]) = BlockEnd(file, cells[d])
             /\ BlockFits(new, end2, cells[d])
             /\ Apart(new, c, cells[d])
  <2>1. cells[d] \in MapCell /\ BlockFits(file, end, cells[d])
    BY DEF Fit
  <2>2. cells[d].fold > 2 => BlockEnd(file, cells[d]) < end
    BY <2>1 DEF BlockFits
  <2>3. /\ Stored(new, cells[d]) = Stored(file, cells[d])
        /\ cells[d].fold > 2 => BlockEnd(new, cells[d]) = BlockEnd(file, cells[d])
        /\ BlockFits(new, end2, cells[d])
    BY <1>1, <1>3, <2>1, <2>2, BlockKept
  <2>4. Apart(new, c, cells[d])
    BY <2>2, <2>3 DEF Apart
  <2>5. QED
    BY <2>3, <2>4
<1>9. Fit(new, end2, cells)
  <2>1. ASSUME NEW d \in Cells, NEW e \in Cells, d # e
        PROVE  Apart(new, cells[d], cells[e])
    BY <1>8, <2>1 DEF Fit, Apart
  <2>2. QED
    BY <1>8, <2>1 DEF Fit
<1>10. QED
  BY <1>4, <1>5, <1>7, <1>8, <1>9

\* A cell turned to another block that no other cell uses.
LEMMA CellReplaced ==
  ASSUME NEW file, NEW end, NEW cells \in [Cells -> MapCell],
         Fit(file, end, cells), NEW l \in Cells, NEW c \in MapCell,
         BlockFits(file, end, c),
         \A d \in Cells \ {l} : Apart(file, c, cells[d])
  PROVE  /\ [cells EXCEPT ![l] = c] \in [Cells -> MapCell]
         /\ Fit(file, end, [cells EXCEPT ![l] = c])
<1> DEFINE new == [cells EXCEPT ![l] = c]
<1>1. /\ new \in [Cells -> MapCell] /\ new[l] = c
      /\ \A d \in Cells \ {l} : new[d] = cells[d]
  OBVIOUS
<1> HIDE DEF new
<1>2. \A d \in Cells : BlockFits(file, end, new[d])
  BY <1>1 DEF Fit
<1>3. ASSUME NEW d \in Cells, NEW e \in Cells, d # e
      PROVE  Apart(file, new[d], new[e])
  <2>1. CASE d = l
    BY <1>1, <1>3, <2>1
  <2>2. CASE e = l
    <3>1. Apart(file, c, cells[d])
      BY <1>3, <2>2
    <3>2. Apart(file, cells[d], c)
      BY <3>1 DEF Apart
    <3>3. QED
      BY <1>1, <1>3, <2>2, <3>2
  <2>3. CASE d # l /\ e # l
    BY <1>1, <1>3, <2>3 DEF Fit
  <2>4. QED
    BY <2>1, <2>2, <2>3
<1>4. Fit(file, end, new)
  BY <1>2, <1>3 DEF Fit
<1>5. QED
  BY <1>1, <1>4 DEF new

\* A list rewritten in the block of its cell leaves the others alone.
LEMMA OthersKept ==
  ASSUME NEW file, NEW end, File(file, end),
         NEW cells \in [Cells -> MapCell], Fit(file, end, cells),
         NEW l \in Cells, cells[l].fold > 2,
         NEW c \in MapCell, c.fold > 2, c.off = cells[l].off,
         NEW list \in Seq(Int), Len(list) = c.fold + 1,
         Last(list) = BlockSizeAt(file, cells[l]), Last(list) >= c.fold
  PROVE  \A d \in Cells : d # l =>
           LET new == Written(file, list, c.off)
           IN  /\ Stored(new, cells[d]) = Stored(file, cells[d])
               /\ cells[d].fold > 2 =>
                    /\ BlockEnd(new, cells[d]) = BlockEnd(file, cells[d])
                    /\ \/ c.off + Last(list) < cells[d].off
                       \/ BlockEnd(file, cells[d]) < c.off
               /\ BlockFits(new, end, cells[d])
<1> DEFINE new == Written(file, list, c.off)
<1>1. end \in Nat /\ c.off \in Nat /\ c.fold \in Nat
  BY DEF File, MapCell, CellType
<1>2. /\ cells[l] \in MapCell /\ BlockFits(file, end, cells[l])
      /\ Last(list) \in Int
      /\ BlockEnd(file, cells[l]) = c.off + Last(list)
  BY BlockSizeType DEF Fit
<1>3. c.off >= ListArea /\ c.off + Last(list) < end
  BY <1>2 DEF BlockFits
<1>4. c.off + Len(list) <= end /\ c.off + c.fold < end /\ end <= end
  BY <1>1, <1>2, <1>3
<1>5. ASSUME NEW d \in Cells \ {l}
      PROVE  /\ Stored(new, cells[d]) = Stored(file, cells[d])
             /\ cells[d].fold > 2 => BlockEnd(new, cells[d]) = BlockEnd(file, cells[d])
             /\ BlockFits(new, end, cells[d])
             /\ cells[d].fold > 2 => \/ c.off + Last(list) < cells[d].off
                                     \/ BlockEnd(file, cells[d]) < c.off
  <2>1. /\ cells[d] \in MapCell /\ BlockFits(file, end, cells[d])
        /\ Apart(file, cells[l], cells[d])
    BY DEF Fit
  <2>2. cells[d].fold > 2 => \/ c.off + Last(list) < cells[d].off
                             \/ BlockEnd(file, cells[d]) < c.off
    BY <1>2, <2>1 DEF Apart
  <2>3. cells[d].off \in Nat
    BY <2>1 DEF MapCell, CellType
  <2>4. cells[d].fold > 2 => \/ cells[d].off >= c.off + Len(list)
                             \/ BlockEnd(file, cells[d]) < c.off
    BY <1>1, <1>2, <2>2, <2>3
  <2>5. /\ Stored(new, cells[d]) = Stored(file, cells[d])
        /\ cells[d].fold > 2 => BlockEnd(new, cells[d]) = BlockEnd(file, cells[d])
        /\ BlockFits(new, end, cells[d])
    <3>1. PICK x \in MapCell : x = cells[d]
      BY <2>1
    <3>2. PICK off \in Nat : off = c.off
      BY <1>1
    <3>3. /\ x.fold > 2 => BlockFits(file, end, x)
          /\ x.fold > 2 => BlockEnd(file, x) < off \/ x.off >= off + Len(list)
      BY <2>1, <2>4, <3>1, <3>2
    <3>4. PICK end2 \in Nat : end2 = end
      BY <1>1
    <3>5. off >= ListArea /\ off + Len(list) <= end2 /\ end <= end2
      BY <1>1, <1>3, <1>4, <3>2, <3>4
    <3>6. /\ Stored(Written(file, list, off), x) = Stored(file, x)
          /\ x.fold > 2 => BlockEnd(Written(file, list, off), x) = BlockEnd(file, x)
          /\ BlockFits(Written(file, list, off), end2, x)
      <4>1. CASE x.fold > 2 /\ BlockEnd(file, x) < off
        BY <3>3, <3>5, <4>1, BlockKept
      <4>2. CASE x.fold > 2 /\ x.off >= off + Len(list)
        BY <3>3, <3>5, <4>2, BlockKept
      <4>3. CASE ~(x.fold > 2)
        BY <3>3, <3>5, <4>3, BlockKept
      <4>4. QED
        BY <3>3, <4>1, <4>2, <4>3
    <3>7. QED
      BY <3>1, <3>2, <3>4, <3>6
  <2>6. QED
    BY <2>2, <2>5
<1>6. QED
  BY <1>5

\* A list rewritten in the block of its cell.
LEMMA BlockRewritten ==
  ASSUME NEW file, NEW end, File(file, end),
         NEW cells \in [Cells -> MapCell], Fit(file, end, cells),
         NEW l \in Cells, cells[l].fold > 2,
         NEW c \in MapCell, c.fold > 2, c.off = cells[l].off,
         NEW list \in Seq(Int), Len(list) = c.fold + 1,
         Last(list) = BlockSizeAt(file, cells[l]), Last(list) >= c.fold,
         NEW later \in [Cells -> MapCell], later[l] = c,
         \A d \in Cells : d # l => later[d] = cells[d]
  PROVE  LET new == Written(file, list, c.off)
         IN  /\ File(new, end) /\ Fit(new, end, later)
             /\ ListAt(new, c) = list /\ BlockFits(new, end, c)
             /\ \A d \in Cells : d # l => Apart(new, c, cells[d])
<1> DEFINE new == Written(file, list, c.off)
<1>1. end \in Nat /\ c.off \in Nat /\ c.fold \in Nat
  BY DEF File, MapCell, CellType
<1>2. /\ cells[l] \in MapCell /\ BlockFits(file, end, cells[l])
      /\ Last(list) \in Int
      /\ BlockEnd(file, cells[l]) = c.off + Last(list)
  BY BlockSizeType DEF Fit
<1>3. c.off >= ListArea /\ c.off + Last(list) < end
  BY <1>2 DEF BlockFits
<1>4. c.off + Len(list) <= end /\ c.off + c.fold < end /\ end <= end
  BY <1>1, <1>2, <1>3
<1>5. File(new, end)
  BY <1>1, <1>3, <1>4, WrittenWords
<1>6. ListAt(new, c) = list
  BY <1>1, <1>3, <1>4, ListWritten
<1>7. BlockSizeAt(new, c) = Last(list)
  BY <1>5, <1>6, ListAtType
<1>8. BlockFits(new, end, c) /\ BlockEnd(new, c) = c.off + Last(list)
  BY <1>3, <1>7 DEF BlockFits, BlockEnd
<1>9. ASSUME NEW d \in Cells, d # l
      PROVE  /\ cells[d].fold > 2 => BlockEnd(new, cells[d]) = BlockEnd(file, cells[d])
             /\ BlockFits(new, end, cells[d])
             /\ Apart(new, c, cells[d])
  <2>1. /\ cells[d].fold > 2 =>
             /\ BlockEnd(new, cells[d]) = BlockEnd(file, cells[d])
             /\ \/ c.off + Last(list) < cells[d].off
                \/ BlockEnd(file, cells[d]) < c.off
        /\ BlockFits(new, end, cells[d])
    BY <1>9, OthersKept
  <2>2. Apart(new, c, cells[d])
    BY <1>8, <2>1 DEF Apart
  <2>3. QED
    BY <2>1, <2>2
<1>10. Fit(new, end, later)
  <2>1. later[l] = c /\ \A d \in Cells \ {l} : later[d] = cells[d]
    OBVIOUS
  <2> HIDE DEF new
  <2>2. \A d \in Cells : BlockFits(new, end, later[d])
    BY <1>8, <1>9, <2>1
  <2>3. ASSUME NEW d \in Cells, NEW e \in Cells, d # e
        PROVE  Apart(new, later[d], later[e])
    <3>1. CASE d = l
      BY <1>9, <2>1, <2>3, <3>1
    <3>2. CASE e = l
      <4>1. Apart(new, c, cells[d])
        BY <1>9, <2>3, <3>2
      <4>2. Apart(new, cells[d], c)
        BY <4>1 DEF Apart
      <4>3. QED
        BY <2>1, <2>3, <3>2, <4>2
    <3>3. CASE d # l /\ e # l
      <4>1. Apart(file, cells[d], cells[e])
        BY <2>3 DEF Fit
      <4>2. Apart(new, cells[d], cells[e])
        BY <1>9, <3>3, <4>1 DEF Apart
      <4>3. QED
        BY <2>1, <3>3, <4>2
    <3>4. QED
      BY <3>1, <3>2, <3>3
  <2>4. QED
    BY <2>2, <2>3 DEF Fit
<1>11. QED
  BY <1>5, <1>6, <1>8, <1>9, <1>10

(***************************************************************************)
(* What a reader of the open map gets.                                     *)
(***************************************************************************)
LEMMA SmallBlock ==
  ASSUME NEW file, NEW end, NEW c \in MapCell, c.fold < 3
  PROVE  BlockFits(file, end, c) /\ \A d : Apart(file, c, d)
<1>1. c.fold \in Int
  BY DEF MapCell, CellType
<1>2. QED
  BY <1>1 DEF BlockFits, Apart

LEMMA EmptyCellType == EmptyCell \in MapCell /\ EmptyCell.fold = 0
<1>1. Len(<< >>) = 0 /\ << >> \in Seq(Int)
  OBVIOUS
<1>2. EmptyCell \in CellType /\ EmptyCell.fold = 0 /\ EmptyCell.idx = << >>
  BY <1>1 DEF EmptyCell, SmallCell, CellType
<1>3. QED
  BY <1>1, <1>2 DEF MapCell, Consistent

LEMMA LargeCellType ==
  ASSUME NEW fold \in 3 .. MaxFold, NEW off \in Nat
  PROVE  /\ LargeCell(fold, off) \in MapCell
         /\ LargeCell(fold, off).fold = fold /\ LargeCell(fold, off).off = off
<1>1. << >> \in Seq(Int)
  OBVIOUS
<1>2. QED
  BY <1>1 DEF LargeCell, MapCell, CellType, Consistent

\* A cell as sesi_map_read_cell_info gives it, and its list.
LEMMA ReadsVisible ==
  ASSUME MapInv, NEW c \in Cells, Cached(c) <=> InCache(c)
  PROVE  /\ ReadInfo(c) \in MapCell
         /\ Indexes(c, ReadInfo(c)) = Visible(c)
         /\ Visible(c) \in Seq(Int) /\ Len(Visible(c)) = ReadInfo(c).fold
         /\ ReadInfo(c).fold > 2 =>
              /\ ListOf(c, ReadInfo(c)) \in Seq(Int)
              /\ Len(ListOf(c, ReadInfo(c))) = ReadInfo(c).fold + 1
              /\ Front(ListOf(c, ReadInfo(c))) = Visible(c)
              /\ Last(ListOf(c, ReadInfo(c))) \in Int
<1>1. /\ info[c] \in MapCell /\ File(words, file_end)
      /\ entry[c].cell \in MapCell /\ entry[c].list \in Seq(Int)
  BY DEF MapInv, Types
<1>2. /\ Stored(words, info[c]) \in Seq(Int)
      /\ Len(Stored(words, info[c])) = info[c].fold
      /\ DiskList(info[c]) \in Seq(Int) /\ Len(DiskList(info[c])) = info[c].fold + 1
      /\ DiskList(info[c]) # << >>
  BY <1>1, StoredType, ListAtType DEF DiskList
<1>3. \A d \in MapCell : d.fold \in Nat /\ (d.fold < 3 => d.idx \in Seq(Int)
                                                    /\ Len(d.idx) = d.fold)
  BY DEF MapCell, CellType, Consistent
<1>4. CASE ~Cached(c)
  <2>1. ReadInfo(c) = info[c] /\ Visible(c) = Stored(words, info[c])
    BY <1>4 DEF ReadInfo, Visible, Shown, Cached
  <2>2. ListOf(c, info[c]) = DiskList(info[c])
    BY <1>4 DEF ListOf
  <2>3. info[c].fold > 2 => Stored(words, info[c]) = Front(DiskList(info[c]))
    BY <1>1, <1>3 DEF Stored, DiskList
  <2>4. Indexes(c, info[c]) = Stored(words, info[c])
    BY <1>1, <2>2 DEF Indexes, Stored, DiskList
  <2>5. Last(DiskList(info[c])) \in Int
    BY <1>2, FrontOfList
  <2>6. QED
    BY <1>1, <1>2, <2>1, <2>2, <2>3, <2>4, <2>5
<1>5. CASE Cached(c) /\ entry[c].cell.fold < 3
  <2>1. ReadInfo(c) = entry[c].cell /\ Visible(c) = entry[c].cell.idx
    BY <1>5 DEF ReadInfo, Visible, Shown, Cached
  <2>2. Indexes(c, entry[c].cell) = entry[c].cell.idx
    BY <1>5 DEF Indexes
  <2>3. ~(entry[c].cell.fold > 2)
    BY <1>1, <1>3, <1>5
  <2>4. QED
    BY <1>1, <1>3, <1>5, <2>1, <2>2, <2>3
<1>6. CASE Cached(c) /\ entry[c].cell.fold > 2 /\ entry[c].list = << >>
  <2>1. ReadInfo(c) = info[c]
    BY <1>6 DEF ReadInfo, MapInv, EntriesAreWhole
  <2>2. entry[c].cell.fold < 3 <=> FALSE
    BY <1>1, <1>3, <1>6
  <2>3. Visible(c) = Stored(words, info[c])
    BY <1>6, <2>2 DEF Visible, Shown
  <2>4. ListOf(c, info[c]) = DiskList(info[c])
    BY <1>6 DEF ListOf
  <2>5. info[c].fold > 2 => Stored(words, info[c]) = Front(DiskList(info[c]))
    BY <1>1, <1>3 DEF Stored, DiskList
  <2>6. Indexes(c, info[c]) = Stored(words, info[c])
    BY <1>1, <2>4 DEF Indexes, Stored, DiskList
  <2>7. Last(DiskList(info[c])) \in Int
    BY <1>2, FrontOfList
  <2>8. QED
    BY <1>1, <1>2, <2>1, <2>3, <2>4, <2>5, <2>6, <2>7
<1>7. CASE Cached(c) /\ entry[c].cell.fold > 2 /\ entry[c].list # << >>
  <2>1. ReadInfo(c) = entry[c].cell /\ InCache(c)
    BY <1>7 DEF ReadInfo
  <2>2. entry[c].cell.fold < 3 <=> FALSE
    BY <1>1, <1>3, <1>7
  <2>3. Visible(c) = Front(entry[c].list)
    BY <1>7, <2>2 DEF Visible, Shown, Cached
  <2>4. ListOf(c, entry[c].cell) = entry[c].list
    BY <1>7, <2>1 DEF ListOf
  <2>5. Indexes(c, entry[c].cell) = Front(entry[c].list)
    BY <2>2, <2>4 DEF Indexes
  <2>6. Len(entry[c].list) = entry[c].cell.fold + 1
    BY <1>7 DEF MapInv, EntriesAreWhole
  <2>7. /\ Front(entry[c].list) \in Seq(Int)
        /\ Len(Front(entry[c].list)) = Len(entry[c].list) - 1
        /\ Last(entry[c].list) \in Int
    BY <1>1, <1>7, FrontOfList
  <2>8. entry[c].cell.fold \in Nat
    BY <1>1, <1>3
  <2>9. QED
    BY <1>1, <2>1, <2>3, <2>4, <2>5, <2>6, <2>7, <2>8
<1>8. QED
  BY <1>1, <1>3, <1>4, <1>5, <1>6, <1>7

(***************************************************************************)
(* The map is empty at first.                                              *)
(***************************************************************************)
LEMMA InitMapInv == Init => MapInv
<1> SUFFICES ASSUME Init PROVE MapInv
  OBVIOUS
<1>1. /\ EmptyCell \in MapCell /\ EmptyCell.fold = 0
      /\ << >> \in Seq(Int) /\ << >> \in Seq(Cells) /\ << >> \in [{} -> Int]
      /\ ListArea \in Nat
  BY EmptyCellType DEF ListArea
<1>2. /\ info = [c \in Cells |-> EmptyCell] /\ words = << >>
      /\ file_end = ListArea /\ mode = "read_write" /\ pc = "idle"
      /\ order = << >> /\ entry = [c \in Cells |-> NoEntry] /\ ~use_cache
      /\ call = NoCall /\ cell = EmptyCell /\ todo = {}
      /\ byte_order \in ByteOrders /\ use_cache \in BOOLEAN
  BY DEF Init, EmptyFile, NoCache
<1>3. NoEntry \in [cell : MapCell, list : Seq(Int), list_size : Int]
  BY <1>1 DEF NoEntry
<1>4. Types
  <2>1. DOMAIN words = {}
    BY <1>2
  <2>2. File(words, file_end)
    BY <1>1, <1>2, <2>1 DEF File
  <2>3. call \in Calls
    BY <1>2 DEF NoCall, Calls
  <2>4. info \in [Cells -> MapCell]
    BY <1>1, <1>2
  <2>5. entry \in [Cells -> [cell : MapCell, list : Seq(Int), list_size : Int]]
    BY <1>2, <1>3
  <2>6. QED
    BY <1>1, <1>2, <2>2, <2>3, <2>4, <2>5 DEF Types, Modes
<1>5. \A c \in Cells : ~Cached(c)
  BY <1>2 DEF Cached, NoEntry
<1>6. CacheIsOrdered
  BY <1>2, <1>5 DEF CacheIsOrdered, InCache, IsInjective, Range
<1>7. EntriesAreWhole
  BY <1>5 DEF EntriesAreWhole
<1>8. CallHasItsCell
  BY <1>2 DEF CallHasItsCell, Updating
<1>9. BlocksFit
  <2>1. CellsOnDisk = info
    BY <1>2 DEF CellsOnDisk, ListInPlace
  <2>2. \A c \in Cells : info[c] = EmptyCell
    BY <1>2
  <2>3. Fit(words, file_end, info)
    BY <1>1, <2>2 DEF Fit, BlockFits, Apart
  <2>4. QED
    BY <2>1, <2>3 DEF BlocksFit
<1>10. ListIsWritten /\ VictimIsWritten /\ DroppedIsSaved /\ CopySoFar
  BY <1>2 DEF ListIsWritten, VictimIsWritten, DroppedIsSaved, CopySoFar
<1>11. QED
  BY <1>4, <1>6, <1>7, <1>8, <1>9, <1>10 DEF MapInv

(***************************************************************************)
(* Writing cells back.  What a step does to the lists, as a reader of the  *)
(* map and as a reader of the file sees them.                              *)
(***************************************************************************)
SameLists ==
  \A c \in Cells : Visible(c)' = Visible(c) /\ DiskIndexes(c)' = DiskIndexes(c)

WroteBack(c) ==
  \A d \in Cells :
    /\ Visible(d)' = Visible(d)
    /\ DiskIndexes(d)' = IF d = c THEN Visible(c) ELSE DiskIndexes(d)

EntryType == [cell : MapCell, list : Seq(Int), list_size : Int]

LEMMA NoEntryType == NoEntry \in EntryType /\ NoEntry.list_size = -1
<1>1. EmptyCell \in MapCell /\ << >> \in Seq(Int)
  BY EmptyCellType
<1>2. QED
  BY <1>1 DEF NoEntry, EntryType

\* A cell in memory has as many indexes as it says, so both tests agree.
LEMMA FoldIsNat ==
  ASSUME NEW c \in MapCell
  PROVE  /\ c.fold \in 0 .. MaxFold /\ c.fold \in Nat /\ c.off \in Nat
         /\ (c.fold < 3 <=> ~(c.fold > 2))
BY DEF MapCell, CellType

\* The list of a cached cell was put in a new block at the end of the file.
LEMMA ListFlushed ==
  ASSUME MapInv, NEW c \in Cells, Cached(c), mode = "read_write",
         pc # "write_info", FlushList(c)
  PROVE  /\ entry' \in [Cells -> EntryType] /\ info' = info
         /\ \A d \in Cells \ {c} : entry'[d] = entry[d]
         /\ entry'[c].list_size = entry[c].list_size
         /\ entry'[c].cell.fold > 2 /\ entry'[c].list # << >>
         /\ Len(entry'[c].list) = entry'[c].cell.fold + 1
         /\ File(words', file_end') /\ Fit(words', file_end', info)
         /\ ListAt(words', entry'[c].cell) = entry'[c].list
         /\ BlockFits(words', file_end', entry'[c].cell)
         /\ \A d \in Cells : Apart(words', entry'[c].cell, info[d])
         /\ SameLists
<1> DEFINE fold == entry[c].cell.fold
           old == entry[c].list
           list == [old EXCEPT ![fold + 1] = fold]
           new == LargeCell(fold, file_end)
<1>1. /\ fold > 2 /\ old # << >>
      /\ entry' = [entry EXCEPT ![c] = [cell |-> new, list |-> list,
                                        list_size |-> entry[c].list_size]]
      /\ words' = Written(words, list, file_end)
      /\ file_end' = Max({file_end, file_end + fold + 1})
      /\ info' = info
  BY DEF FlushList, FlushOffset, HasItsList
<1>2. /\ entry \in [Cells -> EntryType] /\ entry[c] \in EntryType
      /\ old \in Seq(Int) /\ fold \in 3 .. MaxFold
      /\ File(words, file_end) /\ file_end \in Nat
      /\ info \in [Cells -> MapCell]
  <2>1. entry \in [Cells -> EntryType] /\ entry[c] \in EntryType
    BY DEF MapInv, Types, EntryType
  <2>2. entry[c].cell \in MapCell
    BY <2>1 DEF EntryType
  <2>3. fold \in 3 .. MaxFold
    BY <1>1, <2>2, FoldIsNat
  <2>4. QED
    BY <2>1, <2>3 DEF EntryType, MapInv, Types, File
<1>3. Len(old) = fold + 1
  BY <1>1 DEF MapInv, EntriesAreWhole
<1>4. /\ list \in Seq(Int) /\ Len(list) = fold + 1 /\ list # << >>
      /\ Last(list) = fold /\ Front(list) = Front(old)
  <2>1. fold \in Int /\ [old EXCEPT ![Len(old)] = fold] = list
    BY <1>2, <1>3
  <2>2. /\ list \in Seq(Int) /\ Len(list) = Len(old) /\ list # << >>
        /\ list[Len(old)] = fold /\ Front(list) = Front(old)
    BY <1>1, <1>2, <2>1, FrontOfResized
  <2>3. Last(list) = list[Len(list)]
    BY DEF Last
  <2>4. QED
    BY <1>3, <2>2, <2>3
<1>5. new \in MapCell /\ new.fold = fold /\ new.off = file_end
  BY <1>2, LargeCellType
<1> HIDE DEF list, new, old, fold
<1>6. file_end' = file_end + fold + 1
  <2>1. file_end \in Int /\ file_end + fold + 1 \in Int
    BY <1>2
  <2>2. Max({file_end, file_end + fold + 1}) = file_end + fold + 1
    BY <1>2, <2>1, MaxOfTwo
  <2>3. QED
    BY <1>1, <2>2
<1>7. Fit(words, file_end, info)
  <2>1. CellsOnDisk = info
    BY DEF CellsOnDisk, ListInPlace
  <2>2. QED
    BY <2>1 DEF MapInv, BlocksFit
<1>8. /\ File(words', file_end') /\ Fit(words', file_end', info)
      /\ ListAt(words', new) = list /\ BlockFits(words', file_end', new)
      /\ \A d \in Cells : /\ Apart(words', new, info[d])
                          /\ Stored(words', info[d]) = Stored(words, info[d])
  <2>1. PICK end2 \in Nat : end2 = file_end'
    BY <1>2, <1>6
  <2>2. /\ file_end + Last(list) < end2 /\ Last(list) >= new.fold
        /\ Len(list) = new.fold + 1 /\ new.fold > 2 /\ new.off = file_end
        /\ list \in Seq(Int) /\ new \in MapCell
        /\ info \in [Cells -> MapCell] /\ File(words, file_end)
    BY <1>2, <1>4, <1>5, <1>6, <2>1
  <2>3. LET file == Written(words, list, file_end)
        IN  /\ File(file, end2) /\ Fit(file, end2, info)
            /\ ListAt(file, new) = list /\ BlockFits(file, end2, new)
            /\ \A d \in Cells : /\ Apart(file, new, info[d])
                                /\ Stored(file, info[d]) = Stored(words, info[d])
    BY <1>7, <2>2, BlockAppended
  <2>4. QED
    BY <1>1, <2>1, <2>3
<1>9. /\ entry'[c].cell = new /\ entry'[c].list = list
      /\ entry'[c].list_size = entry[c].list_size
      /\ \A d \in Cells \ {c} : entry'[d] = entry[d]
  BY <1>1, <1>2
<1>10. entry' \in [Cells -> EntryType]
  <2>1. [cell |-> new, list |-> list, list_size |-> entry[c].list_size] \in EntryType
    BY <1>2, <1>4, <1>5 DEF EntryType
  <2>2. QED
    BY <1>1, <1>2, <2>1
<1>11. ASSUME NEW d \in Cells
       PROVE  Visible(d)' = Visible(d) /\ DiskIndexes(d)' = DiskIndexes(d)
  <2>1. DiskIndexes(d)' = DiskIndexes(d)
    BY <1>1, <1>8 DEF DiskIndexes
  <2>2. CASE d # c
    <3>1. entry'[d] = entry[d] /\ info'[d] = info[d]
      BY <1>1, <1>9, <2>2
    <3>2. Stored(words', info[d]) = Stored(words, info[d])
      BY <1>8
    <3>3. Visible(d)' = Visible(d)
      BY <3>1, <3>2 DEF Visible, Shown
    <3>4. QED
      BY <2>1, <3>3
  <2>3. CASE d = c
    <3>1. Visible(c) = Front(old)
      BY <1>1, <1>2 DEF Visible, Shown, Cached, fold, old
    <3>2. ~(entry'[c].cell.fold < 3)
      BY <1>2, <1>5, <1>9
    <3>3. Visible(c)' = Front(list)
      BY <1>4, <1>9, <3>2 DEF Visible, Shown, Cached
    <3>4. Visible(c)' = Visible(c)
      BY <1>4, <3>1, <3>3
    <3>5. QED
      BY <2>1, <2>3, <3>4
  <2>4. QED
    BY <2>2, <2>3
<1>12. SameLists
  BY <1>11 DEF SameLists
<1>13. QED
  BY <1>1, <1>2, <1>4, <1>5, <1>8, <1>9, <1>10, <1>12

\* A cell with its indexes in it was put in the file.
LEMMA SmallFlushed ==
  ASSUME MapInv, NEW c \in Cells, Cached(c), mode # "damaged",
         pc # "write_info", entry[c].cell.fold < 3, FlushInfo(c)
  PROVE  /\ info' \in [Cells -> MapCell] /\ words' = words
         /\ file_end' = file_end /\ info'[c] = entry[c].cell
         /\ \A d \in Cells \ {c} : info'[d] = info[d]
         /\ Fit(words', file_end', info')
         /\ Visible(c) = Stored(words', info'[c])
<1>1. /\ info' = [info EXCEPT ![c] = entry[c].cell] /\ words' = words
      /\ file_end' = file_end
  BY DEF FlushInfo
<1>2. info \in [Cells -> MapCell] /\ entry[c].cell \in MapCell
  BY DEF MapInv, Types
<1>3. Fit(words, file_end, info)
  <2>1. CellsOnDisk = info
    BY DEF CellsOnDisk, ListInPlace
  <2>2. QED
    BY <2>1 DEF MapInv, BlocksFit
<1>4. /\ BlockFits(words, file_end, entry[c].cell)
      /\ \A d \in Cells \ {c} : Apart(words, entry[c].cell, info[d])
  BY <1>2, SmallBlock
<1>5. Fit(words, file_end, [info EXCEPT ![c] = entry[c].cell])
  BY <1>2, <1>3, <1>4, CellReplaced
<1>6. Visible(c) = Stored(words, entry[c].cell)
  BY DEF Visible, Shown, Cached, Stored
<1>7. QED
  BY <1>1, <1>2, <1>5, <1>6

\* A cell was turned to its list, which had been written.
LEMMA LargeFlushed ==
  ASSUME MapInv, NEW c \in Cells, Cached(c), c = victim,
         pc \in {"evict_info", "flush_info"}, FlushInfo(c)
  PROVE  /\ info' \in [Cells -> MapCell] /\ words' = words
         /\ file_end' = file_end /\ info'[c] = entry[c].cell
         /\ \A d \in Cells \ {c} : info'[d] = info[d]
         /\ Fit(words', file_end', info')
         /\ Visible(c) = Stored(words', info'[c])
<1>1. /\ info' = [info EXCEPT ![c] = entry[c].cell] /\ words' = words
      /\ file_end' = file_end
  BY DEF FlushInfo
<1>2. info \in [Cells -> MapCell] /\ entry[c].cell \in MapCell
  BY DEF MapInv, Types
<1>3. Fit(words, file_end, info)
  <2>1. CellsOnDisk = info /\ mode # "damaged"
    BY DEF CellsOnDisk, ListInPlace, MapInv, CacheIsOrdered
  <2>2. QED
    BY <2>1 DEF MapInv, BlocksFit
<1>4. /\ BlockFits(words, file_end, entry[c].cell)
      /\ \A d \in Cells \ {c} : Apart(words, entry[c].cell, info[d])
      /\ entry[c].cell.fold > 2 /\ entry[c].list # << >>
      /\ ListAt(words, entry[c].cell) = entry[c].list
  BY DEF MapInv, VictimIsWritten, DiskList
<1>5. Fit(words, file_end, [info EXCEPT ![c] = entry[c].cell])
  BY <1>2, <1>3, <1>4, CellReplaced
<1>6. Visible(c) = Stored(words, entry[c].cell)
  BY <1>2, <1>4, FoldIsNat DEF Visible, Shown, Cached, Stored
<1>7. QED
  BY <1>1, <1>2, <1>5, <1>6

(***************************************************************************)
(* Eviction.                                                               *)
(***************************************************************************)
LEMMA HeadDropped ==
  ASSUME MapInv, pc = "evict", MustEvict, order' = Tail(order)
  PROVE  LET h == Head(order)
         IN  /\ h \in Cells /\ InCache(h) /\ Cached(h)
             /\ order' \in Seq(Cells) /\ IsInjective(order') /\ order' # << >>
             /\ Range(order') = Range(order) \ {h}
             /\ call.lidx \in Cells /\ call.lidx # h /\ InCache(call.lidx)
             /\ Last(order') = call.lidx
             /\ use_cache /\ mode \notin {"closed", "damaged"}
<1>1. /\ order \in Seq(Cells) /\ order # << >> /\ IsInjective(order)
      /\ Last(order) = call.lidx /\ call.lidx \in Cells
      /\ use_cache /\ mode \notin {"closed", "damaged"}
  BY DEF MapInv, Types, CacheIsOrdered, CallHasItsCell
<1>2. /\ Tail(order) \in Seq(Cells) /\ IsInjective(Tail(order))
      /\ Head(order) \in Range(order)
      /\ Range(Tail(order)) = Range(order) \ {Head(order)}
      /\ Tail(order) # << >> /\ Last(Tail(order)) = Last(order)
  BY <1>1, TailOfOrder DEF MustEvict
<1>3. Head(order) \in Cells
  BY <1>1, HeadTailProperties
<1>4. InCache(call.lidx) /\ call.lidx # Head(order)
  BY <1>1 DEF MapInv, CallHasItsCell, MustEvict
<1>5. InCache(Head(order)) /\ Cached(Head(order))
  BY <1>2, <1>3 DEF InCache, MapInv, CacheIsOrdered
<1>6. QED
  BY <1>1, <1>2, <1>3, <1>4, <1>5

\* The parts that an eviction cannot disturb.
LEMMA EvictionFrame ==
  ASSUME MapInv, pc = "evict", MustEvict, order' = Tail(order), EvictFrame,
         pc' \in {"evict", "evict_info"},
         pc' = "evict_info" => victim' = Head(order) /\ mode = "read_write",
         entry' \in [Cells -> EntryType],
         \A d \in Cells \ {Head(order)} : entry'[d] = entry[d],
         info' \in [Cells -> MapCell], File(words', file_end'),
         entry'[Head(order)].list_size >= 0 <=> pc' = "evict_info"
  PROVE  Types' /\ CacheIsOrdered' /\ CallHasItsCell'
<1>1. UNCHANGED <<byte_order, mode, use_cache, max_cache_size, call, cell,
                  todo, tmp, answer>>
  BY DEF EvictFrame
<1> DEFINE h == Head(order)
<1>2. /\ h \in Cells /\ InCache(h) /\ Cached(h)
      /\ order' \in Seq(Cells) /\ IsInjective(order') /\ order' # << >>
      /\ Range(order') = Range(order) \ {h}
      /\ call.lidx \in Cells /\ call.lidx # h /\ InCache(call.lidx)
      /\ Last(order') = call.lidx
      /\ use_cache /\ mode \notin {"closed", "damaged"}
  BY HeadDropped
<1>3. Types'
  BY <1>1, <1>2 DEF MapInv, Types, EntryType
<1>4. CacheIsOrdered'
  <2>1. ASSUME NEW d \in Cells
        PROVE  Cached(d)' <=> InCache(d)' \/ (pc' = "evict_info" /\ d = victim')
    <3>1. CASE d = h
      BY <1>2, <3>1 DEF Cached, InCache
    <3>2. CASE d # h
      BY <1>2, <3>2 DEF Cached, InCache, MapInv, CacheIsOrdered
    <3>3. QED
      BY <3>1, <3>2
  <2>2. todo' = {}
    BY <1>1 DEF MapInv, CacheIsOrdered
  <2>3. pc' = "evict_info" =>
          /\ victim' \in Cells /\ mode' = "read_write"
          /\ victim' \in Range(order') <=> pc' = "flush_info"
    BY <1>1, <1>2
  <2>4. pc' # "flush_info" /\ pc' # "flush" /\ mode' \notin {"closed", "damaged"}
        /\ use_cache'
    BY <1>1, <1>2
  <2>5. IsInjective(order)'
    BY <1>2 DEF IsInjective
  <2>6. QED
    BY <2>1, <2>2, <2>3, <2>4, <2>5 DEF CacheIsOrdered
<1>5. CallHasItsCell'
  <2>1. InCache(call.lidx)'
    BY <1>1, <1>2 DEF InCache
  <2>2. ReadInfo(call.lidx)' = ReadInfo(call.lidx)
    BY <1>1, <1>2, <2>1 DEF ReadInfo
  <2>3. QED
    BY <1>1, <1>2, <2>1, <2>2 DEF MapInv, CallHasItsCell, Updating
<1>6. QED
  BY <1>3, <1>4, <1>5

LEMMA EvictReadOnlyStep ==
  ASSUME MapInv, EvictReadOnly
  PROVE  MapInv' /\ SameLists
<1>0. PICK h \in Cells : h = Head(order)
  BY HeadDropped DEF EvictReadOnly
<1>1. /\ pc = "evict" /\ MustEvict /\ mode = "read_only" /\ order' = Tail(order)
      /\ entry' = [entry EXCEPT ![h] = NoEntry] /\ pc' = "evict"
      /\ UNCHANGED <<info, words, file_end, victim>> /\ EvictFrame
      /\ UNCHANGED <<mode, answer, call, cell, tmp>>
  BY <1>0 DEF EvictReadOnly, EvictFrame, file_vars
<1>2. h \in Cells /\ Cached(h)
  BY <1>0, <1>1, HeadDropped
<1>3. /\ entry' \in [Cells -> EntryType] /\ entry'[h] = NoEntry
      /\ \A d \in Cells \ {h} : entry'[d] = entry[d]
  BY <1>1, <1>2, NoEntryType DEF MapInv, Types, EntryType
<1>4. Types' /\ CacheIsOrdered' /\ CallHasItsCell'
  BY <1>0, <1>1, <1>3, NoEntryType, EvictionFrame DEF MapInv, Types
<1>5. \A d \in Cells : DiskIndexes(d)' = DiskIndexes(d)
  BY <1>1 DEF DiskIndexes
<1>6. \A d \in Cells : Visible(d)' = Visible(d)
  <2>1. Visible(h)' = Stored(words, info[h])
    BY <1>1, <1>3, NoEntryType DEF Visible, Shown
  <2>2. Visible(h) = Stored(words, info[h])
    BY <1>1, <1>2 DEF MapInv, DroppedIsSaved, IsSaved, DiskIndexes
  <2>3. \A d \in Cells \ {h} : Visible(d)' = Visible(d)
    BY <1>1, <1>3 DEF Visible
  <2>4. QED
    BY <2>1, <2>2, <2>3
<1>7. EntriesAreWhole'
  <2>1. ~Cached(h)'
    BY <1>3, NoEntryType DEF Cached
  <2>2. QED
    BY <1>1, <1>3, <2>1 DEF MapInv, EntriesAreWhole, Cached
<1>8. BlocksFit'
  BY <1>1 DEF MapInv, BlocksFit, CellsOnDisk, ListInPlace
<1>9. DroppedIsSaved'
  BY <1>1, <1>5, <1>6 DEF MapInv, DroppedIsSaved, IsSaved
<1>10. ListIsWritten' /\ VictimIsWritten' /\ CopySoFar'
  BY <1>1 DEF ListIsWritten, VictimIsWritten, CopySoFar
<1>11. QED
  BY <1>4, <1>5, <1>6, <1>7, <1>8, <1>9, <1>10 DEF MapInv, SameLists

LEMMA EvictSmallStep ==
  ASSUME MapInv, EvictSmall
  PROVE  MapInv' /\ \E c \in Cells : WroteBack(c)
<1>0. PICK h \in Cells : h = Head(order)
  BY HeadDropped DEF EvictSmall
<1>1. /\ pc = "evict" /\ MustEvict /\ mode = "read_write" /\ order' = Tail(order)
      /\ entry' = [entry EXCEPT ![h] = NoEntry] /\ pc' = "evict"
      /\ victim' = victim /\ EvictFrame /\ FlushInfo(h)
      /\ entry[h].cell.fold < 3
      /\ UNCHANGED <<mode, answer, call, cell, tmp>>
  BY <1>0 DEF EvictSmall, EvictFrame
<1>2. h \in Cells /\ Cached(h)
  BY <1>0, <1>1, HeadDropped
<1>3. /\ entry' \in [Cells -> EntryType] /\ entry'[h] = NoEntry
      /\ \A d \in Cells \ {h} : entry'[d] = entry[d]
  BY <1>1, <1>2, NoEntryType DEF MapInv, Types, EntryType
<1>4. /\ info' \in [Cells -> MapCell] /\ words' = words
      /\ file_end' = file_end /\ info'[h] = entry[h].cell
      /\ \A d \in Cells \ {h} : info'[d] = info[d]
      /\ Fit(words', file_end', info')
      /\ Visible(h) = Stored(words', info'[h])
  BY <1>1, <1>2, SmallFlushed
<1>5. Types' /\ CacheIsOrdered' /\ CallHasItsCell'
  BY <1>0, <1>1, <1>3, <1>4, NoEntryType, EvictionFrame DEF MapInv, Types
<1>6. WroteBack(h)
  <2>1. Visible(h)' = Visible(h) /\ DiskIndexes(h)' = Visible(h)
    BY <1>3, <1>4, NoEntryType DEF Visible, Shown, DiskIndexes
  <2>2. \A d \in Cells \ {h} : /\ Visible(d)' = Visible(d)
                               /\ DiskIndexes(d)' = DiskIndexes(d)
    BY <1>3, <1>4 DEF Visible, DiskIndexes
  <2>3. QED
    BY <2>1, <2>2 DEF WroteBack
<1>7. EntriesAreWhole'
  <2>1. ~Cached(h)'
    BY <1>3, NoEntryType DEF Cached
  <2>2. QED
    BY <1>3, <1>4, <2>1 DEF MapInv, EntriesAreWhole, Cached
<1>8. BlocksFit'
  BY <1>1, <1>4 DEF BlocksFit, CellsOnDisk, ListInPlace
<1>9. DroppedIsSaved' /\ ListIsWritten' /\ VictimIsWritten' /\ CopySoFar'
  BY <1>1 DEF DroppedIsSaved, ListIsWritten, VictimIsWritten, CopySoFar
<1>10. QED
  BY <1>2, <1>5, <1>6, <1>7, <1>8, <1>9 DEF MapInv

LEMMA EvictListStep ==
  ASSUME MapInv, EvictList
  PROVE  MapInv' /\ SameLists
<1>0. PICK h \in Cells : h = Head(order)
  BY HeadDropped DEF EvictList
<1>1. /\ pc = "evict" /\ MustEvict /\ mode = "read_write" /\ order' = Tail(order)
      /\ pc' = "evict_info" /\ victim' = h /\ EvictFrame /\ FlushList(h)
      /\ UNCHANGED <<mode, answer, call, cell, tmp>>
  BY <1>0 DEF EvictList, EvictFrame
<1>2. h \in Cells /\ Cached(h)
  BY <1>0, <1>1, HeadDropped
<1>3. /\ entry' \in [Cells -> EntryType] /\ info' = info
      /\ \A d \in Cells \ {h} : entry'[d] = entry[d]
      /\ entry'[h].list_size = entry[h].list_size
      /\ entry'[h].cell.fold > 2 /\ entry'[h].list # << >>
      /\ Len(entry'[h].list) = entry'[h].cell.fold + 1
      /\ File(words', file_end') /\ Fit(words', file_end', info)
      /\ ListAt(words', entry'[h].cell) = entry'[h].list
      /\ BlockFits(words', file_end', entry'[h].cell)
      /\ \A d \in Cells : Apart(words', entry'[h].cell, info[d])
      /\ SameLists
  BY <1>1, <1>2, ListFlushed
<1>4. Types' /\ CacheIsOrdered' /\ CallHasItsCell'
  BY <1>0, <1>1, <1>2, <1>3, EvictionFrame DEF MapInv, Types, Cached
<1>5. EntriesAreWhole'
  BY <1>3 DEF MapInv, EntriesAreWhole, Cached
<1>6. BlocksFit'
  BY <1>1, <1>3 DEF BlocksFit, CellsOnDisk, ListInPlace
<1>7. VictimIsWritten'
  BY <1>1, <1>3 DEF VictimIsWritten, DiskList
<1>8. DroppedIsSaved' /\ ListIsWritten' /\ CopySoFar'
  BY <1>1 DEF DroppedIsSaved, ListIsWritten, CopySoFar
<1>9. QED
  BY <1>3, <1>4, <1>5, <1>6, <1>7, <1>8 DEF MapInv

LEMMA EvictInfoStep ==
  ASSUME MapInv, EvictInfo
  PROVE  MapInv' /\ \E c \in Cells : WroteBack(c)
<1>0. PICK h \in Cells : h = victim
  BY DEF EvictInfo, MapInv, CacheIsOrdered
<1>1. /\ pc = "evict_info" /\ FlushInfo(h) /\ order' = order
      /\ entry' = [entry EXCEPT ![h] = NoEntry] /\ pc' = "evict" /\ victim' = -1
      /\ UNCHANGED <<byte_order, mode, use_cache, answer, call, cell, tmp, todo>>
  BY <1>0 DEF EvictInfo, EvictFrame
<1>2. /\ h \in Cells /\ Cached(h) /\ ~InCache(h) /\ mode = "read_write"
      /\ use_cache /\ order # << >> /\ call.lidx # h
  BY <1>0, <1>1 DEF MapInv, CacheIsOrdered, CallHasItsCell, InCache
<1>3. /\ entry' \in [Cells -> EntryType] /\ entry'[h] = NoEntry
      /\ \A d \in Cells \ {h} : entry'[d] = entry[d]
  BY <1>1, <1>2, NoEntryType DEF MapInv, Types, EntryType
<1>4. /\ info' \in [Cells -> MapCell] /\ words' = words
      /\ file_end' = file_end /\ info'[h] = entry[h].cell
      /\ \A d \in Cells \ {h} : info'[d] = info[d]
      /\ Fit(words', file_end', info')
      /\ Visible(h) = Stored(words', info'[h])
  BY <1>0, <1>1, <1>2, LargeFlushed
<1>5. Types'
  BY <1>1, <1>3, <1>4 DEF MapInv, Types, EntryType
<1>6. CacheIsOrdered'
  <2>1. ASSUME NEW d \in Cells
        PROVE  Cached(d)' <=> InCache(d)'
    <3>1. CASE d = h
      BY <1>1, <1>2, <1>3, <3>1, NoEntryType DEF Cached, InCache
    <3>2. CASE d # h
      BY <1>0, <1>1, <1>3, <3>2 DEF Cached, InCache, MapInv, CacheIsOrdered
    <3>3. QED
      BY <3>1, <3>2
  <2>2. QED
    BY <1>1, <1>2, <2>1 DEF MapInv, CacheIsOrdered, IsInjective
<1>7. CallHasItsCell'
  <2>1. InCache(call.lidx) /\ call.lidx \in Cells
    BY <1>1, <1>2 DEF MapInv, CallHasItsCell
  <2>2. InCache(call.lidx)'
    BY <1>1, <2>1 DEF InCache
  <2>3. ReadInfo(call.lidx)' = ReadInfo(call.lidx)
    BY <1>1, <1>2, <1>3, <2>1, <2>2 DEF ReadInfo
  <2>4. QED
    BY <1>1, <2>2, <2>3 DEF MapInv, CallHasItsCell, Updating
<1>8. WroteBack(h)
  <2>1. Visible(h)' = Visible(h) /\ DiskIndexes(h)' = Visible(h)
    BY <1>3, <1>4, NoEntryType DEF Visible, Shown, DiskIndexes
  <2>2. \A d \in Cells \ {h} : /\ Visible(d)' = Visible(d)
                               /\ DiskIndexes(d)' = DiskIndexes(d)
    BY <1>3, <1>4 DEF Visible, DiskIndexes
  <2>3. QED
    BY <2>1, <2>2 DEF WroteBack
<1>9. EntriesAreWhole'
  <2>1. ~Cached(h)'
    BY <1>3, NoEntryType DEF Cached
  <2>2. QED
    BY <1>3, <1>4, <2>1 DEF MapInv, EntriesAreWhole, Cached
<1>10. BlocksFit'
  BY <1>1, <1>4 DEF BlocksFit, CellsOnDisk, ListInPlace
<1>11. DroppedIsSaved' /\ ListIsWritten' /\ VictimIsWritten' /\ CopySoFar'
  BY <1>1, <1>2 DEF DroppedIsSaved, ListIsWritten, VictimIsWritten, CopySoFar
<1>12. QED
  BY <1>2, <1>5, <1>6, <1>7, <1>8, <1>9, <1>10, <1>11 DEF MapInv

LEMMA EvictEndStep ==
  ASSUME MapInv, EvictEnd
  PROVE  MapInv' /\ SameLists
<1>1. /\ pc = "evict" /\ pc' = "body"
      /\ UNCHANGED <<byte_order, mode, info, words, file_end, use_cache, order,
                     entry, victim, call, cell, todo, tmp, answer>>
  BY DEF EvictEnd, EvictFrame, file_vars
<1>2. Types'
  BY <1>1 DEF MapInv, Types
<1>3. CacheIsOrdered'
  BY <1>1 DEF MapInv, CacheIsOrdered, Cached, InCache, IsInjective, Range
<1>4. EntriesAreWhole'
  BY <1>1 DEF MapInv, EntriesAreWhole, Cached
<1>5. CallHasItsCell'
  BY <1>1 DEF MapInv, CallHasItsCell, Updating, ReadInfo, InCache
<1>6. BlocksFit'
  BY <1>1 DEF MapInv, BlocksFit, CellsOnDisk, ListInPlace
<1>7. SameLists
  BY <1>1 DEF SameLists, Visible, DiskIndexes
<1>8. DroppedIsSaved'
  BY <1>1, <1>7 DEF MapInv, DroppedIsSaved, IsSaved, SameLists
<1>9. ListIsWritten' /\ VictimIsWritten' /\ CopySoFar'
  BY <1>1 DEF ListIsWritten, VictimIsWritten, CopySoFar
<1>10. QED
  BY <1>2, <1>3, <1>4, <1>5, <1>6, <1>7, <1>8, <1>9 DEF MapInv

(***************************************************************************)
(* A call begins.                                                          *)
(***************************************************************************)
LEMMA BeginStep ==
  ASSUME MapInv, NEW op \in {"add", "set", "get", "fold"}, NEW c \in Cells,
         NEW batch, batch \in Batches \/ (batch = << >> /\ op \in {"get", "fold"}),
         Begin(op, c, batch)
  PROVE  MapInv' /\ SameLists
<1>1. /\ pc = "idle" /\ mode \in {"read_write", "read_only"}
      /\ call' = [op |-> op, lidx |-> c, batch |-> batch]
      /\ cell' = ReadInfo(c) /\ answer' = NoAnswer /\ pc' \in {"evict", "body"}
      /\ UNCHANGED <<byte_order, mode, info, words, file_end, use_cache, victim,
                     todo, tmp>>
  BY DEF Begin, Idle, file_vars, flush_vars
<1>2. op \in {"add", "set"} =>
        /\ mode = "read_write" /\ batch \in Batches
        /\ op = "add" => ReadInfo(c).fold + Len(batch) <= MaxFold
  BY DEF Begin, UpdateAllowed
<1>3. Cached(c) <=> InCache(c)
  BY <1>1 DEF MapInv, CacheIsOrdered
<1>4. ReadInfo(c) \in MapCell
  BY <1>3, ReadsVisible
<1>5. Types /\ CacheIsOrdered /\ EntriesAreWhole
  BY DEF MapInv
<1> DEFINE new == NewEntry(ReadInfo(c))
<1>6. /\ new \in EntryType /\ new.cell = ReadInfo(c) /\ new.list = << >>
      /\ new.list_size = 0
  BY <1>4 DEF NewEntry, EntryType
<1> HIDE DEF new
<1>7. \/ /\ use_cache /\ ~InCache(c) /\ order' = Append(order, c)
         /\ entry' = [entry EXCEPT ![c] = new] /\ pc' = "evict"
      \/ /\ ~use_cache \/ InCache(c)
         /\ order' = order /\ entry' = entry /\ pc' = "body"
  BY DEF Begin, NeedsEntry, new
<1>8. /\ order' \in Seq(Cells) /\ IsInjective(order')
      /\ entry' \in [Cells -> EntryType]
      /\ \A d \in Cells : d # c => /\ entry'[d] = entry[d]
                                   /\ InCache(d)' <=> InCache(d)
      /\ ReadInfo(c)' = ReadInfo(c)
      /\ Cached(c)' <=> InCache(c)'
      /\ use_cache => InCache(c)'
      /\ Range(order) \subseteq Range(order')
      /\ pc' = "evict" => order' # << >> /\ Last(order') = c
  <2>1. /\ order \in Seq(Cells) /\ IsInjective(order)
        /\ entry \in [Cells -> EntryType]
    BY <1>5 DEF Types, CacheIsOrdered, EntryType
  <2>2. CASE pc' = "evict"
    <3>1. /\ use_cache /\ ~InCache(c) /\ order' = Append(order, c)
          /\ entry' = [entry EXCEPT ![c] = new]
      BY <1>7, <2>2
    <3>2. /\ order' \in Seq(Cells) /\ order' # << >> /\ IsInjective(order')
          /\ Range(order') = Range(order) \union {c} /\ Last(order') = c
      BY <2>1, <3>1, AppendToOrder DEF InCache
    <3>3. /\ entry' \in [Cells -> EntryType] /\ entry'[c] = new
          /\ \A d \in Cells : d # c => entry'[d] = entry[d]
      BY <1>6, <2>1, <3>1
    <3>4. InCache(c)' /\ \A d \in Cells : d # c => (InCache(d)' <=> InCache(d))
      BY <3>2 DEF InCache
    <3>5. ReadInfo(c)' = ReadInfo(c)
      BY <1>6, <3>3, <3>4 DEF ReadInfo
    <3>6. Cached(c)'
      BY <1>6, <3>3 DEF Cached
    <3>7. QED
      BY <3>2, <3>3, <3>4, <3>5, <3>6
  <2>3. CASE pc' # "evict"
    <3>1. order' = order /\ entry' = entry /\ (~use_cache \/ InCache(c))
      BY <1>7, <2>3
    <3>2. \A d \in Cells : InCache(d)' <=> InCache(d)
      BY <3>1 DEF InCache
    <3>3. ReadInfo(c)' = ReadInfo(c) /\ (Cached(c)' <=> InCache(c)')
      BY <1>1, <1>3, <3>1, <3>2 DEF ReadInfo, Cached
    <3>4. QED
      BY <2>1, <2>3, <3>1, <3>2, <3>3
  <2>4. QED
    BY <2>2, <2>3
<1>9. Types'
  <2>1. call' \in Calls
    BY <1>1 DEF Calls
  <2>2. QED
    BY <1>1, <1>4, <1>5, <1>8, <2>1 DEF Types, EntryType
<1>10. CacheIsOrdered'
  <2>1. ASSUME NEW d \in Cells PROVE Cached(d)' <=> InCache(d)'
    <3>1. CASE d = c
      BY <1>8, <3>1
    <3>2. CASE d # c
      <4>1. (InCache(d)' <=> InCache(d)) /\ (Cached(d)' <=> Cached(d))
        BY <1>8, <3>2 DEF Cached
      <4>2. Cached(d) <=> InCache(d)
        BY <1>1, <1>5 DEF CacheIsOrdered
      <4>3. QED
        BY <4>1, <4>2
    <3>3. QED
      BY <3>1, <3>2
  <2>2. ~use_cache => order' = << >>
    BY <1>5, <1>7 DEF CacheIsOrdered
  <2>3. todo' = {}
    BY <1>1, <1>5 DEF CacheIsOrdered
  <2>4. mode' \notin {"closed", "damaged"} /\ use_cache' = use_cache
    BY <1>1
  <2>5. IsInjective(order)'
    BY <1>8 DEF IsInjective
  <2>6. QED
    BY <1>1, <2>1, <2>2, <2>3, <2>4, <2>5 DEF CacheIsOrdered
<1>11. EntriesAreWhole'
  <2>1. ASSUME NEW d \in Cells, Cached(d)', entry'[d].cell.fold > 2
        PROVE  IF entry'[d].list = << >> THEN entry'[d].cell = info'[d]
               ELSE Len(entry'[d].list) = entry'[d].cell.fold + 1
    <3>1. CASE entry'[d] = entry[d]
      BY <1>1, <1>5, <2>1, <3>1 DEF EntriesAreWhole, Cached
    <3>2. CASE entry'[d] # entry[d]
      <4>1. d = c /\ entry'[c] = new /\ ~InCache(c)
        BY <1>5, <1>7, <1>8, <3>2 DEF Types
      <4>2. ReadInfo(c) = info[c]
        BY <4>1 DEF ReadInfo
      <4>3. QED
        BY <1>1, <1>6, <4>1, <4>2
    <3>3. QED
      BY <3>1, <3>2
  <2>2. QED
    BY <2>1 DEF EntriesAreWhole
<1>12. CallHasItsCell'
  <2>1. call'.lidx = c /\ call'.op = op /\ call'.batch = batch
    BY <1>1
  <2>2. Updating' => op \in {"add", "set"}
    BY <2>1 DEF Updating
  <2>3. Updating' => /\ mode' = "read_write" /\ call'.batch \in Batches
                     /\ call'.op = "add" => cell'.fold + Len(call'.batch) <= MaxFold
    BY <1>1, <1>2, <2>1, <2>2
  <2>4. call'.lidx \in Cells /\ cell' = ReadInfo(call.lidx)'
        /\ (use_cache' => InCache(call.lidx)')
    BY <1>1, <1>8, <2>1
  <2>5. pc' = "evict" => order' # << >> /\ Last(order') = call'.lidx
    BY <1>8, <2>1
  <2>6. QED
    BY <1>1, <2>1, <2>3, <2>4, <2>5 DEF CallHasItsCell
<1>13. BlocksFit'
  BY <1>1 DEF MapInv, BlocksFit, CellsOnDisk, ListInPlace
<1>14. SameLists
  <2>1. \A d \in Cells : DiskIndexes(d)' = DiskIndexes(d)
    BY <1>1 DEF DiskIndexes
  <2>2. ASSUME NEW d \in Cells PROVE Visible(d)' = Visible(d)
    <3>1. CASE entry'[d] = entry[d]
      BY <1>1, <3>1 DEF Visible
    <3>2. CASE entry'[d] # entry[d]
      <4>1. d = c /\ entry'[c] = new /\ ~InCache(c)
        BY <1>5, <1>7, <1>8, <3>2 DEF Types
      <4>2. ReadInfo(c) = info[c]
        BY <4>1 DEF ReadInfo
      <4>3. Visible(c)' = Stored(words, info[c])
        BY <1>1, <1>6, <4>1, <4>2 DEF Visible, Shown, Stored
      <4>4. Visible(c) = Stored(words, info[c])
        BY <1>3, <4>1 DEF Visible, Shown, Cached
      <4>5. QED
        BY <4>1, <4>3, <4>4
    <3>3. QED
      BY <3>1, <3>2
  <2>3. QED
    BY <2>1, <2>2 DEF SameLists
<1>15. DroppedIsSaved'
  BY <1>1, <1>14 DEF MapInv, DroppedIsSaved, IsSaved, SameLists
<1>16. ListIsWritten' /\ VictimIsWritten' /\ CopySoFar'
  BY <1>1 DEF ListIsWritten, VictimIsWritten, CopySoFar
<1>17. QED
  BY <1>9, <1>10, <1>11, <1>12, <1>13, <1>14, <1>15, <1>16 DEF MapInv

(***************************************************************************)
(* A call that returns ends with no call, no cell and nothing half done.   *)
(***************************************************************************)
LEMMA IdleParts ==
  ASSUME pc' = "idle", mode' # "damaged" => Fit(words', file_end', info')
  PROVE  /\ CallHasItsCell' /\ BlocksFit' /\ ListIsWritten' /\ VictimIsWritten'
         /\ CopySoFar'
<1>1. CallHasItsCell'
  BY DEF CallHasItsCell, Updating
<1>2. BlocksFit'
  BY DEF BlocksFit, CellsOnDisk, ListInPlace
<1>3. ListIsWritten' /\ VictimIsWritten' /\ CopySoFar'
  BY DEF ListIsWritten, VictimIsWritten, CopySoFar
<1>4. QED
  BY <1>1, <1>2, <1>3

\* The blocks of the cells in the file, outside a write in place.
LEMMA FileFits ==
  ASSUME MapInv, mode # "damaged", ~ListInPlace
  PROVE  Fit(words, file_end, info)
BY DEF MapInv, BlocksFit, CellsOnDisk

LEMMA ReturnTypes ==
  ASSUME MapInv, NEW result, Return(result)
  PROVE  call' \in Calls /\ cell' \in MapCell /\ pc' = "idle" /\ answer' = result
BY EmptyCellType DEF Return, Calls, NoCall

LEMMA GetFoldStep ==
  ASSUME MapInv, GetFold
  PROVE  /\ MapInv' /\ SameLists /\ call.lidx \in Cells
         /\ answer' = [fold |-> Len(Visible(call.lidx)), indexes |-> << >>]
<1>1. /\ pc = "body" /\ call.op = "fold"
      /\ Return([fold |-> cell.fold, indexes |-> << >>])
      /\ UNCHANGED <<byte_order, mode, info, words, file_end, use_cache, order,
                     entry, victim, todo, tmp>>
  BY DEF GetFold, CallFrame, file_vars, flush_vars
<1>2. call' \in Calls /\ cell' \in MapCell /\ pc' = "idle"
  BY <1>1, ReturnTypes
<1>3. Types'
  BY <1>1, <1>2 DEF MapInv, Types
<1>4. CacheIsOrdered'
  <2>1. \A d \in Cells : Cached(d)' <=> InCache(d)'
    BY <1>1 DEF MapInv, CacheIsOrdered, Cached, InCache
  <2>2. QED
    BY <1>1, <1>2, <2>1 DEF MapInv, CacheIsOrdered, IsInjective
<1>5. EntriesAreWhole'
  BY <1>1 DEF MapInv, EntriesAreWhole, Cached
<1>6. Fit(words', file_end', info')
  <2>1. mode # "damaged" /\ ~ListInPlace
    BY <1>1 DEF ListInPlace, MapInv, CacheIsOrdered
  <2>2. QED
    BY <1>1, <2>1, FileFits
<1>7. SameLists
  BY <1>1 DEF SameLists, Visible, DiskIndexes
<1>8. DroppedIsSaved'
  BY <1>1, <1>2, <1>7 DEF MapInv, DroppedIsSaved, IsSaved, SameLists
<1>9. MapInv'
  BY <1>2, <1>3, <1>4, <1>5, <1>6, <1>8, IdleParts DEF MapInv
<1>10. call.lidx \in Cells /\ cell = ReadInfo(call.lidx)
  BY <1>1 DEF MapInv, CallHasItsCell
<1>11. Cached(call.lidx) <=> InCache(call.lidx)
  BY <1>1, <1>10 DEF MapInv, CacheIsOrdered
<1>12. cell.fold = Len(Visible(call.lidx))
  BY <1>10, <1>11, ReadsVisible
<1>13. QED
  BY <1>1, <1>7, <1>9, <1>10, <1>12, ReturnTypes

(***************************************************************************)
(* The reads and updates of a cell.                                        *)
(***************************************************************************)

\* An entry once its list was read: it is not smaller than the list.
LEMMA ListRead ==
  ASSUME MapInv, NEW c \in Cells, InCache(c), Cached(c), cell = entry[c].cell,
         cell.fold > 2
  PROVE  /\ AfterReadList(c) \in EntryType
         /\ AfterReadList(c).cell = entry[c].cell
         /\ AfterReadList(c).list # << >>
         /\ Len(AfterReadList(c).list) = cell.fold + 1
         /\ Front(AfterReadList(c).list) = Visible(c)
         /\ AfterReadList(c).list_size >= 0
<1>1. ReadInfo(c) = cell
  BY DEF ReadInfo
<1>2. /\ ListOf(c, cell) \in Seq(Int) /\ Len(ListOf(c, cell)) = cell.fold + 1
      /\ Front(ListOf(c, cell)) = Visible(c) /\ cell \in MapCell
  BY <1>1, ReadsVisible
<1>3. cell.fold \in Nat /\ ListOf(c, cell) # << >>
  BY <1>2, FoldIsNat
<1>4. entry[c] \in EntryType /\ entry[c].list_size \in Int
  BY DEF MapInv, Types, EntryType
<1>5. CASE entry[c].list # << >>
  <2>1. AfterReadList(c) = entry[c] /\ ListOf(c, cell) = entry[c].list
    BY <1>5 DEF AfterReadList, ListOf
  <2>2. QED
    BY <1>2, <1>3, <1>4, <2>1 DEF Cached
<1>6. CASE entry[c].list = << >>
  <2>1. PICK n \in Int : n = entry[c].list_size /\ n >= 0
    BY <1>4 DEF Cached
  <2>2. GrowBy \div 2 \in Nat
    OBVIOUS
  <2>3. RoomFor(n, cell.fold) \in Int /\ RoomFor(n, cell.fold) >= 0
    BY <1>3, <2>1, <2>2 DEF RoomFor
  <2>4. AfterReadList(c) = [cell |-> entry[c].cell, list |-> ListOf(c, cell),
                            list_size |-> RoomFor(n, cell.fold)]
    BY <1>4, <1>6, <2>1 DEF AfterReadList, EntryType
  <2>5. AfterReadList(c) \in EntryType
    BY <1>2, <1>4, <2>3, <2>4 DEF EntryType
  <2>6. QED
    BY <1>2, <1>3, <2>3, <2>4, <2>5
<1>7. QED
  BY <1>5, <1>6

LEMMA GetIndexesStep ==
  ASSUME MapInv, GetIndexes
  PROVE  /\ MapInv' /\ SameLists /\ call.lidx \in Cells
         /\ answer' = [fold |-> Len(Visible(call.lidx)),
                       indexes |-> Visible(call.lidx)]
<1>1. PICK c \in Cells : c = call.lidx
  BY DEF GetIndexes, MapInv, CallHasItsCell
<1>2. /\ pc = "body" /\ call.op = "get"
      /\ Return([fold |-> cell.fold, indexes |-> Indexes(c, cell)])
      /\ entry' = IF cell.fold > 2 /\ InCache(c)
                  THEN [entry EXCEPT ![c] = AfterReadList(c)] ELSE entry
      /\ UNCHANGED <<byte_order, mode, info, words, file_end, use_cache, order,
                     victim, todo, tmp>>
  BY <1>1 DEF GetIndexes, CallFrame, file_vars, flush_vars
<1>3. call' \in Calls /\ cell' \in MapCell /\ pc' = "idle"
  BY <1>2, ReturnTypes
<1>4. cell = ReadInfo(c)
  BY <1>1, <1>2 DEF MapInv, CallHasItsCell
<1>5. \A d \in Cells : Cached(d) <=> InCache(d)
  BY <1>2 DEF MapInv, CacheIsOrdered
<1>6. /\ cell \in MapCell /\ Indexes(c, cell) = Visible(c)
      /\ cell.fold = Len(Visible(c))
  BY <1>4, <1>5, ReadsVisible
<1>7. entry \in [Cells -> EntryType]
  BY DEF MapInv, Types, EntryType
<1>8. /\ entry' \in [Cells -> EntryType]
      /\ \A d \in Cells \ {c} : entry'[d] = entry[d]
      /\ \/ entry'[c] = entry[c]
         \/ /\ cell.fold > 2 /\ Cached(c) /\ entry'[c].cell = entry[c].cell
            /\ cell = entry[c].cell
            /\ entry'[c].list # << >> /\ Len(entry'[c].list) = cell.fold + 1
            /\ Front(entry'[c].list) = Visible(c) /\ entry'[c].list_size >= 0
  <2>1. CASE cell.fold > 2 /\ InCache(c)
    <3>1. cell = entry[c].cell
      BY <1>4, <2>1 DEF ReadInfo
    <3>2. /\ AfterReadList(c) \in EntryType
          /\ AfterReadList(c).cell = entry[c].cell
          /\ AfterReadList(c).list # << >>
          /\ Len(AfterReadList(c).list) = cell.fold + 1
          /\ Front(AfterReadList(c).list) = Visible(c)
          /\ AfterReadList(c).list_size >= 0
      BY <1>5, <2>1, <3>1, ListRead
    <3>3. /\ entry' \in [Cells -> EntryType] /\ entry'[c] = AfterReadList(c)
          /\ \A d \in Cells \ {c} : entry'[d] = entry[d]
      BY <1>2, <1>7, <2>1, <3>2
    <3>4. QED
      BY <1>5, <2>1, <3>1, <3>2, <3>3
  <2>2. CASE ~(cell.fold > 2 /\ InCache(c))
    BY <1>2, <1>7, <2>2
  <2>3. QED
    BY <2>1, <2>2
<1>9. \A d \in Cells : Cached(d)' <=> Cached(d)
  BY <1>8 DEF Cached
<1>10. Types'
  BY <1>2, <1>3, <1>8 DEF MapInv, Types, EntryType
<1>11. CacheIsOrdered'
  <2>1. \A d \in Cells : Cached(d)' <=> InCache(d)'
    BY <1>2, <1>5, <1>9 DEF InCache
  <2>2. QED
    BY <1>2, <1>3, <2>1 DEF MapInv, CacheIsOrdered, IsInjective
<1>12. EntriesAreWhole'
  <2>1. ASSUME NEW d \in Cells, Cached(d)', entry'[d].cell.fold > 2
        PROVE  IF entry'[d].list = << >> THEN entry'[d].cell = info'[d]
               ELSE Len(entry'[d].list) = entry'[d].cell.fold + 1
    <3>1. CASE entry'[d] = entry[d]
      BY <1>2, <1>9, <2>1, <3>1 DEF MapInv, EntriesAreWhole
    <3>2. CASE entry'[d] # entry[d]
      BY <1>8, <3>2
    <3>3. QED
      BY <3>1, <3>2
  <2>2. QED
    BY <2>1 DEF EntriesAreWhole
<1>13. Fit(words', file_end', info')
  <2>1. mode # "damaged" /\ ~ListInPlace
    BY <1>2 DEF ListInPlace, MapInv, CacheIsOrdered
  <2>2. QED
    BY <1>2, <2>1, FileFits
<1>14. SameLists
  <2>1. \A d \in Cells : DiskIndexes(d)' = DiskIndexes(d)
    BY <1>2 DEF DiskIndexes
  <2>2. ASSUME NEW d \in Cells PROVE Visible(d)' = Visible(d)
    <3>1. CASE entry'[d] = entry[d]
      BY <1>2, <3>1 DEF Visible
    <3>2. CASE entry'[d] # entry[d]
      <4>1. ~(entry'[c].cell.fold < 3)
        BY <1>6, <1>8, <3>2, FoldIsNat
      <4>2. QED
        BY <1>8, <3>2, <4>1 DEF Visible, Shown
    <3>3. QED
      BY <3>1, <3>2
  <2>3. QED
    BY <2>1, <2>2 DEF SameLists
<1>15. DroppedIsSaved'
  BY <1>2, <1>3, <1>14 DEF MapInv, DroppedIsSaved, IsSaved, SameLists
<1>16. MapInv'
  BY <1>3, <1>10, <1>11, <1>12, <1>13, <1>15, IdleParts DEF MapInv
<1>17. QED
  BY <1>1, <1>2, <1>6, <1>14, <1>16, ReturnTypes

\* The size of a new block: it holds the list, with room to spare but no
\* more than grow_by and one.
LEMMA GrownBlockFits ==
  ASSUME NEW b \in Int, NEW f \in Int, b < f
  PROVE  GrownBlock(b, f) \in f + 2 .. f + 1 + GrowBy
<1>1. PICK n \in Nat : n = f - b + 1
  OBVIOUS
<1>2. \A g \in Nat \ {0} : /\ n \div g \in Int
                           /\ g * (n \div g) <= n /\ n < g * (n \div g) + g
  BY Z3
<1>3. PICK q \in Int : q = n \div GrowBy /\ GrowBy * q <= n /\ n < GrowBy * q + GrowBy
  BY <1>2
<1>4. (1 + q) * GrowBy = GrowBy * q + GrowBy
  OBVIOUS
<1>5. PICK p \in Int : p = GrowBy * q
  OBVIOUS
<1>6. GrownBlock(b, f) = b + (p + GrowBy)
  BY <1>1, <1>3, <1>4, <1>5 DEF GrownBlock
<1>7. QED
  BY <1>1, <1>3, <1>5, <1>6

LEMMA SmallCellType ==
  ASSUME NEW list \in Seq(Int), Len(list) <= MaxFold, Len(list) < 3
  PROVE  /\ SmallCell(list) \in MapCell /\ SmallCell(list).fold = Len(list)
         /\ SmallCell(list).idx = list
BY DEF SmallCell, MapCell, CellType, Consistent

\* Without a cache a reader gets what is in the file.
LEMMA NothingCached ==
  ASSUME MapInv, ~use_cache, pc # "evict_info"
  PROVE  \A c \in Cells : /\ ~Cached(c) /\ ~InCache(c)
                          /\ Visible(c) = DiskIndexes(c)
                          /\ ReadInfo(c) = info[c]
<1>1. \A c \in Cells : ~InCache(c)
  <2>1. order = << >>
    BY DEF MapInv, CacheIsOrdered
  <2>2. QED
    BY <2>1 DEF InCache, Range
<1>2. \A c \in Cells : ~Cached(c)
  BY <1>1 DEF MapInv, CacheIsOrdered
<1>3. QED
  BY <1>1, <1>2 DEF Visible, Shown, DiskIndexes, ReadInfo, Cached

\* The list that an update makes, and the block it is for.
LEMMA UpdateFacts ==
  ASSUME MapInv, pc = "body", call.op \in {"add", "set"}
  PROVE  /\ call.lidx \in Cells /\ mode = "read_write" /\ call.batch \in Batches
         /\ cell \in MapCell /\ cell = ReadInfo(call.lidx)
         /\ Cached(call.lidx) <=> InCache(call.lidx)
         /\ use_cache => InCache(call.lidx)
         /\ NewList \in Seq(Int) /\ NewFold = Len(NewList) /\ NewFold \in 0 .. MaxFold
         /\ NewList = IF call.op = "add" THEN Visible(call.lidx) \o call.batch
                      ELSE call.batch
         /\ BlockSize \in Int
         /\ Outgrown => BlockSize \in NewFold + 2 .. NewFold + 1 + GrowBy
         /\ ~Outgrown /\ NewFold > 2 =>
              /\ call.op = "add" /\ cell.fold > 2
              /\ BlockSize = Last(ListOf(call.lidx, cell)) /\ NewFold <= BlockSize
<1>1. /\ call.lidx \in Cells /\ cell = ReadInfo(call.lidx)
      /\ use_cache => InCache(call.lidx)
      /\ mode = "read_write" /\ call.batch \in Batches
      /\ call.op = "add" => cell.fold + Len(call.batch) <= MaxFold
  BY DEF MapInv, CallHasItsCell, Updating
<1>2. Cached(call.lidx) <=> InCache(call.lidx)
  BY <1>1 DEF MapInv, CacheIsOrdered
<1>3. /\ cell \in MapCell /\ Indexes(call.lidx, cell) = Visible(call.lidx)
      /\ Visible(call.lidx) \in Seq(Int) /\ Len(Visible(call.lidx)) = cell.fold
      /\ cell.fold > 2 => Last(ListOf(call.lidx, cell)) \in Int
  BY <1>1, <1>2, ReadsVisible
<1>4. call.batch \in Seq(Int) /\ Len(call.batch) <= MaxFold /\ cell.fold \in Nat
  BY <1>1, <1>3, FoldIsNat, BatchesAssumption
<1>5. /\ NewList \in Seq(Int) /\ NewFold \in 0 .. MaxFold
      /\ NewList = IF call.op = "add" THEN Visible(call.lidx) \o call.batch
                   ELSE call.batch
  <2>1. CASE call.op = "add"
    <3>1. Kept = Visible(call.lidx)
      <4>1. CASE cell.fold = 0
        BY <1>3, <2>1, <4>1, EmptySeq DEF Kept, StartFold
      <4>2. CASE cell.fold # 0
        BY <1>3, <2>1, <4>2 DEF Kept, StartFold
      <4>3. QED
        BY <4>1, <4>2
    <3>2. NewList = Visible(call.lidx) \o call.batch
      BY <3>1 DEF NewList
    <3>3. /\ NewList \in Seq(Int)
          /\ Len(NewList) = Len(Visible(call.lidx)) + Len(call.batch)
      BY <1>3, <1>4, <3>2, ConcatProperties
    <3>4. NewFold \in 0 .. MaxFold
      BY <1>1, <1>3, <1>4, <2>1, <3>3 DEF NewFold
    <3>5. QED
      BY <2>1, <3>2, <3>3, <3>4
  <2>2. CASE call.op = "set"
    <3>1. Kept = << >>
      BY <2>2 DEF Kept, StartFold
    <3>2. NewList = call.batch
      BY <1>4, <3>1, ConcatEmptySeq DEF NewList
    <3>3. QED
      BY <1>4, <2>2, <3>2 DEF NewFold
  <2>3. QED
    BY <2>1, <2>2
<1>6. StartFold \in Nat /\ (StartFold # 0 => call.op = "add" /\ StartFold = cell.fold)
  BY <1>4 DEF StartFold
<1>7. OldBlock \in Int
  BY <1>3, <1>6 DEF OldBlock
<1>8. Outgrown => BlockSize \in NewFold + 2 .. NewFold + 1 + GrowBy
  BY <1>5, <1>7, GrownBlockFits DEF Outgrown, BlockSize
<1>9. BlockSize \in Int
  <2>1. NewFold \in Int
    BY <1>5
  <2>2. CASE Outgrown
    BY <1>8, <2>1, <2>2
  <2>3. CASE ~Outgrown
    BY <1>7, <2>3 DEF BlockSize
  <2>4. QED
    BY <2>2, <2>3
<1>10. ASSUME ~Outgrown, NewFold > 2
       PROVE  /\ call.op = "add" /\ cell.fold > 2
              /\ BlockSize = Last(ListOf(call.lidx, cell)) /\ NewFold <= BlockSize
  <2>1. OldBlock >= NewFold /\ BlockSize = OldBlock
    BY <1>5, <1>7, <1>10 DEF Outgrown, BlockSize
  <2>2. ~(StartFold < 3)
    BY <1>5, <1>10, <2>1 DEF OldBlock
  <2>3. call.op = "add" /\ cell.fold > 2 /\ StartFold > 2
    BY <1>6, <2>2
  <2>4. OldBlock = Last(ListOf(call.lidx, cell))
    BY <2>2 DEF OldBlock
  <2>5. QED
    BY <1>5, <1>7, <2>1, <2>3, <2>4
<1>11. NewFold = Len(NewList)
  BY DEF NewFold
<1>12. QED
  BY <1>1, <1>2, <1>3, <1>5, <1>8, <1>9, <1>10, <1>11

\* What an update of a cell does to the lists.
Updated(c, batch, append) ==
  \A d \in Cells :
    /\ Visible(d)' = IF d = c THEN IF append THEN Visible(c) \o batch ELSE batch
                     ELSE Visible(d)
    /\ DiskIndexes(d)' = IF use_cache THEN DiskIndexes(d) ELSE Visible(d)'

\* One cached cell was changed in memory, and the call returned.
LEMMA EntryChanged ==
  ASSUME MapInv, NEW c \in Cells, pc = "body", mode = "read_write", Cached(c),
         NEW e \in EntryType, entry' = [entry EXCEPT ![c] = e], e.list_size >= 0,
         e.cell.fold > 2 => e.list # << >> /\ Len(e.list) = e.cell.fold + 1,
         Return(NoAnswer), CallFrame, UNCHANGED <<info, words, file_end>>
  PROVE  /\ MapInv'
         /\ \A d \in Cells : DiskIndexes(d)' = DiskIndexes(d)
         /\ \A d \in Cells \ {c} : Visible(d)' = Visible(d)
         /\ Visible(c)' = IF e.cell.fold < 3 THEN e.cell.idx ELSE Front(e.list)
<1>1. UNCHANGED <<byte_order, mode, info, words, file_end, use_cache, order,
                  victim, todo, tmp>>
  BY DEF CallFrame, flush_vars
<1>2. call' \in Calls /\ cell' \in MapCell /\ pc' = "idle"
  BY ReturnTypes
<1>3. /\ entry' \in [Cells -> EntryType] /\ entry'[c] = e
      /\ \A d \in Cells \ {c} : entry'[d] = entry[d]
  BY DEF MapInv, Types, EntryType
<1>4. \A d \in Cells : Cached(d)' <=> Cached(d)
  BY <1>3 DEF Cached
<1>5. Types'
  BY <1>1, <1>2, <1>3 DEF MapInv, Types, EntryType
<1>6. CacheIsOrdered'
  <2>1. \A d \in Cells : Cached(d)' <=> InCache(d)'
    BY <1>1, <1>4 DEF InCache, MapInv, CacheIsOrdered
  <2>2. QED
    BY <1>1, <1>2, <2>1 DEF MapInv, CacheIsOrdered, IsInjective
<1>7. EntriesAreWhole'
  <2>1. ASSUME NEW d \in Cells, Cached(d)', entry'[d].cell.fold > 2
        PROVE  IF entry'[d].list = << >> THEN entry'[d].cell = info'[d]
               ELSE Len(entry'[d].list) = entry'[d].cell.fold + 1
    <3>1. CASE d # c
      BY <1>1, <1>3, <1>4, <2>1, <3>1 DEF MapInv, EntriesAreWhole
    <3>2. CASE d = c
      BY <1>3, <2>1, <3>2
    <3>3. QED
      BY <3>1, <3>2
  <2>2. QED
    BY <2>1 DEF EntriesAreWhole
<1>8. Fit(words', file_end', info')
  <2>1. mode # "damaged" /\ ~ListInPlace
    BY DEF ListInPlace
  <2>2. QED
    BY <1>1, <2>1, FileFits
<1>9. DroppedIsSaved'
  BY <1>1, <1>2 DEF DroppedIsSaved
<1>10. MapInv'
  BY <1>2, <1>5, <1>6, <1>7, <1>8, <1>9, IdleParts DEF MapInv
<1>11. \A d \in Cells : DiskIndexes(d)' = DiskIndexes(d)
  BY <1>1 DEF DiskIndexes
<1>12. \A d \in Cells \ {c} : Visible(d)' = Visible(d)
  BY <1>1, <1>3 DEF Visible
<1>13. Visible(c)' = IF e.cell.fold < 3 THEN e.cell.idx ELSE Front(e.list)
  <2>1. e.cell \in MapCell
    BY DEF EntryType
  <2>2. e.cell.fold < 3 <=> ~(e.cell.fold > 2)
    BY <2>1, FoldIsNat
  <2>3. QED
    BY <1>3, <2>2 DEF Visible, Shown
<1>14. QED
  BY <1>10, <1>11, <1>12, <1>13

\* One cell of the file was changed without a cache, and the call returned.
LEMMA CellChanged ==
  ASSUME MapInv, NEW c \in Cells, pc \in {"body", "write_info"},
         mode = "read_write", ~use_cache,
         NEW x \in MapCell, info' = [info EXCEPT ![c] = x],
         Fit(words, file_end, [info EXCEPT ![c] = x]),
         Return(NoAnswer), CallFrame, UNCHANGED <<words, file_end, entry>>
  PROVE  /\ MapInv'
         /\ \A d \in Cells \ {c} : DiskIndexes(d)' = DiskIndexes(d)
         /\ \A d \in Cells : Visible(d)' = DiskIndexes(d)'
         /\ DiskIndexes(c)' = Stored(words, x)
<1>1. UNCHANGED <<byte_order, mode, words, file_end, use_cache, order, entry,
                  victim, todo, tmp>>
  BY DEF CallFrame, flush_vars
<1>2. call' \in Calls /\ cell' \in MapCell /\ pc' = "idle"
  BY ReturnTypes
<1>3. /\ info' \in [Cells -> MapCell] /\ info'[c] = x
      /\ \A d \in Cells \ {c} : info'[d] = info[d]
  BY DEF MapInv, Types
<1>4. \A d \in Cells : ~Cached(d) /\ ~InCache(d)
  BY NothingCached
<1>5. \A d \in Cells : ~Cached(d)' /\ ~InCache(d)'
  BY <1>1, <1>4 DEF Cached, InCache
<1>6. Types'
  BY <1>1, <1>2, <1>3 DEF MapInv, Types
<1>7. CacheIsOrdered'
  BY <1>1, <1>2, <1>5 DEF MapInv, CacheIsOrdered, IsInjective
<1>8. EntriesAreWhole'
  BY <1>5 DEF EntriesAreWhole
<1>9. Fit(words', file_end', info')
  BY <1>1
<1>10. DroppedIsSaved'
  BY <1>1, <1>2 DEF DroppedIsSaved
<1>11. MapInv'
  BY <1>2, <1>6, <1>7, <1>8, <1>9, <1>10, IdleParts DEF MapInv
<1>12. \A d \in Cells \ {c} : DiskIndexes(d)' = DiskIndexes(d)
  BY <1>1, <1>3 DEF DiskIndexes
<1>13. \A d \in Cells : Visible(d)' = DiskIndexes(d)'
  BY <1>5 DEF Visible, Shown, DiskIndexes, Cached
<1>14. DiskIndexes(c)' = Stored(words, x)
  BY <1>1, <1>3 DEF DiskIndexes
<1>15. QED
  BY <1>11, <1>12, <1>13, <1>14

LEMMA UpdateSmallStep ==
  ASSUME MapInv, UpdateSmall
  PROVE  /\ MapInv' /\ answer' = NoAnswer
         /\ call.lidx \in Cells /\ call.batch \in Batches /\ mode = "read_write"
         /\ Updated(call.lidx, call.batch, call.op = "add")
<1>1. PICK c \in Cells : c = call.lidx
  BY UpdateFacts DEF UpdateSmall
<1>2. /\ pc = "body" /\ call.op \in {"add", "set"} /\ NewFold < 3
      /\ Return(NoAnswer) /\ CallFrame /\ UNCHANGED <<words, file_end>>
  BY DEF UpdateSmall
<1>3. /\ mode = "read_write" /\ call.batch \in Batches
      /\ use_cache => InCache(c) /\ Cached(c)
      /\ NewList \in Seq(Int) /\ NewFold = Len(NewList) /\ NewFold \in 0 .. MaxFold
      /\ NewList = IF call.op = "add" THEN Visible(c) \o call.batch ELSE call.batch
  BY <1>1, <1>2, UpdateFacts
<1>4. PICK x \in MapCell : x = SmallCell(NewList) /\ x.fold < 3 /\ x.idx = NewList
  <2>1. PICK s \in Seq(Int) : s = NewList /\ Len(s) <= MaxFold /\ Len(s) < 3
    <3>1. NewFold <= MaxFold /\ NewFold < 3
      BY <1>2, <1>3
    <3>2. QED
      BY <1>3, <3>1
  <2>2. /\ SmallCell(s) \in MapCell /\ SmallCell(s).fold = Len(s)
        /\ SmallCell(s).idx = s
    BY <2>1, SmallCellType
  <2>3. QED
    BY <2>1, <2>2
<1>5. answer' = NoAnswer
  BY <1>2, ReturnTypes
<1>6. CASE use_cache
  <2>1. entry[c] \in EntryType
    BY DEF MapInv, Types, EntryType
  <2>2. PICK e \in EntryType : /\ e = [entry[c] EXCEPT !.cell = x] /\ e.cell = x
                               /\ e.list_size = entry[c].list_size
    <3>1. [entry[c] EXCEPT !.cell = x] =
            [cell |-> x, list |-> entry[c].list, list_size |-> entry[c].list_size]
      BY <2>1 DEF EntryType
    <3>2. [cell |-> x, list |-> entry[c].list, list_size |-> entry[c].list_size]
            \in EntryType
      BY <2>1 DEF EntryType
    <3>3. QED
      BY <3>1, <3>2
  <2>3. entry' = [entry EXCEPT ![c] = e] /\ info' = info
    BY <1>1, <1>4, <1>6, <2>2 DEF UpdateSmall
  <2>4. e.list_size >= 0 /\ ~(e.cell.fold > 2)
    BY <1>3, <1>4, <1>6, <2>2, FoldIsNat DEF Cached
  <2>5. /\ MapInv'
        /\ \A d \in Cells : DiskIndexes(d)' = DiskIndexes(d)
        /\ \A d \in Cells \ {c} : Visible(d)' = Visible(d)
        /\ Visible(c)' = NewList
    BY <1>2, <1>3, <1>4, <1>6, <2>2, <2>3, <2>4, EntryChanged
  <2>6. Updated(c, call.batch, call.op = "add")
    BY <1>3, <1>6, <2>5 DEF Updated
  <2>7. QED
    BY <1>1, <1>3, <1>5, <2>5, <2>6
<1>7. CASE ~use_cache
  <2>1. info' = [info EXCEPT ![c] = x] /\ entry' = entry
    BY <1>1, <1>4, <1>7 DEF UpdateSmall
  <2>2. Fit(words, file_end, info) /\ info \in [Cells -> MapCell]
    BY <1>2, <1>3, FileFits DEF ListInPlace, MapInv, Types
  <2>3. /\ BlockFits(words, file_end, x)
        /\ \A d \in Cells \ {c} : Apart(words, x, info[d])
    BY <1>4, SmallBlock
  <2>4. Fit(words, file_end, [info EXCEPT ![c] = x])
    BY <2>2, <2>3, CellReplaced
  <2>5. /\ MapInv'
        /\ \A d \in Cells \ {c} : DiskIndexes(d)' = DiskIndexes(d)
        /\ \A d \in Cells : Visible(d)' = DiskIndexes(d)'
        /\ DiskIndexes(c)' = Stored(words, x)
    BY <1>2, <1>3, <1>7, <2>1, <2>4, CellChanged
  <2>6. Stored(words, x) = NewList
    BY <1>4 DEF Stored
  <2>7. \A d \in Cells : Visible(d) = DiskIndexes(d)
    BY <1>2, <1>7, NothingCached
  <2>8. Updated(c, call.batch, call.op = "add")
    BY <1>3, <1>7, <2>5, <2>6, <2>7 DEF Updated
  <2>9. QED
    BY <1>1, <1>3, <1>5, <2>5, <2>8
<1>8. QED
  BY <1>6, <1>7

LEMMA NewCellType ==
  ASSUME MapInv, pc = "body", call.op \in {"add", "set"}, NewFold > 2
  PROVE  /\ NewCell \in MapCell /\ NewCell.fold = NewFold
         /\ NewCell.off = IF Outgrown THEN file_end ELSE cell.off
         /\ NewFold \in 3 .. MaxFold
<1>1. file_end \in Nat /\ cell \in MapCell
  BY DEF MapInv, Types, File
<1>2. cell.off \in Nat
  BY <1>1, FoldIsNat
<1>3. NewFold \in 3 .. MaxFold
  <2>1. NewFold \in 0 .. MaxFold
    BY UpdateFacts
  <2>2. QED
    BY <2>1
<1>4. PICK off \in Nat : off = IF Outgrown THEN file_end ELSE cell.off
  BY <1>1, <1>2
<1>5. NewCell = LargeCell(NewFold, off)
  BY <1>4 DEF NewCell
<1>6. QED
  BY <1>3, <1>4, <1>5, LargeCellType

LEMMA UpdateCachedListStep ==
  ASSUME MapInv, UpdateCachedList
  PROVE  /\ MapInv' /\ answer' = NoAnswer
         /\ call.lidx \in Cells /\ call.batch \in Batches /\ mode = "read_write"
         /\ Updated(call.lidx, call.batch, call.op = "add")
<1>1. PICK c \in Cells : c = call.lidx
  BY UpdateFacts DEF UpdateCachedList
<1>2. /\ pc = "body" /\ call.op \in {"add", "set"} /\ NewFold > 2 /\ use_cache
      /\ Return(NoAnswer) /\ CallFrame /\ UNCHANGED <<info, words, file_end>>
  BY DEF UpdateCachedList, file_vars
<1>3. /\ mode = "read_write" /\ call.batch \in Batches
      /\ InCache(c) /\ Cached(c) /\ cell = ReadInfo(c)
      /\ NewList \in Seq(Int) /\ NewFold = Len(NewList) /\ NewFold \in 0 .. MaxFold
      /\ NewList = IF call.op = "add" THEN Visible(c) \o call.batch ELSE call.batch
      /\ BlockSize \in Int
  BY <1>1, <1>2, UpdateFacts
<1>4. PICK n \in Int :
        n = (IF StartFold < 3 THEN entry[c] ELSE AfterReadList(c)).list_size
  <2>1. entry[c].list_size \in Int
    BY DEF MapInv, Types
  <2>2. CASE StartFold < 3
    BY <2>1, <2>2
  <2>3. CASE ~(StartFold < 3)
    <3>1. cell = entry[c].cell /\ cell \in MapCell
      BY <1>3 DEF ReadInfo, MapInv, Types
    <3>2. cell.fold > 2
      BY <2>3, <3>1, FoldIsNat DEF StartFold
    <3>3. AfterReadList(c) \in EntryType
      BY <1>3, <3>1, <3>2, ListRead
    <3>4. QED
      BY <2>3, <3>3 DEF EntryType
  <2>4. QED
    BY <2>2, <2>3
<1>5. PICK size \in Int : size = RoomFor(n, NewFold) /\ size >= 0
  <2>1. GrowBy \div 2 \in Nat
    OBVIOUS
  <2>2. PICK f \in Nat : f = NewFold
    BY <1>3
  <2>3. RoomFor(n, f) \in Int /\ RoomFor(n, f) >= 0
    BY <2>1 DEF RoomFor
  <2>4. QED
    BY <2>2, <2>3
<1>6. PICK list \in Seq(Int) : /\ list = Append(NewList, BlockSize)
                               /\ Len(list) = NewFold + 1 /\ list # << >>
                               /\ Front(list) = NewList
  <2>1. PICK s \in Seq(Int), b \in Int : s = NewList /\ b = BlockSize
    BY <1>3
  <2>2. /\ Append(s, b) \in Seq(Int) /\ Append(s, b) # << >>
        /\ Len(Append(s, b)) = Len(s) + 1
    BY AppendProperties
  <2>3. Front(Append(s, b)) = s
    BY FrontOfAppend
  <2>4. QED
    BY <1>3, <2>1, <2>2, <2>3
<1>7. PICK x \in MapCell : x = NewCell /\ x.fold = NewFold
  BY <1>2, NewCellType
<1>8. PICK e \in EntryType : e = [cell |-> x, list |-> list, list_size |-> size]
  BY DEF EntryType
<1>9. entry' = [entry EXCEPT ![c] = e]
  BY <1>1, <1>4, <1>5, <1>6, <1>7, <1>8 DEF UpdateCachedList
<1>10. ~(e.cell.fold < 3)
  BY <1>2, <1>7, <1>8, FoldIsNat
<1>11. /\ MapInv'
       /\ \A d \in Cells : DiskIndexes(d)' = DiskIndexes(d)
       /\ \A d \in Cells \ {c} : Visible(d)' = Visible(d)
       /\ Visible(c)' = NewList
  BY <1>2, <1>3, <1>5, <1>6, <1>7, <1>8, <1>9, <1>10, EntryChanged
<1>12. Updated(c, call.batch, call.op = "add")
  BY <1>2, <1>3, <1>11 DEF Updated
<1>13. answer' = NoAnswer
  BY <1>2, ReturnTypes
<1>14. QED
  BY <1>1, <1>3, <1>11, <1>12, <1>13

(***************************************************************************)
(* The padding of a new block is counted from its size after the write of  *)
(* the list, which left the size in the byte order of the file.  It is     *)
(* enough while the swapped size is not smaller than the size itself; a    *)
(* size whose last byte is 128 or more swaps to a negative number, and the *)
(* block gets no padding (sesi_map.cpp:735).                               *)
(***************************************************************************)
PaddingIsWhole ==
  "swapped" \in ByteOrders =>
    \A n \in 1 .. MaxFold + GrowBy + 1 : Swap32(n) >= n

LEMMA SwapType ==
  ASSUME NEW n \in Nat
  PROVE  Swap32(n) \in Int
BY DEF Swap32, Byte

\* So it is for every block while the longest list and grow_by are small.
LEMMA SmallBlocksArePadded ==
  ASSUME MaxFold + GrowBy < 127
  PROVE  PaddingIsWhole
<1>1. ASSUME NEW n \in 1 .. 127
      PROVE  Swap32(n) >= n
  <2>1. /\ Byte(n, 1) = n /\ Byte(n, 256) = 0 /\ Byte(n, 65536) = 0
        /\ Byte(n, 16777216) = 0
    BY DEF Byte
  <2>2. QED
    BY <2>1 DEF Swap32
<1>2. 1 .. MaxFold + GrowBy + 1 \subseteq 1 .. 127
  OBVIOUS
<1>3. QED
  BY <1>1, <1>2 DEF PaddingIsWhole

\* The first size for which it is not.
LEMMA LargeBlockIsNotPadded == Swap32(128) < 0
<1>1. /\ Byte(128, 1) = 128 /\ Byte(128, 256) = 0 /\ Byte(128, 65536) = 0
      /\ Byte(128, 16777216) = 0
  BY DEF Byte
<1>2. QED
  BY <1>1 DEF Swap32

LEMMA PaddingIsEnough ==
  ASSUME PaddingIsWhole, byte_order \in ByteOrders,
         NewFold \in 0 .. MaxFold, Outgrown,
         BlockSize \in NewFold + 2 .. NewFold + 1 + GrowBy
  PROVE  Padding \in Nat /\ NewFold + Padding >= BlockSize
<1>1. PICK b \in 1 .. MaxFold + GrowBy + 1 : b = BlockSize
  OBVIOUS
<1>2. PICK f \in Nat : f = NewFold /\ b >= f + 2
  BY <1>1
<1>3. PICK a \in Int : a = AfterWrite(b) /\ a >= b
  <2>1. CASE byte_order = "swapped"
    <3>1. AfterWrite(b) = Swap32(b)
      BY <2>1 DEF AfterWrite
    <3>2. Swap32(b) >= b
      BY <2>1 DEF PaddingIsWhole
    <3>3. Swap32(b) \in Int
      BY SwapType
    <3>4. QED
      BY <3>1, <3>2, <3>3
  <2>2. CASE byte_order # "swapped"
    <3>1. AfterWrite(b) = b
      BY <2>2 DEF AfterWrite
    <3>2. QED
      BY <3>1
  <2>3. QED
    BY <2>1, <2>2
<1>4. Padding = IF Outgrown /\ a - f > 0 THEN a - f ELSE 0
  BY <1>1, <1>2, <1>3 DEF Padding
<1>5. QED
  BY <1>1, <1>2, <1>3, <1>4

LEMMA UpdateListStep ==
  ASSUME PaddingIsWhole, MapInv, UpdateList
  PROVE  MapInv' /\ SameLists
<1>1. PICK c \in Cells : c = call.lidx
  BY UpdateFacts DEF UpdateList
<1>2. /\ pc = "body" /\ call.op \in {"add", "set"} /\ NewFold > 2 /\ ~use_cache
      /\ words' = Written(words, Append(NewList, BlockSize), NewCell.off)
      /\ file_end' = Max({file_end, NewCell.off + NewFold + 1 + Padding})
      /\ cell' = NewCell /\ pc' = "write_info"
      /\ UNCHANGED <<byte_order, mode, info, use_cache, order, entry, victim, call,
                     todo, tmp, answer>>
  BY DEF UpdateList, CallFrame, flush_vars
<1>3. /\ mode = "read_write" /\ call.batch \in Batches /\ cell = ReadInfo(c)
      /\ NewList \in Seq(Int) /\ NewFold = Len(NewList)
      /\ NewList = IF call.op = "add" THEN Visible(c) \o call.batch ELSE call.batch
      /\ BlockSize \in Int
      /\ Outgrown => BlockSize \in NewFold + 2 .. NewFold + 1 + GrowBy
      /\ ~Outgrown => /\ call.op = "add" /\ cell.fold > 2
                      /\ BlockSize = Last(ListOf(c, cell)) /\ NewFold <= BlockSize
  BY <1>1, <1>2, UpdateFacts
<1>4. PICK s \in Seq(Int), b \in Int, f \in 3 .. MaxFold :
        s = NewList /\ b = BlockSize /\ f = NewFold /\ Len(s) = f
  BY <1>2, <1>3, NewCellType
<1>5. PICK x \in MapCell : /\ x = NewCell /\ x.fold = f
                           /\ x.off = IF Outgrown THEN file_end ELSE cell.off
  BY <1>2, <1>4, NewCellType
<1>6. PICK list \in Seq(Int) : /\ list = Append(s, b) /\ Len(list) = f + 1
                               /\ Front(list) = s /\ Last(list) = b
                               /\ \A i \in 1 .. f : list[i] = s[i]
  <2>1. /\ Append(s, b) \in Seq(Int) /\ Len(Append(s, b)) = Len(s) + 1
        /\ \A i \in 1 .. Len(s) : Append(s, b)[i] = s[i]
    BY AppendProperties
  <2>2. Front(Append(s, b)) = s /\ Last(Append(s, b)) = b
    BY FrontOfAppend
  <2>3. QED
    BY <1>4, <2>1, <2>2
<1>7. /\ \A d \in Cells : ~Cached(d) /\ ~InCache(d) /\ Visible(d) = DiskIndexes(d)
      /\ cell = info[c]
  BY <1>2, <1>3, NothingCached
<1>8. /\ info \in [Cells -> MapCell] /\ File(words, file_end) /\ file_end \in Nat
      /\ Fit(words, file_end, info)
  BY <1>2, <1>3, FileFits DEF MapInv, Types, File, ListInPlace
<1>9. words' = Written(words, list, x.off) /\ x.fold > 2
  BY <1>2, <1>4, <1>5, <1>6
<1>10. /\ File(words', file_end') /\ ListAt(words', x) = list
       /\ BlockFits(words', file_end', x)
       /\ \A d \in Cells \ {c} : /\ Apart(words', x, info[d])
                                 /\ Stored(words', info[d]) = Stored(words, info[d])
       /\ Stored(words', info[c]) = Stored(words, info[c])
       /\ Fit(words', file_end', CellsOnDisk')
  <2>1. CASE Outgrown
    <3>1. x.off = file_end
      BY <1>5, <2>1
    <3>2. Padding \in Nat /\ f + Padding >= b /\ b >= f
      <4>1. NewFold \in 0 .. MaxFold
        BY <1>4
      <4>2. Padding \in Nat /\ NewFold + Padding >= BlockSize
        BY <1>3, <2>1, <4>1, PaddingIsEnough DEF MapInv, Types
      <4>3. QED
        BY <1>3, <1>4, <2>1, <4>2
    <3>3. PICK p \in Nat : p = Padding /\ f + p >= b
      BY <3>2
    <3>4. PICK end2 \in Nat : end2 = file_end' /\ end2 = file_end + f + 1 + p
      <4>1. file_end + f + 1 + p \in Nat /\ file_end + f + 1 + p >= file_end
        BY <1>8
      <4>2. Max({file_end, file_end + f + 1 + p}) = file_end + f + 1 + p
        BY <1>8, <4>1, MaxOfTwo
      <4>3. QED
        BY <1>2, <1>4, <1>5, <3>1, <3>3, <4>1, <4>2
    <3>5. /\ file_end + Last(list) < end2 /\ Last(list) >= x.fold
          /\ Len(list) = x.fold + 1
      BY <1>5, <1>6, <1>8, <3>2, <3>3, <3>4
    <3>6. LET file == Written(words, list, file_end)
          IN  /\ File(file, end2) /\ Fit(file, end2, info)
              /\ ListAt(file, x) = list /\ BlockFits(file, end2, x)
              /\ \A d \in Cells : /\ Apart(file, x, info[d])
                                  /\ Stored(file, info[d]) = Stored(words, info[d])
      BY <1>8, <1>9, <3>1, <3>5, BlockAppended
    <3>7. CellsOnDisk' = info
      <4>1. info[c].fold > 2 => info[c].off # file_end
        <5>1. BlockFits(words, file_end, info[c]) /\ info[c] \in MapCell
          BY <1>8 DEF Fit
        <5>2. /\ BlockSizeAt(words, info[c]) \in Int /\ info[c].off \in Nat
              /\ info[c].fold \in Nat
              /\ BlockEnd(words, info[c]) = info[c].off + BlockSizeAt(words, info[c])
          BY <1>8, <5>1, BlockSizeType
        <5>3. QED
          BY <1>8, <5>1, <5>2 DEF BlockFits
      <4>2. ~ListInPlace'
        BY <1>1, <1>2, <1>5, <3>1, <4>1 DEF ListInPlace
      <4>3. QED
        BY <1>2, <4>2 DEF CellsOnDisk
    <3>8. QED
      BY <1>9, <3>1, <3>4, <3>6, <3>7
  <2>2. CASE ~Outgrown
    <3>1. /\ call.op = "add" /\ info[c].fold > 2 /\ b = Last(ListOf(c, cell))
          /\ f <= b /\ x.off = info[c].off
      BY <1>3, <1>4, <1>5, <1>7, <2>2
    <3>2. ListOf(c, cell) = ListAt(words, info[c])
      BY <1>7 DEF ListOf, DiskList
    <3>3. b = BlockSizeAt(words, info[c])
      BY <1>8, <3>1, <3>2, ListAtType
    <3>4. PICK later \in [Cells -> MapCell] :
            /\ later = [info EXCEPT ![c] = x] /\ later[c] = x
            /\ \A d \in Cells : d # c => later[d] = info[d]
      <4>1. [info EXCEPT ![c] = x] \in [Cells -> MapCell]
        BY <1>8
      <4>2. QED
        BY <1>8, <4>1
    <3>5. /\ File(words', file_end) /\ Fit(words', file_end, later)
          /\ ListAt(words', x) = list /\ BlockFits(words', file_end, x)
          /\ \A d \in Cells : d # c => Apart(words', x, info[d])
          /\ \A d \in Cells : d # c =>
               Stored(words', info[d]) = Stored(words, info[d])
      <4> DEFINE file == Written(words, list, x.off)
      <4>1. /\ Len(list) = x.fold + 1 /\ Last(list) = BlockSizeAt(words, info[c])
            /\ Last(list) >= x.fold
        BY <1>5, <1>6, <3>1, <3>3
      <4>2. /\ info \in [Cells -> MapCell] /\ File(words, file_end)
            /\ Fit(words, file_end, info) /\ info[c].fold > 2 /\ x.fold > 2
            /\ x.off = info[c].off
        BY <1>8, <1>9, <3>1
      <4>3. File(file, file_end)
        BY <3>4, <4>1, <4>2, BlockRewritten
      <4>4. Fit(file, file_end, later)
        BY <3>4, <4>1, <4>2, BlockRewritten
      <4>5. ListAt(file, x) = list
        <5>1. BlockFits(words, file_end, info[c]) /\ info[c] \in MapCell
          BY <4>2 DEF Fit
        <5>2. /\ info[c].off \in Nat /\ BlockSizeAt(words, info[c]) \in Int
              /\ BlockEnd(words, info[c]) =
                   info[c].off + BlockSizeAt(words, info[c])
          BY <4>2, <5>1, BlockSizeType
        <5>3. x.off >= ListArea /\ x.off + x.fold < file_end
          BY <1>5, <1>8, <4>1, <4>2, <5>1, <5>2 DEF BlockFits
        <5>4. file_end <= file_end
          BY <1>8
        <5>5. QED
          BY <1>8, <4>1, <4>2, <5>3, <5>4, ListWritten
      <4>6. BlockFits(file, file_end, x)
        BY <3>4, <4>4 DEF Fit
      <4>7. \A d \in Cells : d # c => Apart(file, x, info[d])
        BY <3>4, <4>1, <4>2, BlockRewritten
      <4>8. \A d \in Cells : d # c => Stored(file, info[d]) = Stored(words, info[d])
        BY <4>1, <4>2, OthersKept
      <4>9. QED
        BY <1>9, <4>3, <4>4, <4>5, <4>6, <4>7, <4>8
    <3>6. file_end' = file_end
      <4>1. Padding = 0
        BY <2>2 DEF Padding
      <4>2. BlockFits(words, file_end, info[c]) /\ info[c] \in MapCell
        BY <1>8 DEF Fit
      <4>3. /\ info[c].off \in Nat
            /\ BlockEnd(words, info[c]) = info[c].off + b
        BY <1>8, <3>3, <4>2, BlockSizeType
      <4>4. info[c].off + b < file_end
        BY <3>1, <4>2, <4>3 DEF BlockFits
      <4>5. PICK off \in Nat : off = info[c].off /\ off + f + 1 + 0 <= file_end
        BY <1>8, <3>1, <4>3, <4>4
      <4>6. off + f + 1 + 0 \in Int /\ file_end \in Int
        BY <1>8
      <4>7. Max({file_end, off + f + 1 + 0}) = file_end
        BY <4>5, <4>6, MaxOfTwo
      <4>8. QED
        BY <1>2, <1>4, <1>5, <3>1, <4>1, <4>5, <4>7
    <3>7. CellsOnDisk' = [info EXCEPT ![c] = x]
      <4>1. ListInPlace'
        BY <1>1, <1>2, <1>5, <3>1 DEF ListInPlace
      <4>2. QED
        BY <1>1, <1>2, <1>5, <4>1 DEF CellsOnDisk
    <3>8. File(words', file_end) /\ ListAt(words', x) = list
      BY <1>9, <3>5
    <3>9. Stored(words', info[c]) = Stored(words, info[c])
      <4>1. info[c] \in MapCell /\ ~(info[c].fold < 3)
        BY <1>8, <3>1, FoldIsNat
      <4>2. PICK n \in Nat, off \in Nat : n = info[c].fold /\ off = info[c].off
        BY <4>1, FoldIsNat
      <4>3. /\ Stored(words', info[c]) = Front(ListAt(words', info[c]))
            /\ Stored(words, info[c]) = Visible(c)
        BY <1>7, <4>1 DEF Stored, DiskIndexes
      <4>4. /\ Front(ListAt(words', info[c])) \in Seq(Int)
            /\ Len(Front(ListAt(words', info[c]))) = n
            /\ \A i \in 1 .. n : Front(ListAt(words', info[c]))[i] =
                                   Word(words', off + i - 1)
        BY <3>8, <4>1, <4>2, ListAtType
      <4>5. \A i \in 1 .. f + 1 : list[i] = Word(words', off + i - 1)
        <5>1. \A i \in 1 .. x.fold + 1 :
                ListAt(words', x)[i] = Word(words', x.off + i - 1)
          BY <3>8, ListAtType
        <5>2. x.off = off /\ x.fold = f
          BY <1>5, <3>1, <4>2
        <5>3. QED
          BY <3>8, <5>1, <5>2
      <4>6. Visible(c) \in Seq(Int) /\ Len(Visible(c)) = n
        <5>1. Stored(words, info[c]) \in Seq(Int) /\ Len(Stored(words, info[c])) = n
          BY <1>8, <4>1, <4>2, StoredType
        <5>2. QED
          BY <4>3, <5>1
      <4>7. call.batch \in Seq(Int) /\ s = Visible(c) \o call.batch
        BY <1>3, <1>4, <3>1, BatchesAssumption
      <4>8. n <= f /\ \A i \in 1 .. n : s[i] = Visible(c)[i]
        <5>1. PICK v \in Seq(Int), w \in Seq(Int) :
                v = Visible(c) /\ w = call.batch /\ s = v \o w /\ Len(v) = n
          BY <4>6, <4>7
        <5>2. /\ Len(s) = Len(v) + Len(w)
              /\ \A i \in 1 .. Len(v) + Len(w) :
                   s[i] = IF i <= Len(v) THEN v[i] ELSE w[i - Len(v)]
          BY <5>1, ConcatProperties
        <5>3. n <= f
          BY <1>4, <5>1, <5>2
        <5>4. \A i \in 1 .. n : i \in 1 .. Len(v) + Len(w) /\ i <= Len(v)
          BY <5>1
        <5>5. QED
          BY <5>1, <5>2, <5>3, <5>4
      <4>9. \A i \in 1 .. n : Front(ListAt(words', info[c]))[i] = Visible(c)[i]
        <5>1. \A i \in 1 .. n : i \in 1 .. f /\ i \in 1 .. f + 1
          BY <4>8
        <5>2. QED
          BY <1>6, <4>4, <4>5, <4>8, <5>1
      <4>10. Front(ListAt(words', info[c])) = Visible(c)
        BY <4>4, <4>6, <4>9, SeqEqual
      <4>11. QED
        BY <4>3, <4>10
    <3>10. QED
      BY <1>9, <3>4, <3>5, <3>6, <3>7, <3>9
  <2>3. QED
    BY <2>1, <2>2
<1>11. SameLists
  <2>1. \A d \in Cells : Stored(words', info[d]) = Stored(words, info[d])
    BY <1>10
  <2>2. \A d \in Cells : DiskIndexes(d)' = DiskIndexes(d)
    BY <1>2, <2>1 DEF DiskIndexes
  <2>3. \A d \in Cells : Visible(d)' = Visible(d)
    BY <1>2, <2>1 DEF Visible, Shown
  <2>4. QED
    BY <2>2, <2>3 DEF SameLists
<1>12. Types'
  BY <1>2, <1>5, <1>10 DEF MapInv, Types
<1>13. CacheIsOrdered'
  BY <1>2, <1>3 DEF MapInv, CacheIsOrdered, Cached, InCache, IsInjective
<1>14. EntriesAreWhole'
  BY <1>2 DEF MapInv, EntriesAreWhole, Cached
<1>15. CallHasItsCell'
  BY <1>2, <1>3 DEF MapInv, CallHasItsCell, Updating
<1>16. BlocksFit'
  BY <1>10 DEF BlocksFit
<1>17. ListIsWritten'
  <2>1. Front(DiskList(cell)') = s
    BY <1>2, <1>5, <1>6, <1>10 DEF DiskList
  <2>2. IndexesBefore' = IF call.op = "add" THEN Visible(c) ELSE << >>
    BY <1>1, <1>2, <1>7, <1>11 DEF IndexesBefore, SameLists
  <2>3. call.batch = << >> \o call.batch
    BY <1>3, BatchesAssumption, ConcatEmptySeq
  <2>4. s = IndexesBefore' \o call.batch
    BY <1>3, <1>4, <2>2, <2>3
  <2>5. /\ cell' = x /\ call' = call /\ info' = info /\ mode' = "read_write"
        /\ ~use_cache'
    BY <1>2, <1>3, <1>5
  <2>6. Front(DiskList(cell))' = IndexesBefore' \o call'.batch
    BY <2>1, <2>4, <2>5
  <2>7. QED
    BY <1>1, <1>2, <1>9, <1>10, <2>5, <2>6 DEF ListIsWritten
<1>18. VictimIsWritten' /\ DroppedIsSaved' /\ CopySoFar'
  BY <1>2, <1>3 DEF VictimIsWritten, DroppedIsSaved, CopySoFar
<1>19. QED
  BY <1>11, <1>12, <1>13, <1>14, <1>15, <1>16, <1>17, <1>18 DEF MapInv

LEMMA WriteInfoStep ==
  ASSUME MapInv, WriteInfo
  PROVE  /\ MapInv' /\ answer' = NoAnswer
         /\ call.lidx \in Cells /\ call.batch \in Batches /\ mode = "read_write"
         /\ Updated(call.lidx, call.batch, call.op = "add")
<1>1. PICK c \in Cells : c = call.lidx
  BY DEF WriteInfo, MapInv, ListIsWritten
<1>2. /\ pc = "write_info" /\ info' = [info EXCEPT ![c] = cell]
      /\ Return(NoAnswer) /\ CallFrame /\ UNCHANGED <<words, file_end, entry>>
  BY <1>1 DEF WriteInfo
<1>3. /\ ~use_cache /\ mode = "read_write" /\ call.op \in {"add", "set"}
      /\ cell.fold > 2 /\ Front(DiskList(cell)) = IndexesBefore \o call.batch
      /\ BlockFits(words, file_end, cell)
      /\ \A d \in Cells \ {c} : Apart(words, cell, info[d])
  BY <1>1, <1>2 DEF MapInv, ListIsWritten
<1>4. call.batch \in Batches /\ call.batch \in Seq(Int)
  BY <1>2, <1>3, BatchesAssumption DEF MapInv, CallHasItsCell, Updating
<1>5. info \in [Cells -> MapCell] /\ cell \in MapCell
  BY DEF MapInv, Types
<1>6. Fit(words, file_end, [info EXCEPT ![c] = cell])
  <2>1. CASE ListInPlace
    BY <1>1, <1>3, <2>1 DEF MapInv, BlocksFit, CellsOnDisk
  <2>2. CASE ~ListInPlace
    <3>1. Fit(words, file_end, info)
      BY <1>3, <2>2, FileFits
    <3>2. QED
      BY <1>3, <1>5, <3>1, CellReplaced
  <2>3. QED
    BY <2>1, <2>2
<1>7. /\ MapInv'
      /\ \A d \in Cells \ {c} : DiskIndexes(d)' = DiskIndexes(d)
      /\ \A d \in Cells : Visible(d)' = DiskIndexes(d)'
      /\ DiskIndexes(c)' = Stored(words, cell)
  BY <1>2, <1>3, <1>5, <1>6, CellChanged
<1>8. \A d \in Cells : Visible(d) = DiskIndexes(d)
  BY <1>2, <1>3, NothingCached
<1>9. Stored(words, cell) = IndexesBefore \o call.batch
  <2>1. ~(cell.fold < 3)
    BY <1>3, <1>5, FoldIsNat
  <2>2. QED
    BY <1>3, <2>1 DEF Stored, DiskList
<1>10. IndexesBefore \o call.batch = IF call.op = "add" THEN Visible(c) \o call.batch
                                     ELSE call.batch
  BY <1>1, <1>4, <1>8, ConcatEmptySeq DEF IndexesBefore
<1>11. Updated(c, call.batch, call.op = "add")
  BY <1>3, <1>7, <1>8, <1>9, <1>10 DEF Updated
<1>12. answer' = NoAnswer
  BY <1>2, ReturnTypes
<1>13. QED
  BY <1>1, <1>3, <1>4, <1>7, <1>11, <1>12

(***************************************************************************)
(* Flush of the whole cache.                                               *)
(***************************************************************************)
LEMMA CachedInOrder ==
  ASSUME MapInv, pc # "evict_info"
  PROVE  \A c \in Cells : Cached(c) <=> InCache(c)
BY DEF MapInv, CacheIsOrdered

LEMMA NotCachedIsSaved ==
  ASSUME NEW c \in Cells, ~Cached(c)
  PROVE  IsSaved(c)
BY DEF IsSaved, Visible, Shown, DiskIndexes, Cached

\* The file and the cache stay as they are.
LEMMA QuietParts ==
  ASSUME MapInv, pc \notin {"evict_info", "write_info"}, pc' # "evict_info",
         mode \notin {"closed", "damaged"},
         UNCHANGED <<byte_order, mode, info, words, file_end, use_cache, order,
                     entry>>
  PROVE  /\ SameLists /\ EntriesAreWhole'
         /\ \A d \in Cells : Cached(d)' <=> InCache(d)'
         /\ \A d \in Cells : InCache(d)' <=> InCache(d)
         /\ Fit(words', file_end', info')
         /\ \A d \in Cells : IsSaved(d)' <=> IsSaved(d)
<1>1. \A d \in Cells : Cached(d) <=> InCache(d)
  BY CachedInOrder
<1>2. SameLists
  BY DEF SameLists, Visible, DiskIndexes
<1>3. EntriesAreWhole'
  BY DEF MapInv, EntriesAreWhole, Cached
<1>4. \A d \in Cells : InCache(d)' <=> InCache(d)
  BY DEF InCache
<1>5. \A d \in Cells : Cached(d)' <=> InCache(d)'
  BY <1>1, <1>4 DEF Cached
<1>6. Fit(words, file_end, info)
  BY FileFits DEF ListInPlace
<1>7. \A d \in Cells : IsSaved(d)' <=> IsSaved(d)
  BY <1>2 DEF IsSaved, SameLists
<1>8. QED
  BY <1>2, <1>3, <1>4, <1>5, <1>6, <1>7

LEMMA BeginFlushStep ==
  ASSUME MapInv, NEW op \in {"close", "set_cache"}, BeginFlush(op)
  PROVE  MapInv' /\ SameLists /\ answer' = NoAnswer
<1>1. /\ pc = "idle" /\ mode \in {"read_write", "read_only"} /\ pc' = "flush"
      /\ call' = [NoCall EXCEPT !.op = op] /\ answer' = NoAnswer
      /\ todo' = IF use_cache /\ mode = "read_write" THEN Range(order) ELSE {}
      /\ UNCHANGED <<byte_order, mode, info, words, file_end, use_cache, order,
                     entry, cell, victim, tmp>>
  BY DEF BeginFlush, Idle, file_vars, cache_vars
<1>2. /\ SameLists /\ EntriesAreWhole'
      /\ \A d \in Cells : Cached(d)' <=> InCache(d)'
      /\ \A d \in Cells : InCache(d)' <=> InCache(d)
      /\ Fit(words', file_end', info')
      /\ \A d \in Cells : IsSaved(d)' <=> IsSaved(d)
  BY <1>1, QuietParts
<1>3. call'.op = op /\ call' \in Calls
  <2>1. call' = [op |-> op, lidx |-> -1, batch |-> << >>]
    BY <1>1 DEF NoCall
  <2>2. QED
    BY <2>1 DEF Calls
<1>4. order \in Seq(Cells) /\ Range(order) \subseteq Cells
  BY RangeOfSeq DEF MapInv, Types
<1>5. Types'
  BY <1>1, <1>3, <1>4 DEF MapInv, Types
<1>6. CacheIsOrdered'
  <2>1. todo' \subseteq Range(order')
    BY <1>1
  <2>2. QED
    BY <1>1, <1>2, <1>3, <2>1 DEF MapInv, CacheIsOrdered, IsInjective
<1>7. CallHasItsCell'
  BY <1>1 DEF CallHasItsCell, Updating
<1>8. BlocksFit'
  BY <1>1, <1>2 DEF BlocksFit, CellsOnDisk, ListInPlace
<1>9. DroppedIsSaved'
  <2>1. mode' = "read_only" => \A d \in Cells : IsSaved(d)'
    BY <1>1, <1>2 DEF MapInv, DroppedIsSaved
  <2>2. ASSUME NEW d \in Cells, d \notin todo' PROVE IsSaved(d)'
    <3>1. CASE mode = "read_only"
      BY <1>1, <2>1, <3>1
    <3>2. CASE mode = "read_write"
      <4>1. ~InCache(d)
        <5>1. CASE use_cache
          BY <1>1, <2>2, <3>2, <5>1 DEF InCache
        <5>2. CASE ~use_cache
          BY <1>1, <5>2, NothingCached
        <5>3. QED
          BY <5>1, <5>2
      <4>2. IsSaved(d)
        BY <1>1, <4>1, CachedInOrder, NotCachedIsSaved
      <4>3. QED
        BY <1>2, <4>2
    <3>3. QED
      BY <1>1, <3>1, <3>2
  <2>3. QED
    BY <2>1, <2>2 DEF DroppedIsSaved
<1>10. ListIsWritten' /\ VictimIsWritten' /\ CopySoFar'
  BY <1>1 DEF ListIsWritten, VictimIsWritten, CopySoFar
<1>11. QED
  BY <1>1, <1>2, <1>5, <1>6, <1>7, <1>8, <1>9, <1>10 DEF MapInv

LEMMA FlushSmallCellStep ==
  ASSUME MapInv, NEW c \in Cells, FlushSmallCell(c)
  PROVE  MapInv' /\ WroteBack(c)
<1>1. /\ pc = "flush" /\ c \in todo /\ entry[c].cell.fold < 3 /\ FlushInfo(c)
      /\ todo' = todo \ {c}
      /\ UNCHANGED <<byte_order, mode, use_cache, order, entry, victim, call,
                     cell, pc, tmp, answer>>
  BY DEF FlushSmallCell, FlushFrame
<1>2. /\ todo \subseteq Range(order) /\ mode \notin {"closed", "damaged"}
      /\ call.op \in {"close", "set_cache"}
  BY <1>1 DEF MapInv, CacheIsOrdered
<1>3. \A d \in Cells : Cached(d) <=> InCache(d)
  BY <1>1, CachedInOrder
<1>4. Cached(c)
  BY <1>1, <1>2, <1>3 DEF InCache
<1>5. /\ info' \in [Cells -> MapCell] /\ words' = words
      /\ file_end' = file_end /\ info'[c] = entry[c].cell
      /\ \A d \in Cells \ {c} : info'[d] = info[d]
      /\ Fit(words', file_end', info')
      /\ Visible(c) = Stored(words', info'[c])
  BY <1>1, <1>2, <1>4, SmallFlushed
<1>6. WroteBack(c)
  <2>1. DiskIndexes(c)' = Visible(c)
    BY <1>5 DEF DiskIndexes
  <2>2. Visible(c)' = Visible(c)
    BY <1>1, <1>4 DEF Visible, Shown, Cached
  <2>3. \A d \in Cells \ {c} : /\ Visible(d)' = Visible(d)
                               /\ DiskIndexes(d)' = DiskIndexes(d)
    BY <1>1, <1>5 DEF Visible, DiskIndexes
  <2>4. QED
    BY <2>1, <2>2, <2>3 DEF WroteBack
<1>7. Types'
  BY <1>1, <1>5 DEF MapInv, Types
<1>8. CacheIsOrdered'
  <2>1. \A d \in Cells : Cached(d)' <=> InCache(d)'
    BY <1>1, <1>3 DEF Cached, InCache
  <2>2. QED
    BY <1>1, <1>2, <2>1 DEF MapInv, CacheIsOrdered, IsInjective
<1>9. EntriesAreWhole'
  <2>1. ASSUME NEW d \in Cells, Cached(d)', entry'[d].cell.fold > 2
        PROVE  IF entry'[d].list = << >> THEN entry'[d].cell = info'[d]
               ELSE Len(entry'[d].list) = entry'[d].cell.fold + 1
    <3>1. d # c
      <4>1. entry[c].cell \in MapCell
        BY DEF MapInv, Types
      <4>2. QED
        BY <1>1, <2>1, <4>1, FoldIsNat
    <3>2. QED
      BY <1>1, <1>5, <2>1, <3>1 DEF MapInv, EntriesAreWhole, Cached
  <2>2. QED
    BY <2>1 DEF EntriesAreWhole
<1>10. CallHasItsCell'
  BY <1>1 DEF MapInv, CallHasItsCell, Updating
<1>11. BlocksFit'
  BY <1>1, <1>5 DEF BlocksFit, CellsOnDisk, ListInPlace
<1>12. DroppedIsSaved'
  <2>1. \A d \in Cells : IsSaved(d) => IsSaved(d)'
    BY <1>6 DEF WroteBack, IsSaved
  <2>2. IsSaved(c)'
    BY <1>6 DEF WroteBack, IsSaved
  <2>3. QED
    BY <1>1, <2>1, <2>2 DEF MapInv, DroppedIsSaved
<1>13. ListIsWritten' /\ VictimIsWritten' /\ CopySoFar'
  BY <1>1 DEF ListIsWritten, VictimIsWritten, CopySoFar
<1>14. QED
  BY <1>6, <1>7, <1>8, <1>9, <1>10, <1>11, <1>12, <1>13 DEF MapInv

LEMMA FlushCellListStep ==
  ASSUME MapInv, NEW c \in Cells, FlushCellList(c)
  PROVE  MapInv' /\ SameLists
<1>1. /\ pc = "flush" /\ c \in todo /\ FlushList(c) /\ victim' = c
      /\ pc' = "flush_info"
      /\ UNCHANGED <<byte_order, mode, use_cache, order, call, cell, todo,
                     tmp, answer>>
  BY DEF FlushCellList, FlushFrame
<1>2. /\ todo \subseteq Range(order) /\ mode \notin {"closed", "damaged"}
      /\ call.op \in {"close", "set_cache"}
  BY <1>1 DEF MapInv, CacheIsOrdered
<1>3. \A d \in Cells : Cached(d) <=> InCache(d)
  BY <1>1, CachedInOrder
<1>4. Cached(c) /\ c \in Range(order)
  BY <1>1, <1>2, <1>3 DEF InCache
<1>5. mode = "read_write"
  BY <1>1 DEF MapInv, CacheIsOrdered
<1>6. /\ entry' \in [Cells -> EntryType] /\ info' = info
      /\ \A d \in Cells \ {c} : entry'[d] = entry[d]
      /\ entry'[c].list_size = entry[c].list_size
      /\ entry'[c].cell.fold > 2 /\ entry'[c].list # << >>
      /\ Len(entry'[c].list) = entry'[c].cell.fold + 1
      /\ File(words', file_end') /\ Fit(words', file_end', info)
      /\ ListAt(words', entry'[c].cell) = entry'[c].list
      /\ BlockFits(words', file_end', entry'[c].cell)
      /\ \A d \in Cells : Apart(words', entry'[c].cell, info[d])
      /\ SameLists
  BY <1>1, <1>4, <1>5, ListFlushed
<1>7. Types'
  BY <1>1, <1>6 DEF MapInv, Types, EntryType
<1>8. CacheIsOrdered'
  <2>1. \A d \in Cells : Cached(d)' <=> InCache(d)'
    BY <1>1, <1>3, <1>6 DEF Cached, InCache
  <2>2. QED
    BY <1>1, <1>2, <1>4, <1>5, <2>1 DEF MapInv, CacheIsOrdered, IsInjective
<1>9. EntriesAreWhole'
  BY <1>6 DEF MapInv, EntriesAreWhole, Cached
<1>10. CallHasItsCell'
  BY <1>1 DEF MapInv, CallHasItsCell, Updating
<1>11. BlocksFit'
  BY <1>1, <1>6 DEF BlocksFit, CellsOnDisk, ListInPlace
<1>12. VictimIsWritten'
  BY <1>1, <1>6 DEF VictimIsWritten, DiskList
<1>13. DroppedIsSaved'
  BY <1>1, <1>6 DEF MapInv, DroppedIsSaved, IsSaved, SameLists
<1>14. ListIsWritten' /\ CopySoFar'
  BY <1>1 DEF ListIsWritten, CopySoFar
<1>15. QED
  BY <1>6, <1>7, <1>8, <1>9, <1>10, <1>11, <1>12, <1>13, <1>14 DEF MapInv

LEMMA FlushCellInfoStep ==
  ASSUME MapInv, FlushCellInfo
  PROVE  MapInv' /\ \E c \in Cells : WroteBack(c)
<1>1. PICK c \in Cells : c = victim
  BY DEF FlushCellInfo, MapInv, CacheIsOrdered
<1>2. /\ pc = "flush_info" /\ FlushInfo(c) /\ todo' = todo \ {c}
      /\ victim' = -1 /\ pc' = "flush"
      /\ UNCHANGED <<byte_order, mode, use_cache, order, entry, call, cell,
                     tmp, answer>>
  BY <1>1 DEF FlushCellInfo, FlushFrame
<1>3. /\ todo \subseteq Range(order) /\ mode = "read_write"
      /\ call.op \in {"close", "set_cache"} /\ c \in Range(order)
  BY <1>1, <1>2 DEF MapInv, CacheIsOrdered
<1>4. \A d \in Cells : Cached(d) <=> InCache(d)
  BY <1>2, CachedInOrder
<1>5. Cached(c)
  BY <1>3, <1>4 DEF InCache
<1>6. /\ info' \in [Cells -> MapCell] /\ words' = words
      /\ file_end' = file_end /\ info'[c] = entry[c].cell
      /\ \A d \in Cells \ {c} : info'[d] = info[d]
      /\ Fit(words', file_end', info')
      /\ Visible(c) = Stored(words', info'[c])
  BY <1>1, <1>2, <1>5, LargeFlushed
<1>7. entry[c].cell.fold > 2 /\ entry[c].list # << >> /\ entry[c].cell \in MapCell
  BY <1>1, <1>2 DEF MapInv, VictimIsWritten, Types
<1>8. WroteBack(c)
  <2>1. DiskIndexes(c)' = Visible(c)
    BY <1>6 DEF DiskIndexes
  <2>2. Visible(c)' = Visible(c)
    BY <1>2, <1>5, <1>7, FoldIsNat DEF Visible, Shown, Cached
  <2>3. \A d \in Cells \ {c} : /\ Visible(d)' = Visible(d)
                               /\ DiskIndexes(d)' = DiskIndexes(d)
    BY <1>2, <1>6 DEF Visible, DiskIndexes
  <2>4. QED
    BY <2>1, <2>2, <2>3 DEF WroteBack
<1>9. Types'
  BY <1>2, <1>6 DEF MapInv, Types
<1>10. CacheIsOrdered'
  <2>1. \A d \in Cells : Cached(d)' <=> InCache(d)'
    BY <1>2, <1>4 DEF Cached, InCache
  <2>2. QED
    BY <1>2, <1>3, <2>1 DEF MapInv, CacheIsOrdered, IsInjective
<1>11. EntriesAreWhole'
  BY <1>2, <1>6, <1>7 DEF MapInv, EntriesAreWhole, Cached
<1>12. CallHasItsCell'
  BY <1>2 DEF MapInv, CallHasItsCell, Updating
<1>13. BlocksFit'
  BY <1>2, <1>6 DEF BlocksFit, CellsOnDisk, ListInPlace
<1>14. DroppedIsSaved'
  <2>1. \A d \in Cells : IsSaved(d) => IsSaved(d)'
    BY <1>8 DEF WroteBack, IsSaved
  <2>2. IsSaved(c)'
    BY <1>8 DEF WroteBack, IsSaved
  <2>3. QED
    BY <1>2, <1>3, <2>1, <2>2 DEF MapInv, DroppedIsSaved
<1>15. ListIsWritten' /\ VictimIsWritten' /\ CopySoFar'
  BY <1>2 DEF ListIsWritten, VictimIsWritten, CopySoFar
<1>16. QED
  BY <1>8, <1>9, <1>10, <1>11, <1>12, <1>13, <1>14, <1>15 DEF MapInv

(***************************************************************************)
(* Dropping the cache: close, set_cache, compact and the death of the      *)
(* program.  A reader then sees what the file has.                         *)
(***************************************************************************)
LEMMA CacheDropped ==
  ASSUME order' = << >>, entry' = [c \in Cells |-> NoEntry], todo' = {},
         pc' = "idle", mode' \in Modes, use_cache' \in BOOLEAN,
         mode' \in {"closed", "damaged"} => ~use_cache',
         byte_order' \in ByteOrders, call' \in Calls, cell' \in MapCell,
         info' \in [Cells -> MapCell], File(words', file_end'),
         mode' # "damaged" => Fit(words', file_end', info')
  PROVE  MapInv' /\ \A c \in Cells : Visible(c)' = DiskIndexes(c)'
<1>1. \A c \in Cells : entry'[c] = NoEntry
  OBVIOUS
<1>2. NoEntry \in EntryType /\ NoEntry.list_size = -1 /\ order' \in Seq(Cells)
  BY NoEntryType
<1>3. \A c \in Cells : ~Cached(c)' /\ ~InCache(c)'
  BY <1>1, <1>2 DEF Cached, InCache, Range
<1>4. \A c \in Cells : Visible(c)' = DiskIndexes(c)'
  BY <1>3 DEF Visible, Shown, DiskIndexes, Cached
<1>5. entry' \in [Cells -> EntryType]
  BY <1>2
<1>6. Types'
  BY <1>2, <1>5 DEF Types, EntryType
<1>7. CacheIsOrdered'
  BY <1>3 DEF CacheIsOrdered, IsInjective
<1>8. EntriesAreWhole'
  BY <1>3 DEF EntriesAreWhole
<1>9. DroppedIsSaved'
  BY <1>4 DEF DroppedIsSaved, IsSaved
<1>10. QED
  BY <1>4, <1>6, <1>7, <1>8, <1>9, IdleParts DEF MapInv

LEMMA OpenStep ==
  ASSUME MapInv, Open
  PROVE  MapInv' /\ SameLists
<1>1. /\ mode = "closed" /\ mode' \in {"read_write", "read_only"}
      /\ UNCHANGED <<byte_order, info, words, file_end, use_cache, order, entry,
                     call, cell, pc, victim, todo, tmp, answer>>
  BY DEF Open, file_vars, cache_vars, flush_vars
<1>2. pc = "idle" /\ order = << >> /\ ~use_cache /\ todo = {}
  BY <1>1 DEF MapInv, CacheIsOrdered
<1>3. \A c \in Cells : ~Cached(c) /\ ~InCache(c)
  BY <1>2, NothingCached
<1>4. \A c \in Cells : ~Cached(c)' /\ ~InCache(c)'
  BY <1>1, <1>3 DEF Cached, InCache
<1>5. Types'
  BY <1>1 DEF MapInv, Types, Modes
<1>6. CacheIsOrdered'
  BY <1>1, <1>2, <1>4 DEF MapInv, CacheIsOrdered, IsInjective
<1>7. EntriesAreWhole'
  BY <1>4 DEF EntriesAreWhole
<1>8. \A c \in Cells : IsSaved(c)'
  BY <1>4 DEF IsSaved, Visible, Shown, DiskIndexes, Cached
<1>9. Fit(words', file_end', info')
  BY <1>1, <1>2, FileFits DEF ListInPlace
<1>10. SameLists
  BY <1>1 DEF SameLists, Visible, DiskIndexes
<1>11. DroppedIsSaved'
  BY <1>8 DEF DroppedIsSaved
<1>12. QED
  BY <1>1, <1>2, <1>5, <1>6, <1>7, <1>9, <1>10, <1>11, IdleParts DEF MapInv

\* All that was in the cache is in the file when the flush is done.
LEMMA FlushedCache ==
  ASSUME MapInv, pc = "flush", todo = {}
  PROVE  /\ \A c \in Cells : Visible(c) = DiskIndexes(c)
         /\ Fit(words, file_end, info)
         /\ mode \in {"read_write", "read_only"}
<1>1. mode \in {"read_write", "read_only"}
  BY DEF MapInv, Types, Modes, CacheIsOrdered
<1>2. QED
  BY <1>1, FileFits DEF MapInv, DroppedIsSaved, IsSaved, ListInPlace

LEMMA CloseStep ==
  ASSUME MapInv, Close
  PROVE  /\ MapInv' /\ SameLists /\ answer' = NoAnswer
         /\ \A c \in Cells : Visible(c) = DiskIndexes(c)
<1>1. /\ pc = "flush" /\ todo = {} /\ mode' = "closed" /\ use_cache' = FALSE
      /\ order' = << >> /\ entry' = [c \in Cells |-> NoEntry]
      /\ Return(NoAnswer)
      /\ UNCHANGED <<byte_order, info, words, file_end, todo>>
  BY DEF Close, ForgetCache, file_vars, flush_vars
<1>2. /\ \A c \in Cells : Visible(c) = DiskIndexes(c)
      /\ Fit(words, file_end, info)
  BY <1>1, FlushedCache
<1>3. call' \in Calls /\ cell' \in MapCell /\ pc' = "idle" /\ answer' = NoAnswer
  BY <1>1, ReturnTypes
<1>4. MapInv' /\ \A c \in Cells : Visible(c)' = DiskIndexes(c)'
  <2>1. /\ mode' \in Modes /\ byte_order' \in ByteOrders
        /\ info' \in [Cells -> MapCell] /\ File(words', file_end')
        /\ Fit(words', file_end', info') /\ todo' = {} /\ use_cache' \in BOOLEAN
        /\ ~use_cache'
    BY <1>1, <1>2 DEF MapInv, Types, Modes
  <2>2. QED
    BY <1>1, <1>3, <2>1, CacheDropped
<1>5. SameLists
  BY <1>1, <1>2, <1>4 DEF SameLists, DiskIndexes
<1>6. QED
  BY <1>2, <1>3, <1>4, <1>5

LEMMA SetCacheStep ==
  ASSUME MapInv, SetCache
  PROVE  /\ MapInv' /\ SameLists /\ answer' = NoAnswer
         /\ \A c \in Cells : Visible(c) = DiskIndexes(c)
<1>1. /\ pc = "flush" /\ todo = {} /\ use_cache' = TRUE
      /\ order' = << >> /\ entry' = [c \in Cells |-> NoEntry]
      /\ Return(NoAnswer)
      /\ UNCHANGED <<byte_order, mode, info, words, file_end, todo>>
  BY DEF SetCache, file_vars, flush_vars
<1>2. /\ \A c \in Cells : Visible(c) = DiskIndexes(c)
      /\ Fit(words, file_end, info) /\ mode \in {"read_write", "read_only"}
  BY <1>1, FlushedCache
<1>3. call' \in Calls /\ cell' \in MapCell /\ pc' = "idle" /\ answer' = NoAnswer
  BY <1>1, ReturnTypes
<1>4. MapInv' /\ \A c \in Cells : Visible(c)' = DiskIndexes(c)'
  <2>1. /\ mode' \in Modes /\ byte_order' \in ByteOrders
        /\ info' \in [Cells -> MapCell] /\ File(words', file_end')
        /\ Fit(words', file_end', info') /\ todo' = {} /\ use_cache' \in BOOLEAN
        /\ mode' \notin {"closed", "damaged"}
    BY <1>1, <1>2 DEF MapInv, Types, Modes
  <2>2. QED
    BY <1>1, <1>3, <2>1, CacheDropped
<1>5. SameLists
  BY <1>1, <1>2, <1>4 DEF SameLists, DiskIndexes
<1>6. QED
  BY <1>2, <1>3, <1>4, <1>5

\* The death of the program: the file stays as it is.
LEMMA CrashStep ==
  ASSUME MapInv, Crash
  PROVE  /\ MapInv' /\ answer' = NoAnswer
         /\ \A c \in Cells : /\ DiskIndexes(c)' = DiskIndexes(c)
                             /\ Visible(c)' = DiskIndexes(c)
<1>1. /\ mode \in {"read_write", "read_only"}
      /\ mode' = IF Overwriting \/ ListInPlace THEN "damaged" ELSE "closed"
      /\ use_cache' = FALSE /\ order' = << >>
      /\ entry' = [c \in Cells |-> NoEntry]
      /\ Return(NoAnswer) /\ todo' = {}
      /\ UNCHANGED <<byte_order, info, words, file_end>>
  BY DEF Crash, ForgetCache, file_vars
<1>2. call' \in Calls /\ cell' \in MapCell /\ pc' = "idle" /\ answer' = NoAnswer
  BY <1>1, ReturnTypes
<1>3. mode' # "damaged" => Fit(words', file_end', info')
  BY <1>1, FileFits
<1>4. MapInv' /\ \A c \in Cells : Visible(c)' = DiskIndexes(c)'
  <2>1. /\ mode' \in Modes /\ byte_order' \in ByteOrders
        /\ info' \in [Cells -> MapCell] /\ File(words', file_end')
        /\ use_cache' \in BOOLEAN /\ ~use_cache'
    BY <1>1 DEF MapInv, Types, Modes
  <2>2. QED
    BY <1>1, <1>2, <1>3, <2>1, CacheDropped
<1>5. \A c \in Cells : DiskIndexes(c)' = DiskIndexes(c)
  BY <1>1 DEF DiskIndexes
<1>6. QED
  BY <1>2, <1>4, <1>5

(***************************************************************************)
(* Compaction.                                                             *)
(***************************************************************************)
LEMMA EmptyFileFits ==
  /\ EmptyFile.info \in [Cells -> MapCell]
  /\ \A c \in Cells : EmptyFile.info[c] = EmptyCell
  /\ File(EmptyFile.words, EmptyFile.end)
  /\ Fit(EmptyFile.words, EmptyFile.end, EmptyFile.info)
  /\ EmptyFile.next = 0
<1>1. /\ EmptyCell \in MapCell /\ EmptyCell.fold = 0
      /\ ListArea \in Nat /\ << >> \in [{} -> Int]
  BY EmptyCellType DEF ListArea
<1>2. /\ EmptyFile.info = [c \in Cells |-> EmptyCell]
      /\ EmptyFile.words = << >> /\ EmptyFile.end = ListArea
      /\ EmptyFile.next = 0
  BY DEF EmptyFile
<1>3. DOMAIN EmptyFile.words = {}
  BY <1>2
<1>4. File(EmptyFile.words, EmptyFile.end)
  BY <1>1, <1>2, <1>3 DEF File
<1>5. \A c \in Cells : EmptyFile.info[c] = EmptyCell
  BY <1>2
<1>6. Fit(EmptyFile.words, EmptyFile.end, EmptyFile.info)
  BY <1>1, <1>5 DEF Fit, BlockFits, Apart
<1>7. EmptyFile.info \in [Cells -> MapCell]
  BY <1>1, <1>2
<1>8. QED
  BY <1>2, <1>4, <1>5, <1>6, <1>7

\* Only the temporary file changes.
LEMMA CopyParts ==
  ASSUME MapInv, pc \in {"idle", "copy"}, pc' = "copy", mode = "read_write",
         answer' = NoAnswer,
         UNCHANGED <<byte_order, mode, info, words, file_end, use_cache, order,
                     entry, call, cell, victim, todo>>,
         CopySoFar'
  PROVE  MapInv' /\ SameLists
<1>1. /\ SameLists /\ EntriesAreWhole'
      /\ \A d \in Cells : Cached(d)' <=> InCache(d)'
      /\ \A d \in Cells : InCache(d)' <=> InCache(d)
      /\ Fit(words', file_end', info')
      /\ \A d \in Cells : IsSaved(d)' <=> IsSaved(d)
  BY QuietParts
<1>2. Types'
  BY DEF MapInv, Types
<1>3. CacheIsOrdered'
  BY <1>1 DEF MapInv, CacheIsOrdered, IsInjective
<1>4. CallHasItsCell'
  BY DEF CallHasItsCell, Updating
<1>5. BlocksFit'
  BY <1>1 DEF BlocksFit, CellsOnDisk, ListInPlace
<1>6. ListIsWritten' /\ VictimIsWritten' /\ DroppedIsSaved'
  BY DEF ListIsWritten, VictimIsWritten, DroppedIsSaved
<1>7. QED
  BY <1>1, <1>2, <1>3, <1>4, <1>5, <1>6 DEF MapInv

LEMMA BeginCopyStep ==
  ASSUME MapInv, BeginCopy
  PROVE  MapInv' /\ SameLists
<1>1. /\ pc = "idle" /\ mode = "read_write" /\ pc' = "copy" /\ tmp' = EmptyFile
      /\ answer' = NoAnswer
      /\ UNCHANGED <<byte_order, mode, info, words, file_end, use_cache, order,
                     entry, call, cell, victim, todo>>
  BY DEF BeginCopy, Idle, file_vars, cache_vars, flush_vars
<1>2. CopySoFar'
  <2>1. /\ tmp'.info \in [Cells -> MapCell]
        /\ \A c \in Cells : tmp'.info[c] = EmptyCell
        /\ File(tmp'.words, tmp'.end) /\ Fit(tmp'.words, tmp'.end, tmp'.info)
        /\ tmp'.next = 0
    BY <1>1, EmptyFileFits
  <2>2. tmp'.next \in 0 .. CellCount /\ \A c \in Cells : ~(c < tmp'.next)
    BY <2>1 DEF Cells
  <2>3. QED
    BY <1>1, <2>1, <2>2 DEF CopySoFar
<1>3. QED
  BY <1>1, <1>2, CopyParts

\* The next cell and what a reader gets for it.
LEMMA NextCopied ==
  ASSUME MapInv, pc = "copy", tmp.next < CellCount
  PROVE  /\ tmp.next \in Cells
         /\ \A c \in Cells : /\ c < tmp.next + 1 <=> (c < tmp.next \/ c = tmp.next)
                             /\ c # tmp.next /\ ~(c < tmp.next + 1) => ~(c < tmp.next)
         /\ tmp.next + 1 \in 0 .. CellCount
         /\ ReadInfo(tmp.next) \in MapCell
         /\ CellList(tmp.next) = Visible(tmp.next)
         /\ CellList(tmp.next) \in Seq(Int)
         /\ Len(CellList(tmp.next)) = ReadInfo(tmp.next).fold
<1>1. tmp.next \in 0 .. CellCount
  BY DEF MapInv, CopySoFar
<1>2. tmp.next \in Cells
  BY <1>1 DEF Cells
<1>3. Cached(tmp.next) <=> InCache(tmp.next)
  BY <1>2, CachedInOrder
<1>4. /\ ReadInfo(tmp.next) \in MapCell
      /\ CellList(tmp.next) = Visible(tmp.next)
      /\ CellList(tmp.next) \in Seq(Int)
      /\ Len(CellList(tmp.next)) = ReadInfo(tmp.next).fold
  BY <1>2, <1>3, ReadsVisible DEF CellList
<1>5. \A c \in Cells : /\ c < tmp.next + 1 <=> (c < tmp.next \/ c = tmp.next)
                       /\ c # tmp.next /\ ~(c < tmp.next + 1) => ~(c < tmp.next)
  BY <1>2 DEF Cells
<1>6. QED
  BY <1>1, <1>2, <1>4, <1>5

LEMMA CopySmallStep ==
  ASSUME MapInv, CopySmall
  PROVE  MapInv' /\ SameLists
<1>1. PICK l \in Cells : l = tmp.next
  BY NextCopied DEF CopySmall
<1>2. PICK c \in MapCell : c = ReadInfo(l)
  BY <1>1, NextCopied DEF CopySmall
<1>3. /\ pc = "copy" /\ tmp.next < CellCount /\ c.fold < 3
      /\ tmp' = [info |-> [tmp.info EXCEPT ![l] = c], words |-> tmp.words,
                 end |-> tmp.end, next |-> tmp.next + 1]
      /\ UNCHANGED <<byte_order, mode, info, words, file_end, use_cache, order,
                     entry, call, cell, pc, victim, todo, answer>>
  BY <1>1, <1>2 DEF CopySmall, CopyFrame, file_vars, flush_vars
<1>4. /\ mode = "read_write" /\ tmp.info \in [Cells -> MapCell]
      /\ File(tmp.words, tmp.end) /\ Fit(tmp.words, tmp.end, tmp.info)
      /\ \A d \in Cells : IF d < tmp.next
                          THEN /\ tmp.info[d].fold = ReadInfo(d).fold
                               /\ Stored(tmp.words, tmp.info[d]) = CellList(d)
                          ELSE tmp.info[d] = EmptyCell
  BY <1>3 DEF MapInv, CopySoFar
<1>5. BlockFits(tmp.words, tmp.end, c) /\ \A d : Apart(tmp.words, c, d)
  BY <1>3, SmallBlock
<1>6. /\ [tmp.info EXCEPT ![l] = c] \in [Cells -> MapCell]
      /\ Fit(tmp.words, tmp.end, [tmp.info EXCEPT ![l] = c])
  BY <1>4, <1>5, CellReplaced
<1>7. Stored(tmp.words, c) = CellList(l)
  BY <1>2, <1>3 DEF Stored, CellList, Indexes
<1>8. \A d \in Cells : ReadInfo(d)' = ReadInfo(d) /\ CellList(d)' = CellList(d)
  BY <1>3 DEF ReadInfo, CellList, Indexes, ListOf, DiskList, InCache
<1>9. /\ tmp'.info = [tmp.info EXCEPT ![l] = c] /\ tmp'.words = tmp.words
      /\ tmp'.end = tmp.end /\ tmp'.next = tmp.next + 1
  BY <1>3
<1>10. \A d \in Cells : tmp'.info[d] = IF d = l THEN c ELSE tmp.info[d]
  BY <1>4, <1>9
<1>11. CopySoFar'
  <2>1. ASSUME NEW d \in Cells
        PROVE  IF d < tmp'.next
               THEN /\ tmp'.info[d].fold = ReadInfo(d)'.fold
                    /\ Stored(tmp'.words, tmp'.info[d]) = CellList(d)'
               ELSE tmp'.info[d] = EmptyCell
    <3>1. CASE d = l
      <4>1. d < tmp'.next
        BY <1>1, <1>3, <1>9, <3>1, NextCopied
      <4>2. QED
        BY <1>2, <1>7, <1>8, <1>9, <1>10, <3>1, <4>1
    <3>2. CASE d # l
      <4>1. d < tmp'.next <=> d < tmp.next
        BY <1>1, <1>3, <1>9, <3>2, NextCopied
      <4>2. QED
        BY <1>4, <1>8, <1>9, <1>10, <3>2, <4>1
    <3>3. QED
      BY <3>1, <3>2
  <2>2. tmp'.next \in 0 .. CellCount
    BY <1>3, <1>9, NextCopied
  <2>3. /\ tmp'.info \in [Cells -> MapCell] /\ File(tmp'.words, tmp'.end)
        /\ Fit(tmp'.words, tmp'.end, tmp'.info)
    BY <1>4, <1>6, <1>9
  <2>4. QED
    BY <1>3, <1>4, <2>1, <2>2, <2>3 DEF CopySoFar
<1>12. QED
  <2>1. answer' = NoAnswer
    BY <1>3 DEF MapInv, CallHasItsCell
  <2>2. QED
    BY <1>3, <1>4, <1>11, <2>1, CopyParts

LEMMA CopyListStep ==
  ASSUME MapInv, CopyList
  PROVE  MapInv' /\ SameLists
<1>1. PICK l \in Cells : l = tmp.next
  BY NextCopied DEF CopyList
<1>2. /\ pc = "copy" /\ tmp.next < CellCount
      /\ UNCHANGED <<byte_order, mode, info, words, file_end, use_cache, order,
                     entry, call, cell, pc, victim, todo, answer>>
  BY DEF CopyList, CopyFrame, file_vars, flush_vars
<1>3. PICK fold \in 3 .. MaxFold, s \in Seq(Int) :
        fold = ReadInfo(l).fold /\ s = CellList(l) /\ Len(s) = fold
  <2>1. ReadInfo(l) \in MapCell /\ CellList(l) \in Seq(Int)
        /\ Len(CellList(l)) = ReadInfo(l).fold
    BY <1>1, <1>2, NextCopied
  <2>2. ReadInfo(l).fold > 2
    BY <1>1 DEF CopyList
  <2>3. ReadInfo(l).fold \in 3 .. MaxFold
    BY <2>1, <2>2, FoldIsNat
  <2>4. QED
    BY <2>1, <2>3
<1>4. /\ mode = "read_write" /\ tmp.info \in [Cells -> MapCell]
      /\ File(tmp.words, tmp.end) /\ Fit(tmp.words, tmp.end, tmp.info)
      /\ \A d \in Cells : IF d < tmp.next
                          THEN /\ tmp.info[d].fold = ReadInfo(d).fold
                               /\ Stored(tmp.words, tmp.info[d]) = CellList(d)
                          ELSE tmp.info[d] = EmptyCell
  BY <1>2 DEF MapInv, CopySoFar
<1>5. PICK end \in Nat : end = tmp.end
  BY <1>4 DEF File
<1>6. PICK c \in MapCell : c = LargeCell(fold, end) /\ c.fold = fold /\ c.off = end
  BY LargeCellType
<1>7. PICK list \in Seq(Int) :
        /\ list = Append(s, fold) /\ Len(list) = fold + 1
        /\ Last(list) = fold /\ Front(list) = s
  <2>1. fold \in Int
    OBVIOUS
  <2>2. Append(s, fold) \in Seq(Int) /\ Len(Append(s, fold)) = fold + 1
    BY <1>3, <2>1
  <2>3. Last(Append(s, fold)) = fold /\ Front(Append(s, fold)) = s
    BY <2>1, FrontOfAppend
  <2>4. QED
    BY <2>2, <2>3
<1>8. PICK new : new = Written(tmp.words, list, end)
  OBVIOUS
<1>9. PICK end2 \in Nat : end2 = end + fold + 1
  OBVIOUS
<1>10. /\ tmp'.info = [tmp.info EXCEPT ![l] = c] /\ tmp'.words = new
      /\ tmp'.end = end2 /\ tmp'.next = tmp.next + 1
  BY <1>1, <1>3, <1>5, <1>6, <1>7, <1>8, <1>9 DEF CopyList
<1>11. /\ File(new, end2) /\ Fit(new, end2, tmp.info)
       /\ ListAt(new, c) = list /\ BlockFits(new, end2, c)
       /\ \A d \in Cells : /\ Apart(new, c, tmp.info[d])
                           /\ Stored(new, tmp.info[d]) = Stored(tmp.words, tmp.info[d])
  <2>1. /\ c.fold > 2 /\ c.off = end /\ Len(list) = c.fold + 1
        /\ Last(list) >= c.fold /\ end + Last(list) < end2
    BY <1>6, <1>7, <1>9
  <2>2. File(tmp.words, end) /\ Fit(tmp.words, end, tmp.info)
    BY <1>4, <1>5
  <2>3. QED
    BY <1>4, <1>8, <2>1, <2>2, BlockAppended
<1>12. /\ [tmp.info EXCEPT ![l] = c] \in [Cells -> MapCell]
       /\ Fit(new, end2, [tmp.info EXCEPT ![l] = c])
  BY <1>4, <1>11, CellReplaced
<1>13. Stored(new, c) = CellList(l)
  BY <1>3, <1>6, <1>7, <1>11 DEF Stored
<1>14. \A d \in Cells : ReadInfo(d)' = ReadInfo(d) /\ CellList(d)' = CellList(d)
  BY <1>2 DEF ReadInfo, CellList, Indexes, ListOf, DiskList, InCache
<1>15. \A d \in Cells : tmp'.info[d] = IF d = l THEN c ELSE tmp.info[d]
  BY <1>4, <1>10
<1>16. CopySoFar'
  <2>1. ASSUME NEW d \in Cells
        PROVE  IF d < tmp'.next
               THEN /\ tmp'.info[d].fold = ReadInfo(d)'.fold
                    /\ Stored(tmp'.words, tmp'.info[d]) = CellList(d)'
               ELSE tmp'.info[d] = EmptyCell
    <3>1. CASE d = l
      <4>1. d < tmp'.next
        BY <1>1, <1>2, <1>10, <3>1, NextCopied
      <4>2. QED
        BY <1>3, <1>6, <1>10, <1>13, <1>14, <1>15, <3>1, <4>1
    <3>2. CASE d # l
      <4>1. d < tmp'.next <=> d < tmp.next
        BY <1>1, <1>2, <1>10, <3>2, NextCopied
      <4>2. QED
        BY <1>4, <1>10, <1>11, <1>14, <1>15, <3>2, <4>1
    <3>3. QED
      BY <3>1, <3>2
  <2>2. tmp'.next \in 0 .. CellCount
    BY <1>2, <1>10, NextCopied
  <2>3. /\ tmp'.info \in [Cells -> MapCell] /\ File(tmp'.words, tmp'.end)
        /\ Fit(tmp'.words, tmp'.end, tmp'.info)
    BY <1>10, <1>11, <1>12
  <2>4. QED
    BY <1>2, <1>4, <2>1, <2>2, <2>3 DEF CopySoFar
<1>17. QED
  <2>1. answer' = NoAnswer
    BY <1>2 DEF MapInv, CallHasItsCell
  <2>2. QED
    BY <1>2, <1>4, <1>16, <2>1, CopyParts

\* The map is the temporary file: the lists are those of the cells as a reader
\* saw them.
LEMMA CompactStep ==
  ASSUME MapInv, Compact
  PROVE  /\ MapInv'
         /\ \A c \in Cells : /\ Visible(c)' = Visible(c)
                             /\ DiskIndexes(c)' = Visible(c)
<1>1. /\ pc = "copy" /\ tmp.next = CellCount /\ info' = tmp.info
      /\ words' = tmp.words /\ file_end' = tmp.end /\ order' = << >>
      /\ entry' = [c \in Cells |-> NoEntry] /\ pc' = "idle"
      /\ UNCHANGED <<byte_order, mode, use_cache, call, cell, todo>>
  BY DEF Compact, Overwriting, CopyFrame, flush_vars
<1>2. /\ mode = "read_write" /\ tmp.info \in [Cells -> MapCell]
      /\ File(tmp.words, tmp.end) /\ Fit(tmp.words, tmp.end, tmp.info)
      /\ \A c \in Cells : Stored(tmp.words, tmp.info[c]) = CellList(c)
  <2>1. \A c \in Cells : c < tmp.next
    BY <1>1 DEF Cells
  <2>2. QED
    BY <1>1, <2>1 DEF MapInv, CopySoFar
<1>3. todo = {}
  BY <1>1 DEF MapInv, CacheIsOrdered
<1>4. MapInv' /\ \A c \in Cells : Visible(c)' = DiskIndexes(c)'
  <2>1. /\ byte_order \in ByteOrders /\ use_cache \in BOOLEAN /\ call \in Calls
        /\ cell \in MapCell /\ mode \in Modes
    BY DEF MapInv, Types
  <2>2. /\ todo' = {} /\ mode' \in Modes /\ use_cache' \in BOOLEAN
        /\ mode' \notin {"closed", "damaged"} /\ byte_order' \in ByteOrders
        /\ call' \in Calls /\ cell' \in MapCell
    BY <1>1, <1>2, <1>3, <2>1
  <2>3. /\ info' \in [Cells -> MapCell] /\ File(words', file_end')
        /\ Fit(words', file_end', info')
    BY <1>1, <1>2
  <2>4. QED
    BY <1>1, <2>2, <2>3, CacheDropped
<1>5. \A c \in Cells : CellList(c) = Visible(c)
  BY <1>1, CachedInOrder, ReadsVisible DEF CellList
<1>6. \A c \in Cells : DiskIndexes(c)' = Visible(c)
  BY <1>1, <1>2, <1>5 DEF DiskIndexes
<1>7. QED
  BY <1>4, <1>6

(***************************************************************************)
(* The invariant is inductive, provided that no padding is lost to the     *)
(* swapped byte order.                                                     *)
(***************************************************************************)
LEMMA StutterStep ==
  ASSUME MapInv, UNCHANGED vars
  PROVE  MapInv' /\ SameLists
<1>1. UNCHANGED <<byte_order, mode, info, words, file_end, use_cache,
                  max_cache_size, order, entry, call, cell, pc, victim, todo,
                  tmp, answer>>
  BY DEF vars, file_vars, cache_vars, flush_vars
<1>2. SameLists
  BY <1>1 DEF SameLists, Visible, DiskIndexes
<1>3. Types'
  BY <1>1 DEF MapInv, Types
<1>4. CacheIsOrdered'
  BY <1>1 DEF MapInv, CacheIsOrdered, Cached, InCache
<1>5. EntriesAreWhole'
  BY <1>1 DEF MapInv, EntriesAreWhole, Cached
<1>6. CallHasItsCell'
  BY <1>1 DEF MapInv, CallHasItsCell, Updating, ReadInfo, InCache
<1>7. BlocksFit'
  BY <1>1 DEF MapInv, BlocksFit, CellsOnDisk, ListInPlace
<1>8. ListIsWritten'
  BY <1>1 DEF MapInv, ListIsWritten, IndexesBefore, DiskIndexes, DiskList
<1>9. VictimIsWritten'
  BY <1>1 DEF MapInv, VictimIsWritten, DiskList
<1>10. DroppedIsSaved'
  BY <1>1, <1>2 DEF MapInv, DroppedIsSaved, IsSaved, SameLists
<1>11. CopySoFar'
  BY <1>1 DEF MapInv, CopySoFar, ReadInfo, CellList, Indexes, ListOf, DiskList,
     InCache
<1>12. QED
  BY <1>2, <1>3, <1>4, <1>5, <1>6, <1>7, <1>8, <1>9, <1>10, <1>11 DEF MapInv

\* A call on a cell, of either kind.
Beginning(op, c, batch) ==
  /\ op \in {"add", "set", "get", "fold"}
  /\ batch \in Batches \/ (batch = << >> /\ op \in {"get", "fold"})
  /\ Begin(op, c, batch)

LEMMA NextCases ==
  ASSUME [Next]_vars
  PROVE  \/ \E c \in Cells :
              \/ \E op, batch : Beginning(op, c, batch)
              \/ FlushSmallCell(c) \/ FlushCellList(c)
         \/ EvictReadOnly \/ EvictSmall \/ EvictList \/ EvictInfo \/ EvictEnd
         \/ GetFold \/ GetIndexes
         \/ UpdateSmall \/ UpdateCachedList \/ UpdateList \/ WriteInfo
         \/ \E op \in {"close", "set_cache"} : BeginFlush(op)
         \/ FlushCellInfo \/ Close \/ SetCache
         \/ Open \/ BeginCopy \/ CopySmall \/ CopyList \/ Compact
         \/ Crash \/ UNCHANGED vars
BY DEF Next, Damaged, Beginning

LEMMA NextKeepsMapInv ==
  ASSUME PaddingIsWhole, MapInv, [Next]_vars
  PROVE  MapInv'
<1>1. ASSUME NEW c \in Cells,
             \/ \E op, batch : Beginning(op, c, batch)
             \/ FlushSmallCell(c) \/ FlushCellList(c)
      PROVE  MapInv'
  BY <1>1, BeginStep, FlushSmallCellStep, FlushCellListStep DEF Beginning
<1>2. ASSUME \/ \E op \in {"close", "set_cache"} : BeginFlush(op)
             \/ FlushCellInfo \/ Close \/ SetCache
      PROVE  MapInv'
  BY <1>2, BeginFlushStep, FlushCellInfoStep, CloseStep, SetCacheStep
<1>3. ASSUME EvictReadOnly \/ EvictSmall \/ EvictList \/ EvictInfo \/ EvictEnd
      PROVE  MapInv'
  BY <1>3, EvictReadOnlyStep, EvictSmallStep, EvictListStep, EvictInfoStep,
     EvictEndStep
<1>4. ASSUME \/ GetFold \/ GetIndexes
             \/ UpdateSmall \/ UpdateCachedList \/ UpdateList \/ WriteInfo
      PROVE  MapInv'
  BY <1>4, GetFoldStep, GetIndexesStep, UpdateSmallStep, UpdateCachedListStep,
     UpdateListStep, WriteInfoStep
<1>5. ASSUME \/ Open \/ BeginCopy \/ CopySmall \/ CopyList \/ Compact
             \/ Crash \/ UNCHANGED vars
      PROVE  MapInv'
  BY <1>5, OpenStep, BeginCopyStep, CopySmallStep, CopyListStep, CompactStep,
     CrashStep, StutterStep
<1>6. QED
  BY <1>1, <1>2, <1>3, <1>4, <1>5, NextCases

(***************************************************************************)
(* Everything the map keeps about its file, its cache and its call holds   *)
(* in every state, the state between two writes of one call included.      *)
(***************************************************************************)
THEOREM MapInvariance ==
  ASSUME PaddingIsWhole
  PROVE  Spec => []MapInv
<1>1. MapInv /\ [Next]_vars => MapInv'
  BY NextKeepsMapInv
<1>2. QED
  BY <1>1, InitMapInv, PTL DEF Spec

(***************************************************************************)
(* Each variable keeps its type, a cell is cached once and with an entry,  *)
(* and only cached cells are flushed.                                      *)
(***************************************************************************)
LEMMA TypesHold == MapInv => TypeOK
<1> SUFFICES ASSUME MapInv PROVE TypeOK
  OBVIOUS
<1>1. \A c \in Cells : info[c] \in CellType /\ Consistent(info[c])
  BY DEF MapInv, Types, MapCell
<1>2. cell \in CellType /\ Consistent(cell)
  BY DEF MapInv, Types, MapCell
<1>3. \A c \in Cells : entry[c].list_size >= 0 <=>
                         c \in Range(order) \cup (IF pc = "evict_info"
                                                  THEN {victim} ELSE {})
  BY DEF MapInv, CacheIsOrdered, Cached, InCache
<1>4. DOMAIN words \subseteq ListArea .. file_end - 1
  BY DEF MapInv, Types, File
<1>5. IsInjective(order) /\ todo \subseteq Range(order)
  BY DEF MapInv, CacheIsOrdered
<1>6. QED
  BY <1>1, <1>2, <1>3, <1>4, <1>5 DEF TypeOK, MapInv, Types, Modes

THEOREM TypeCorrect ==
  ASSUME PaddingIsWhole
  PROVE  Spec => []TypeOK
BY MapInvariance, TypesHold, PTL

(***************************************************************************)
(* The blocks of two cells share no word, each is in the file, and holds   *)
(* its list: a list that grows in its block changes no other.              *)
(***************************************************************************)
LEMMA BlocksHold == MapInv => BlocksAreDisjoint
<1> SUFFICES ASSUME MapInv, mode # "damaged", ~ListInPlace,
                    NEW c \in LargeOnDisk
             PROVE  /\ BlockSizeAt(words, info[c]) >= info[c].fold
                    /\ BlockEnd(words, info[c]) < file_end
                    /\ \A d \in LargeOnDisk \ {c} :
                         \/ BlockEnd(words, info[c]) < info[d].off
                         \/ BlockEnd(words, info[d]) < info[c].off
  BY DEF BlocksAreDisjoint
<1>1. Fit(words, file_end, info)
  BY FileFits
<1>2. QED
  BY <1>1 DEF Fit, BlockFits, Apart, LargeOnDisk

THEOREM BlocksStayApart ==
  ASSUME PaddingIsWhole
  PROVE  Spec => []BlocksAreDisjoint
BY MapInvariance, BlocksHold, PTL

(***************************************************************************)
(* The map implements CellMap.  A step of the map is a step of CellMap, or *)
(* changes nothing a reader of the map or of the file can see.             *)
(***************************************************************************)
LEMMA Answers == Promised!NoAnswer = NoAnswer
BY DEF Promised!NoAnswer, NoAnswer

LEMMA SameMap ==
  ASSUME SameLists
  PROVE  Lists' = Lists /\ SavedLists' = SavedLists
BY DEF SameLists, Lists, SavedLists

LEMMA OpenStatus ==
  ASSUME MapInv, pc \notin {"idle", "copy"}
  PROVE  mode \in {"read_write", "read_only"} /\ Status = "open"
BY DEF MapInv, Types, Modes, CacheIsOrdered, Status, Overwriting

LEMMA InitPromised == Init => Promised!Init
<1> SUFFICES ASSUME Init PROVE Promised!Init
  OBVIOUS
<1>1. EmptyCell.fold = 0 /\ EmptyCell.idx = << >> /\ NoEntry.list_size = -1
  BY EmptyCellType, NoEntryType DEF EmptyCell, SmallCell
<1>2. /\ info = [c \in Cells |-> EmptyCell] /\ mode = "read_write" /\ pc = "idle"
      /\ entry = [c \in Cells |-> NoEntry] /\ use_cache = FALSE
      /\ answer = NoAnswer
  BY DEF Init, EmptyFile, NoCache
<1>3. \A c \in Cells : DiskIndexes(c) = << >> /\ Visible(c) = << >>
  BY <1>1, <1>2 DEF DiskIndexes, Visible, Shown, Stored
<1>4. Lists = [c \in Cells |-> << >>] /\ SavedLists = Lists
  BY <1>3 DEF Lists, SavedLists
<1>5. Status = "open"
  BY <1>2 DEF Status, Overwriting
<1>6. QED
  BY <1>2, <1>4, <1>5, Answers DEF Promised!Init

\* Nothing to see.
LEMMA PromisedStutter ==
  ASSUME SameLists, UNCHANGED <<answer, use_cache>>, Status' = Status
  PROVE  UNCHANGED Promised!vars
BY SameMap DEF Promised!vars

LEMMA EvictionIsHidden ==
  ASSUME MapInv, EvictReadOnly \/ EvictList \/ EvictEnd
  PROVE  UNCHANGED Promised!vars
<1>1. /\ pc = "evict" /\ pc' \in {"evict", "evict_info", "body"}
      /\ UNCHANGED <<answer, use_cache, mode>>
  BY DEF EvictReadOnly, EvictList, EvictEnd, EvictFrame
<1>2. SameLists
  BY EvictReadOnlyStep, EvictListStep, EvictEndStep
<1>3. Status' = Status
  BY <1>1 DEF Status, Overwriting
<1>4. QED
  BY <1>1, <1>2, <1>3, PromisedStutter

LEMMA ListIsHidden ==
  ASSUME PaddingIsWhole, MapInv,
         UpdateList \/ \E c \in Cells : FlushCellList(c)
  PROVE  UNCHANGED Promised!vars
<1>1. /\ UNCHANGED <<answer, use_cache, mode>>
      /\ pc # "copy" /\ pc' # "copy"
  BY DEF UpdateList, CallFrame, FlushCellList, FlushFrame
<1>2. SameLists
  BY UpdateListStep, FlushCellListStep
<1>3. Status' = Status
  BY <1>1 DEF Status, Overwriting
<1>4. QED
  BY <1>1, <1>2, <1>3, PromisedStutter

\* When the last cell was copied the old file is given up.
LEMMA CopiesAreHidden ==
  ASSUME MapInv, CopySmall \/ CopyList
  PROVE  Promised!BeginCompact \/ UNCHANGED Promised!vars
<1>1. /\ UNCHANGED <<answer, use_cache, mode>> /\ pc = "copy"
      /\ tmp.next < CellCount
  BY DEF CopySmall, CopyList, CopyFrame
<1>2. SameLists
  BY CopySmallStep, CopyListStep
<1>3. mode = "read_write" /\ answer = NoAnswer /\ tmp.next \in 0 .. CellCount
  BY <1>1 DEF MapInv, CopySoFar, CallHasItsCell
<1>4. Status = "open" /\ Status' \in {"open", "compacting"}
  BY <1>1, <1>3 DEF Status, Overwriting
<1>5. CASE Status' = "open"
  BY <1>1, <1>2, <1>4, <1>5, PromisedStutter
<1>6. CASE Status' = "compacting"
  <2>1. answer' = NoAnswer /\ use_cache' = use_cache
    BY <1>1, <1>3
  <2>2. Promised!BeginCompact
    BY <1>2, <1>4, <1>6, <2>1, SameMap, Answers DEF Promised!BeginCompact
  <2>3. QED
    BY <2>2
<1>7. QED
  BY <1>4, <1>5, <1>6

LEMMA CellIsWrittenBack ==
  ASSUME MapInv,
         \/ EvictSmall \/ EvictInfo \/ FlushCellInfo
         \/ \E c \in Cells : FlushSmallCell(c)
  PROVE  \E c \in Cells : Promised!WriteBack(c)
<1>1. /\ pc \in {"evict", "evict_info", "flush", "flush_info"}
      /\ pc' \in {"evict", "evict_info", "flush", "flush_info"}
      /\ UNCHANGED <<answer, use_cache, mode>>
  BY DEF EvictSmall, EvictInfo, EvictFrame, FlushCellInfo, FlushSmallCell,
     FlushFrame
<1>2. PICK c \in Cells : WroteBack(c)
  BY EvictSmallStep, EvictInfoStep, FlushCellInfoStep, FlushSmallCellStep
<1>3. Status = "open" /\ Status' = Status
  <2>1. Status = "open"
    BY <1>1, OpenStatus
  <2>2. QED
    BY <1>1, <2>1 DEF Status, Overwriting
<1>4. Lists' = Lists /\ SavedLists' = [SavedLists EXCEPT ![c] = Lists[c]]
  BY <1>2 DEF WroteBack, Lists, SavedLists
<1>5. QED
  BY <1>1, <1>3, <1>4 DEF Promised!WriteBack

LEMMA BeginForgets ==
  ASSUME MapInv,
         \/ \E c \in Cells : \E op, batch : Beginning(op, c, batch)
         \/ \E op \in {"close", "set_cache"} : BeginFlush(op)
  PROVE  Promised!Forget
<1>1. /\ pc = "idle" /\ pc' \in {"evict", "body", "flush"}
      /\ answer' = NoAnswer /\ UNCHANGED <<use_cache, mode>>
  BY DEF Beginning, Begin, BeginFlush, Idle, cache_vars
<1>2. SameLists
  BY BeginStep, BeginFlushStep DEF Beginning
<1>3. Status' = Status
  BY <1>1 DEF Status, Overwriting
<1>4. QED
  BY <1>1, <1>2, <1>3, SameMap, Answers DEF Promised!Forget

LEMMA ReadsAnswer ==
  ASSUME MapInv, GetFold \/ GetIndexes
  PROVE  \E c \in Cells : Promised!Read(c) \/ Promised!Count(c)
<1>1. pc = "body" /\ pc' = "idle" /\ UNCHANGED <<use_cache, mode>>
  BY DEF GetFold, GetIndexes, CallFrame, Return
<1>2. Status = "open" /\ Status' = Status
  <2>1. Status = "open"
    BY <1>1, OpenStatus
  <2>2. QED
    BY <1>1, <2>1 DEF Status, Overwriting
<1>3. CASE GetFold
  <2>1. /\ SameLists /\ call.lidx \in Cells
        /\ answer' = [fold |-> Len(Visible(call.lidx)), indexes |-> << >>]
    BY <1>3, GetFoldStep
  <2>2. Lists[call.lidx] = Visible(call.lidx)
    BY <2>1 DEF Lists
  <2>3. Promised!Count(call.lidx)
    BY <1>1, <1>2, <2>1, <2>2, SameMap DEF Promised!Count
  <2>4. QED
    BY <2>1, <2>3
<1>4. CASE GetIndexes
  <2>1. /\ SameLists /\ call.lidx \in Cells
        /\ answer' = [fold |-> Len(Visible(call.lidx)),
                      indexes |-> Visible(call.lidx)]
    BY <1>4, GetIndexesStep
  <2>2. Lists[call.lidx] = Visible(call.lidx)
    BY <2>1 DEF Lists
  <2>3. Promised!Read(call.lidx)
    BY <1>1, <1>2, <2>1, <2>2, SameMap DEF Promised!Read
  <2>4. QED
    BY <2>1, <2>3
<1>5. QED
  BY <1>3, <1>4

LEMMA UpdatesLists ==
  ASSUME MapInv, UpdateSmall \/ UpdateCachedList \/ WriteInfo
  PROVE  \E c \in Cells, batch \in Batches, append \in BOOLEAN :
           Promised!Update(c, batch, append)
<1>1. /\ pc \in {"body", "write_info"} /\ pc' = "idle"
      /\ UNCHANGED <<use_cache, mode>>
  BY DEF UpdateSmall, UpdateCachedList, WriteInfo, CallFrame, Return
<1>2. Status = "open" /\ Status' = Status
  <2>1. Status = "open"
    BY <1>1, OpenStatus
  <2>2. QED
    BY <1>1, <2>1 DEF Status, Overwriting
<1>3. /\ answer' = NoAnswer /\ call.lidx \in Cells /\ call.batch \in Batches
      /\ Updated(call.lidx, call.batch, call.op = "add")
  BY UpdateSmallStep, UpdateCachedListStep, WriteInfoStep
<1>4. PICK c \in Cells, batch \in Batches, append \in BOOLEAN :
        c = call.lidx /\ batch = call.batch /\ append = (call.op = "add")
  BY <1>3
<1>5. \A d \in Cells :
        /\ Visible(d)' = IF d = c THEN IF append THEN Visible(c) \o batch ELSE batch
                         ELSE Visible(d)
        /\ DiskIndexes(d)' = IF use_cache THEN DiskIndexes(d) ELSE Visible(d)'
  BY <1>3, <1>4 DEF Updated
<1>6. Lists' = [Lists EXCEPT ![c] = IF append THEN Lists[c] \o batch ELSE batch]
  BY <1>5 DEF Lists
<1>7. SavedLists' = IF use_cache THEN SavedLists ELSE Lists'
  BY <1>5 DEF Lists, SavedLists
<1>8. Promised!Update(c, batch, append)
  BY <1>1, <1>2, <1>3, <1>6, <1>7, Answers DEF Promised!Update
<1>9. QED
  BY <1>8

LEMMA FlushEnds ==
  ASSUME MapInv, Close \/ SetCache
  PROVE  Promised!Close \/ Promised!SetCache
<1>1. pc = "flush" /\ pc' = "idle" /\ answer' = NoAnswer
  BY DEF Close, SetCache, Return
<1>2. Status = "open" /\ mode \in {"read_write", "read_only"}
  BY <1>1, OpenStatus
<1>3. /\ SameLists
      /\ \A c \in Cells : Visible(c) = DiskIndexes(c)
  BY CloseStep, SetCacheStep
<1>4. SavedLists = Lists
  BY <1>3 DEF Lists, SavedLists
<1>5. CASE Close
  <2>1. mode' = "closed" /\ use_cache' = FALSE
    BY <1>5 DEF Close, ForgetCache
  <2>2. Status' = "closed"
    BY <1>1, <2>1 DEF Status, Overwriting
  <2>3. Promised!Close
    BY <1>1, <1>2, <1>3, <1>4, <2>1, <2>2, SameMap, Answers DEF Promised!Close
  <2>4. QED
    BY <2>3
<1>6. CASE SetCache
  <2>1. mode' = mode /\ use_cache' = TRUE
    BY <1>6 DEF SetCache
  <2>2. Status' = "open"
    BY <1>1, <1>2, <2>1 DEF Status, Overwriting
  <2>3. Promised!SetCache
    BY <1>1, <1>2, <1>3, <1>4, <2>1, <2>2, SameMap, Answers DEF Promised!SetCache
  <2>4. QED
    BY <2>3
<1>7. QED
  BY <1>5, <1>6

LEMMA OpenAndCompact ==
  ASSUME MapInv, Open \/ BeginCopy \/ Compact
  PROVE  Promised!Open \/ Promised!Forget \/ Promised!EndCompact
<1>1. CASE Open
  <2>1. /\ mode = "closed" /\ mode' \in {"read_write", "read_only"} /\ pc' = pc
        /\ UNCHANGED <<answer, use_cache>>
    BY <1>1 DEF Open, cache_vars
  <2>2. pc = "idle"
    BY <2>1 DEF MapInv, CacheIsOrdered
  <2>3. Status = "closed" /\ Status' = "open"
    BY <2>1, <2>2 DEF Status, Overwriting
  <2>4. SameLists
    BY <1>1, OpenStep
  <2>5. QED
    BY <2>1, <2>3, <2>4, SameMap DEF Promised!Open
<1>2. CASE BeginCopy
  <2>1. /\ pc = "idle" /\ mode = "read_write" /\ tmp' = EmptyFile
        /\ answer' = NoAnswer /\ UNCHANGED <<mode, use_cache>>
    BY <1>2 DEF BeginCopy, Idle, cache_vars
  <2>2. tmp'.next # CellCount
    BY <2>1, EmptyFileFits
  <2>3. Status' = Status
    BY <2>1, <2>2 DEF Status, Overwriting
  <2>4. SameLists
    BY <1>2, BeginCopyStep
  <2>5. QED
    BY <2>1, <2>3, <2>4, SameMap, Answers DEF Promised!Forget
<1>3. CASE Compact
  <2>1. /\ Overwriting /\ pc = "copy" /\ pc' = "idle"
        /\ UNCHANGED <<mode, answer, use_cache>>
    BY <1>3 DEF Compact, CopyFrame, Overwriting
  <2>2. mode = "read_write"
    BY <2>1 DEF MapInv, CopySoFar
  <2>3. Status = "compacting" /\ Status' = "open"
    BY <2>1, <2>2 DEF Status, Overwriting
  <2>4. \A c \in Cells : Visible(c)' = Visible(c) /\ DiskIndexes(c)' = Visible(c)
    BY <1>3, CompactStep
  <2>5. Lists' = Lists /\ SavedLists' = Lists
    BY <2>4 DEF Lists, SavedLists
  <2>6. QED
    BY <2>1, <2>3, <2>5 DEF Promised!EndCompact
<1>4. QED
  BY <1>1, <1>2, <1>3

LEMMA CrashLosesTheCache ==
  ASSUME MapInv, Crash
  PROVE  Promised!Crash \/ Promised!Damage
<1>1. /\ mode \in {"read_write", "read_only"} /\ use_cache' = FALSE
      /\ mode' = IF Overwriting \/ ListInPlace THEN "damaged" ELSE "closed"
      /\ pc' = "idle"
  BY DEF Crash, ForgetCache, Return
<1>2. /\ answer' = NoAnswer
      /\ \A c \in Cells : /\ DiskIndexes(c)' = DiskIndexes(c)
                          /\ Visible(c)' = DiskIndexes(c)
  BY CrashStep
<1>3. SavedLists' = SavedLists /\ Lists' = SavedLists
  BY <1>2 DEF Lists, SavedLists
<1>4. CASE Overwriting
  <2>1. Status = "compacting" /\ Status' = "damaged"
    BY <1>1, <1>4 DEF Status, Overwriting
  <2>2. QED
    BY <1>1, <1>2, <1>3, <2>1, Answers DEF Promised!Damage
<1>5. CASE ListInPlace
  <2>1. pc = "write_info"
    BY <1>5 DEF ListInPlace
  <2>2. ~use_cache
    BY <2>1 DEF MapInv, ListIsWritten
  <2>3. Status = "open" /\ Status' = "damaged"
    BY <1>1, <1>5, <2>1 DEF Status, Overwriting
  <2>4. QED
    BY <1>1, <1>2, <1>3, <2>2, <2>3, Answers DEF Promised!Damage
<1>6. CASE ~Overwriting /\ ~ListInPlace
  <2>1. Status = "open" /\ Status' = "closed"
    BY <1>1, <1>6 DEF Status, Overwriting
  <2>2. QED
    BY <1>1, <1>2, <1>3, <2>1, Answers DEF Promised!Crash
<1>7. QED
  BY <1>4, <1>5, <1>6

LEMMA NextIsPromised ==
  ASSUME PaddingIsWhole, MapInv, [Next]_vars
  PROVE  [Promised!Next]_(Promised!vars)
<1>1. ASSUME \/ EvictReadOnly \/ EvictList \/ EvictEnd
             \/ UpdateList \/ \E c \in Cells : FlushCellList(c)
      PROVE  UNCHANGED Promised!vars
  BY <1>1, EvictionIsHidden, ListIsHidden
<1>2. ASSUME \/ EvictSmall \/ EvictInfo \/ FlushCellInfo
             \/ \E c \in Cells : FlushSmallCell(c)
      PROVE  Promised!Next
  BY <1>2, CellIsWrittenBack DEF Promised!Next
<1>3. ASSUME \/ \E c \in Cells : \E op, batch : Beginning(op, c, batch)
             \/ \E op \in {"close", "set_cache"} : BeginFlush(op)
      PROVE  Promised!Next
  BY <1>3, BeginForgets DEF Promised!Next
<1>4. ASSUME GetFold \/ GetIndexes
      PROVE  Promised!Next
  BY <1>4, ReadsAnswer DEF Promised!Next
<1>5. ASSUME UpdateSmall \/ UpdateCachedList \/ WriteInfo
      PROVE  Promised!Next
  BY <1>5, UpdatesLists DEF Promised!Next
<1>6. ASSUME CopySmall \/ CopyList
      PROVE  Promised!Next \/ UNCHANGED Promised!vars
  BY <1>6, CopiesAreHidden DEF Promised!Next
<1>7. ASSUME Close \/ SetCache \/ Open \/ BeginCopy \/ Compact \/ Crash
      PROVE  Promised!Next
  BY <1>7, FlushEnds, OpenAndCompact, CrashLosesTheCache DEF Promised!Next
<1>8. ASSUME UNCHANGED vars
      PROVE  UNCHANGED Promised!vars
  <2>1. SameLists
    BY <1>8, StutterStep
  <2>2. UNCHANGED <<answer, use_cache>> /\ Status' = Status
    BY <1>8 DEF vars, cache_vars, Status, Overwriting
  <2>3. QED
    BY <2>1, <2>2, PromisedStutter
<1>9. QED
  BY <1>1, <1>2, <1>3, <1>4, <1>5, <1>6, <1>7, <1>8, NextCases

(***************************************************************************)
(* Each read gives the indexes put in, in their order, whatever was        *)
(* evicted, moved or compacted in between; a program that dies loses only  *)
(* what was in the cache.                                                  *)
(***************************************************************************)
THEOREM ImplementsMap ==
  ASSUME PaddingIsWhole
  PROVE  Spec => ImplementsCellMap
<1>1. MapInv /\ [Next]_vars => [Promised!Next]_(Promised!vars)
  BY NextIsPromised
<1>2. QED
  BY <1>1, InitPromised, MapInvariance, PTL
     DEF Spec, ImplementsCellMap, Promised!Spec
=============================================================================
