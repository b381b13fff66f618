-------------------------- MODULE FastMarchingProofs --------------------------
(***************************************************************************)
(* Proofs about the fast-marching solver, for any grid, any bound on the   *)
(* times and whatever times the updates find.  Numbers are well-founded,   *)
(* which the proofs use in the form of Least below.                        *)
(***************************************************************************)
EXTENDS FastMarchingProperties, FiniteSetTheorems, WellFoundedInduction, TLAPS

LEMMA Least ==
  ASSUME NEW S, S \subseteq Nat, S # {}
  PROVE  \E n \in S : \A m \in S : n <= m
<1> DEFINE R == {ss \in Nat \X Nat : ss[1] < ss[2]}
<1>1. IsWellFoundedOn(R, Nat)
  BY NatLessThanWellFounded DEF OpToRel
<1> HIDE DEF R
<1>2. PICK n \in S : \A m \in S : ~(<<m, n>> \in R)
  BY <1>1, WFMin
<1>3. \A m \in S : ~(m < n)
  BY <1>2 DEF R
<1>4. QED
  BY <1>3

-----------------------------------------------------------------------------
(***************************************************************************)
(* The narrow band.                                                        *)
(***************************************************************************)
LEMMA TimesAreNumbers == Times \subseteq Nat /\ TT_INF \in Nat /\ TT_INF \notin Times
  BY GridAssumption DEF Times, TT_INF

LEMMA BandEntries ==
  ASSUME NEW b \in Seq(Entries), NEW i \in 1 .. Len(b)
  PROVE  /\ b[i] \in Entries
         /\ b[i].point \in Points /\ b[i].t \in Times /\ b[i].t \in Nat
<1>1. b[i] \in Entries
  OBVIOUS
<1>2. QED
  BY <1>1, TimesAreNumbers DEF Entries

LEMMA StopIsFound ==
  ASSUME NEW b \in Seq(Entries), NEW pos \in 1 .. Len(b), NEW t \in Times
  PROVE  /\ StopOf(b, pos, t) \in 0 .. pos - 1
         /\ StopOf(b, pos, t) > 0 => b[StopOf(b, pos, t)].t <= t
         /\ \A i \in StopOf(b, pos, t) + 1 .. pos - 1 : b[i].t > t
<1> DEFINE Back == {n \in 0 .. pos - 1 : n = pos - 1 \/ b[pos - 1 - n].t <= t}
<1>1. pos - 1 \in Back /\ Back \subseteq Nat
  OBVIOUS
<1>2. PICK n \in Back : \A m \in Back : n <= m
  <2> HIDE DEF Back
  <2>1. QED
    BY <1>1, Least
<1>3. \A i \in 1 .. pos - 1 : b[i].t \in Int
  BY BandEntries
<1>4. t \in Int
  BY TimesAreNumbers
<1>5. \A i \in pos - 1 - n + 1 .. pos - 1 : b[i].t > t
  <2> SUFFICES ASSUME NEW i \in pos - 1 - n + 1 .. pos - 1 PROVE b[i].t > t
    OBVIOUS
  <2>1. pos - 1 - i \notin Back /\ pos - 1 - i \in 0 .. pos - 1
    <3>1. pos - 1 - i \in 0 .. pos - 1 /\ pos - 1 - i < n /\ n \in Nat
      OBVIOUS
    <3> HIDE DEF Back
    <3>2. QED
      BY <1>2, <3>1
  <2>2. pos - 1 - (pos - 1 - i) = i /\ i \in 1 .. pos - 1
    BY <1>2
  <2>3. ~(b[i].t <= t)
    BY <2>1, <2>2
  <2>4. QED
    BY <2>2, <2>3, <1>3, <1>4
<1>6. pos - 1 - n \in 0 .. pos - 1 /\ (pos - 1 - n > 0 => b[pos - 1 - n].t <= t)
  BY <1>2
<1>7. \E j \in 0 .. pos - 1 : /\ j > 0 => b[j].t <= t
                             /\ \A i \in j + 1 .. pos - 1 : b[i].t > t
  BY <1>5, <1>6
<1>8. QED
  BY <1>7 DEF StopOf

LEMMA BubbleLeftMoves ==
  ASSUME NEW b \in Seq(Entries), NEW pos \in 1 .. Len(b)
  PROVE  LET r == BubbleLeft(b, pos)
             stop == StopOf(b, pos, b[pos].t)
         IN  /\ r \in Seq(Entries) /\ Len(r) = Len(b)
             /\ stop \in 0 .. pos - 1
             /\ stop > 0 => b[stop].t <= b[pos].t
             /\ \A i \in stop + 1 .. pos - 1 : b[i].t > b[pos].t
             /\ \A i \in 1 .. Len(b) : i <= stop \/ i > pos => r[i] = b[i]
             /\ r[stop + 1] = b[pos]
             /\ \A i \in stop + 2 .. pos : r[i] = b[i - 1]
<1> DEFINE stop == StopOf(b, pos, b[pos].t)
           r == BubbleLeft(b, pos)
<1>1. b[pos].t \in Times /\ \A i \in 1 .. Len(b) : b[i] \in Entries
  BY BandEntries
<1>2. /\ stop \in 0 .. pos - 1
      /\ stop > 0 => b[stop].t <= b[pos].t
      /\ \A i \in stop + 1 .. pos - 1 : b[i].t > b[pos].t
  BY <1>1, StopIsFound
<1> HIDE DEF stop
<1>3. r = [i \in 1 .. Len(b) |->
             IF i <= stop \/ i > pos THEN b[i]
             ELSE IF i = stop + 1 THEN b[pos] ELSE b[i - 1]]
  BY DEF BubbleLeft, stop
<1> HIDE DEF r
<1>4. \A i \in 1 .. Len(b) :
        (IF i <= stop \/ i > pos THEN b[i]
         ELSE IF i = stop + 1 THEN b[pos] ELSE b[i - 1]) \in Entries
  BY <1>1, <1>2
<1>5. r \in [1 .. Len(b) -> Entries] /\ Len(b) \in Nat
  BY <1>3, <1>4
<1>6. r \in Seq(Entries) /\ Len(r) = Len(b)
  BY <1>5
<1>7. /\ \A i \in 1 .. Len(b) : i <= stop \/ i > pos => r[i] = b[i]
      /\ r[stop + 1] = b[pos]
      /\ \A i \in stop + 2 .. pos : r[i] = b[i - 1]
  BY <1>2, <1>3
<1>8. QED
  BY <1>2, <1>6, <1>7 DEF stop, r

(***************************************************************************)
(* Moving an entry to its place sorts a band that is sorted but for it.    *)
(***************************************************************************)
LEMMA BubbleLeftSorts ==
  ASSUME NEW b \in Seq(Entries), NEW pos \in 1 .. Len(b),
         \A i, j \in 1 .. Len(b) :
           i < j /\ i # pos /\ j # pos => b[i].t <= b[j].t,
         \A j \in pos + 1 .. Len(b) : b[pos].t <= b[j].t
  PROVE  SortedBand(BubbleLeft(b, pos))
<1> DEFINE stop == StopOf(b, pos, b[pos].t)
           r == BubbleLeft(b, pos)
<1>1. /\ Len(r) = Len(b)
      /\ stop \in 0 .. pos - 1
      /\ stop > 0 => b[stop].t <= b[pos].t
      /\ \A i \in stop + 1 .. pos - 1 : b[i].t > b[pos].t
      /\ \A i \in 1 .. Len(b) : i <= stop \/ i > pos => r[i] = b[i]
      /\ r[stop + 1] = b[pos]
      /\ \A i \in stop + 2 .. pos : r[i] = b[i - 1]
  BY BubbleLeftMoves
<1>2. \A i \in 1 .. Len(b) : b[i].t \in Nat
  BY BandEntries
<1> HIDE DEF stop, r
<1>3. ASSUME NEW i \in 1 .. Len(b), NEW j \in 1 .. Len(b), i < j
      PROVE  r[i].t <= r[j].t
  <2>1. CASE i <= stop
    <3>1. r[i] = b[i] /\ b[i].t <= b[pos].t
      <4>1. CASE i = stop
        BY <1>1, <4>1
      <4>2. CASE i < stop
        <5>1. b[i].t <= b[stop].t /\ stop \in 1 .. Len(b)
          BY <1>1, <4>2
        <5>2. QED
          BY <1>1, <1>2, <2>1, <5>1
      <4>3. QED
        BY <1>1, <2>1, <4>1, <4>2
    <3>2. CASE j <= stop
      BY <1>1, <1>3, <2>1, <3>2
    <3>3. CASE j = stop + 1
      BY <1>1, <3>1, <3>3
    <3>4. CASE j \in stop + 2 .. pos
      <4>1. r[j] = b[j - 1] /\ j - 1 \in stop + 1 .. pos - 1
            /\ j - 1 \in 1 .. Len(b)
        BY <1>1, <3>4
      <4>2. b[j - 1].t > b[pos].t
        BY <1>1, <4>1
      <4>3. QED
        BY <1>2, <3>1, <4>1, <4>2
    <3>5. CASE j > pos
      <4>1. r[j] = b[j] /\ b[pos].t <= b[j].t
        BY <1>1, <3>5
      <4>2. QED
        BY <1>2, <3>1, <4>1
    <3>6. QED
      BY <1>1, <3>2, <3>3, <3>4, <3>5
  <2>2. CASE i = stop + 1
    <3>1. CASE j > pos
      BY <1>1, <2>2, <3>1
    <3>2. CASE j <= pos
      <4>1. r[j] = b[j - 1] /\ j - 1 \in stop + 1 .. pos - 1
            /\ j - 1 \in 1 .. Len(b)
        BY <1>1, <1>3, <2>2, <3>2
      <4>2. b[j - 1].t > b[pos].t
        BY <1>1, <4>1
      <4>3. QED
        BY <1>1, <1>2, <2>2, <4>1, <4>2
    <3>3. QED
      BY <1>1, <3>1, <3>2
  <2>3. CASE i \in stop + 2 .. pos
    <3>1. r[i] = b[i - 1] /\ i - 1 \in 1 .. Len(b) /\ i - 1 < pos
      BY <1>1, <2>3
    <3>2. CASE j > pos
      BY <1>1, <1>3, <3>1, <3>2
    <3>3. CASE j <= pos
      <4>1. r[j] = b[j - 1] /\ j - 1 \in 1 .. Len(b) /\ j - 1 < pos
            /\ i - 1 < j - 1
        BY <1>1, <1>3, <2>3, <3>3
      <4>2. QED
        BY <3>1, <4>1
    <3>4. QED
      BY <1>1, <3>2, <3>3
  <2>4. CASE i > pos
    BY <1>1, <1>3, <2>4
  <2>5. QED
    BY <1>1, <2>1, <2>2, <2>3, <2>4
<1>4. QED
  BY <1>1, <1>3 DEF SortedBand, r

(***************************************************************************)
(* It only permutes the entries.                                           *)
(***************************************************************************)
LEMMA BubbleLeftHolds ==
  ASSUME NEW b \in Seq(Entries), NEW pos \in 1 .. Len(b),
         NEW S, NEW f, Holds(b, S, f)
  PROVE  Holds(BubbleLeft(b, pos), S, f)
<1> DEFINE stop == StopOf(b, pos, b[pos].t)
           r == BubbleLeft(b, pos)
<1>1. /\ Len(r) = Len(b)
      /\ stop \in 0 .. pos - 1
      /\ \A i \in 1 .. Len(b) : i <= stop \/ i > pos => r[i] = b[i]
      /\ r[stop + 1] = b[pos]
      /\ \A i \in stop + 2 .. pos : r[i] = b[i - 1]
  BY BubbleLeftMoves
<1>2. /\ S = {b[i].point : i \in 1 .. Len(b)}
      /\ \A i \in 1 .. Len(b) : b[i].t = f[b[i].point]
      /\ \A i, j \in 1 .. Len(b) : b[i].point = b[j].point => i = j
  BY DEF Holds
<1> HIDE DEF stop, r
<1> DEFINE from(i) == IF i <= stop \/ i > pos THEN i
                      ELSE IF i = stop + 1 THEN pos ELSE i - 1
           to(i) == IF i <= stop \/ i > pos THEN i
                    ELSE IF i = pos THEN stop + 1 ELSE i + 1
<1>3. ASSUME NEW i \in 1 .. Len(b)
      PROVE  from(i) \in 1 .. Len(b) /\ r[i] = b[from(i)]
  <2>1. i <= stop \/ i > pos \/ i = stop + 1 \/ i \in stop + 2 .. pos
    BY <1>1
  <2>2. QED
    BY <1>1, <2>1
<1>4. ASSUME NEW i \in 1 .. Len(b)
      PROVE  to(i) \in 1 .. Len(b) /\ r[to(i)] = b[i]
  <2>1. CASE i <= stop \/ i > pos
    BY <1>1, <2>1
  <2>2. CASE i = pos
    BY <1>1, <2>2
  <2>3. CASE i \in stop + 1 .. pos - 1
    <3>1. to(i) = i + 1 /\ i + 1 \in stop + 2 .. pos /\ i + 1 - 1 = i
      BY <1>1, <2>3
    <3>2. QED
      BY <1>1, <3>1
  <2>4. QED
    BY <1>1, <2>1, <2>2, <2>3
<1>5. \A i, j \in 1 .. Len(b) : from(i) = from(j) => i = j
  BY <1>1
<1> HIDE DEF from, to
<1>6. {r[i].point : i \in 1 .. Len(b)} = S
  <2>1. ASSUME NEW i \in 1 .. Len(b) PROVE r[i].point \in S
    <3>1. from(i) \in 1 .. Len(b) /\ r[i] = b[from(i)]
      BY <1>3
    <3>2. QED
      BY <1>2, <3>1
  <2>2. ASSUME NEW q \in S PROVE \E i \in 1 .. Len(b) : q = r[i].point
    <3>1. PICK j \in 1 .. Len(b) : q = b[j].point
      BY <1>2
    <3>2. to(j) \in 1 .. Len(b) /\ r[to(j)] = b[j]
      BY <1>4
    <3>3. QED
      BY <3>1, <3>2
  <2>3. QED
    BY <2>1, <2>2
<1>7. \A i \in 1 .. Len(b) : r[i].t = f[r[i].point]
  BY <1>2, <1>3
<1>8. ASSUME NEW i \in 1 .. Len(b), NEW j \in 1 .. Len(b),
             r[i].point = r[j].point
      PROVE  i = j
  <2>1. /\ from(i) \in 1 .. Len(b) /\ r[i] = b[from(i)]
        /\ from(j) \in 1 .. Len(b) /\ r[j] = b[from(j)]
    BY <1>3
  <2>2. from(i) = from(j)
    BY <1>2, <1>8, <2>1
  <2>3. QED
    BY <1>5, <2>2
<1>9. QED
  BY <1>1, <1>6, <1>7, <1>8 DEF Holds, r

LEMMA InsertHolds ==
  ASSUME NEW b \in Seq(Entries), SortedBand(b),
         NEW S, NEW f, Holds(b, S, f),
         NEW p \in Points, p \notin S, NEW t \in Times,
         NEW g, g[p] = t, \A q \in S : g[q] = f[q]
  PROVE  LET r == BandInsert(b, p, t)
         IN  r \in Seq(Entries) /\ SortedBand(r) /\ Holds(r, S \union {p}, g)
<1> DEFINE n == Len(b) + 1
           a == Append(b, Entry(p, t))
<1>1. Entry(p, t) \in Entries /\ Entry(p, t).point = p /\ Entry(p, t).t = t
  BY DEF Entry, Entries
<1>2. /\ a \in Seq(Entries) /\ Len(a) = n /\ n \in Nat /\ n \in 1 .. Len(a)
      /\ a[n] = Entry(p, t) /\ \A i \in 1 .. Len(b) : a[i] = b[i]
      /\ \A i \in 1 .. n : i = n \/ i \in 1 .. Len(b)
  BY <1>1
<1>3. BandInsert(b, p, t) = BubbleLeft(a, n)
  BY DEF BandInsert
<1>4. /\ S = {b[i].point : i \in 1 .. Len(b)}
      /\ \A i \in 1 .. Len(b) : b[i].t = f[b[i].point]
      /\ \A i, j \in 1 .. Len(b) : b[i].point = b[j].point => i = j
  BY DEF Holds
<1> HIDE DEF a, n
<1>5. Holds(a, S \union {p}, g)
  <2>1. {a[i].point : i \in 1 .. n} = S \union {p}
    BY <1>1, <1>2, <1>4
  <2>2. \A i \in 1 .. n : a[i].t = g[a[i].point]
    BY <1>1, <1>2, <1>4
  <2>3. \A i, j \in 1 .. n : a[i].point = a[j].point => i = j
    BY <1>1, <1>2, <1>4
  <2>4. QED
    BY <1>2, <2>1, <2>2, <2>3 DEF Holds
<1>6. \A i, j \in 1 .. Len(a) : i < j /\ i # n /\ j # n => a[i].t <= a[j].t
  BY <1>2 DEF SortedBand, n
<1>7. SortedBand(BubbleLeft(a, n))
  <2>1. \A j \in n + 1 .. Len(a) : a[n].t <= a[j].t
    BY <1>2
  <2>2. QED
    BY <1>2, <1>6, <2>1, BubbleLeftSorts
<1>8. BubbleLeft(a, n) \in Seq(Entries)
  BY <1>2, BubbleLeftMoves
<1>9. Holds(BubbleLeft(a, n), S \union {p}, g)
  BY <1>2, <1>5, BubbleLeftHolds
<1>10. QED
  BY <1>3, <1>7, <1>8, <1>9

LEMMA DecreaseHolds ==
  ASSUME NEW b \in Seq(Entries), SortedBand(b),
         NEW S, NEW f, Holds(b, S, f),
         NEW p \in S, NEW t \in Times, t <= f[p],
         NEW g, g[p] = t, \A q \in S \ {p} : g[q] = f[q]
  PROVE  LET r == BandDecreaseKey(b, p, t)
         IN  /\ InBand(b, p) # {}
             /\ r \in Seq(Entries) /\ SortedBand(r) /\ Holds(r, S, g)
<1> DEFINE pos == Position(b, p)
           a == [b EXCEPT ![pos] = Entry(p, t)]
<1>1. /\ S = {b[i].point : i \in 1 .. Len(b)}
      /\ \A i \in 1 .. Len(b) : b[i].t = f[b[i].point]
      /\ \A i, j \in 1 .. Len(b) : b[i].point = b[j].point => i = j
  BY DEF Holds
<1>2. PICK m \in 1 .. Len(b) : b[m].point = p
  BY <1>1
<1>3. InBand(b, p) = {m}
  BY <1>1, <1>2 DEF InBand
<1>4. pos = m
  BY <1>3 DEF Position
<1> HIDE DEF pos
<1>5. Entry(p, t) \in Entries /\ Entry(p, t).point = p /\ Entry(p, t).t = t
  <2>1. p \in Points
    BY <1>2, BandEntries
  <2>2. QED
    BY <2>1 DEF Entry, Entries
<1>6. /\ a \in Seq(Entries) /\ Len(a) = Len(b) /\ a[m] = Entry(p, t)
      /\ \A i \in 1 .. Len(b) : i # m => a[i] = b[i]
  BY <1>4, <1>5
<1>7. BandDecreaseKey(b, p, t) = BubbleLeft(a, m)
  BY <1>4 DEF BandDecreaseKey, pos
<1> HIDE DEF a
<1>8. Holds(a, S, g)
  <2>1. {a[i].point : i \in 1 .. Len(b)} = S
    BY <1>1, <1>2, <1>5, <1>6
  <2>2. \A i \in 1 .. Len(b) : a[i].t = g[a[i].point]
    BY <1>1, <1>2, <1>5, <1>6
  <2>3. \A i, j \in 1 .. Len(b) : a[i].point = a[j].point => i = j
    BY <1>1, <1>2, <1>5, <1>6
  <2>4. QED
    BY <1>6, <2>1, <2>2, <2>3 DEF Holds
<1>9. \A i, j \in 1 .. Len(a) : i < j /\ i # m /\ j # m => a[i].t <= a[j].t
  BY <1>6 DEF SortedBand
<1>10. \A j \in m + 1 .. Len(a) : a[m].t <= a[j].t
  <2> SUFFICES ASSUME NEW j \in m + 1 .. Len(a) PROVE a[m].t <= a[j].t
    OBVIOUS
  <2>1. a[j] = b[j] /\ j \in 1 .. Len(b) /\ a[m].t = t
    BY <1>5, <1>6
  <2>2. b[m].t <= b[j].t /\ b[m].t = f[p]
    BY <1>1, <1>2, <2>1 DEF SortedBand
  <2>3. b[j].t \in Nat /\ b[m].t \in Nat /\ t \in Nat
    BY <2>1, BandEntries, TimesAreNumbers
  <2>4. QED
    BY <2>1, <2>2, <2>3
<1>11. SortedBand(BubbleLeft(a, m))
  BY <1>6, <1>9, <1>10, BubbleLeftSorts
<1>12. BubbleLeft(a, m) \in Seq(Entries) /\ Holds(BubbleLeft(a, m), S, g)
  BY <1>6, <1>8, BubbleLeftMoves, BubbleLeftHolds
<1>13. QED
  BY <1>3, <1>7, <1>11, <1>12

LEMMA TailHolds ==
  ASSUME NEW b \in Seq(Entries), b # << >>, SortedBand(b),
         NEW S, NEW f, Holds(b, S, f)
  PROVE  /\ Tail(b) \in Seq(Entries) /\ SortedBand(Tail(b))
         /\ Head(b).point \in S /\ Head(b).t = f[Head(b).point]
         /\ Holds(Tail(b), S \ {Head(b).point}, f)
<1>1. /\ S = {b[i].point : i \in 1 .. Len(b)}
      /\ \A i \in 1 .. Len(b) : b[i].t = f[b[i].point]
      /\ \A i, j \in 1 .. Len(b) : b[i].point = b[j].point => i = j
  BY DEF Holds
<1>2. /\ Len(b) \in Nat /\ Len(b) >= 1 /\ Head(b) = b[1]
      /\ Tail(b) \in Seq(Entries) /\ Len(Tail(b)) = Len(b) - 1
      /\ \A i \in 1 .. Len(b) - 1 : Tail(b)[i] = b[i + 1]
  OBVIOUS
<1> DEFINE r == Tail(b)
<1>3. /\ Len(r) = Len(b) - 1
      /\ \A i \in 1 .. Len(b) - 1 : r[i] = b[i + 1]
  BY <1>2
<1> HIDE DEF r
<1>4. SortedBand(r)
  <2> SUFFICES ASSUME NEW i \in 1 .. Len(r), NEW j \in 1 .. Len(r), i < j
      PROVE  r[i].t <= r[j].t
    BY DEF SortedBand
  <2>1. r[i] = b[i + 1] /\ r[j] = b[j + 1] /\ i + 1 < j + 1
        /\ i + 1 \in 1 .. Len(b) /\ j + 1 \in 1 .. Len(b)
    BY <1>2, <1>3
  <2>2. QED
    BY <2>1 DEF SortedBand
<1>5. {r[i].point : i \in 1 .. Len(b) - 1} = S \ {b[1].point}
  <2>1. \A q \in S \ {b[1].point} : \E i \in 1 .. Len(b) - 1 : q = r[i].point
    <3> SUFFICES ASSUME NEW q \in S \ {b[1].point}
        PROVE  \E i \in 1 .. Len(b) - 1 : q = r[i].point
      OBVIOUS
    <3>1. PICK j \in 1 .. Len(b) : q = b[j].point
      BY <1>1
    <3>2. j - 1 \in 1 .. Len(b) - 1 /\ j - 1 + 1 = j
      BY <1>2, <3>1
    <3>3. QED
      BY <1>3, <3>1, <3>2
  <2>2. \A i \in 1 .. Len(b) - 1 : r[i].point \in S \ {b[1].point}
    <3> SUFFICES ASSUME NEW i \in 1 .. Len(b) - 1
        PROVE  r[i].point \in S \ {b[1].point}
      OBVIOUS
    <3>1. i + 1 \in 1 .. Len(b) /\ i + 1 # 1 /\ 1 \in 1 .. Len(b)
      BY <1>2
    <3>2. QED
      BY <1>1, <1>3, <3>1
  <2>3. QED
    BY <2>1, <2>2
<1>6. \A i \in 1 .. Len(b) - 1 : i + 1 \in 1 .. Len(b)
  BY <1>2
<1>7. \A i \in 1 .. Len(b) - 1 : r[i].t = f[r[i].point]
  BY <1>1, <1>3, <1>6
<1>8. \A i, j \in 1 .. Len(b) - 1 : r[i].point = r[j].point => i = j
  BY <1>1, <1>3, <1>6
<1>9. Holds(r, S \ {b[1].point}, f)
  BY <1>3, <1>5, <1>7, <1>8 DEF Holds
<1>10. b[1].point \in S /\ b[1].t = f[b[1].point]
  BY <1>1, <1>2
<1>11. QED
  BY <1>2, <1>4, <1>9, <1>10 DEF r

(***************************************************************************)
(* The seeds.                                                              *)
(***************************************************************************)
LEMMA PutHolds ==
  ASSUME NEW D, D \subseteq Points, NEW f \in [D -> Times],
         NEW g, \A q \in D : g[q] = f[q],
         NEW b \in Seq(Entries), SortedBand(b),
         NEW S, Holds(b, S, g), NEW p, p \notin S
  PROVE  LET r == IF p \in DOMAIN f THEN BandInsert(b, p, f[p]) ELSE b
         IN  /\ r \in Seq(Entries) /\ SortedBand(r)
             /\ Holds(r, S \union ({p} \intersect D), g)
<1>1. CASE p \in D
  <2>1. p \in Points /\ f[p] \in Times /\ g[p] = f[p] /\ p \in DOMAIN f
    BY <1>1
  <2>2. {p} \intersect D = {p}
    BY <1>1
  <2> DEFINE r == BandInsert(b, p, f[p])
  <2>3. r \in Seq(Entries) /\ SortedBand(r) /\ Holds(r, S \union {p}, g)
    BY <2>1, InsertHolds
  <2> HIDE DEF r
  <2>4. QED
    BY <2>1, <2>2, <2>3 DEF r
<1>2. CASE p \notin D
  <2>1. S \union ({p} \intersect D) = S /\ p \notin DOMAIN f
    BY <1>2
  <2>2. QED
    BY <2>1
<1>3. QED
  BY <1>1, <1>2

LEMMA SeedBandHolds ==
  ASSUME NEW c \in Points, NEW f \in [Seeds(c) -> Times],
         NEW g, \A q \in Seeds(c) : g[q] = f[q]
  PROVE  /\ SeedBand(c, f) \in Seq(Entries) /\ SortedBand(SeedBand(c, f))
         /\ Holds(SeedBand(c, f), Seeds(c), g)
<1> DEFINE Put(b, p) == IF p \in DOMAIN f THEN BandInsert(b, p, f[p]) ELSE b
           D == Seeds(c)
           c2 == <<c[1] + 1, c[2]>>
           c3 == <<c[1], c[2] + 1>>
           c4 == <<c[1] + 1, c[2] + 1>>
           b1 == Put(<< >>, c)
           b2 == Put(b1, c2)
           b3 == Put(b2, c3)
           b4 == Put(b3, c4)
           S1 == {c} \intersect D
           S2 == S1 \union ({c2} \intersect D)
           S3 == S2 \union ({c3} \intersect D)
           S4 == S3 \union ({c4} \intersect D)
<1>1. SeedBand(c, f) = b4
  BY DEF SeedBand
<1>2. D \subseteq Points
  BY DEF Seeds
<1>3. c = <<c[1], c[2]>> /\ c[1] \in Int /\ c[2] \in Int
  BY DEF Points
<1>4. c2 \notin S1 /\ c3 \notin S2 /\ c4 \notin S3
  BY <1>3
<1>5. S4 = D
  <2>1. \A q \in Points : q = <<q[1], q[2]>>
    BY DEF Points
  <2>2. \A q \in D : q \in {c, c2, c3, c4}
    BY <1>2, <1>3, <2>1 DEF Seeds
  <2>3. QED
    BY <2>2
<1>6. << >> \in Seq(Entries) /\ SortedBand(<< >>) /\ Holds(<< >>, {}, g)
  BY DEF SortedBand, Holds
<1>7. S1 = {} \union ({c} \intersect D)
  OBVIOUS
<1> HIDE DEF D, S1, S2, S3, S4, b1, b2, b3, b4, c2, c3, c4
<1>8. f \in [D -> Times] /\ \A q \in D : g[q] = f[q]
  BY DEF D
<1>9. b1 \in Seq(Entries) /\ SortedBand(b1) /\ Holds(b1, S1, g)
  <2>1. c \notin {}
    OBVIOUS
  <2>2. /\ b1 \in Seq(Entries) /\ SortedBand(b1)
        /\ Holds(b1, {} \union ({c} \intersect D), g)
    BY <1>2, <1>6, <1>8, <2>1, PutHolds DEF b1
  <2>3. QED
    BY <1>7, <2>2
<1>10. b2 \in Seq(Entries) /\ SortedBand(b2) /\ Holds(b2, S2, g)
  BY <1>2, <1>4, <1>8, <1>9, PutHolds DEF b2, S2
<1>11. b3 \in Seq(Entries) /\ SortedBand(b3) /\ Holds(b3, S3, g)
  BY <1>2, <1>4, <1>8, <1>10, PutHolds DEF b3, S3
<1>12. b4 \in Seq(Entries) /\ SortedBand(b4) /\ Holds(b4, S4, g)
  BY <1>2, <1>4, <1>8, <1>11, PutHolds DEF b4, S4
<1>13. QED
  BY <1>1, <1>5, <1>12 DEF D

LEMMA InitMarchInv == Init => MarchInv
<1> SUFFICES ASSUME Init PROVE MarchInv
  OBVIOUS
<1>1. PICK f \in [Seeds(cell) -> Times] :
        /\ recpt = [p \in Points |-> IF p \in DOMAIN f THEN f[p] ELSE TT_INF]
        /\ band = SeedBand(cell, f)
  BY DEF Init
<1>2. /\ cell \in Points /\ alive = {} /\ iter = 0 /\ current = cell /\ k = 4
      /\ status = "march"
  BY DEF Init
<1>3. Seeds(cell) \subseteq Points /\ cell \in Seeds(cell)
  BY <1>2 DEF Seeds
<1>4. /\ \A p \in Seeds(cell) : recpt[p] = f[p] /\ recpt[p] # TT_INF
      /\ \A p \in Points \ Seeds(cell) : recpt[p] = TT_INF
      /\ recpt \in [Points -> Times \union {TT_INF}]
  BY <1>1, <1>3, TimesAreNumbers
<1>5. /\ band \in Seq(Entries) /\ SortedBand(band)
      /\ Holds(band, Seeds(cell), recpt)
  BY <1>1, <1>2, <1>4, SeedBandHolds
<1>6. Front = Seeds(cell)
  BY <1>2, <1>3, <1>4 DEF Front
<1>7. 0 \in 0 .. MaxIter
  BY GridAssumption DEF MaxIter
<1>8. TypeOK
  BY <1>2, <1>4, <1>5, <1>7 DEF TypeOK
<1>9. BandIsTheFront /\ BandIsSorted
  BY <1>5, <1>6 DEF BandIsTheFront, BandIsSorted
<1>10. NeighboursAreReached /\ EachPopAccepts
  BY <1>2, FS_EmptySet DEF NeighboursAreReached, EachPopAccepts
<1>11. ReachedFromTheSource
  BY <1>2, <1>3, <1>4 DEF ReachedFromTheSource
<1>12. QED
  BY <1>8, <1>9, <1>10, <1>11 DEF MarchInv

-----------------------------------------------------------------------------
(***************************************************************************)
(* The steps.                                                              *)
(***************************************************************************)
LEMMA AcceptedAreFew ==
  ASSUME alive \subseteq Points
  PROVE  IsFiniteSet(alive) /\ Cardinality(alive) \in Nat
         /\ Cardinality(alive) < MaxIter /\ MaxIter \in Nat
<1>1. /\ IsFiniteSet(0 .. Nz - 1) /\ Cardinality(0 .. Nz - 1) = Nz
      /\ IsFiniteSet(0 .. Nx - 1) /\ Cardinality(0 .. Nx - 1) = Nx
  BY FS_Interval, GridAssumption
<1>2. IsFiniteSet(Points) /\ Cardinality(Points) = Nz * Nx
  BY <1>1, FS_Product DEF Points
<1>3. IsFiniteSet(alive) /\ Cardinality(alive) <= Nz * Nx
  BY <1>2, FS_Subset
<1>4. Cardinality(alive) \in Nat
  BY <1>3, FS_CardinalityType
<1>5. Nz * Nx \in Nat /\ MaxIter = 4 * (Nz * Nx) + 100
  BY GridAssumption DEF MaxIter
<1>6. QED
  BY <1>3, <1>4, <1>5

LEMMA PopMinStep ==
  ASSUME MarchInv, PopMin
  PROVE  MarchInv'
<1> DEFINE p == Head(band).point
<1>1. /\ status = "march" /\ k = 4 /\ band # << >> /\ iter < MaxIter
      /\ iter' = iter + 1 /\ band' = Tail(band)
      /\ UNCHANGED <<cell, recpt, status>>
  BY DEF PopMin
<1>2. /\ band' \in Seq(Entries) /\ SortedBand(band')
      /\ p \in Front /\ Head(band).t = recpt[p]
      /\ Holds(band', Front \ {p}, recpt)
  BY <1>1, TailHolds DEF MarchInv, TypeOK, BandIsTheFront, BandIsSorted
<1>3. p \in Points /\ p \notin alive /\ recpt[p] \in Times
  BY <1>2 DEF Front, MarchInv, TypeOK
<1>4. alive' = alive \union {p} /\ current' = p /\ k' = 0
  <2>1. recpt[p] \in Nat
    BY <1>3, TimesAreNumbers, Zenon
  <2>2. ~(Head(band).t > recpt[p])
    BY <1>2, <2>1
  <2>3. QED
    BY <1>3, <2>2 DEF PopMin
<1>5. IsFiniteSet(alive) /\ Cardinality(alive) \in Nat /\ iter = Cardinality(alive)
  BY AcceptedAreFew DEF MarchInv, TypeOK, EachPopAccepts
<1>6. Cardinality(alive') = Cardinality(alive) + 1
  BY <1>3, <1>4, <1>5, FS_AddElement
<1> HIDE DEF p
<1>7. TypeOK'
  <2>1. iter' \in 0 .. MaxIter
    BY <1>1, <1>5, AcceptedAreFew DEF MarchInv, TypeOK
  <2>2. QED
    BY <1>1, <1>2, <1>3, <1>4, <2>1 DEF MarchInv, TypeOK
<1>8. Front' = Front \ {p}
  BY <1>1, <1>4 DEF Front
<1>9. BandIsTheFront' /\ BandIsSorted'
  BY <1>1, <1>2, <1>8 DEF BandIsTheFront, BandIsSorted
<1>10. NeighboursAreReached'
  <2> SUFFICES ASSUME NEW q \in alive', NEW i \in 0 .. 3,
                      Neighbour(q, i) \in Points, q = current' => i < k'
      PROVE  recpt'[Neighbour(q, i)] # TT_INF
    BY DEF NeighboursAreReached
  <2>1. q \in alive
    BY <1>4
  <2>2. i < k
    BY <1>1
  <2>3. QED
    BY <1>1, <2>1, <2>2 DEF MarchInv, NeighboursAreReached
<1>11. EachPopAccepts'
  BY <1>1, <1>4, <1>5, <1>6 DEF MarchInv, EachPopAccepts
<1>12. ReachedFromTheSource'
  BY <1>1, <1>3, <1>4, TimesAreNumbers DEF MarchInv, ReachedFromTheSource
<1>13. QED
  BY <1>7, <1>9, <1>10, <1>11, <1>12 DEF MarchInv

LEMMA SkipNeighbourStep ==
  ASSUME MarchInv, SkipNeighbour
  PROVE  MarchInv'
<1>1. /\ status = "march" /\ k < 4 /\ k \in 0 .. 3 /\ k' = k + 1
      /\ Neighbour(current, k) \in alive \/ Neighbour(current, k) \notin Points
      /\ UNCHANGED <<cell, recpt, alive, band, iter, current, status>>
  BY DEF SkipNeighbour, MarchInv, TypeOK
<1>2. TypeOK'
  BY <1>1 DEF MarchInv, TypeOK
<1>3. BandIsTheFront' /\ BandIsSorted' /\ EachPopAccepts'
  BY <1>1 DEF MarchInv, BandIsTheFront, Front, BandIsSorted, EachPopAccepts
<1>4. NeighboursAreReached'
  <2> SUFFICES ASSUME NEW q \in alive, NEW i \in 0 .. 3,
                      Neighbour(q, i) \in Points, q = current => i < k + 1
      PROVE  recpt[Neighbour(q, i)] # TT_INF
    BY <1>1 DEF NeighboursAreReached
  <2>1. CASE q = current /\ i = k
    BY <1>1, <2>1 DEF MarchInv, ReachedFromTheSource
  <2>2. CASE ~(q = current /\ i = k)
    BY <1>1, <2>2 DEF MarchInv, NeighboursAreReached
  <2>3. QED
    BY <2>1, <2>2
<1>5. ReachedFromTheSource'
  BY <1>1 DEF MarchInv, ReachedFromTheSource
<1>6. QED
  BY <1>2, <1>3, <1>4, <1>5 DEF MarchInv

(***************************************************************************)
(* Where a new time comes from: an accepted neighbour that is not later,   *)
(* or it is the time the point has.                                        *)
(***************************************************************************)
LEMMA Neighbours ==
  ASSUME NEW p
  PROVE  /\ Neighbour(p, 0) = <<p[1] - 1, p[2]>>
         /\ Neighbour(p, 1) = <<p[1] + 1, p[2]>>
         /\ Neighbour(p, 2) = <<p[1], p[2] - 1>>
         /\ Neighbour(p, 3) = <<p[1], p[2] + 1>>
BY DEF Neighbour

LEMMA UpwindsAreAdjacent ==
  ASSUME NEW p, NEW q \in Upwinds(p)
  PROVE  q \in alive /\ Adjacent(p, q)
<1>1. q \in alive /\ q \in {UpwindX(p), UpwindZ(p)}
  BY DEF Upwinds
<1>2. UpwindX(p) \in {Neighbour(p, 2), Neighbour(p, 3)}
  BY Neighbours DEF UpwindX, Upwind
<1>3. UpwindZ(p) \in {Neighbour(p, 0), Neighbour(p, 1)}
  BY Neighbours DEF UpwindZ, Upwind
<1>4. QED
  BY <1>1, <1>2, <1>3 DEF Adjacent

LEMMA ExtremesAreTimes ==
  ASSUME TypeOK, NEW S, S \subseteq Points, S # {}, NEW a, NEW c, S \subseteq {a, c},
         \A q \in S : recpt[q] \in Times
  PROVE  /\ \E q \in S : Latest(S) = recpt[q]
         /\ \E q \in S : Soonest(S) = recpt[q]
<1>1. \A q \in S : recpt[q] \in Nat
  BY TimesAreNumbers, Zenon
<1>2. PICK m \in S : \A q \in S : recpt[q] <= recpt[m]
  <2>1. CASE a \in S /\ c \in S
    BY <1>1, <2>1
  <2>2. CASE ~(a \in S /\ c \in S)
    <3>1. PICK q \in S : S = {q}
      BY <2>2
    <3>2. QED
      BY <1>1, <3>1
  <2>3. QED
    BY <2>1, <2>2
<1>3. PICK n \in S : \A q \in S : recpt[q] >= recpt[n]
  <2>1. CASE a \in S /\ c \in S
    BY <1>1, <2>1
  <2>2. CASE ~(a \in S /\ c \in S)
    <3>1. PICK q \in S : S = {q}
      BY <2>2
    <3>2. QED
      BY <1>1, <3>1
  <2>3. QED
    BY <2>1, <2>2
<1>4. Latest(S) \in {recpt[q] : q \in S}
  BY <1>2 DEF Latest
<1>5. Soonest(S) \in {recpt[q] : q \in S}
  BY <1>3 DEF Soonest
<1>6. QED
  BY <1>4, <1>5

LEMMA UpwindIsAccepted ==
  ASSUME MarchInv, NEW a, NEW c
  PROVE  a \in alive \/ c \in alive => Upwind(a, c) \in alive
<1>1. \A q \in alive : recpt[q] \in Nat /\ recpt[q] < TT_INF
  BY GridAssumption DEF MarchInv, TypeOK, ReachedFromTheSource, Times, TT_INF
<1>2. TT_INF \in Nat
  BY TimesAreNumbers
<1>3. CASE a \in alive /\ c \notin alive
  BY <1>1, <1>2, <1>3 DEF Upwind, AliveTime
<1>4. CASE a \notin alive /\ c \in alive
  BY <1>1, <1>2, <1>4 DEF Upwind, AliveTime
<1>5. CASE a \in alive /\ c \in alive
  BY <1>5 DEF Upwind
<1>6. QED
  BY <1>3, <1>4, <1>5

LEMMA ReachedBefore ==
  ASSUME MarchInv, NEW q \in alive, NEW p \in Points, NEW i \in 0 .. 3,
         q # current, p = Neighbour(q, i)
  PROVE  recpt[p] # TT_INF
BY DEF MarchInv, NeighboursAreReached

LEMMA NewTimeIsSound ==
  ASSUME MarchInv, k \in 0 .. 3, NEW p, p = Neighbour(current, k),
         p \in Points \ alive, NEW t \in NewTimes(p)
  PROVE  \/ t = recpt[p] /\ recpt[p] # TT_INF
         \/ t \in Times /\ \E q \in alive : Adjacent(p, q) /\ recpt[q] <= t
<1>1. current \in alive /\ current \in Points
  BY DEF MarchInv, TypeOK, EachPopAccepts
<1>2. current = <<current[1], current[2]>> /\ current[1] \in Int /\ current[2] \in Int
  BY <1>1 DEF Points
<1>3. p = <<p[1], p[2]>> /\ p[1] \in Int /\ p[2] \in Int
  BY DEF Points
<1>4. CASE current \in Upwinds(p)
  <2>1. \A q \in Upwinds(p) : /\ q \in alive /\ Adjacent(p, q) /\ q \in Points
                             /\ recpt[q] \in Times
    BY UpwindsAreAdjacent DEF MarchInv, TypeOK, ReachedFromTheSource
  <2>2. /\ \E q \in Upwinds(p) : Latest(Upwinds(p)) = recpt[q]
        /\ \E q \in Upwinds(p) : Soonest(Upwinds(p)) = recpt[q]
    <3>1. Upwinds(p) \subseteq {UpwindX(p), UpwindZ(p)} /\ Upwinds(p) # {}
          /\ Upwinds(p) \subseteq Points
      BY <1>4, <2>1 DEF Upwinds
    <3>2. QED
      BY <2>1, <3>1, ExtremesAreTimes DEF MarchInv
  <2>3. t \in Times /\ t >= Earlier(Latest(Upwinds(p)),
                                    Earlier(Soonest(Upwinds(p)) + 1, MaxTime))
    BY <1>4 DEF NewTimes
  <2>4. PICK l \in Upwinds(p), s \in Upwinds(p) :
          t >= Earlier(recpt[l], Earlier(recpt[s] + 1, MaxTime))
    BY <2>2, <2>3
  <2>5. recpt[l] <= t \/ recpt[s] <= t
    BY <2>1, <2>3, <2>4, GridAssumption DEF Earlier, Times
  <2>6. QED
    BY <2>1, <2>3, <2>5
<1>5. CASE current \notin Upwinds(p)
  <2>1. t = recpt[p]
    BY <1>5 DEF NewTimes
  <2>2. UpwindX(p) # current /\ UpwindZ(p) # current
    BY <1>1, <1>5 DEF Upwinds
  <2>3. CASE k \in {0, 1}
    <3>1. current \in {<<p[1] - 1, p[2]>>, <<p[1] + 1, p[2]>>}
      <4>1. CASE k = 0
        BY <1>2, <4>1, Neighbours
      <4>2. CASE k = 1
        BY <1>2, <4>2, Neighbours
      <4>3. QED
        BY <2>3, <4>1, <4>2
    <3>2. UpwindZ(p) \in alive
      BY <1>1, <3>1, UpwindIsAccepted DEF UpwindZ
    <3>3. \E i \in 0 .. 3 : p = Neighbour(UpwindZ(p), i)
      <4>1. /\ p = Neighbour(<<p[1] - 1, p[2]>>, 1)
            /\ p = Neighbour(<<p[1] + 1, p[2]>>, 0)
        BY <1>3 DEF Neighbour
      <4>2. UpwindZ(p) \in {<<p[1] - 1, p[2]>>, <<p[1] + 1, p[2]>>}
        BY DEF UpwindZ, Upwind
      <4>3. QED
        BY <4>1, <4>2
    <3>4. QED
      BY <2>1, <2>2, <3>2, <3>3, ReachedBefore
  <2>4. CASE k \in {2, 3}
    <3>1. current \in {<<p[1], p[2] - 1>>, <<p[1], p[2] + 1>>}
      <4>1. CASE k = 2
        BY <1>2, <4>1, Neighbours
      <4>2. CASE k = 3
        BY <1>2, <4>2, Neighbours
      <4>3. QED
        BY <2>4, <4>1, <4>2
    <3>2. UpwindX(p) \in alive
      BY <1>1, <3>1, UpwindIsAccepted DEF UpwindX
    <3>3. \E i \in 0 .. 3 : p = Neighbour(UpwindX(p), i)
      <4>1. /\ p = Neighbour(<<p[1], p[2] - 1>>, 3)
            /\ p = Neighbour(<<p[1], p[2] + 1>>, 2)
        BY <1>3 DEF Neighbour
      <4>2. UpwindX(p) \in {<<p[1], p[2] - 1>>, <<p[1], p[2] + 1>>}
        BY DEF UpwindX, Upwind
      <4>3. QED
        BY <4>1, <4>2
    <3>4. QED
      BY <2>1, <2>2, <3>2, <3>3, ReachedBefore
  <2>5. QED
    BY <2>3, <2>4
<1>6. QED
  BY <1>4, <1>5

LEMMA UpdateNeighbourStep ==
  ASSUME MarchInv, UpdateNeighbour
  PROVE  MarchInv'
<1> DEFINE p == Neighbour(current, k)
<1>1. /\ status = "march" /\ k < 4 /\ k \in 0 .. 3 /\ k' = k + 1
      /\ p \in Points \ alive
      /\ UNCHANGED <<cell, alive, iter, current>>
  BY DEF UpdateNeighbour, MarchInv, TypeOK
<1>2. PICK t \in NewTimes(p) :
        IF recpt[p] = TT_INF
        THEN /\ recpt' = [recpt EXCEPT ![p] = t]
             /\ band' = BandInsert(band, p, t)
             /\ UNCHANGED status
        ELSE IF Better(t, recpt[p])
        THEN /\ recpt' = [recpt EXCEPT ![p] = t]
             /\ IF InBand(band, p) # {}
                THEN band' = BandDecreaseKey(band, p, t) /\ UNCHANGED status
                ELSE status' = "failed" /\ UNCHANGED band
        ELSE UNCHANGED <<recpt, band, status>>
  BY DEF UpdateNeighbour
<1>3. /\ recpt \in [Points -> Times \union {TT_INF}]
      /\ band \in Seq(Entries) /\ SortedBand(band) /\ Holds(band, Front, recpt)
  BY DEF MarchInv, TypeOK, BandIsTheFront, BandIsSorted
<1>4. \/ t = recpt[p] /\ recpt[p] # TT_INF
      \/ t \in Times /\ \E q \in alive : Adjacent(p, q) /\ recpt[q] <= t
  BY <1>1, NewTimeIsSound
<1> HIDE DEF p
<1>5. ASSUME t \in Times, recpt' = [recpt EXCEPT ![p] = t],
             recpt[p] # TT_INF => t <= recpt[p],
             \E q \in alive : Adjacent(p, q) /\ recpt[q] <= t,
             band' \in Seq(Entries), SortedBand(band'),
             Holds(band', Front \union {p}, recpt'),
             UNCHANGED status
      PROVE  MarchInv'
  <2>1. /\ recpt'[p] = t /\ t # TT_INF
        /\ \A q \in Points : q # p => recpt'[q] = recpt[q]
        /\ recpt' \in [Points -> Times \union {TT_INF}]
    BY <1>1, <1>3, <1>5, TimesAreNumbers
  <2>2. TypeOK'
    BY <1>1, <1>5, <2>1 DEF MarchInv, TypeOK
  <2>3. Front' = Front \union {p}
    BY <1>1, <2>1 DEF Front
  <2>4. BandIsTheFront' /\ BandIsSorted'
    BY <1>5, <2>3 DEF BandIsTheFront, BandIsSorted
  <2>5. NeighboursAreReached'
    <3> SUFFICES ASSUME NEW q \in alive, NEW i \in 0 .. 3,
                        Neighbour(q, i) \in Points, q = current => i < k + 1,
                        Neighbour(q, i) # p
        PROVE  recpt'[Neighbour(q, i)] # TT_INF
      BY <1>1, <2>1 DEF NeighboursAreReached
    <3>1. q = current => i # k
      BY DEF p
    <3>2. q = current => i < k
      BY <1>1, <3>1
    <3>3. recpt[Neighbour(q, i)] # TT_INF
      BY <3>2 DEF MarchInv, NeighboursAreReached
    <3>4. QED
      BY <2>1, <3>3
  <2>6. EachPopAccepts'
    BY <1>1, <1>5 DEF MarchInv, TypeOK, EachPopAccepts
  <2>7. ReachedFromTheSource'
    <3>1. alive \subseteq Points /\ cell \in Points /\ p \notin alive
      BY <1>1 DEF MarchInv, TypeOK
    <3>2. \A q \in alive : recpt'[q] = recpt[q]
      BY <2>1, <3>1
    <3>3. recpt'[cell] # TT_INF /\ \A q \in alive : recpt'[q] # TT_INF
      BY <2>1, <3>1, <3>2 DEF MarchInv, ReachedFromTheSource
    <3>4. ASSUME NEW x \in Points \ Seeds(cell), recpt'[x] # TT_INF
          PROVE  \E q \in alive : Adjacent(x, q) /\ recpt'[q] <= recpt'[x]
      <4>1. CASE x = p
        BY <1>5, <2>1, <3>2, <4>1
      <4>2. CASE x # p
        BY <2>1, <3>2, <3>4, <4>2 DEF MarchInv, ReachedFromTheSource
      <4>3. QED
        BY <4>1, <4>2
    <3>5. QED
      BY <1>1, <3>3, <3>4 DEF ReachedFromTheSource
  <2>8. QED
    BY <2>2, <2>4, <2>5, <2>6, <2>7 DEF MarchInv
<1>6. CASE recpt[p] = TT_INF
  <2>1. /\ recpt' = [recpt EXCEPT ![p] = t]
        /\ band' = BandInsert(band, p, t) /\ UNCHANGED status
        /\ t \in Times
        /\ \E q \in alive : Adjacent(p, q) /\ recpt[q] <= t
    BY <1>2, <1>4, <1>6
  <2>2. p \in Points /\ p \notin Front /\ Front \subseteq Points
    BY <1>1, <1>6 DEF Front
  <2>3. recpt'[p] = t /\ \A q \in Front : recpt'[q] = recpt[q]
    BY <1>3, <2>1, <2>2
  <2>4. /\ band' \in Seq(Entries) /\ SortedBand(band')
        /\ Holds(band', Front \union {p}, recpt')
    BY <1>3, <2>1, <2>2, <2>3, InsertHolds
  <2>5. QED
    BY <1>5, <1>6, <2>1, <2>4
<1>7. CASE recpt[p] # TT_INF /\ Better(t, recpt[p])
  <2>1. p \in Points /\ p \in Front /\ Front \union {p} = Front
        /\ Front \subseteq Points /\ recpt[p] \in Times
    BY <1>1, <1>3, <1>7 DEF Front
  <2>2. recpt[p] \in Nat
    BY <2>1, TimesAreNumbers, Zenon
  <2>3. t # recpt[p]
    BY <1>7, <2>2 DEF Better
  <2>4. t \in Times /\ \E q \in alive : Adjacent(p, q) /\ recpt[q] <= t
    BY <1>4, <2>3
  <2>5. t \in Nat
    BY <2>4, TimesAreNumbers, Zenon
  <2>6. t <= recpt[p]
    BY <1>7, <2>2, <2>5 DEF Better
  <2>7. recpt' = [recpt EXCEPT ![p] = t]
    BY <1>2, <1>7
  <2>8. recpt'[p] = t /\ \A q \in Front \ {p} : recpt'[q] = recpt[q]
    BY <1>3, <2>1, <2>7
  <2> DEFINE r == BandDecreaseKey(band, p, t)
  <2>9. /\ InBand(band, p) # {}
        /\ r \in Seq(Entries) /\ SortedBand(r) /\ Holds(r, Front, recpt')
    BY <1>3, <2>1, <2>4, <2>6, <2>8, DecreaseHolds
  <2> HIDE DEF r
  <2>10. band' = r /\ UNCHANGED status
    BY <1>2, <1>7, <2>9 DEF r
  <2>11. QED
    BY <1>5, <2>1, <2>4, <2>6, <2>7, <2>9, <2>10
<1>8. CASE recpt[p] # TT_INF /\ ~Better(t, recpt[p])
  <2>1. UNCHANGED <<recpt, band, status>>
    BY <1>2, <1>8
  <2>2. TypeOK'
    BY <1>1, <2>1 DEF MarchInv, TypeOK
  <2>3. BandIsTheFront' /\ BandIsSorted' /\ EachPopAccepts'
    BY <1>1, <2>1 DEF MarchInv, BandIsTheFront, Front, BandIsSorted, EachPopAccepts
  <2>4. NeighboursAreReached'
    <3> SUFFICES ASSUME NEW q \in alive, NEW i \in 0 .. 3,
                        Neighbour(q, i) \in Points, q = current => i < k + 1,
                        Neighbour(q, i) # p
        PROVE  recpt[Neighbour(q, i)] # TT_INF
      BY <1>1, <1>8, <2>1 DEF NeighboursAreReached
    <3>1. q = current => i # k
      BY DEF p
    <3>2. q = current => i < k
      BY <1>1, <3>1
    <3>3. QED
      BY <3>2 DEF MarchInv, NeighboursAreReached
  <2>5. ReachedFromTheSource'
    BY <1>1, <2>1 DEF MarchInv, ReachedFromTheSource
  <2>6. QED
    BY <2>2, <2>3, <2>4, <2>5 DEF MarchInv
<1>9. QED
  BY <1>6, <1>7, <1>8

LEMMA ReturnStep ==
  ASSUME MarchInv, Return
  PROVE  MarchInv'
<1>1. /\ status' = "done" /\ k = 4
      /\ UNCHANGED <<cell, recpt, alive, band, iter, current, k>>
      /\ band = << >> \/ iter >= MaxIter
  BY DEF Return
<1>2. band = << >>
  BY <1>1, AcceptedAreFew DEF MarchInv, TypeOK, EachPopAccepts
<1>3. TypeOK' /\ BandIsTheFront' /\ BandIsSorted' /\ NeighboursAreReached'
      /\ ReachedFromTheSource'
  BY <1>1
     DEF MarchInv, TypeOK, BandIsTheFront, Front, BandIsSorted,
         NeighboursAreReached, ReachedFromTheSource
<1>4. EachPopAccepts'
  BY <1>1, <1>2 DEF MarchInv, EachPopAccepts
<1>5. QED
  BY <1>3, <1>4 DEF MarchInv

LEMMA StutterStep ==
  ASSUME MarchInv, UNCHANGED vars
  PROVE  MarchInv'
BY DEF MarchInv, vars, TypeOK, BandIsTheFront, Front, BandIsSorted,
       NeighboursAreReached, EachPopAccepts, ReachedFromTheSource

LEMMA NextMarchInv == MarchInv /\ [Next]_vars => MarchInv'
<1> SUFFICES ASSUME MarchInv, [Next]_vars PROVE MarchInv'
  OBVIOUS
<1>1. QED
  BY PopMinStep, SkipNeighbourStep, UpdateNeighbourStep, ReturnStep, StutterStep
     DEF Next, Ended

LEMMA Invariance == Spec => []MarchInv
<1>1. QED
  BY InitMarchInv, NextMarchInv, PTL DEF Spec

(***************************************************************************)
(* The grid is connected: when no point is tentative, all are accepted.    *)
(* Otherwise take a point without a time that is nearest to an accepted    *)
(* one; its neighbour on the way there is accepted, so it has a time.      *)
(***************************************************************************)
LEMMA AllAreAccepted ==
  ASSUME MarchInv, status = "done"
  PROVE  band = << >> /\ alive = Points
<1>1. /\ k = 4 /\ band = << >> /\ cell \in Points /\ recpt[cell] # TT_INF
      /\ alive \subseteq Points
  BY DEF MarchInv, TypeOK, EachPopAccepts, ReachedFromTheSource
<1>2. \A p \in Points \ alive : recpt[p] = TT_INF
  <2>1. Front = {}
    BY <1>1 DEF MarchInv, BandIsTheFront, Holds
  <2>2. QED
    BY <2>1 DEF Front
<1>3. cell \in alive
  BY <1>1, <1>2
<1>4. \A q \in alive, i \in 0 .. 3 :
        Neighbour(q, i) \in Points => recpt[Neighbour(q, i)] # TT_INF
  BY <1>1 DEF MarchInv, NeighboursAreReached
<1>5. \A q \in alive, i \in 0 .. 3 : Neighbour(q, i) \in Points => Neighbour(q, i) \in alive
  BY <1>2, <1>4
<1> DEFINE Gap(a, c) == IF a < c THEN c - a ELSE a - c
           Far(p) == Gap(p[1], cell[1]) + Gap(p[2], cell[2])
           Gaps == {Far(p) : p \in Points \ alive}
<1>6. \A p \in Points : /\ p = <<p[1], p[2]>>
                       /\ p[1] \in 0 .. Nz - 1 /\ p[2] \in 0 .. Nx - 1
  BY DEF Points
<1>7. \A p \in Points : Far(p) \in Nat
  BY <1>1, <1>6, GridAssumption
<1>8. SUFFICES ASSUME Points \ alive # {} PROVE FALSE
  BY <1>1
<1>9. PICK p \in Points \ alive : \A q \in Points \ alive : Far(p) <= Far(q)
  <2>1. Gaps \subseteq Nat /\ Gaps # {}
    BY <1>7, <1>8
  <2>2. PICK n \in Gaps : \A m \in Gaps : n <= m
    <3> HIDE DEF Gaps
    <3>1. QED
      BY <2>1, Least
  <2>3. QED
    BY <2>2
<1>10. p \in Points /\ p \notin alive /\ p # cell
  BY <1>3
<1>11. /\ p[1] \in Int /\ p[2] \in Int /\ cell[1] \in Int /\ cell[2] \in Int
       /\ p = <<p[1], p[2]>> /\ cell = <<cell[1], cell[2]>>
  BY <1>1, <1>6, <1>10, GridAssumption
<1>12. ASSUME NEW q \in Points, Far(q) < Far(p), NEW i \in 0 .. 3,
              p = Neighbour(q, i)
       PROVE  FALSE
  <2>1. Far(q) \in Nat /\ Far(p) \in Nat
    BY <1>7, <1>10
  <2> HIDE DEF Far
  <2>2. q \in alive
    BY <1>9, <1>12, <2>1
  <2>3. QED
    BY <1>5, <1>10, <1>12, <2>2
<1>13. CASE p[1] < cell[1]
  <2> DEFINE q == <<p[1] + 1, p[2]>>
  <2>1. q \in Points
    BY <1>1, <1>6, <1>10, <1>13, GridAssumption DEF Points
  <2>2. Far(q) < Far(p)
    BY <1>11, <1>13
  <2>3. p = Neighbour(q, 0)
    BY <1>11 DEF Neighbour
  <2>4. QED
    BY <1>12, <2>1, <2>2, <2>3
<1>14. CASE p[1] > cell[1]
  <2> DEFINE q == <<p[1] - 1, p[2]>>
  <2>1. q \in Points
    BY <1>1, <1>6, <1>10, <1>14, GridAssumption DEF Points
  <2>2. Far(q) < Far(p)
    BY <1>11, <1>14
  <2>3. p = Neighbour(q, 1)
    BY <1>11 DEF Neighbour
  <2>4. QED
    BY <1>12, <2>1, <2>2, <2>3
<1>15. CASE p[1] = cell[1] /\ p[2] < cell[2]
  <2> DEFINE q == <<p[1], p[2] + 1>>
  <2>1. q \in Points
    BY <1>1, <1>6, <1>10, <1>15, GridAssumption DEF Points
  <2>2. Far(q) < Far(p)
    BY <1>11, <1>15
  <2>3. p = Neighbour(q, 2)
    BY <1>11 DEF Neighbour
  <2>4. QED
    BY <1>12, <2>1, <2>2, <2>3
<1>16. CASE p[1] = cell[1] /\ p[2] > cell[2]
  <2> DEFINE q == <<p[1], p[2] - 1>>
  <2>1. q \in Points
    BY <1>1, <1>6, <1>10, <1>16, GridAssumption DEF Points
  <2>2. Far(q) < Far(p)
    BY <1>11, <1>16
  <2>3. p = Neighbour(q, 3)
    BY <1>11 DEF Neighbour
  <2>4. QED
    BY <1>12, <2>1, <2>2, <2>3
<1>17. p[1] # cell[1] \/ p[2] # cell[2]
  BY <1>10, <1>11
<1>18. QED
  BY <1>11, <1>13, <1>14, <1>15, <1>16, <1>17

-----------------------------------------------------------------------------
(***************************************************************************)
(* Every variable keeps its type.                                          *)
(***************************************************************************)
THEOREM TypeCorrect == Spec => []TypeOK
<1>1. MarchInv => TypeOK
  BY DEF MarchInv
<1>2. QED
  BY <1>1, Invariance, PTL

(***************************************************************************)
(* The band holds the tentative points, each once and with its time: no    *)
(* lookup in it fails and no entry is out of date.                         *)
(***************************************************************************)
THEOREM BandIsSound == Spec => []BandIsTheFront
<1>1. MarchInv => BandIsTheFront
  BY DEF MarchInv
<1>2. QED
  BY <1>1, Invariance, PTL

(***************************************************************************)
(* The band is in the order of the times, so that its first is a least.    *)
(***************************************************************************)
THEOREM BandIsInOrder == Spec => []BandIsSorted
<1>1. MarchInv => BandIsSorted
  BY DEF MarchInv
<1>2. QED
  BY <1>1, Invariance, PTL

(***************************************************************************)
(* Times spread from the source.                                           *)
(***************************************************************************)
THEOREM TimesSpread == Spec => []TimesSpreadFromTheSource
<1>1. MarchInv => TimesSpreadFromTheSource
  BY DEF MarchInv, TypeOK, ReachedFromTheSource, TimesSpreadFromTheSource
<1>2. QED
  BY <1>1, Invariance, PTL

(***************************************************************************)
(* The solver does not fail, and it gives every point of the grid a time,  *)
(* within its bound on the iterations.                                     *)
(***************************************************************************)
THEOREM EveryPoint == Spec => []EveryPointIsReached
<1>1. MarchInv => EveryPointIsReached
  BY AllAreAccepted DEF MarchInv, EachPopAccepts, EveryPointIsReached
<1>2. QED
  BY <1>1, Invariance, PTL

(***************************************************************************)
(* No step raises a time, and none changes that of an accepted point.      *)
(***************************************************************************)
THEOREM OnlyImproves == Spec => TimesOnlyImprove
<1>1. MarchInv /\ [Next]_vars
        => [/\ \A p \in Points : recpt'[p] <= recpt[p]
            /\ \A p \in alive : p \in alive' /\ recpt'[p] = recpt[p]]_vars
  <2> SUFFICES ASSUME MarchInv, Next
      PROVE  /\ \A p \in Points : recpt'[p] <= recpt[p]
             /\ \A p \in alive : p \in alive' /\ recpt'[p] = recpt[p]
    BY DEF vars
  <2>1. \A p \in Points : recpt[p] \in Nat
    BY TimesAreNumbers DEF MarchInv, TypeOK
  <2>2. CASE UNCHANGED recpt
    <3>1. alive \subseteq alive'
      BY DEF Next, PopMin, SkipNeighbour, UpdateNeighbour, Return, Ended, vars
    <3>2. QED
      BY <2>1, <2>2, <3>1
  <2>3. CASE UpdateNeighbour
    <3> DEFINE n == Neighbour(current, k)
    <3>1. PICK t \in NewTimes(n) :
            \/ UNCHANGED recpt
            \/ /\ recpt' = [recpt EXCEPT ![n] = t]
               /\ recpt[n] = TT_INF \/ t < recpt[n]
      BY <2>3 DEF UpdateNeighbour, Better
    <3>2. n \in Points \ alive /\ alive' = alive /\ alive \subseteq Points
      BY <2>3 DEF UpdateNeighbour, MarchInv, TypeOK
    <3>3. t \in Times \/ t = recpt[n]
      BY DEF NewTimes
    <3> HIDE DEF n
    <3>4. recpt[n] = TT_INF => t <= recpt[n]
      BY <3>2, <3>3, <2>1, GridAssumption DEF Times, TT_INF
    <3>5. t \in Nat
      BY <3>2, <3>3, <2>1, TimesAreNumbers
    <3>6. \A p \in Points : p # n => recpt'[p] = recpt[p]
      BY <3>1 DEF MarchInv, TypeOK
    <3>7. recpt'[n] <= recpt[n]
      BY <2>1, <3>1, <3>2, <3>4, <3>5 DEF MarchInv, TypeOK
    <3>8. QED
      BY <2>1, <3>2, <3>6, <3>7
  <2>4. QED
    BY <2>2, <2>3 DEF Next, PopMin, SkipNeighbour, Return, Ended, vars
<1>2. QED
  BY <1>1, Invariance, PTL DEF Spec, TimesOnlyImprove
=============================================================================
