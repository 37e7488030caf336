------------------------ MODULE ShortSeries_proofs ------------------------
(***************************************************************************)
(* What the operators of ShortSeries compute, for every file.  Induction   *)
(* over the rows of a file: a property that fails fails for a least number *)
(* of rows, and for that one the number before it holds.                   *)
(***************************************************************************)
EXTENDS ShortSeries, TLAPS, FiniteSetTheorems, NaturalsInduction, WellFoundedInduction

\* A set of natural numbers has a least one, unless it is empty.
LEMMA LeastNumber ==
  ASSUME NEW T \in SUBSET Nat, T # {} PROVE \E n \in T : \A m \in T : n <= m
<1> DEFINE R == OpToRel(<, Nat)
<1>1. IsWellFoundedOn(R, Nat)
  BY NatLessThanWellFounded
<1>2. PICK n \in T : \A m \in T : ~(<<m, n>> \in R)
  BY <1>1, WFMin
<1>3. \A m \in T : ~(m < n)
  BY <1>2 DEF OpToRel
<1> QED
  BY <1>3
-----------------------------------------------------------------------------
(* The order of rows                                                       *)

\* Of some rows with dates one comes before all others.
LEMMA FirstRow ==
  ASSUME NEW S \in SUBSET Nat, S # {}, NEW date, \A n \in S : date[n] \in Nat
  PROVE  \E n \in S : \A m \in S : m # n => Before(date, n, m)
<1>1. PICK d \in {date[n] : n \in S} : \A e \in {date[n] : n \in S} : d <= e
  <2>1. {date[n] : n \in S} \in SUBSET Nat /\ {date[n] : n \in S} # {}
    OBVIOUS
  <2> QED
    BY <2>1, LeastNumber
<1>2. PICK n \in {m \in S : date[m] = d} : \A m \in {k \in S : date[k] = d} : n <= m
  <2>1. {m \in S : date[m] = d} \in SUBSET Nat /\ {m \in S : date[m] = d} # {}
    OBVIOUS
  <2> QED
    BY <2>1, LeastNumber
<1>3. ASSUME NEW m \in S, m # n PROVE Before(date, n, m)
  <2>1. d <= date[m] /\ date[n] = d /\ date[m] \in Nat /\ d \in Nat
    BY <1>1
  <2>2. CASE date[m] = d
    BY <1>2, <1>3, <2>1, <2>2 DEF Before
  <2>3. CASE date[m] # d
    BY <2>1, <2>3 DEF Before
  <2> QED
    BY <2>2, <2>3
<1> QED
  BY <1>3

\* Finitely many rows can be put in order.
LEMMA RowsCanBeOrdered ==
  ASSUME NEW S \in SUBSET Nat, IsFiniteSet(S), NEW date, \A n \in S : date[n] \in Nat
  PROVE  \E s \in [1 .. Cardinality(S) -> S] :
           \A i, j \in 1 .. Cardinality(S) : i < j => Before(date, s[i], s[j])
<1> DEFINE Ordered(T, c) == \E s \in [1 .. c -> T] :
                              \A i, j \in 1 .. c : i < j => Before(date, s[i], s[j])
           P(c) == \A T \in SUBSET S : Cardinality(T) = c => Ordered(T, c)
           Bad == {c \in Nat : ~P(c)}
<1>1. P(0)
  <2> SUFFICES ASSUME NEW T \in SUBSET S PROVE Ordered(T, 0)
    OBVIOUS
  <2>1. 1 .. 0 = {}
    OBVIOUS
  <2>2. <<>> \in [1 .. 0 -> T]
    OBVIOUS
  <2> QED
    BY <2>1, <2>2
<1>2. ASSUME NEW c \in Nat, P(c) PROVE P(c + 1)
  <2> SUFFICES ASSUME NEW T \in SUBSET S, Cardinality(T) = c + 1 PROVE Ordered(T, c + 1)
    OBVIOUS
  <2>1. IsFiniteSet(T)
    BY FS_Subset
  <2>2. T # {}
    BY FS_EmptySet
  <2>3. PICK n \in T : \A m \in T : m # n => Before(date, n, m)
    BY <2>2, FirstRow
  <2>4. Cardinality(T \ {n}) = c
    <3>1. Cardinality(T \ {n}) = IF n \in T THEN Cardinality(T) - 1 ELSE Cardinality(T)
      BY <2>1, FS_RemoveElement
    <3>2. Cardinality(T \ {n}) = Cardinality(T) - 1
      BY <2>3, <3>1
    <3> QED
      BY <3>2
  <2>5. PICK s \in [1 .. c -> T \ {n}] :
          \A i, j \in 1 .. c : i < j => Before(date, s[i], s[j])
    BY <1>2, <2>4
  <2> DEFINE g == [k \in 1 .. c + 1 |-> IF k = 1 THEN n ELSE s[k - 1]]
  <2>6. g \in [1 .. c + 1 -> T]
    <3> SUFFICES ASSUME NEW k \in 1 .. c + 1, k # 1 PROVE s[k - 1] \in T
      OBVIOUS
    <3>1. k - 1 \in 1 .. c
      OBVIOUS
    <3> QED
      BY <3>1
  <2>7. ASSUME NEW i \in 1 .. c + 1, NEW j \in 1 .. c + 1, i < j
        PROVE  Before(date, g[i], g[j])
    <3>1. j - 1 \in 1 .. c /\ j # 1 /\ g[j] = s[j - 1] /\ s[j - 1] \in T \ {n}
      BY <2>7
    <3>2. CASE i = 1
      BY <2>3, <3>1, <3>2
    <3>3. CASE i # 1
      <4>1. i - 1 \in 1 .. c /\ i - 1 < j - 1 /\ g[i] = s[i - 1]
        BY <2>7, <3>3
      <4> QED
        BY <2>5, <3>1, <4>1
    <3> QED
      BY <3>2, <3>3
  <2> HIDE DEF g
  <2> QED
    BY <2>6, <2>7
<1> HIDE DEF P
<1>3. Bad = {}
  <2> SUFFICES ASSUME Bad # {} PROVE FALSE
    OBVIOUS
  <2>1. PICK c \in Bad : \A b \in Bad : c <= b
    BY LeastNumber
  <2>2. c - 1 \in Nat /\ c - 1 \notin Bad
    BY <1>1, <2>1
  <2>3. P((c - 1) + 1) /\ (c - 1) + 1 = c
    BY <1>2, <2>1, <2>2
  <2> QED
    BY <2>3
<1>4. P(Cardinality(S))
  BY <1>3, FS_CardinalityType
<1> QED
  BY <1>4 DEF P

\* The rows that InOrder puts in order are all rows, each at one place.
Dated(date) ==
  /\ DOMAIN date \in SUBSET Nat /\ IsFiniteSet(DOMAIN date)
  /\ \A n \in DOMAIN date : date[n] \in Nat

\* The order that is chosen is one of all rows.
LEMMA InOrderOrders ==
  ASSUME NEW date, Dated(date)
  PROVE  LET S == DOMAIN date IN
         /\ Cardinality(S) \in Nat
         /\ InOrder(date) \in [1 .. Cardinality(S) -> S]
         /\ \A i, j \in 1 .. Cardinality(S) :
              i < j => Before(date, InOrder(date)[i], InOrder(date)[j])
         /\ \A n \in S : \E i \in 1 .. Cardinality(S) : InOrder(date)[i] = n
<1> DEFINE S == DOMAIN date
           c == Cardinality(S)
           s == InOrder(date)
<1>1. /\ S \in SUBSET Nat /\ IsFiniteSet(S) /\ \A n \in S : date[n] \in Nat
      /\ c \in Nat
  BY FS_CardinalityType DEF Dated
<1>2. \E t \in [1 .. c -> S] : \A i, j \in DOMAIN t : i < j => Before(date, t[i], t[j])
  <2> HIDE DEF S
  <2>1. \E t \in [1 .. c -> S] : \A i, j \in 1 .. c : i < j => Before(date, t[i], t[j])
    BY <1>1, RowsCanBeOrdered
  <2> QED
    BY <2>1
<1>3. s \in [1 .. c -> S] /\ \A i, j \in DOMAIN s : i < j => Before(date, s[i], s[j])
  BY <1>2 DEF InOrder
<1> HIDE DEF s, c, S
<1>4. \A i, j \in 1 .. c : i < j => Before(date, s[i], s[j])
  BY <1>3
<1>5. \A n \in S : ~Before(date, n, n)
  BY <1>1 DEF Before
<1>6. ASSUME NEW i \in 1 .. c, NEW j \in 1 .. c, s[i] = s[j] PROVE i = j
  <2>1. s[i] \in S /\ s[j] \in S
    BY <1>3
  <2>2. ~(i < j) /\ ~(j < i)
    BY <1>4, <1>5, <1>6, <2>1
  <2> QED
    BY <1>1, <2>2
<1>7. s \in Injection(1 .. c, S)
  BY <1>3, <1>6 DEF Injection, IsInjective
<1>8. Cardinality(1 .. c) = c
  <2>1. Cardinality(1 .. c) = IF 1 > c THEN 0 ELSE c - 1 + 1
    BY <1>1, FS_Interval
  <2> QED
    BY <1>1, <2>1
<1>9. s \in Surjection(1 .. c, S)
  BY <1>1, <1>7, <1>8, FS_Injection DEF c
<1>10. \A n \in S : \E i \in 1 .. c : s[i] = n
  BY <1>9 DEF Surjection
<1> QED
  BY <1>1, <1>3, <1>4, <1>10 DEF s, c, S

\* The last of them comes after all others.
LEMMA LastInOrder ==
  ASSUME NEW date, Dated(date), DOMAIN date # {}
  PROVE  /\ Last(InOrder(date)) \in DOMAIN date
         /\ \A n \in DOMAIN date :
              n # Last(InOrder(date)) => Before(date, n, Last(InOrder(date)))
<1> DEFINE S == DOMAIN date
           c == Cardinality(S)
           s == InOrder(date)
<1>1. /\ c \in Nat /\ s \in [1 .. c -> S]
      /\ \A i, j \in 1 .. c : i < j => Before(date, s[i], s[j])
      /\ \A n \in S : \E i \in 1 .. c : s[i] = n
  BY InOrderOrders
<1>2. c # 0
  BY FS_EmptySet DEF Dated
<1> HIDE DEF s, c, S
<1>3. s \in Seq(S) /\ Len(s) = c
  BY <1>1
<1>4. Last(s) = s[c] /\ c \in 1 .. c
  BY <1>1, <1>2, <1>3 DEF Last
<1>5. ASSUME NEW n \in S, n # s[c] PROVE Before(date, n, s[c])
  <2>1. PICK i \in 1 .. c : s[i] = n
    BY <1>1
  <2>2. i < c
    BY <1>1, <1>5, <2>1
  <2> QED
    BY <1>1, <1>4, <2>1, <2>2
<1> QED
  BY <1>1, <1>4, <1>5 DEF s, S
-----------------------------------------------------------------------------
(* The chart of the ANSP states                                            *)

\* What a set of files has to have for its states to be charted.
StatesOK(set) ==
  /\ None \notin Nat
  /\ Len(set.historic) \in Nat /\ DOMAIN set.historic = 1 .. Len(set.historic)
  /\ Len(set.current) \in Nat /\ DOMAIN set.current = 1 .. Len(set.current)
  /\ \A n \in DOMAIN set.historic : set.historic[n].became \in Nat
  /\ \A n \in DOMAIN set.current : set.current[n] # None /\ set.current[n].pos \in Nat

HistoricOf(set, isin) == {m \in DOMAIN set.historic : set.historic[m].isin = isin}

\* The historic states of an ISIN in the order in which they end.
LEMMA HistoricRowsInOrder ==
  ASSUME NEW set, StatesOK(set), NEW isin
  PROVE  \E c \in Nat :
           LET order == HistoricRows(set.historic, isin)
               rows == HistoricOf(set, isin) IN
           /\ order \in [1 .. c -> rows] /\ order \in Seq(rows) /\ Len(order) = c
           /\ (order = <<>> <=> c = 0)
           /\ \A i, j \in 1 .. c : i < j =>
                \/ set.historic[order[i]].became < set.historic[order[j]].became
                \/ /\ set.historic[order[i]].became = set.historic[order[j]].became
                   /\ order[i] < order[j]
           /\ \A n \in rows : \E i \in 1 .. c : order[i] = n
<1> DEFINE rows == HistoricOf(set, isin)
           date == [n \in rows |-> set.historic[n].became]
           order == HistoricRows(set.historic, isin)
           c == Cardinality(rows)
<1>1. order = InOrder(date)
  BY DEF HistoricRows, HistoricOf, Became
<1>2. rows \in SUBSET (1 .. Len(set.historic))
      /\ \A n \in rows : set.historic[n].became \in Nat
  BY DEF HistoricOf, StatesOK
<1>3. Dated(date) /\ DOMAIN date = rows
  <2>1. IsFiniteSet(1 .. Len(set.historic))
    BY FS_Interval DEF StatesOK
  <2>2. IsFiniteSet(rows)
    BY <1>2, <2>1, FS_Subset
  <2> QED
    BY <1>2, <2>2 DEF Dated
<1> HIDE DEF rows, order
<1>4. /\ c \in Nat /\ InOrder(date) \in [1 .. c -> rows]
      /\ \A i, j \in 1 .. c : i < j => Before(date, InOrder(date)[i], InOrder(date)[j])
      /\ \A n \in rows : \E i \in 1 .. c : InOrder(date)[i] = n
  BY <1>3, InOrderOrders
<1>5. \A m, n \in rows : Before(date, m, n) =>
        \/ set.historic[m].became < set.historic[n].became
        \/ set.historic[m].became = set.historic[n].became /\ m < n
  BY DEF Before
<1> HIDE DEF date, c
<1>6. \A i, j \in 1 .. c : i < j =>
        \/ set.historic[order[i]].became < set.historic[order[j]].became
        \/ /\ set.historic[order[i]].became = set.historic[order[j]].became
           /\ order[i] < order[j]
  BY <1>1, <1>4, <1>5
<1>7. order \in Seq(rows) /\ Len(order) = c
  BY <1>1, <1>4
<1>8. order = <<>> <=> c = 0
  BY <1>7
<1> QED
  BY <1>1, <1>4, <1>6, <1>7, <1>8 DEF rows, order

\* The current row that the export takes for an ISIN.
CurrentOf(set, isin) == LatestCurrent(set.current, CurrentRows(set.current, isin))

\* c historic states of an ISIN in the order in which they end, the first from
\* start, and the points made of them.
StateAt(set, isin, k) == set.historic[HistoricRows(set.historic, isin)[k]]
StartOf(set, isin, start, k) == IF k = 1 THEN start ELSE StateAt(set, isin, k - 1).became
StatesInOrder(set, isin, c, start) ==
  LET order == HistoricRows(set.historic, isin)
      current == CurrentOf(set, isin)
  IN
  /\ \A k \in 1 .. c : order[k] \in HistoricOf(set, isin) /\ StateAt(set, isin, k).became \in Nat
  /\ \A i, j \in 1 .. c : i < j =>
       \/ StateAt(set, isin, i).became < StateAt(set, isin, j).became
       \/ StateAt(set, isin, i).became = StateAt(set, isin, j).became /\ order[i] < order[j]
  /\ \A n \in HistoricOf(set, isin) : \E i \in 1 .. c : order[i] = n
  /\ AnspSeries(set, isin) =
       {[from |-> StartOf(set, isin, start, k), until |-> StateAt(set, isin, k).became,
         bp |-> StateAt(set, isin, k).bp, isin |-> StateAt(set, isin, k).isin] : k \in 1 .. c}
       \union
       (IF current = None THEN {}
        ELSE {[from |-> StartOf(set, isin, start, c + 1), until |-> None,
               bp |-> current.bp, isin |-> current.isin]})

\* The points of an ISIN: one per historic state, from the end of the state
\* before, and one for the current state.
LEMMA PointsOfStates ==
  ASSUME NEW set, StatesOK(set), NEW isin
  PROVE  \E c \in Nat : \E start : StatesInOrder(set, isin, c, start)
<1> DEFINE order == HistoricRows(set.historic, isin)
           rows == HistoricOf(set, isin)
           current == CurrentOf(set, isin)
           State(k) == set.historic[order[k]]
           added == Added(set.rsl, isin)
           start == Later(ScopeStart(added),
                          IF order # <<>> THEN set.historic[order[1]].pos ELSE current.pos)
           Start(k) == IF k = 1 THEN start ELSE State(k - 1).became
<1>1. PICK c \in Nat :
        /\ order \in [1 .. c -> rows] /\ order \in Seq(rows) /\ Len(order) = c
        /\ (order = <<>> <=> c = 0)
        /\ \A i, j \in 1 .. c : i < j =>
             \/ set.historic[order[i]].became < set.historic[order[j]].became
             \/ /\ set.historic[order[i]].became = set.historic[order[j]].became
                /\ order[i] < order[j]
        /\ \A n \in rows : \E i \in 1 .. c : order[i] = n
  BY HistoricRowsInOrder
<1>2. \A n \in rows : set.historic[n].became \in Nat
  BY DEF HistoricOf, StatesOK
<1>3. DOMAIN order = 1 .. c
  BY <1>1
<1>4. Schedule(set.historic, order, current, added) =
        {[from |-> Start(k), until |-> State(k).became,
          bp |-> State(k).bp, isin |-> State(k).isin] : k \in 1 .. c}
        \union
        (IF current = None THEN {}
         ELSE {[from |-> Start(c + 1), until |-> None,
                bp |-> current.bp, isin |-> current.isin]})
  <2> HIDE DEF order, current, added
  <2> QED
    BY <1>1, <1>3 DEF Schedule
<1>5. AnspSeries(set, isin) =
        IF order = <<>> /\ current = None THEN {}
        ELSE Schedule(set.historic, order, current, added)
  BY DEF AnspSeries, CurrentOf
<1>6. AnspSeries(set, isin) = Schedule(set.historic, order, current, added)
  <2>1. order = <<>> /\ current = None => Schedule(set.historic, order, current, added) = {}
    <3> HIDE DEF order, current, added
    <3> QED
      BY <1>1, <1>4
  <2> HIDE DEF order, current, added
  <2> QED
    BY <1>5, <2>1
<1>7. \A k \in 1 .. c : order[k] \in rows
  BY <1>1
<1> HIDE DEF order, current, added, rows, start
<1>8. \A k \in 1 .. c : order[k] \in rows /\ State(k).became \in Nat
  BY <1>2, <1>7
<1>9. StatesInOrder(set, isin, c, start)
  <2>1. /\ \A k : StateAt(set, isin, k) = State(k)
        /\ \A k : StartOf(set, isin, start, k) = Start(k)
    BY DEF StateAt, StartOf, order
  <2>2. \A i, j \in 1 .. c : i < j =>
          \/ State(i).became < State(j).became
          \/ State(i).became = State(j).became /\ order[i] < order[j]
    BY <1>1
  <2>3. \A k \in 1 .. c : order[k] \in rows /\ StateAt(set, isin, k).became \in Nat
    BY <1>8, <2>1
  <2>4. \A i, j \in 1 .. c : i < j =>
          \/ StateAt(set, isin, i).became < StateAt(set, isin, j).became
          \/ StateAt(set, isin, i).became = StateAt(set, isin, j).became /\ order[i] < order[j]
    BY <2>1, <2>2
  <2> DEFINE now == IF current = None THEN {}
                    ELSE {[from |-> StartOf(set, isin, start, c + 1), until |-> None,
                           bp |-> current.bp, isin |-> current.isin]}
  <2>5. AnspSeries(set, isin) =
          {[from |-> StartOf(set, isin, start, k), until |-> StateAt(set, isin, k).became,
            bp |-> StateAt(set, isin, k).bp, isin |-> StateAt(set, isin, k).isin] : k \in 1 .. c}
          \union now
    <3> HIDE DEF State, Start, order, current, added
    <3> QED
      BY <1>4, <1>6, <2>1
  <2>6. \A n \in rows : \E i \in 1 .. c : order[i] = n
    BY <1>1
  <2> HIDE DEF State, Start
  <2> QED
    BY <2>3, <2>4, <2>5, <2>6 DEF StatesInOrder, order, current, rows
<1> QED
  BY <1>9

\* From the first point of an ISIN on the chart shows the state in force.
LEMMA ChartShowsStateInForce ==
  ASSUME NEW set, StatesOK(set), NEW isin, NEW t \in Nat,
         \E p \in AnspSeries(set, isin) : p.from <= t
  PROVE  Charted(AnspSeries(set, isin), t) = InForce(set, isin, t)
<1> DEFINE order == HistoricRows(set.historic, isin)
           rows == HistoricOf(set, isin)
           current == CurrentOf(set, isin)
           State(k) == set.historic[order[k]]
           points == AnspSeries(set, isin)
<1>0. PICK c \in Nat : \E start : StatesInOrder(set, isin, c, start)
  BY PointsOfStates
<1>00. PICK start : StatesInOrder(set, isin, c, start)
  BY <1>0
<1> DEFINE Start(k) == IF k = 1 THEN start ELSE State(k - 1).became
           point(k) == [from |-> Start(k), until |-> State(k).became,
                        bp |-> State(k).bp, isin |-> State(k).isin]
           last == [from |-> Start(c + 1), until |-> None,
                    bp |-> current.bp, isin |-> current.isin]
           Shows(p) == p.from <= t /\ (p.until # None => t < p.until)
<1>1. /\ \A k \in 1 .. c : order[k] \in rows /\ State(k).became \in Nat
      /\ \A i, j \in 1 .. c : i < j =>
           \/ State(i).became < State(j).became
           \/ State(i).became = State(j).became /\ order[i] < order[j]
      /\ \A n \in rows : \E i \in 1 .. c : order[i] = n
      /\ points = {point(k) : k \in 1 .. c} \union (IF current = None THEN {} ELSE {last})
  BY <1>00 DEF StatesInOrder, StateAt, StartOf
<1>2. /\ \A p \in points : \/ \E k \in 1 .. c : p = point(k)
                           \/ current # None /\ p = last
      /\ \A k \in 1 .. c : point(k) \in points
      /\ current # None => last \in points
  BY <1>1
<1>3. \A k \in 1 .. c : Shows(point(k)) <=> Start(k) <= t /\ t < State(k).became
  BY <1>1 DEF StatesOK
<1>4. Shows(last) <=> Start(c + 1) <= t
  OBVIOUS
<1>5. Charted(points, t) = {p.bp : p \in {q \in points : Shows(q)}}
  BY DEF Charted
<1>6. InForce(set, isin, t) =
        LET later == {n \in rows : set.historic[n].became > t}
        IN  IF later # {}
              THEN {set.historic[CHOOSE n \in later : \A m \in later :
                      \/ set.historic[n].became < set.historic[m].became
                      \/ set.historic[n].became = set.historic[m].became /\ n <= m].bp}
              ELSE IF current # None THEN {current.bp} ELSE {}
  <2>1. {n \in rows : set.historic[n].became > t} =
          {n \in DOMAIN set.historic : set.historic[n].isin = isin /\ set.historic[n].became > t}
    BY DEF HistoricOf
  <2> HIDE DEF rows
  <2> QED
    BY <2>1 DEF InForce, CurrentOf
<1>7. rows \subseteq Nat /\ \A n \in rows : set.historic[n].became \in Nat
  BY DEF HistoricOf, StatesOK
<1>8. PICK q \in points : q.from <= t
  OBVIOUS
<1> DEFINE later == {n \in rows : set.historic[n].became > t}
<1> HIDE DEF order, rows, current, points
<1>9. \A i, j \in 1 .. c : i <= j => State(i).became <= State(j).became
  BY <1>1
<1> DEFINE shown == {p \in points : Shows(p)}
<1>9a. Charted(points, t) = {p.bp : p \in shown}
  BY <1>5
<1>10. CASE \E k \in 1 .. c : State(k).became > t
  <2>1. PICK k \in {j \in 1 .. c : State(j).became > t} :
          \A j \in {i \in 1 .. c : State(i).became > t} : k <= j
    <3> DEFINE T == {j \in 1 .. c : State(j).became > t}
    <3>1. T \in SUBSET Nat /\ T # {}
      BY <1>10
    <3> HIDE DEF T
    <3>2. \E n \in T : \A m \in T : n <= m
      BY <3>1, LeastNumber
    <3> QED
      BY <3>2 DEF T
  <2>2. k \in 1 .. c /\ State(k).became > t
    BY <2>1
  <2>3. \A j \in 1 .. c : j < k => State(j).became <= t
    BY <1>1, <2>1, <2>2
  <2>4. InForce(set, isin, t) = {State(k).bp}
    <3>1. order[k] \in later
      BY <1>1, <2>2
    <3>2. \A m \in later :
            \/ set.historic[order[k]].became < set.historic[m].became
            \/ set.historic[order[k]].became = set.historic[m].became /\ order[k] <= m
      <4> SUFFICES ASSUME NEW m \in later
                   PROVE \/ set.historic[order[k]].became < set.historic[m].became
                         \/ set.historic[order[k]].became = set.historic[m].became /\ order[k] <= m
        OBVIOUS
      <4>1. PICK j \in 1 .. c : order[j] = m
        BY <1>1
      <4>2. k <= j
        BY <2>1, <4>1
      <4>3. order[k] \in Nat
        BY <1>7, <3>1
      <4>4. CASE j = k
        BY <4>1, <4>3, <4>4
      <4>5. CASE j # k
        <5>1. k < j
          BY <2>2, <4>2, <4>5
        <5>2. \/ State(k).became < State(j).became
              \/ State(k).became = State(j).became /\ order[k] < order[j]
          BY <1>1, <2>2, <5>1
        <5>3. order[j] \in Nat
          BY <1>1, <1>7
        <5> QED
          BY <4>1, <4>3, <5>2, <5>3
      <4> QED
        BY <4>4, <4>5
    <3>3. \A m, n \in later :
            /\ \/ set.historic[n].became < set.historic[m].became
               \/ set.historic[n].became = set.historic[m].became /\ n <= m
            /\ \/ set.historic[m].became < set.historic[n].became
               \/ set.historic[m].became = set.historic[n].became /\ m <= n
            => m = n
      <4>1. \A m \in later : m \in Nat /\ set.historic[m].became \in Nat
        BY <1>7
      <4> HIDE DEF later
      <4> QED
        BY <4>1
    <3>4. order[k] = CHOOSE n \in later : \A m \in later :
            \/ set.historic[n].became < set.historic[m].became
            \/ set.historic[n].became = set.historic[m].became /\ n <= m
      <4> HIDE DEF later
      <4> QED
        BY <3>1, <3>2, <3>3
    <3>5. later # {}
      BY <3>1
    <3> HIDE DEF later
    <3> QED
      BY <1>6, <3>4, <3>5 DEF later
  <2>5. Start(k) <= t
    <3>1. CASE k = 1
      <4>1. \A j \in 2 .. c : ~(Start(j) <= t)
        BY <1>1, <1>9, <2>2, <3>1
      <4>2. ~(Start(c + 1) <= t)
        BY <1>1, <1>9, <2>2, <3>1
      <4>3. last.from = Start(c + 1) /\ \A j \in 1 .. c : point(j).from = Start(j)
        OBVIOUS
      <4> HIDE DEF point, last, Start
      <4>4. \E j \in 1 .. c : q = point(j)
        BY <1>2, <1>8, <4>2, <4>3
      <4>5. PICK j \in 1 .. c : Start(j) <= t
        BY <1>8, <4>3, <4>4
      <4>6. j = 1
        BY <4>1, <4>5
      <4> QED
        BY <3>1, <4>5, <4>6
    <3>2. CASE k # 1
      <4>1. k - 1 \in 1 .. c /\ k - 1 < k
        BY <2>2, <3>2
      <4> QED
        BY <2>3, <3>2, <4>1
    <3> QED
      BY <3>1, <3>2
  <2>6. Shows(point(k))
    BY <1>3, <2>2, <2>5
  <2>7. \A j \in 1 .. c : Shows(point(j)) => j = k
    <3> SUFFICES ASSUME NEW j \in 1 .. c, Start(j) <= t, t < State(j).became PROVE j = k
      BY <1>3
    <3>1. ~(j < k)
      BY <1>1, <2>3
    <3>2. ASSUME j > k PROVE FALSE
      <4>1. j # 1 /\ j - 1 \in 1 .. c /\ k <= j - 1
        BY <2>2, <3>2
      <4>2. State(k).became <= State(j - 1).became /\ State(j - 1).became <= t
        BY <1>9, <2>2, <4>1
      <4> QED
        BY <1>1, <2>2, <4>1, <4>2
    <3> QED
      BY <2>2, <3>1, <3>2
  <2>8. ~Shows(last)
    <3>1. c # 0 /\ c \in 1 .. c /\ k <= c /\ c + 1 # 1 /\ c + 1 - 1 = c
      BY <2>2
    <3>2. State(k).became <= State(c).became /\ State(c).became \in Nat /\ State(k).became \in Nat
      BY <1>1, <1>9, <2>2, <3>1
    <3>3. Start(c + 1) = State(c).became
      BY <3>1
    <3> QED
      BY <1>4, <2>2, <3>2, <3>3
  <2>9. point(k).bp = State(k).bp
    OBVIOUS
  <2> HIDE DEF point, last, Shows, Start, State
  <2>10. shown = {point(k)}
    BY <1>2, <2>2, <2>6, <2>7, <2>8
  <2> HIDE DEF shown
  <2>11. Charted(points, t) = {State(k).bp}
    BY <1>9a, <2>9, <2>10
  <2> QED
    BY <2>4, <2>11 DEF points
<1>11. CASE ~ \E k \in 1 .. c : State(k).became > t
  <2>1. later = {}
    BY <1>1, <1>11
  <2>2. InForce(set, isin, t) = IF current # None THEN {current.bp} ELSE {}
    <3> HIDE DEF later
    <3> QED
      BY <1>6, <2>1 DEF later
  <2>3. \A k \in 1 .. c : ~Shows(point(k))
    BY <1>1, <1>3, <1>11
  <2>4. Start(c + 1) <= t
    <3>1. CASE c = 0
      <4>1. q = last
        BY <1>2, <1>8, <3>1
      <4> QED
        BY <1>8, <4>1
    <3>2. CASE c # 0
      <4>1. c \in 1 .. c /\ c + 1 # 1 /\ c + 1 - 1 = c
        BY <3>2
      <4>2. State(c).became <= t /\ Start(c + 1) = State(c).became
        BY <1>1, <1>11, <4>1
      <4> QED
        BY <4>2
    <3> QED
      BY <3>1, <3>2
  <2>5. Shows(last) /\ last.bp = current.bp
    BY <1>4, <2>4
  <2> HIDE DEF point, last, Shows, Start, State
  <2>6. shown = IF current # None THEN {last} ELSE {}
    BY <1>2, <2>3, <2>5
  <2> HIDE DEF shown
  <2>7. Charted(points, t) = IF current # None THEN {current.bp} ELSE {}
    BY <1>9a, <2>5, <2>6
  <2> QED
    BY <2>2, <2>7 DEF points
<1> QED
  BY <1>10, <1>11
\* The latest current row of some rows.
LatestIn(set, rows, n) ==
  /\ n \in rows
  /\ \A m \in rows : m # n =>
       \/ set.current[m].pos < set.current[n].pos
       \/ set.current[m].pos = set.current[n].pos /\ m < n

\* The row that the queries take exists and comes after all others.
LEMMA LatestCurrentIsLast ==
  ASSUME NEW set, StatesOK(set), NEW rows \in SUBSET DOMAIN set.current, rows # {}
  PROVE  \E n \in rows : LatestIn(set, rows, n) /\ LatestCurrent(set.current, rows) = set.current[n]
<1> DEFINE date == [n \in rows |-> set.current[n].pos]
           n == Last(InOrder(date))
<1>1. rows \in SUBSET (1 .. Len(set.current)) /\ \A k \in rows : set.current[k].pos \in Nat
  BY DEF StatesOK
<1>2. Dated(date) /\ DOMAIN date = rows
  <2>1. IsFiniteSet(1 .. Len(set.current))
    BY FS_Interval DEF StatesOK
  <2>2. IsFiniteSet(rows)
    BY <1>1, <2>1, FS_Subset
  <2> QED
    BY <1>1, <2>2 DEF Dated
<1>3. n \in rows /\ \A m \in rows : m # n => Before(date, m, n)
  <2> HIDE DEF date
  <2> QED
    BY <1>2, LastInOrder
<1>4. LatestCurrent(set.current, rows) = set.current[n]
  BY DEF LatestCurrent
<1> HIDE DEF n
<1>5. LatestIn(set, rows, n)
  BY <1>3 DEF LatestIn, Before
<1> QED
  BY <1>3, <1>4, <1>5

\* The current row the front end takes for an issuer is the one the export
\* takes for the ISIN of that row.
LEMMA OneCurrentRow ==
  ASSUME NEW set, StatesOK(set), NEW isins, NEW isin \in isins
  PROVE  LET current == LatestCurrent(set.current,
                          {n \in DOMAIN set.current : set.current[n].isin \in isins})
         IN  current # None /\ current.isin = isin => current = CurrentOf(set, isin)
<1> DEFINE all == {n \in DOMAIN set.current : set.current[n].isin \in isins}
           own == CurrentRows(set.current, isin)
           current == LatestCurrent(set.current, all)
<1> SUFFICES ASSUME current # None, current.isin = isin PROVE current = CurrentOf(set, isin)
  OBVIOUS
<1>1. all # {}
  BY DEF LatestCurrent
<1>2. PICK n \in all : LatestIn(set, all, n) /\ current = set.current[n]
  BY <1>1, LatestCurrentIsLast
<1>3. n \in own /\ own \subseteq all
  BY <1>2 DEF CurrentRows
<1>4. PICK m \in own : LatestIn(set, own, m) /\ CurrentOf(set, isin) = set.current[m]
  <2>1. own # {} /\ own \in SUBSET DOMAIN set.current
    BY <1>3
  <2> HIDE DEF own
  <2>2. \E k \in own : LatestIn(set, own, k) /\ LatestCurrent(set.current, own) = set.current[k]
    BY <2>1, LatestCurrentIsLast
  <2> QED
    BY <2>2 DEF CurrentOf, own
<1>5. \A k \in all : k \in Nat /\ set.current[k].pos \in Nat
  BY DEF StatesOK
<1> HIDE DEF all, own
<1>6. m = n
  BY <1>2, <1>3, <1>4, <1>5 DEF LatestIn
<1> QED
  BY <1>2, <1>4, <1>6

\* The points of a schedule: the historic ones do not depend on the current
\* state, and all are of one ISIN.
LEMMA SchedulePoints ==
  ASSUME NEW set, StatesOK(set), NEW isin, NEW added, NEW current,
         HistoricRows(set.historic, isin) # <<>> \/ current # None,
         current # None => current.isin = isin
  PROVE  LET order == HistoricRows(set.historic, isin)
             Points(now) == Schedule(set.historic, order, now, added)
         IN  /\ \A p \in Points(current) : p.isin = isin
             /\ order = <<>> => \A p \in Points(current) : p.until = None
             /\ order # <<>> =>
                  /\ Points(None) = {p \in Points(current) : p.until # None}
                  /\ \A p \in Points(None) : p.until # None
<1> DEFINE order == HistoricRows(set.historic, isin)
           rows == HistoricOf(set, isin)
           initial(now) == Later(ScopeStart(added),
                             IF order # <<>> THEN set.historic[order[1]].pos ELSE now.pos)
           Start(now, k) == IF k = 1 THEN initial(now) ELSE set.historic[order[k - 1]].became
           Past(now) == {[from |-> Start(now, k), until |-> set.historic[order[k]].became,
                          bp |-> set.historic[order[k]].bp,
                          isin |-> set.historic[order[k]].isin] : k \in DOMAIN order}
           Now(now) == [from |-> Start(now, Len(order) + 1), until |-> None,
                        bp |-> now.bp, isin |-> now.isin]
           Points(now) == Schedule(set.historic, order, now, added)
<1>1. PICK c \in Nat : /\ order \in [1 .. c -> rows] /\ (order = <<>> <=> c = 0)
  BY HistoricRowsInOrder
<1>2. \A k \in DOMAIN order : /\ set.historic[order[k]].became \in Nat
                               /\ set.historic[order[k]].isin = isin
  BY <1>1 DEF HistoricOf, StatesOK
<1>3. None \notin Nat
  BY DEF StatesOK
<1>4. \A now : Points(now) = Past(now) \union (IF now = None THEN {} ELSE {Now(now)})
  <2> SUFFICES ASSUME NEW now
               PROVE  Points(now) = Past(now) \union (IF now = None THEN {} ELSE {Now(now)})
    OBVIOUS
  <2> HIDE DEF order
  <2> QED
    BY DEF Schedule
<1>5. order = <<>> => Past(current) = {}
  <2>1. order = <<>> => DOMAIN order = {}
    BY <1>1
  <2> QED
    BY <2>1
<1>6. \A p \in Past(current) : p.until # None /\ p.isin = isin
  BY <1>2, <1>3
<1>7. Now(current).until = None /\ Now(current).isin = current.isin
  OBVIOUS
<1>8. order # <<>> => Past(None) = Past(current)
  <2> HIDE DEF order
  <2> QED
    OBVIOUS
<1> HIDE DEF Past, Now, Points, order
<1>9. Points(None) = Past(None)
  BY <1>4
<1>10. \A p \in Points(current) : p.isin = isin
  BY <1>4, <1>6, <1>7
<1>11. order = <<>> => \A p \in Points(current) : p.until = None
  BY <1>4, <1>5, <1>7
<1>12. order # <<>> => /\ Points(None) = {p \in Points(current) : p.until # None}
                       /\ \A p \in Points(None) : p.until # None
  BY <1>4, <1>6, <1>7, <1>8, <1>9
<1> QED
  BY <1>10, <1>11, <1>12 DEF Points, order

\* Of an ISIN the front end shows the exported points, except that the
\* current state may be missing.
LEMMA FrontEndShowsExported ==
  ASSUME NEW set, StatesOK(set), NEW isins, NEW isin \in isins
  PROVE  LET points == AnspSeries(set, isin)
             shown == {p \in IssuerAnspSeries(set, isins) : p.isin = isin}
         IN  /\ {p \in shown : p.until # None} = {p \in points : p.until # None}
             /\ shown \subseteq points
<1> DEFINE current == LatestCurrent(set.current,
                        {n \in DOMAIN set.current : set.current[n].isin \in isins})
           Own(x) == IF current # None /\ current.isin = x THEN current ELSE None
           Order(x) == HistoricRows(set.historic, x)
           Points(x) == IF Order(x) = <<>> /\ Own(x) = None THEN {}
                        ELSE Schedule(set.historic, Order(x), Own(x), Added(set.rsl, x))
           points == AnspSeries(set, isin)
           shown == {p \in IssuerAnspSeries(set, isins) : p.isin = isin}
           now == CurrentOf(set, isin)
<1>1. IssuerAnspSeries(set, isins) = UNION {Points(x) : x \in isins}
  BY DEF IssuerAnspSeries
<1>2. points = IF Order(isin) = <<>> /\ now = None THEN {}
               ELSE Schedule(set.historic, Order(isin), now, Added(set.rsl, isin))
  BY DEF AnspSeries, CurrentOf
<1>3. \A x \in isins : \A p \in Points(x) : p.isin = x
  <2> SUFFICES ASSUME NEW x \in isins, ~(Order(x) = <<>> /\ Own(x) = None)
               PROVE  \A p \in Points(x) : p.isin = x
    OBVIOUS
  <2>1. Own(x) # None => Own(x).isin = x
    OBVIOUS
  <2> HIDE DEF Own
  <2> QED
    BY <2>1, SchedulePoints
<1>4. Own(isin) \in {None, now}
  BY OneCurrentRow
<1>5. now # None => now.isin = isin
  <2> SUFFICES ASSUME now # None PROVE now.isin = isin
    OBVIOUS
  <2> DEFINE own == CurrentRows(set.current, isin)
  <2>1. own # {} /\ own \in SUBSET DOMAIN set.current
    BY DEF CurrentOf, LatestCurrent, CurrentRows
  <2>2. \A k \in own : set.current[k].isin = isin
    BY DEF CurrentRows
  <2> HIDE DEF own
  <2>3. PICK k \in own : LatestCurrent(set.current, own) = set.current[k]
    BY <2>1, LatestCurrentIsLast
  <2> QED
    BY <2>2, <2>3 DEF CurrentOf, own
<1> HIDE DEF Own, now, current, Order
<1>6. shown = Points(isin)
  <2> HIDE DEF Points
  <2> QED
    BY <1>1, <1>3
<1>7. CASE Own(isin) = now
  BY <1>2, <1>6, <1>7
<1>8. CASE Own(isin) = None /\ Order(isin) = <<>>
  <2>1. shown = {}
    BY <1>6, <1>8
  <2>2. \A p \in points : p.until = None
    <3>1. CASE now = None
      BY <1>2, <1>8, <3>1
    <3>2. CASE now # None
      <4>1. \A p \in Schedule(set.historic, Order(isin), now, Added(set.rsl, isin)) : p.until = None
        BY <1>5, <1>8, <3>2, SchedulePoints DEF Order
      <4> QED
        BY <1>2, <3>2, <4>1
    <3> QED
      BY <3>1, <3>2
  <2> HIDE DEF points, shown
  <2>3. {p \in points : p.until # None} = {} /\ {p \in shown : p.until # None} = {}
    BY <2>1, <2>2
  <2> QED
    BY <2>1, <2>3 DEF points, shown
<1>9. CASE Own(isin) = None /\ Order(isin) # <<>>
  <2> DEFINE Sched(w) == Schedule(set.historic, Order(isin), w, Added(set.rsl, isin))
  <2>1. shown = Sched(None) /\ points = Sched(now)
    BY <1>2, <1>6, <1>9
  <2>2. /\ Sched(None) = {p \in Sched(now) : p.until # None}
        /\ \A p \in Sched(None) : p.until # None
    <3> DEFINE order == HistoricRows(set.historic, isin)
               added == Added(set.rsl, isin)
    <3>1. order # <<>>
      BY <1>9 DEF Order
    <3> HIDE DEF order, added
    <3>2. /\ Schedule(set.historic, order, None, added) =
              {p \in Schedule(set.historic, order, now, added) : p.until # None}
          /\ \A p \in Schedule(set.historic, order, None, added) : p.until # None
      <4> USE DEF order
      <4> QED
        BY <1>5, <3>1, SchedulePoints
    <3> QED
      BY <3>2 DEF Order, order, added
  <2> HIDE DEF Sched, points, shown
  <2> QED
    BY <2>1, <2>2 DEF points, shown
<1> QED
  BY <1>4, <1>7, <1>8, <1>9

\* The current state of an ISIN that is exported is shown, unless another ISIN
\* of the issuer has a current state.
LEMMA CurrentIsShown ==
  ASSUME NEW set, StatesOK(set), NEW isins, NEW isin \in isins,
         ~\E n \in DOMAIN set.current : set.current[n].isin \in isins \ {isin}
  PROVE  AnspSeries(set, isin) = {p \in IssuerAnspSeries(set, isins) : p.isin = isin}
<1> DEFINE all == {n \in DOMAIN set.current : set.current[n].isin \in isins}
           current == LatestCurrent(set.current, all)
           Own(x) == IF current # None /\ current.isin = x THEN current ELSE None
           Points(x) == IF HistoricRows(set.historic, x) = <<>> /\ Own(x) = None THEN {}
                        ELSE Schedule(set.historic, HistoricRows(set.historic, x), Own(x),
                                      Added(set.rsl, x))
<1>1. IssuerAnspSeries(set, isins) = UNION {Points(x) : x \in isins}
  BY DEF IssuerAnspSeries
<1>2. all = CurrentRows(set.current, isin)
  BY DEF CurrentRows
<1>3. current = CurrentOf(set, isin)
  BY <1>2 DEF CurrentOf
<1>4. current # None => current.isin = isin
  <2> SUFFICES ASSUME current # None PROVE current.isin = isin
    OBVIOUS
  <2>1. all # {} /\ all \in SUBSET DOMAIN set.current
    BY DEF LatestCurrent
  <2>2. \A k \in all : set.current[k].isin = isin
    BY <1>2 DEF CurrentRows
  <2> HIDE DEF all
  <2>3. PICK k \in all : LatestCurrent(set.current, all) = set.current[k]
    BY <2>1, LatestCurrentIsLast
  <2> QED
    BY <2>2, <2>3
<1>5. Own(isin) = current
  <2> HIDE DEF current
  <2> QED
    BY <1>4
<1>6. AnspSeries(set, isin) = Points(isin)
  <2>1. AnspSeries(set, isin) =
          IF HistoricRows(set.historic, isin) = <<>> /\ CurrentOf(set, isin) = None THEN {}
          ELSE Schedule(set.historic, HistoricRows(set.historic, isin), CurrentOf(set, isin),
                        Added(set.rsl, isin))
    BY DEF AnspSeries, CurrentOf
  <2> HIDE DEF current, Own
  <2> QED
    BY <1>3, <1>5, <2>1
<1>7. \A x \in isins : \A p \in Points(x) : p.isin = x
  <2> SUFFICES ASSUME NEW x \in isins, ~(HistoricRows(set.historic, x) = <<>> /\ Own(x) = None)
               PROVE  \A p \in Points(x) : p.isin = x
    OBVIOUS
  <2>1. Own(x) # None => Own(x).isin = x
    OBVIOUS
  <2> HIDE DEF Own
  <2> QED
    BY <2>1, SchedulePoints
<1> HIDE DEF Points, Own, current, all
<1> QED
  BY <1>1, <1>6, <1>7

\* The points of an ISIN that have ended are the historic states.
LEMMA HistoricStatesAreExported ==
  ASSUME NEW set, StatesOK(set), NEW isin
  PROVE  {<<p.until, p.bp>> : p \in {q \in AnspSeries(set, isin) : q.until # None}} =
           {<<set.historic[n].became, set.historic[n].bp>> : n \in HistoricOf(set, isin)}
<1> DEFINE current == CurrentOf(set, isin)
           points == AnspSeries(set, isin)
           order == HistoricRows(set.historic, isin)
           rows == HistoricOf(set, isin)
<1>1. PICK c \in Nat : \E start : StatesInOrder(set, isin, c, start)
  BY PointsOfStates
<1>2. PICK start : StatesInOrder(set, isin, c, start)
  BY <1>1
<1> DEFINE Past(k) == [from |-> StartOf(set, isin, start, k), until |-> StateAt(set, isin, k).became,
                       bp |-> StateAt(set, isin, k).bp, isin |-> StateAt(set, isin, k).isin]
           Now == [from |-> StartOf(set, isin, start, c + 1), until |-> None,
                   bp |-> current.bp, isin |-> current.isin]
<1>3. /\ points = {Past(k) : k \in 1 .. c} \union (IF current = None THEN {} ELSE {Now})
      /\ \A k \in 1 .. c : order[k] \in rows /\ StateAt(set, isin, k).became \in Nat
      /\ \A n \in rows : \E k \in 1 .. c : order[k] = n
  BY <1>2 DEF StatesInOrder
<1>4. \A k \in 1 .. c : /\ Past(k).until = set.historic[order[k]].became
                          /\ Past(k).bp = set.historic[order[k]].bp
                          /\ Past(k).until # None
  BY <1>3 DEF StateAt, StatesOK
<1>5. Now.until = None
  OBVIOUS
<1> HIDE DEF Past, Now, points, order, rows, current
<1>6. {q \in points : q.until # None} = {Past(k) : k \in 1 .. c}
  BY <1>3, <1>4, <1>5
<1>7. {<<p.until, p.bp>> : p \in {Past(k) : k \in 1 .. c}} =
        {<<set.historic[n].became, set.historic[n].bp>> : n \in rows}
  BY <1>3, <1>4
<1> QED
  BY <1>6, <1>7 DEF points, rows

\* On every day from the first point of an ISIN the front end shows the state
\* in force, or nothing when another ISIN of the issuer has a current state.
LEMMA FrontEndShowsStateInForce ==
  ASSUME NEW set, StatesOK(set), NEW isins, NEW isin \in isins, NEW t \in Nat,
         \E p \in IssuerAnspSeries(set, isins) : p.isin = isin /\ p.from <= t
  PROVE  LET shown == {p \in IssuerAnspSeries(set, isins) : p.isin = isin}
         IN  \/ Charted(shown, t) = InForce(set, isin, t)
             \/ /\ Charted(shown, t) = {}
                /\ \E n \in DOMAIN set.current : set.current[n].isin \in isins \ {isin}
<1> DEFINE points == AnspSeries(set, isin)
           shown == {p \in IssuerAnspSeries(set, isins) : p.isin = isin}
           other == \E n \in DOMAIN set.current : set.current[n].isin \in isins \ {isin}
<1>1. /\ {p \in shown : p.until # None} = {p \in points : p.until # None}
      /\ shown \subseteq points
  BY FrontEndShowsExported
<1>2. Charted(points, t) = InForce(set, isin, t)
  BY <1>1, ChartShowsStateInForce
<1>3. CASE shown = points
  BY <1>2, <1>3
<1>4. CASE shown # points
  <2>1. other
    BY <1>4, CurrentIsShown
  <2>2. \A v \in InForce(set, isin, t) : InForce(set, isin, t) = {v}
    BY DEF InForce
  <2>3. Charted(shown, t) \subseteq Charted(points, t)
    BY <1>1 DEF Charted
  <2> HIDE DEF points, shown, other
  <2>4. Charted(shown, t) = {} \/ Charted(shown, t) = InForce(set, isin, t)
    BY <1>2, <2>2, <2>3
  <2> QED
    BY <2>1, <2>4 DEF shown, other
<1> QED
  BY <1>3, <1>4

-----------------------------------------------------------------------------
(* Sums                                                                    *)

Some(s) == CHOOSE x \in s : TRUE
SumEquation(g, f, s) == IF s = {} THEN 0 ELSE f[Some(s)] + g[s \ {Some(s)}]
Sums(g, f, T) == g = [s \in SUBSET T |-> SumEquation(g, f, s)]

\* Removing the chosen element makes a set smaller.
LEMMA Smaller ==
  ASSUME NEW s, IsFiniteSet(s), s # {}
  PROVE  /\ Some(s) \in s /\ IsFiniteSet(s \ {Some(s)})
         /\ Cardinality(s) \in Nat /\ Cardinality(s \ {Some(s)}) \in Nat
         /\ Cardinality(s \ {Some(s)}) = Cardinality(s) - 1
<1>1. Some(s) \in s
  BY DEF Some
<1> DEFINE x == Some(s)
<1> HIDE DEF x
<1>2. IsFiniteSet(s \ {x})
      /\ Cardinality(s \ {x}) = IF x \in s THEN Cardinality(s) - 1 ELSE Cardinality(s)
  BY FS_RemoveElement
<1>3. Cardinality(s) \in Nat /\ Cardinality(s \ {x}) \in Nat
  BY <1>2, FS_CardinalityType
<1> QED
  BY <1>1, <1>2, <1>3 DEF x

\* The sums over the subsets of a finite set exist.
LEMMA SumsExist == ASSUME NEW T, IsFiniteSet(T), NEW f PROVE \E g : Sums(g, f, T)
<1> DEFINE P(n) == \E g : /\ DOMAIN g = SUBSET T
                          /\ \A s \in SUBSET T : Cardinality(s) < n => g[s] = SumEquation(g, f, s)
           Bad == {n \in Nat : ~P(n)}
<1>0. \A s \in SUBSET T : /\ IsFiniteSet(s) /\ Cardinality(s) \in Nat
                          /\ Cardinality(s) <= Cardinality(T)
  BY FS_Subset, FS_CardinalityType
<1>1. P(0)
  <2> DEFINE g == [s \in SUBSET T |-> 0]
  <2>1. \A s \in SUBSET T : ~(Cardinality(s) < 0)
    BY <1>0
  <2>2. DOMAIN g = SUBSET T
    OBVIOUS
  <2> QED
    BY <2>1, <2>2
<1>2. ASSUME NEW n \in Nat, P(n) PROVE P(n + 1)
  <2>1. PICK g : /\ DOMAIN g = SUBSET T
                 /\ \A s \in SUBSET T : Cardinality(s) < n => g[s] = SumEquation(g, f, s)
    BY <1>2
  <2> DEFINE h == [s \in SUBSET T |-> SumEquation(g, f, s)]
  <2>2. ASSUME NEW s \in SUBSET T, Cardinality(s) < n + 1 PROVE h[s] = SumEquation(h, f, s)
    <3>1. CASE s = {}
      BY <3>1 DEF SumEquation
    <3>2. CASE s # {}
      <4> DEFINE u == s \ {Some(s)}
      <4>1. u \in SUBSET T /\ Cardinality(u) < n
        BY <1>0, <2>2, <3>2, Smaller
      <4>2. h[u] = g[u]
        <5> HIDE DEF u
        <5> QED
          BY <2>1, <4>1
      <4>3. h[s] = f[Some(s)] + g[u]
        BY <3>2 DEF SumEquation
      <4> QED
        BY <3>2, <4>2, <4>3 DEF SumEquation
    <3> QED
      BY <3>1, <3>2
  <2>3. DOMAIN h = SUBSET T
    OBVIOUS
  <2> HIDE DEF h
  <2> QED
    BY <2>2, <2>3
<1> HIDE DEF P
<1>3. Bad = {}
  <2> SUFFICES ASSUME Bad # {} PROVE FALSE
    OBVIOUS
  <2>1. PICK n \in Bad : \A m \in Bad : n <= m
    BY LeastNumber
  <2>2. n - 1 \in Nat /\ n - 1 \notin Bad
    BY <1>1, <2>1
  <2>3. P((n - 1) + 1) /\ (n - 1) + 1 = n
    BY <1>2, <2>1, <2>2
  <2> QED
    BY <2>3
<1>4. Cardinality(T) + 1 \in Nat
  BY FS_CardinalityType
<1>5. P(Cardinality(T) + 1)
  BY <1>3, <1>4
<1>6. PICK g : /\ DOMAIN g = SUBSET T
               /\ \A s \in SUBSET T :
                    Cardinality(s) < Cardinality(T) + 1 => g[s] = SumEquation(g, f, s)
  BY <1>5 DEF P
<1>7. \A s \in SUBSET T : g[s] = SumEquation(g, f, s)
  BY <1>0, <1>4, <1>6
<1> DEFINE h == [s \in SUBSET T |-> SumEquation(g, f, s)]
<1>8. \A s \in SUBSET T : h[s] = g[s]
  BY <1>7
<1>9. ASSUME NEW s \in SUBSET T PROVE SumEquation(h, f, s) = SumEquation(g, f, s)
  <2>1. s \ {Some(s)} \in SUBSET T
    OBVIOUS
  <2> HIDE DEF h
  <2> QED
    BY <1>8, <2>1 DEF SumEquation
<1>10. Sums(h, f, T)
  <2>1. [s \in SUBSET T |-> SumEquation(h, f, s)] = [s \in SUBSET T |-> SumEquation(g, f, s)]
    BY <1>9
  <2> QED
    BY <2>1 DEF Sums
<1> QED
  BY <1>10

\* Sums of functions that agree on a set agree on its subsets.
LEMMA SumsAgree ==
  ASSUME NEW S, IsFiniteSet(S), NEW T, NEW U, S \subseteq T, S \subseteq U,
         NEW f, NEW g, Sums(g, f, T), NEW e, NEW h, Sums(h, e, U), \A x \in S : f[x] = e[x]
  PROVE  g[S] = h[S]
<1>0. \A s \in SUBSET S : /\ IsFiniteSet(s) /\ Cardinality(s) \in Nat
                          /\ g[s] = SumEquation(g, f, s) /\ h[s] = SumEquation(h, e, s)
  <2> SUFFICES ASSUME NEW s \in SUBSET S
               PROVE  /\ IsFiniteSet(s) /\ Cardinality(s) \in Nat
                      /\ g[s] = SumEquation(g, f, s) /\ h[s] = SumEquation(h, e, s)
    OBVIOUS
  <2>1. IsFiniteSet(s) /\ Cardinality(s) \in Nat
    BY FS_Subset, FS_CardinalityType
  <2>2. s \in SUBSET T /\ s \in SUBSET U
    OBVIOUS
  <2> QED
    BY <2>1, <2>2 DEF Sums
<1> DEFINE Bad == {n \in Nat : \E s \in SUBSET S : Cardinality(s) = n /\ g[s] # h[s]}
<1>1. Bad = {}
  <2> SUFFICES ASSUME Bad # {} PROVE FALSE
    OBVIOUS
  <2>1. PICK n \in Bad : \A m \in Bad : n <= m
    BY LeastNumber
  <2>2. PICK s \in SUBSET S : Cardinality(s) = n /\ g[s] # h[s]
    OBVIOUS
  <2>3. s # {}
    BY <1>0, <2>2 DEF SumEquation
  <2> DEFINE u == s \ {Some(s)}
  <2>4. Some(s) \in S /\ u \in SUBSET S /\ Cardinality(u) \in Nat /\ Cardinality(u) = n - 1
    BY <1>0, <2>2, <2>3, Smaller
  <2>5. g[u] = h[u]
    <3>1. \A m \in Bad : n <= m /\ n \in Nat
      BY <2>1
    <3> HIDE DEF u, Bad
    <3>2. Cardinality(u) \notin Bad
      BY <2>1, <2>4, <3>1
    <3> QED
      BY <2>4, <3>2 DEF Bad
  <2>6. g[s] = f[Some(s)] + g[u] /\ h[s] = e[Some(s)] + h[u]
    BY <1>0, <2>3 DEF SumEquation
  <2> QED
    BY <2>2, <2>4, <2>5, <2>6
<1> QED
  BY <1>0, <1>1

\* The sum of a function over a finite set, by the recursion that defines it.
LEMMA SumIs ==
  ASSUME NEW T, IsFiniteSet(T), NEW f
  PROVE  \E g : Sums(g, f, T) /\ SumFunctionOnSet(f, T) = g[T]
<1> DEFINE g == CHOOSE g : Sums(g, f, T)
<1>1. Sums(g, f, T)
  BY SumsExist
<1>2. SumFunctionOnSet(f, T) = g[T]
  BY DEF SumFunctionOnSet, FoldFunctionOnSet, MapThenFoldSet, Sums, SumEquation, Some
<1> QED
  BY <1>1, <1>2

\* Only the values on the set count.
LEMMA SumSame ==
  ASSUME NEW S, IsFiniteSet(S), NEW f, NEW e, \A x \in S : f[x] = e[x]
  PROVE  SumFunctionOnSet(f, S) = SumFunctionOnSet(e, S)
<1>1. PICK g : Sums(g, f, S) /\ SumFunctionOnSet(f, S) = g[S]
  BY SumIs
<1>2. PICK h : Sums(h, e, S) /\ SumFunctionOnSet(e, S) = h[S]
  BY SumIs
<1> QED
  BY <1>1, <1>2, SumsAgree

\* The sum over nothing.
LEMMA SumOfNone == ASSUME NEW f PROVE SumFunctionOnSet(f, {}) = 0
<1>1. PICK g : Sums(g, f, {}) /\ SumFunctionOnSet(f, {}) = g[{}]
  BY SumIs, FS_EmptySet
<1>2. {} \in SUBSET {}
  OBVIOUS
<1> QED
  BY <1>1, <1>2 DEF Sums, SumEquation

\* One value taken from a sum.
LEMMA SumTakesSome ==
  ASSUME NEW S, IsFiniteSet(S), S # {}, NEW f
  PROVE  SumFunctionOnSet(f, S) = f[Some(S)] + SumFunctionOnSet(f, S \ {Some(S)})
<1> DEFINE u == S \ {Some(S)}
<1>1. PICK g : Sums(g, f, S) /\ SumFunctionOnSet(f, S) = g[S]
  BY SumIs
<1>2. IsFiniteSet(u) /\ u \subseteq S /\ S \in SUBSET S
  BY Smaller
<1> HIDE DEF u
<1>3. PICK h : Sums(h, f, u) /\ SumFunctionOnSet(f, u) = h[u]
  BY <1>2, SumIs
<1>4. g[u] = h[u]
  BY <1>1, <1>2, <1>3, SumsAgree
<1>5. g[S] = f[Some(S)] + g[u]
  BY <1>1, <1>2 DEF Sums, SumEquation, u
<1> QED
  BY <1>1, <1>3, <1>4, <1>5 DEF u

\* Whole numbers have a whole sum.
LEMMA SumType ==
  ASSUME NEW S, IsFiniteSet(S), NEW f, \A x \in S : f[x] \in Int
  PROVE  SumFunctionOnSet(f, S) \in Int
<1>0. \A s \in SUBSET S : IsFiniteSet(s) /\ Cardinality(s) \in Nat
  BY FS_Subset, FS_CardinalityType
<1> DEFINE Bad == {n \in Nat : \E s \in SUBSET S :
                                  Cardinality(s) = n /\ SumFunctionOnSet(f, s) \notin Int}
<1>1. Bad = {}
  <2> SUFFICES ASSUME Bad # {} PROVE FALSE
    OBVIOUS
  <2>1. PICK n \in Bad : \A m \in Bad : n <= m
    BY LeastNumber
  <2>2. PICK s \in SUBSET S : Cardinality(s) = n /\ SumFunctionOnSet(f, s) \notin Int
    OBVIOUS
  <2>3. s # {}
    BY <2>2, SumOfNone
  <2> DEFINE u == s \ {Some(s)}
  <2>4. Some(s) \in S /\ u \in SUBSET S /\ Cardinality(u) \in Nat /\ Cardinality(u) = n - 1
    BY <1>0, <2>2, <2>3, Smaller
  <2>5. SumFunctionOnSet(f, u) \in Int
    <3>1. Cardinality(u) \notin Bad
      BY <2>1, <2>4
    <3> QED
      BY <2>4, <3>1
  <2>6. SumFunctionOnSet(f, s) = f[Some(s)] + SumFunctionOnSet(f, u)
    BY <1>0, <2>3, SumTakesSome
  <2> QED
    BY <2>2, <2>4, <2>5, <2>6
<1>2. Cardinality(S) \notin Bad /\ S \in SUBSET S
  BY <1>1
<1> QED
  BY <1>0, <1>2

\* Any value can be taken from a sum.
LEMMA SumTakesAny ==
  ASSUME NEW S, IsFiniteSet(S), NEW f, \A y \in S : f[y] \in Int, NEW x \in S
  PROVE  SumFunctionOnSet(f, S) = f[x] + SumFunctionOnSet(f, S \ {x})
<1> DEFINE Sum(s) == SumFunctionOnSet(f, s)
           OK(s) == \A y \in s : Sum(s) = f[y] + Sum(s \ {y})
           Bad == {n \in Nat : \E s \in SUBSET S : Cardinality(s) = n /\ ~OK(s)}
<1>0. \A s \in SUBSET S : IsFiniteSet(s) /\ Cardinality(s) \in Nat /\ Sum(s) \in Int
  <2> SUFFICES ASSUME NEW s \in SUBSET S
               PROVE  IsFiniteSet(s) /\ Cardinality(s) \in Nat /\ Sum(s) \in Int
    OBVIOUS
  <2>1. IsFiniteSet(s) /\ Cardinality(s) \in Nat
    BY FS_Subset, FS_CardinalityType
  <2>2. \A y \in s : f[y] \in Int
    OBVIOUS
  <2> QED
    BY <2>1, <2>2, SumType
<1>1. Bad = {}
  <2> SUFFICES ASSUME Bad # {} PROVE FALSE
    OBVIOUS
  <2>1. PICK n \in Bad : \A m \in Bad : n <= m
    BY LeastNumber
  <2>2. PICK s \in SUBSET S : Cardinality(s) = n /\ ~OK(s)
    OBVIOUS
  <2>3. PICK y \in s : Sum(s) # f[y] + Sum(s \ {y})
    BY <2>2
  <2> DEFINE z == Some(s)
             u == s \ {z}
  <2>4. z \in s /\ u \in SUBSET S /\ Cardinality(u) \in Nat /\ Cardinality(u) = n - 1
    BY <1>0, <2>2, <2>3, Smaller
  <2>5. Sum(s) = f[z] + Sum(u)
    BY <1>0, <2>3, SumTakesSome
  <2>6. y # z
    BY <2>3, <2>5
  <2> HIDE DEF z
  <2>7. y \in u /\ z \in s \ {y} /\ s \ {y} \in SUBSET S /\ u \ {y} = (s \ {y}) \ {z}
        /\ u \ {y} \in SUBSET S
    BY <2>3, <2>4, <2>6
  <2>8. OK(u)
    <3>1. \A m \in Bad : n <= m /\ n \in Nat
      BY <2>1
    <3> HIDE DEF u, Bad
    <3>2. Cardinality(u) \notin Bad
      BY <2>1, <2>4, <3>1
    <3> HIDE DEF OK
    <3> QED
      BY <2>4, <3>2 DEF Bad
  <2>9. OK(s \ {y})
    <3> DEFINE v == s \ {y}
    <3>0. IsFiniteSet(s) /\ Cardinality(s) = n
      BY <1>0, <2>2
    <3>1. Cardinality(v) = IF y \in s THEN Cardinality(s) - 1 ELSE Cardinality(s)
      BY <3>0, FS_RemoveElement
    <3>2. Cardinality(v) = n - 1 /\ Cardinality(v) \in Nat /\ v \in SUBSET S
      BY <1>0, <2>3, <2>7, <3>0, <3>1
    <3>3. \A m \in Bad : n <= m /\ n \in Nat
      BY <2>1
    <3> HIDE DEF v, Bad
    <3>4. Cardinality(v) \notin Bad
      BY <2>1, <3>2, <3>3
    <3> HIDE DEF OK
    <3>5. OK(v)
      BY <3>2, <3>4 DEF Bad
    <3> QED
      BY <3>5 DEF v
  <2> HIDE DEF u, Bad
  <2>10. Sum(u) = f[y] + Sum(u \ {y}) /\ Sum(s \ {y}) = f[z] + Sum(u \ {y})
    BY <2>7, <2>8, <2>9
  <2>11. f[y] \in Int /\ f[z] \in Int /\ Sum(u \ {y}) \in Int
    BY <1>0, <2>3, <2>4, <2>7
  <2> HIDE DEF Sum
  <2> QED
    BY <2>3, <2>5, <2>10, <2>11
<1>2. Cardinality(S) \notin Bad /\ S \in SUBSET S
  BY <1>1
<1>3. OK(S)
  BY <1>0, <1>2
<1> QED
  BY <1>3

\* One value changes: the sum changes by the difference.
LEMMA SumChanges ==
  ASSUME NEW S, IsFiniteSet(S), NEW x \in S, NEW f, NEW e,
         \A y \in S : f[y] \in Int, e[x] \in Int, \A y \in S \ {x} : e[y] = f[y]
  PROVE  SumFunctionOnSet(e, S) = SumFunctionOnSet(f, S) - f[x] + e[x]
<1> DEFINE T == S \ {x}
<1>1. \A y \in S : e[y] \in Int
  OBVIOUS
<1>2. IsFiniteSet(T) /\ \A y \in T : f[y] \in Int
  BY FS_Subset
<1>3. SumFunctionOnSet(e, S) = e[x] + SumFunctionOnSet(e, T)
  BY <1>1, SumTakesAny
<1>4. SumFunctionOnSet(f, S) = f[x] + SumFunctionOnSet(f, T)
  BY SumTakesAny
<1> HIDE DEF T
<1>5. SumFunctionOnSet(e, T) = SumFunctionOnSet(f, T)
  BY <1>2, SumSame DEF T
<1>6. SumFunctionOnSet(f, T) \in Int
  BY <1>2, SumType
<1>7. f[x] \in Int /\ e[x] \in Int
  OBVIOUS
<1> QED
  BY <1>3, <1>4, <1>5, <1>6, <1>7

\* Nothing adds up to nothing.
LEMMA SumOfZeros ==
  ASSUME NEW S, IsFiniteSet(S), NEW f, \A x \in S : f[x] = 0
  PROVE  SumFunctionOnSet(f, S) = 0
<1> DEFINE Bad == {n \in Nat : \E s \in SUBSET S : Cardinality(s) = n /\ SumFunctionOnSet(f, s) # 0}
<1>0. \A s \in SUBSET S : IsFiniteSet(s) /\ Cardinality(s) \in Nat
  BY FS_Subset, FS_CardinalityType
<1>1. Bad = {}
  <2> SUFFICES ASSUME Bad # {} PROVE FALSE
    OBVIOUS
  <2>1. PICK n \in Bad : \A m \in Bad : n <= m
    BY LeastNumber
  <2>2. PICK s \in SUBSET S : Cardinality(s) = n /\ SumFunctionOnSet(f, s) # 0
    OBVIOUS
  <2>3. s # {}
    BY <2>2, SumOfNone
  <2> DEFINE u == s \ {Some(s)}
  <2>4. Some(s) \in S /\ u \in SUBSET S /\ Cardinality(u) \in Nat /\ Cardinality(u) = n - 1
    BY <1>0, <2>2, <2>3, Smaller
  <2>5. SumFunctionOnSet(f, u) = 0
    <3>1. \A m \in Bad : n <= m /\ n \in Nat
      BY <2>1
    <3> HIDE DEF u, Bad
    <3>2. Cardinality(u) \notin Bad
      BY <2>1, <2>4, <3>1
    <3> QED
      BY <2>4, <3>2 DEF Bad
  <2>6. SumFunctionOnSet(f, s) = f[Some(s)] + SumFunctionOnSet(f, u)
    BY <1>0, <2>3, SumTakesSome
  <2> QED
    BY <2>2, <2>4, <2>5, <2>6
<1>2. Cardinality(S) \notin Bad /\ S \in SUBSET S
  BY <1>1
<1> QED
  BY <1>0, <1>2

\* The pairs of a set that begin with x, and their values.
Seconds(P, H, x) == {h \in H : <<x, h>> \in P}
ValuesAt(f, H, x) == [h \in H |-> f[<<x, h>>]]
SumAt(f, P, H, x) == SumFunctionOnSet(ValuesAt(f, H, x), Seconds(P, H, x))

\* A sum over pairs is the sum of the sums for each first component.
LEMMA SumOfPairs ==
  ASSUME NEW S, IsFiniteSet(S), NEW H, IsFiniteSet(H), NEW P \in SUBSET (S \X H),
         NEW f, \A c \in P : f[c] \in Int
  PROVE  SumFunctionOnSet(f, P) = SumFunctionOnSet([x \in S |-> SumAt(f, P, H, x)], S)
<1> DEFINE sums(q) == [x \in S |-> SumAt(f, q, H, x)]
           OK(q) == SumFunctionOnSet(f, q) = SumFunctionOnSet(sums(q), S)
           Bad == {n \in Nat : \E q \in SUBSET P : Cardinality(q) = n /\ ~OK(q)}
<1>0. \A q \in SUBSET P : IsFiniteSet(q) /\ Cardinality(q) \in Nat
  <2>1. IsFiniteSet(P)
    BY FS_Product, FS_Subset
  <2> QED
    BY <2>1, FS_Subset, FS_CardinalityType
<1>1. \A q \in SUBSET P : \A x \in S :
        /\ IsFiniteSet(Seconds(q, H, x))
        /\ \A h \in Seconds(q, H, x) : ValuesAt(f, H, x)[h] \in Int
        /\ SumAt(f, q, H, x) \in Int
  <2> SUFFICES ASSUME NEW q \in SUBSET P, NEW x \in S
               PROVE  /\ IsFiniteSet(Seconds(q, H, x))
                      /\ \A h \in Seconds(q, H, x) : ValuesAt(f, H, x)[h] \in Int
                      /\ SumAt(f, q, H, x) \in Int
    OBVIOUS
  <2>1. IsFiniteSet(Seconds(q, H, x))
    BY FS_Subset DEF Seconds
  <2>2. \A h \in Seconds(q, H, x) : ValuesAt(f, H, x)[h] \in Int
    BY DEF Seconds, ValuesAt
  <2>3. SumAt(f, q, H, x) \in Int
    BY <2>1, <2>2, SumType DEF SumAt
  <2> QED
    BY <2>1, <2>2, <2>3
<1>1a. ASSUME NEW q \in SUBSET P PROVE \A x \in S : sums(q)[x] \in Int
  BY <1>1
<1>2. Bad = {}
  <2> SUFFICES ASSUME Bad # {} PROVE FALSE
    OBVIOUS
  <2>1. PICK n \in Bad : \A m \in Bad : n <= m
    BY LeastNumber
  <2>2. PICK q \in SUBSET P : Cardinality(q) = n /\ ~OK(q)
    OBVIOUS
  <2>3. q # {}
    <3> SUFFICES ASSUME q = {} PROVE FALSE
      OBVIOUS
    <3>1. \A x \in S : sums(q)[x] = 0
      <4> SUFFICES ASSUME NEW x \in S PROVE SumAt(f, q, H, x) = 0
        OBVIOUS
      <4>1. Seconds(q, H, x) = {}
        BY DEF Seconds
      <4> QED
        BY <4>1, SumOfNone DEF SumAt
    <3> HIDE DEF sums
    <3>2. SumFunctionOnSet(sums(q), S) = 0
      BY <3>1, SumOfZeros
    <3> QED
      BY <2>2, <3>2, SumOfNone
  <2> DEFINE c == Some(q)
             u == q \ {c}
             a == c[1]
             b == c[2]
  <2>4. c \in q /\ u \in SUBSET P /\ Cardinality(u) \in Nat /\ Cardinality(u) = n - 1
    BY <1>0, <2>2, <2>3, Smaller
  <2>5. SumFunctionOnSet(f, q) = f[c] + SumFunctionOnSet(f, u)
    BY <1>0, <2>3, SumTakesSome
  <2> HIDE DEF c
  <2>6. a \in S /\ b \in H /\ c = <<a, b>> /\ f[c] \in Int
    BY <2>4
  <2>7. OK(u)
    <3>1. \A m \in Bad : n <= m /\ n \in Nat
      BY <2>1
    <3> HIDE DEF u, Bad
    <3>2. Cardinality(u) \notin Bad
      BY <2>1, <2>4, <3>1
    <3> HIDE DEF OK
    <3> QED
      BY <2>4, <3>2 DEF Bad
  <2>8. SumAt(f, q, H, a) = f[c] + SumAt(f, u, H, a)
    <3> DEFINE v == ValuesAt(f, H, a)
    <3>1. Seconds(u, H, a) = Seconds(q, H, a) \ {b} /\ b \in Seconds(q, H, a)
      BY <2>4, <2>6 DEF Seconds
    <3>2. v[b] = f[c]
      BY <2>6 DEF ValuesAt
    <3>3. IsFiniteSet(Seconds(q, H, a)) /\ \A h \in Seconds(q, H, a) : v[h] \in Int
      BY <1>1, <2>6
    <3> HIDE DEF v, b
    <3>4. SumFunctionOnSet(v, Seconds(q, H, a)) =
            v[b] + SumFunctionOnSet(v, Seconds(q, H, a) \ {b})
      BY <3>1, <3>3, SumTakesAny
    <3> QED
      BY <3>1, <3>2, <3>4 DEF SumAt, v
  <2>9. \A x \in S \ {a} : SumAt(f, q, H, x) = SumAt(f, u, H, x)
    <3> SUFFICES ASSUME NEW x \in S \ {a} PROVE SumAt(f, q, H, x) = SumAt(f, u, H, x)
      OBVIOUS
    <3>1. Seconds(q, H, x) = Seconds(u, H, x)
      BY <2>6 DEF Seconds
    <3> QED
      BY <3>1 DEF SumAt
  <2> HIDE DEF u, a, b
  <2>10. SumFunctionOnSet(sums(q), S) =
           SumFunctionOnSet(sums(u), S) - sums(u)[a] + sums(q)[a]
    <3>1. \A y \in S : sums(u)[y] \in Int
      BY <1>1a, <2>4
    <3>2. sums(q)[a] \in Int
      BY <1>1a, <2>6
    <3>3. \A y \in S \ {a} : sums(q)[y] = sums(u)[y]
      BY <2>9
    <3> HIDE DEF sums
    <3> QED
      BY <2>6, <3>1, <3>2, <3>3, SumChanges
  <2>11. sums(q)[a] = f[c] + sums(u)[a]
    BY <2>6, <2>8
  <2>12. \A y \in S : sums(u)[y] \in Int
    BY <1>1a, <2>4
  <2> HIDE DEF sums
  <2>13. SumFunctionOnSet(sums(u), S) \in Int /\ sums(u)[a] \in Int
    BY <2>6, <2>12, SumType
  <2> QED
    BY <2>2, <2>5, <2>6, <2>7, <2>10, <2>11, <2>12, <2>13
<1>3. Cardinality(P) \notin Bad /\ P \in SUBSET P
  BY <1>2
<1> HIDE DEF OK
<1>4. OK(P)
  BY <1>0, <1>3
<1> QED
  BY <1>4 DEF OK

-----------------------------------------------------------------------------
(* The named disclosures                                                   *)

\* Rows are numbered; their dates begin at 1 and their values at 0.
DisclosuresOK(file) ==
  /\ Len(file) \in Nat /\ DOMAIN file = 1 .. Len(file)
  /\ \A n \in DOMAIN file : file[n].date \in Nat \ {0} /\ file[n].bp \in Nat

Earlier(file, m, n) ==
  file[m].date < file[n].date \/ (file[m].date = file[n].date /\ m < n)

\* The rows that have been replayed after k steps.
Done(file, rows, k) == {ByDate(file, rows)[j] : j \in 1 .. k}

\* The value that some rows leave of a holding, an ISIN with a holder.
RowsOfHolding(file, rows, c) == {n \in rows : file[n].isin = c[1] /\ file[n].holder = c[2]}
ValueOf(file, rows, c) == LastDisclosed(file, RowsOfHolding(file, rows, c))
Until(file, date) == {n \in DOMAIN file : file[n].date <= date}

\* What a holder has disclosed on a day is the value its rows until then leave.
LEMMA DisclosedOnIsValue ==
  ASSUME NEW file, NEW x, NEW h, NEW date
  PROVE  DisclosedOn(file, x, h, date) = ValueOf(file, Until(file, date), <<x, h>>)
<1>1. {n \in DOMAIN file : file[n].isin = x /\ file[n].holder = h /\ file[n].date <= date}
        = RowsOfHolding(file, Until(file, date), <<x, h>>)
  BY DEF RowsOfHolding, Until
<1> QED
  BY <1>1 DEF DisclosedOn, ValueOf

\* Some rows of a file by date and row number: all of them, each once.
LEMMA ByDateOrders ==
  ASSUME NEW file, DisclosuresOK(file), NEW rows \in SUBSET DOMAIN file
  PROVE  LET order == ByDate(file, rows)
             c == Cardinality(rows) IN
         /\ IsFiniteSet(rows) /\ c \in Nat /\ order \in [1 .. c -> rows]
         /\ \A i, j \in 1 .. c : i < j => Earlier(file, order[i], order[j])
         /\ \A n \in rows : \E i \in 1 .. c : order[i] = n
<1> DEFINE date == [n \in rows |-> file[n].date]
           order == InOrder(date)
           c == Cardinality(rows)
<1>1. IsFiniteSet(rows)
  <2>1. Len(file) \in Int /\ 1 \in Int /\ DOMAIN file = 1 .. Len(file)
    BY DEF DisclosuresOK
  <2>2. IsFiniteSet(1 .. Len(file))
    BY <2>1, FS_Interval
  <2> QED
    BY <2>1, <2>2, FS_Subset
<1>2. DOMAIN date = rows /\ \A n \in rows : date[n] = file[n].date
  OBVIOUS
<1>3. Dated(date)
  BY <1>1 DEF Dated, DisclosuresOK
<1> HIDE DEF date
<1>4. /\ c \in Nat /\ order \in [1 .. c -> rows]
      /\ \A i, j \in 1 .. c : i < j => Before(date, order[i], order[j])
      /\ \A n \in rows : \E i \in 1 .. c : order[i] = n
  BY <1>2, <1>3, InOrderOrders
<1> HIDE DEF order, c
<1>5. ASSUME NEW i \in 1 .. c, NEW j \in 1 .. c, i < j
      PROVE  Earlier(file, order[i], order[j])
  BY <1>2, <1>4, <1>5 DEF Before, Earlier
<1> QED
  BY <1>1, <1>4, <1>5 DEF order, c, date, ByDate

\* One step of a replay: the next row comes after all that are done and before
\* all that are not.
LEMMA DoneGrows ==
  ASSUME NEW file, DisclosuresOK(file), NEW rows \in SUBSET DOMAIN file,
         NEW k \in 1 .. Cardinality(rows)
  PROVE  LET n == ByDate(file, rows)[k]
             done == Done(file, rows, k - 1) IN
         /\ n \in rows /\ n \notin done /\ done \subseteq rows
         /\ Done(file, rows, k) = done \union {n}
         /\ \A m \in done : Earlier(file, m, n)
         /\ \A m \in rows \ (done \union {n}) : Earlier(file, n, m)
<1> DEFINE order == ByDate(file, rows)
           c == Cardinality(rows)
           n == order[k]
           done == Done(file, rows, k - 1)
<1>1. /\ c \in Nat /\ order \in [1 .. c -> rows]
      /\ \A i, j \in 1 .. c : i < j => Earlier(file, order[i], order[j])
      /\ \A m \in rows : \E i \in 1 .. c : order[i] = m
  BY ByDateOrders
<1>2. done = {order[j] : j \in 1 .. k - 1} /\ Done(file, rows, k) = {order[j] : j \in 1 .. k}
  BY DEF Done
<1> HIDE DEF order, c
<1>3. k \in 1 .. c
  BY DEF c
<1>4. n \in rows
  BY <1>1, <1>3
<1>5. {order[j] : j \in 1 .. k} = done \union {n}
  <2>1. \A j \in 1 .. k : j \in 1 .. k - 1 \/ j = k
    BY <1>1, <1>3
  <2>2. 1 .. k - 1 \subseteq 1 .. k /\ k \in 1 .. k
    BY <1>1, <1>3
  <2> QED
    BY <1>2, <2>1, <2>2
<1>6. \A m \in done : m \in rows /\ Earlier(file, m, n)
  <2> SUFFICES ASSUME NEW m \in done PROVE m \in rows /\ Earlier(file, m, n)
    OBVIOUS
  <2>1. PICK j \in 1 .. k - 1 : m = order[j]
    BY <1>2
  <2>2. j \in 1 .. c /\ j < k
    BY <1>1, <1>3, <2>1
  <2> QED
    BY <1>1, <1>3, <2>1, <2>2
<1>7. ~Earlier(file, n, n)
  BY <1>4 DEF Earlier, DisclosuresOK
<1>8. n \notin done
  BY <1>6, <1>7
<1>9. ASSUME NEW m \in rows \ (done \union {n}) PROVE Earlier(file, n, m)
  <2>1. PICK i \in 1 .. c : order[i] = m
    BY <1>1
  <2>2. i \notin 1 .. k
    BY <1>5, <1>9, <2>1
  <2>3. k < i
    BY <1>1, <1>3, <2>2
  <2> QED
    BY <1>1, <1>3, <2>1, <2>3
<1> QED
  BY <1>2, <1>4, <1>5, <1>6, <1>8, <1>9 DEF order, c

\* A replay begins with no row and ends with all.
LEMMA DoneEnds ==
  ASSUME NEW file, DisclosuresOK(file), NEW rows \in SUBSET DOMAIN file
  PROVE  /\ Done(file, rows, 0) = {}
         /\ Done(file, rows, Cardinality(rows)) = rows
<1>1. /\ ByDate(file, rows) \in [1 .. Cardinality(rows) -> rows]
      /\ \A m \in rows : \E i \in 1 .. Cardinality(rows) : ByDate(file, rows)[i] = m
  BY ByDateOrders
<1> QED
  BY <1>1 DEF Done

\* A row that comes after all others decides.
LEMMA LastRowCounts ==
  ASSUME NEW file, DisclosuresOK(file), NEW rows \in SUBSET DOMAIN file, NEW n \in rows,
         \A m \in rows : m # n => Earlier(file, m, n)
  PROVE  LastDisclosed(file, rows) = Disclosed(file[n].bp)
<1> DEFINE InForceAt(k) == \A m \in rows :
                             \/ file[m].date < file[k].date
                             \/ file[m].date = file[k].date /\ m <= k
           last == CHOOSE k \in rows : InForceAt(k)
<1>0. /\ n \in Nat /\ file[n].date \in Nat
      /\ \A m \in rows : m \in Nat /\ file[m].date \in Nat
  BY DEF DisclosuresOK
<1>1. InForceAt(n)
  BY <1>0 DEF Earlier
<1>2. last \in rows /\ InForceAt(last)
  BY <1>1
<1> HIDE DEF last
<1>3. \/ file[n].date < file[last].date
      \/ file[n].date = file[last].date /\ n <= last
  BY <1>2
<1>4. last # n => Earlier(file, last, n)
  BY <1>2
<1>5. last = n
  BY <1>0, <1>2, <1>3, <1>4 DEF Earlier
<1>6. LastDisclosed(file, rows) = IF file[last].bp >= Threshold THEN file[last].bp ELSE 0
  BY DEF LastDisclosed, last
<1> QED
  BY <1>5, <1>6 DEF Disclosed

\* What rows leave is a number.
LEMMA ValueType ==
  ASSUME NEW file, DisclosuresOK(file), NEW rows \in SUBSET DOMAIN file, NEW c
  PROVE  ValueOf(file, rows, c) \in Nat
<1> DEFINE own == RowsOfHolding(file, rows, c)
<1>1. own \in SUBSET DOMAIN file
  BY DEF RowsOfHolding
<1>2. CASE own = {}
  BY <1>2 DEF ValueOf, LastDisclosed
<1>3. CASE own # {}
  <2> DEFINE date == [n \in own |-> file[n].date]
  <2>1. own \in SUBSET Nat /\ \A n \in own : file[n].date \in Nat /\ n \in Nat /\ file[n].bp \in Nat
    BY <1>1 DEF DisclosuresOK
  <2>2. IsFiniteSet(own)
    BY <1>1, ByDateOrders
  <2> HIDE DEF own
  <2>3. DOMAIN date = own /\ \A n \in own : date[n] = file[n].date
    OBVIOUS
  <2>4. Dated(date) /\ DOMAIN date # {}
    BY <1>3, <2>1, <2>2 DEF Dated
  <2> HIDE DEF date
  <2>5. PICK n \in own : \A m \in own : m # n => Before(date, m, n)
    BY <2>3, <2>4, LastInOrder
  <2>6. \A m \in own : m # n => Earlier(file, m, n)
    BY <2>3, <2>5 DEF Before, Earlier
  <2>7. LastDisclosed(file, own) = Disclosed(file[n].bp)
    BY <1>1, <2>5, <2>6, LastRowCounts
  <2> QED
    BY <2>1, <2>7 DEF Disclosed, ValueOf, own
<1> QED
  BY <1>2, <1>3

\* One more row changes the value of its own holding only.
LEMMA ValueChanges ==
  ASSUME NEW file, DisclosuresOK(file), NEW done \in SUBSET DOMAIN file, NEW n \in DOMAIN file,
         \A m \in done : Earlier(file, m, n), NEW c
  PROVE  ValueOf(file, done \union {n}, c) =
           IF file[n].isin = c[1] /\ file[n].holder = c[2]
             THEN Disclosed(file[n].bp) ELSE ValueOf(file, done, c)
<1>1. CASE file[n].isin = c[1] /\ file[n].holder = c[2]
  <2> DEFINE own == RowsOfHolding(file, done \union {n}, c)
  <2>1. /\ own \in SUBSET DOMAIN file /\ n \in own
        /\ \A m \in own : m # n => Earlier(file, m, n)
    BY <1>1 DEF RowsOfHolding
  <2> HIDE DEF own
  <2>2. LastDisclosed(file, own) = Disclosed(file[n].bp)
    BY <2>1, LastRowCounts
  <2> QED
    BY <1>1, <2>2 DEF own, ValueOf
<1>2. CASE ~(file[n].isin = c[1] /\ file[n].holder = c[2])
  <2>1. RowsOfHolding(file, done \union {n}, c) = RowsOfHolding(file, done, c)
    BY <1>2 DEF RowsOfHolding
  <2> QED
    BY <1>2, <2>1 DEF ValueOf
<1> QED
  BY <1>1, <1>2

\* The replay of one ISIN goes from row to row.
LEMMA SeriesReplayedByRow ==
  ASSUME NEW file, NEW isin, Cardinality(NamedRows(file, isin)) \in Nat
  PROVE  \A n \in 0 .. Cardinality(NamedRows(file, isin)) :
           SeriesReplayed(file, isin)[n] =
             IF n = 0 THEN UndisclosedSeries(file, isin)
             ELSE ReplaySeries(SeriesReplayed(file, isin)[n - 1],
                               file[ByDate(file, NamedRows(file, isin))[n]])
<1> DEFINE Next(acc, k) == ReplaySeries(acc, file[ByDate(file, NamedRows(file, isin))[k]])
           Steps(f, n) ==
             f = [k \in 0 .. n |-> IF k = 0 THEN UndisclosedSeries(file, isin)
                                   ELSE Next(f[k - 1], k)]
           P(n) == \E f : Steps(f, n)
           Bad == {n \in Nat : ~P(n)}
<1>1. P(0)
  <2>1. Steps([k \in 0 .. 0 |-> UndisclosedSeries(file, isin)], 0)
    OBVIOUS
  <2> QED
    BY <2>1
<1>2. ASSUME NEW n \in Nat, P(n) PROVE P(n + 1)
  <2>1. PICK f : Steps(f, n)
    BY <1>2
  <2> DEFINE g == [k \in 0 .. n + 1 |->
                     IF k = n + 1 THEN Next(f[n], n + 1) ELSE f[k]]
  <2>2. ASSUME NEW k \in 0 .. n + 1
        PROVE  g[k] = IF k = 0 THEN UndisclosedSeries(file, isin)
                      ELSE Next(g[k - 1], k)
    <3>1. CASE k = n + 1
      <4>1. k - 1 = n /\ n \in 0 .. n + 1 /\ n # n + 1 /\ k # 0
        BY <3>1
      <4>2. g[k - 1] = f[n]
        BY <4>1
      <4> QED
        BY <3>1, <4>1, <4>2
    <3>2. CASE k # n + 1
      <4>1. k \in 0 .. n /\ g[k] = f[k]
        BY <3>2
      <4>2. k # 0 => k - 1 \in 0 .. n + 1 /\ k - 1 # n + 1
        BY <4>1
      <4>3. k # 0 => g[k - 1] = f[k - 1]
        BY <4>2
      <4> QED
        BY <2>1, <4>1, <4>3
    <3> QED
      BY <3>1, <3>2
  <2>3. Steps(g, n + 1)
    BY <2>2
  <2> QED
    BY <2>3
<1> HIDE DEF P
<1>3. Bad = {}
  <2> SUFFICES ASSUME Bad # {} PROVE FALSE
    OBVIOUS
  <2>1. PICK n \in Bad : \A m \in Bad : n <= m
    BY LeastNumber
  <2>2. n - 1 \in Nat /\ n - 1 \notin Bad
    BY <1>1, <2>1
  <2>3. P((n - 1) + 1) /\ (n - 1) + 1 = n
    BY <1>2, <2>1, <2>2
  <2> QED
    BY <2>3
<1>4. P(Cardinality(NamedRows(file, isin)))
  BY <1>3
<1>5. Steps(SeriesReplayed(file, isin), Cardinality(NamedRows(file, isin)))
  BY <1>4 DEF P, SeriesReplayed
<1> QED
  BY <1>5

\* The replay of all named disclosures goes from row to row.
LEMMA ReplayedByRow ==
  ASSUME NEW file, NEW issuers, Len(file) \in Nat
  PROVE  \A n \in 0 .. Len(file) :
           Replayed(file, issuers)[n] =
             IF n = 0 THEN Undisclosed(file, issuers)
             ELSE Replay(Replayed(file, issuers)[n - 1], file[ByDate(file, DOMAIN file)[n]],
                         issuers[ByDate(file, DOMAIN file)[n]])
<1> DEFINE Next(acc, k) == Replay(acc, file[ByDate(file, DOMAIN file)[k]],
                                  issuers[ByDate(file, DOMAIN file)[k]])
           Steps(f, n) ==
             f = [k \in 0 .. n |-> IF k = 0 THEN Undisclosed(file, issuers)
                                   ELSE Next(f[k - 1], k)]
           P(n) == \E f : Steps(f, n)
           Bad == {n \in Nat : ~P(n)}
<1>1. P(0)
  <2>1. Steps([k \in 0 .. 0 |-> Undisclosed(file, issuers)], 0)
    OBVIOUS
  <2> QED
    BY <2>1
<1>2. ASSUME NEW n \in Nat, P(n) PROVE P(n + 1)
  <2>1. PICK f : Steps(f, n)
    BY <1>2
  <2> DEFINE g == [k \in 0 .. n + 1 |->
                     IF k = n + 1 THEN Next(f[n], n + 1) ELSE f[k]]
  <2>2. ASSUME NEW k \in 0 .. n + 1
        PROVE  g[k] = IF k = 0 THEN Undisclosed(file, issuers)
                      ELSE Next(g[k - 1], k)
    <3>1. CASE k = n + 1
      <4>1. k - 1 = n /\ n \in 0 .. n + 1 /\ n # n + 1 /\ k # 0
        BY <3>1
      <4>2. g[k - 1] = f[n]
        BY <4>1
      <4> QED
        BY <3>1, <4>1, <4>2
    <3>2. CASE k # n + 1
      <4>1. k \in 0 .. n /\ g[k] = f[k]
        BY <3>2
      <4>2. k # 0 => k - 1 \in 0 .. n + 1 /\ k - 1 # n + 1
        BY <4>1
      <4>3. k # 0 => g[k - 1] = f[k - 1]
        BY <4>2
      <4> QED
        BY <2>1, <4>1, <4>3
    <3> QED
      BY <3>1, <3>2
  <2>3. Steps(g, n + 1)
    BY <2>2
  <2> QED
    BY <2>3
<1> HIDE DEF P
<1>3. Bad = {}
  <2> SUFFICES ASSUME Bad # {} PROVE FALSE
    OBVIOUS
  <2>1. PICK n \in Bad : \A m \in Bad : n <= m
    BY LeastNumber
  <2>2. n - 1 \in Nat /\ n - 1 \notin Bad
    BY <1>1, <2>1
  <2>3. P((n - 1) + 1) /\ (n - 1) + 1 = n
    BY <1>2, <2>1, <2>2
  <2> QED
    BY <2>3
<1>4. P(Len(file))
  BY <1>3
<1>5. Steps(Replayed(file, issuers), Len(file))
  BY <1>4 DEF P, Replayed
<1> QED
  BY <1>5

\* What the holders of an ISIN have disclosed in some rows.
HoldersOf(file, isin) == {file[n].holder : n \in NamedRows(file, isin)}
HolderValues(file, rows, isin) ==
  [h \in HoldersOf(file, isin) |-> ValueOf(file, rows, <<isin, h>>)]

\* A finite set of rows has finitely many values.
LEMMA ValuesAreFinite ==
  ASSUME NEW f, IsFiniteSet(DOMAIN f) PROVE IsFiniteSet({f[n] : n \in DOMAIN f})
<1> DEFINE T == {f[n] : n \in DOMAIN f}
           g == [n \in DOMAIN f |-> f[n]]
<1>1. g \in Surjection(DOMAIN f, T)
  BY DEF Surjection
<1> HIDE DEF g, T
<1>2. IsFiniteSet(T)
  BY <1>1, FS_Surjection
<1> QED
  BY <1>2 DEF T

\* The replay of one ISIN after the rows that are done.
SeriesOK(file, isin, acc, done) ==
  /\ acc.state = HolderValues(file, done, isin)
  /\ DOMAIN acc.points = {file[n].date : n \in NamedRows(file, isin)}
  /\ \A n \in done : acc.points[file[n].date].bp =
       SumFunction(HolderValues(file, done \intersect Until(file, file[n].date), isin))

\* The invariant of the replay of one ISIN is kept by every row.
LEMMA SeriesStep ==
  ASSUME NEW file, DisclosuresOK(file), NEW isin,
         NEW done \in SUBSET NamedRows(file, isin), NEW n \in NamedRows(file, isin),
         \A m \in done : Earlier(file, m, n), NEW acc, SeriesOK(file, isin, acc, done)
  PROVE  SeriesOK(file, isin, ReplaySeries(acc, file[n]), done \union {n})
<1> DEFINE H == HoldersOf(file, isin)
           row == file[n]
           state == [acc.state EXCEPT ![row.holder] = Disclosed(row.bp)]
           point == [bp |-> SumFunction(state),
                     holders |-> Cardinality({h \in DOMAIN state : state[h] > 0}),
                     events |-> acc.points[row.date].events + 1]
           points == [acc.points EXCEPT ![row.date] = point]
           all == done \union {n}
           new == ReplaySeries(acc, row)
<1>0. /\ n \in DOMAIN file /\ row.isin = isin /\ done \in SUBSET DOMAIN file
      /\ row.date \in Nat /\ \A m \in done : file[m].date \in Nat
  BY DEF NamedRows, DisclosuresOK
<1>1. new.state = state /\ new.points = points
  BY DEF ReplaySeries
<1>2. state = HolderValues(file, all, isin)
  <2>1. acc.state = [h \in H |-> ValueOf(file, done, <<isin, h>>)]
    BY DEF SeriesOK, HolderValues
  <2>2. ASSUME NEW h \in H
        PROVE  ValueOf(file, all, <<isin, h>>) =
                 IF h = row.holder THEN Disclosed(row.bp) ELSE ValueOf(file, done, <<isin, h>>)
    BY <1>0, ValueChanges
  <2> HIDE DEF H, row, all
  <2>3. state = [h \in H |-> IF h = row.holder THEN Disclosed(row.bp)
                                               ELSE ValueOf(file, done, <<isin, h>>)]
    BY <2>1
  <2>4. HolderValues(file, all, isin) = [h \in H |-> ValueOf(file, all, <<isin, h>>)]
    BY DEF HolderValues, H
  <2> QED
    BY <2>2, <2>3, <2>4
<1>3. DOMAIN points = {file[m].date : m \in NamedRows(file, isin)}
  BY DEF SeriesOK
<1>4. ASSUME NEW m \in all
      PROVE  points[file[m].date].bp =
               SumFunction(HolderValues(file, all \intersect Until(file, file[m].date), isin))
  <2>1. CASE file[m].date = row.date
    <3>1. all \intersect Until(file, file[m].date) = all
      <4>1. \A k \in all : k \in DOMAIN file /\ file[k].date <= row.date
        BY <1>0 DEF Earlier
      <4> QED
        BY <2>1, <4>1 DEF Until
    <3>2. row.date \in DOMAIN acc.points
      BY DEF SeriesOK
    <3>3. points[file[m].date].bp = SumFunction(state)
      <4> HIDE DEF state
      <4>1. points[row.date] = point
        BY <3>2
      <4> QED
        BY <2>1, <4>1
    <3> QED
      BY <1>2, <3>1, <3>3
  <2>2. CASE file[m].date # row.date
    <3>1. m \in done /\ file[m].date < row.date
      BY <2>2 DEF Earlier
    <3>2. all \intersect Until(file, file[m].date) = done \intersect Until(file, file[m].date)
      BY <1>0, <3>1 DEF Until
    <3>3. points[file[m].date] = acc.points[file[m].date]
      <4> HIDE DEF point
      <4>1. file[m].date \in DOMAIN acc.points
        BY <3>1 DEF SeriesOK
      <4> QED
        BY <2>2, <4>1
    <3>4. acc.points[file[m].date].bp =
            SumFunction(HolderValues(file, done \intersect Until(file, file[m].date), isin))
      BY <3>1 DEF SeriesOK
    <3> QED
      BY <3>2, <3>3, <3>4
  <2> QED
    BY <2>1, <2>2
<1> HIDE DEF points, state, all, new
<1> QED
  BY <1>1, <1>2, <1>3, <1>4 DEF SeriesOK, all, new

\* It holds before the first row.
LEMMA SeriesBegins ==
  ASSUME NEW file, NEW isin
  PROVE  SeriesOK(file, isin, UndisclosedSeries(file, isin), {})
<1>1. \A h \in HoldersOf(file, isin) : ValueOf(file, {}, <<isin, h>>) = 0
  BY DEF ValueOf, RowsOfHolding, LastDisclosed
<1>2. HolderValues(file, {}, isin) = [h \in HoldersOf(file, isin) |-> 0]
  BY <1>1 DEF HolderValues
<1> QED
  BY <1>2 DEF SeriesOK, UndisclosedSeries, HoldersOf

\* Every point of an exported series is the sum of what the holders of its
\* ISIN have disclosed up to its date.
LEMMA SeriesShowsDisclosed ==
  ASSUME NEW file, DisclosuresOK(file), NEW isin
  PROVE  LET series == LegacySeries(file, isin) IN
         /\ DOMAIN series = {file[n].date : n \in NamedRows(file, isin)}
         /\ \A d \in DOMAIN series :
              series[d].bp = SumFunction(HolderValues(file, Until(file, d), isin))
<1> DEFINE rows == NamedRows(file, isin)
           c == Cardinality(rows)
           acc(k) == SeriesReplayed(file, isin)[k]
           done(k) == Done(file, rows, k)
           OK(k) == SeriesOK(file, isin, acc(k), done(k))
           Bad == {k \in 0 .. c : ~OK(k)}
<1>0. rows \in SUBSET DOMAIN file
  BY DEF NamedRows
<1>1. c \in Nat
  BY <1>0, ByDateOrders
<1>2. OK(0)
  <2>1. acc(0) = UndisclosedSeries(file, isin)
    BY <1>1, SeriesReplayedByRow
  <2>2. done(0) = {}
    BY <1>0, DoneEnds
  <2> QED
    BY <2>1, <2>2, SeriesBegins
<1>3. ASSUME NEW k \in 1 .. c, OK(k - 1) PROVE OK(k)
  <2> DEFINE n == ByDate(file, rows)[k]
  <2>1. /\ n \in rows /\ done(k - 1) \subseteq rows /\ done(k) = done(k - 1) \union {n}
        /\ \A m \in done(k - 1) : Earlier(file, m, n)
    BY <1>0, DoneGrows
  <2>2. acc(k) = ReplaySeries(acc(k - 1), file[n])
    BY <1>1, SeriesReplayedByRow
  <2> HIDE DEF n, acc, done, rows
  <2>3. SeriesOK(file, isin, ReplaySeries(acc(k - 1), file[n]), done(k - 1) \union {n})
    BY <1>3, <2>1, SeriesStep DEF rows
  <2> QED
    BY <2>1, <2>2, <2>3
<1> HIDE DEF OK, c
<1>4. Bad = {}
  <2> SUFFICES ASSUME Bad # {} PROVE FALSE
    OBVIOUS
  <2>1. PICK k \in Bad : \A m \in Bad : k <= m
    <3>1. Bad \in SUBSET Nat /\ Bad # {}
      BY <1>1
    <3> HIDE DEF Bad
    <3> QED
      BY <3>1, LeastNumber
  <2>2. k \in 1 .. c /\ k - 1 \in 0 .. c
    BY <1>1, <1>2, <2>1
  <2>3. k - 1 \notin Bad
    BY <1>1, <2>1, <2>2
  <2> QED
    BY <1>3, <2>1, <2>2, <2>3
<1>5. OK(c)
  BY <1>1, <1>4
<1>6. done(c) = rows
  BY <1>0, DoneEnds DEF c
<1>7. acc(c).points = LegacySeries(file, isin)
  BY DEF c, LegacySeries
<1> HIDE DEF rows, acc, done
<1>8. SeriesOK(file, isin, acc(c), rows)
  BY <1>5, <1>6 DEF OK
<1>9. ASSUME NEW d PROVE HolderValues(file, rows \intersect Until(file, d), isin)
                           = HolderValues(file, Until(file, d), isin)
  <2>1. ASSUME NEW h
        PROVE  RowsOfHolding(file, rows \intersect Until(file, d), <<isin, h>>)
                 = RowsOfHolding(file, Until(file, d), <<isin, h>>)
    BY DEF RowsOfHolding, Until, rows, NamedRows
  <2> QED
    BY <2>1 DEF HolderValues, ValueOf
<1>10. /\ DOMAIN acc(c).points = {file[n].date : n \in rows}
       /\ \A n \in rows : acc(c).points[file[n].date].bp =
            SumFunction(HolderValues(file, rows \intersect Until(file, file[n].date), isin))
  BY <1>8 DEF SeriesOK, rows
<1>11. \A n \in rows : acc(c).points[file[n].date].bp =
          SumFunction(HolderValues(file, Until(file, file[n].date), isin))
  BY <1>9, <1>10
<1> QED
  BY <1>7, <1>10, <1>11 DEF rows

\* The sum in force on a day, after the last point or before the first.
LEMMA SeriesAtIsDisclosed ==
  ASSUME NEW file, DisclosuresOK(file), NEW isin, NEW date \in Nat
  PROVE  SeriesAt(LegacySeries(file, isin), date)
           = SumFunction(HolderValues(file, Until(file, date), isin))
<1> DEFINE series == LegacySeries(file, isin)
           days == {file[n].date : n \in NamedRows(file, isin)}
           past == {d \in DOMAIN series : d <= date}
           values(d) == HolderValues(file, Until(file, d), isin)
<1>1. /\ DOMAIN series = days
      /\ \A d \in days : series[d].bp = SumFunction(values(d))
  BY SeriesShowsDisclosed
<1>2. days \in SUBSET Nat
  BY DEF NamedRows, DisclosuresOK
<1>3. CASE past = {}
  <2>1. SeriesAt(series, date) = 0
    BY <1>3 DEF SeriesAt
  <2>2. \A n \in NamedRows(file, isin) : n \notin Until(file, date)
    BY <1>1, <1>3 DEF Until
  <2>3. \A h \in HoldersOf(file, isin) : values(date)[h] = 0
    <3>1. ASSUME NEW h \in HoldersOf(file, isin)
          PROVE  RowsOfHolding(file, Until(file, date), <<isin, h>>) = {}
      BY <2>2 DEF RowsOfHolding, Until, NamedRows
    <3> QED
      BY <3>1 DEF HolderValues, ValueOf, LastDisclosed
  <2>4. DOMAIN values(date) = HoldersOf(file, isin) /\ IsFiniteSet(HoldersOf(file, isin))
    <3>0. NamedRows(file, isin) \in SUBSET DOMAIN file
      BY DEF NamedRows
    <3>1. IsFiniteSet(NamedRows(file, isin))
      BY <3>0, ByDateOrders
    <3> DEFINE holder == [n \in NamedRows(file, isin) |-> file[n].holder]
    <3>2. /\ DOMAIN holder = NamedRows(file, isin)
          /\ {holder[n] : n \in DOMAIN holder} = HoldersOf(file, isin)
      BY DEF HoldersOf
    <3> HIDE DEF holder
    <3>3. IsFiniteSet(HoldersOf(file, isin))
      BY <3>1, <3>2, ValuesAreFinite
    <3> QED
      BY <3>3 DEF HolderValues
  <2> HIDE DEF values
  <2>5. SumFunctionOnSet(values(date), HoldersOf(file, isin)) = 0
    BY <2>3, <2>4, SumOfZeros
  <2> QED
    BY <2>1, <2>4, <2>5 DEF SumFunction, values
<1>4. CASE past # {}
  <2> DEFINE last == CHOOSE d \in past : \A e \in past : e <= d
             gaps == {date - d : d \in past}
  <2>1. \E d \in past : \A e \in past : e <= d
    <3>1. past \in SUBSET Nat /\ \A d \in past : d <= date
      BY <1>1, <1>2
    <3> HIDE DEF past
    <3>2. gaps \in SUBSET Nat /\ gaps # {}
      <4>1. \A d \in past : date - d \in Nat
        BY <3>1
      <4> QED
        BY <1>4, <4>1
    <3> DEFINE G == gaps
    <3>3. \E g \in G : \A k \in G : g <= k
      <4> HIDE DEF gaps
      <4> QED
        BY <3>2, LeastNumber
    <3>4. PICK d \in past : \A k \in G : date - d <= k
      BY <3>3
    <3>5. \A e \in past : e <= d
      <4> SUFFICES ASSUME NEW e \in past PROVE e <= d
        OBVIOUS
      <4>1. date - d <= date - e
        BY <3>4
      <4> QED
        BY <3>1, <4>1
    <3> QED
      BY <3>5
  <2>2. last \in past /\ \A e \in past : e <= last
    BY <2>1
  <2>3. SeriesAt(series, date) = series[last].bp
    BY <1>4 DEF SeriesAt
  <2> HIDE DEF last
  <2>4. last \in days /\ last <= date /\ last \in Nat
    BY <1>1, <1>2, <2>2
  <2>5. ASSUME NEW h \in HoldersOf(file, isin)
        PROVE  RowsOfHolding(file, Until(file, date), <<isin, h>>)
                 = RowsOfHolding(file, Until(file, last), <<isin, h>>)
    <3>1. ASSUME NEW n \in NamedRows(file, isin)
          PROVE  file[n].date <= date <=> file[n].date <= last
      <4>1. file[n].date \in days /\ file[n].date \in Nat
        BY <1>2
      <4>2. file[n].date <= date => file[n].date <= last
        BY <1>1, <2>2, <4>1
      <4> QED
        BY <2>4, <4>1, <4>2
    <3> QED
      BY <3>1 DEF RowsOfHolding, Until, NamedRows
  <2>6. values(date) = values(last)
    BY <2>5 DEF HolderValues, ValueOf
  <2> QED
    BY <1>1, <2>3, <2>4, <2>6
<1> QED
  BY <1>3, <1>4

\* The issuer of a row is that of its ISIN.
IssuersOK(file, issuers) ==
  /\ DOMAIN issuers = DOMAIN file
  /\ \A m, n \in DOMAIN file : file[m].isin = file[n].isin => issuers[m] = issuers[n]

\* The holdings of an issuer, and what some rows leave of them.
IssuersIn(issuers) == {issuers[n] : n \in DOMAIN issuers}
RowsOfIssuer(issuers, i) == {n \in DOMAIN issuers : issuers[n] = i}
HoldingOf(row) == <<row.isin, row.holder>>
HoldingsOf(file, issuers, i) == {HoldingOf(file[n]) : n \in RowsOfIssuer(issuers, i)}
HoldingValues(file, issuers, i, rows) ==
  [c \in HoldingsOf(file, issuers, i) |-> ValueOf(file, rows, c)]
TotalOf(file, issuers, i, rows) == SumFunction(HoldingValues(file, issuers, i, rows))
HeldIn(file, issuers, i, rows) ==
  {c \in HoldingsOf(file, issuers, i) : ValueOf(file, rows, c) > 0}

\* An issuer has finitely many holdings.
LEMMA HoldingsAreFinite ==
  ASSUME NEW file, DisclosuresOK(file), NEW issuers, IssuersOK(file, issuers), NEW i
  PROVE  IsFiniteSet(HoldingsOf(file, issuers, i))
<1> DEFINE rows == RowsOfIssuer(issuers, i)
           f == [n \in rows |-> HoldingOf(file[n])]
<1>1. rows \in SUBSET DOMAIN file
  BY DEF RowsOfIssuer, IssuersOK
<1>2. IsFiniteSet(rows)
  BY <1>1, ByDateOrders
<1>3. DOMAIN f = rows /\ {f[n] : n \in DOMAIN f} = HoldingsOf(file, issuers, i)
  BY DEF HoldingsOf
<1> HIDE DEF f
<1> QED
  BY <1>2, <1>3, ValuesAreFinite

\* One more row: the total and the number of holdings of its issuer change by
\* what its own holding had and has, and those of other issuers do not.
LEMMA TotalChanges ==
  ASSUME NEW file, DisclosuresOK(file), NEW issuers, IssuersOK(file, issuers),
         NEW done \in SUBSET DOMAIN file, NEW n \in DOMAIN file,
         \A m \in done : Earlier(file, m, n), NEW j
  PROVE  LET old == ValueOf(file, done, HoldingOf(file[n]))
             new == Disclosed(file[n].bp)
             all == done \union {n}
         IN  /\ TotalOf(file, issuers, j, all) =
                  IF j = issuers[n] THEN TotalOf(file, issuers, j, done) - old + new
                  ELSE TotalOf(file, issuers, j, done)
             /\ Cardinality(HeldIn(file, issuers, j, all)) =
                  IF j = issuers[n]
                    THEN Cardinality(HeldIn(file, issuers, j, done))
                           - (IF old > 0 THEN 1 ELSE 0) + (IF new > 0 THEN 1 ELSE 0)
                    ELSE Cardinality(HeldIn(file, issuers, j, done))
<1> DEFINE own == HoldingOf(file[n])
           old == ValueOf(file, done, own)
           new == Disclosed(file[n].bp)
           all == done \union {n}
           C == HoldingsOf(file, issuers, j)
           f == HoldingValues(file, issuers, j, done)
           e == HoldingValues(file, issuers, j, all)
           A == HeldIn(file, issuers, j, done)
           B == HeldIn(file, issuers, j, all)
<1>0. IsFiniteSet(C)
  BY HoldingsAreFinite
<1>1. all \in SUBSET DOMAIN file /\ own = <<file[n].isin, file[n].holder>>
  BY DEF HoldingOf
<1>2. \A c \in C : ValueOf(file, done, c) \in Nat /\ ValueOf(file, all, c) \in Nat
  BY <1>1, ValueType
<1>3. ASSUME NEW c \in C
      PROVE  ValueOf(file, all, c) = IF c = own THEN new ELSE ValueOf(file, done, c)
  <2>1. ValueOf(file, all, c) =
          IF file[n].isin = c[1] /\ file[n].holder = c[2] THEN new ELSE ValueOf(file, done, c)
    BY ValueChanges
  <2>2. c = <<c[1], c[2]>>
    BY DEF HoldingsOf, HoldingOf
  <2>3. c = own <=> file[n].isin = c[1] /\ file[n].holder = c[2]
    BY <1>1, <2>2
  <2> HIDE DEF new, own, all
  <2> QED
    BY <2>1, <2>3
<1>4. own \in C <=> j = issuers[n]
  <2>1. ASSUME own \in C PROVE j = issuers[n]
    <3>1. PICK m \in DOMAIN issuers : issuers[m] = j /\ own = HoldingOf(file[m])
      BY <2>1 DEF HoldingsOf, RowsOfIssuer
    <3>2. file[m].isin = file[n].isin
      BY <3>1 DEF HoldingOf
    <3> QED
      BY <3>1, <3>2 DEF IssuersOK
  <2>2. ASSUME j = issuers[n] PROVE own \in C
    BY <2>2 DEF HoldingsOf, RowsOfIssuer, IssuersOK
  <2> QED
    BY <2>1, <2>2
<1>5. old \in Nat /\ new \in Nat
  <2>1. old \in Nat
    BY ValueType
  <2>2. file[n].bp \in Nat
    BY DEF DisclosuresOK
  <2> QED
    BY <2>1, <2>2 DEF Disclosed
<1>6. /\ DOMAIN f = C /\ DOMAIN e = C
      /\ \A c \in C : f[c] = ValueOf(file, done, c) /\ e[c] = ValueOf(file, all, c)
  BY DEF HoldingValues
<1>7. /\ TotalOf(file, issuers, j, done) = SumFunctionOnSet(f, C)
      /\ TotalOf(file, issuers, j, all) = SumFunctionOnSet(e, C)
  BY <1>6 DEF TotalOf, SumFunction
<1>8. /\ A = {c \in C : ValueOf(file, done, c) > 0}
      /\ B = {c \in C : ValueOf(file, all, c) > 0}
  BY DEF HeldIn
<1>9. IsFiniteSet(A) /\ Cardinality(A) \in Nat
  BY <1>0, <1>8, FS_Subset, FS_CardinalityType
<1>10. old = ValueOf(file, done, own)
  OBVIOUS
<1> HIDE DEF C, f, e, A, B, own, old, new, all
<1>11. CASE j # issuers[n]
  <2>1. \A c \in C : ValueOf(file, all, c) = ValueOf(file, done, c)
    BY <1>3, <1>4, <1>11
  <2>2. SumFunctionOnSet(e, C) = SumFunctionOnSet(f, C)
    BY <1>0, <1>6, <2>1, SumSame
  <2>3. A = B
    BY <1>8, <2>1
  <2> QED
    BY <1>7, <1>11, <2>2, <2>3 DEF A, B, all
<1>12. CASE j = issuers[n]
  <2>0. own \in C
    BY <1>4, <1>12
  <2>1. /\ \A c \in C : f[c] \in Int
        /\ e[own] \in Int /\ e[own] = new /\ f[own] = old
        /\ \A c \in C \ {own} : e[c] = f[c]
    BY <1>2, <1>3, <1>5, <1>6, <1>10, <2>0
  <2>2. SumFunctionOnSet(e, C) = SumFunctionOnSet(f, C) - old + new
    BY <1>0, <2>0, <2>1, SumChanges
  <2>3. own \in A <=> old > 0
    BY <1>8, <1>10, <2>0
  <2>4. B = IF new > 0 THEN A \union {own} ELSE A \ {own}
    BY <1>3, <1>8, <2>0
  <2>5. /\ Cardinality(A \union {own}) = IF own \in A THEN Cardinality(A) ELSE Cardinality(A) + 1
        /\ Cardinality(A \ {own}) = IF own \in A THEN Cardinality(A) - 1 ELSE Cardinality(A)
    BY <1>9, FS_AddElement, FS_RemoveElement
  <2>6. Cardinality(B) = Cardinality(A) - (IF old > 0 THEN 1 ELSE 0) + (IF new > 0 THEN 1 ELSE 0)
    <3>1. CASE new > 0
      BY <1>9, <2>3, <2>4, <2>5, <3>1
    <3>2. CASE ~(new > 0)
      BY <1>9, <2>3, <2>4, <2>5, <3>2
    <3> QED
      BY <3>1, <3>2
  <2> QED
    BY <1>7, <1>12, <2>2, <2>6 DEF A, B, all, old, new, own
<1> QED
  BY <1>11, <1>12

\* The points given out stand for the days of some rows, one for every day and
\* issuer, and show what its holdings had left by the end of that day.
PointsOK(file, issuers, points, rows) ==
  /\ \A p \in points :
       /\ \E n \in rows : p.issuer = issuers[n] /\ p.date = file[n].date
       /\ p.bp = TotalOf(file, issuers, p.issuer, Until(file, p.date))
       /\ p.holders = Cardinality(HeldIn(file, issuers, p.issuer, Until(file, p.date)))
  /\ \A n \in rows : \E p \in points : p.issuer = issuers[n] /\ p.date = file[n].date

\* The replay of all named disclosures after the rows that are done.
AggregateOK(file, issuers, acc, done) ==
  /\ acc.date \in Nat
  /\ acc.date = 0 \/ \E m \in done : file[m].date = acc.date
  /\ \A m \in done : file[m].date <= acc.date
  /\ DOMAIN acc.state = {Key(issuers[n], file[n]) : n \in DOMAIN file}
  /\ \A n \in DOMAIN file :
       acc.state[Key(issuers[n], file[n])] = ValueOf(file, done, HoldingOf(file[n]))
  /\ acc.total = [i \in IssuersIn(issuers) |-> TotalOf(file, issuers, i, done)]
  /\ acc.holders = [i \in IssuersIn(issuers) |-> Cardinality(HeldIn(file, issuers, i, done))]
  /\ acc.touched \in [IssuersIn(issuers) -> Nat]
  /\ \A i \in IssuersIn(issuers) :
       acc.touched[i] > 0 <=> \E m \in done : issuers[m] = i /\ file[m].date = acc.date
  /\ PointsOK(file, issuers, acc.points, {m \in done : file[m].date < acc.date})

\* When the rows that are left have later dates, the points are complete.
LEMMA FlushIsComplete ==
  ASSUME NEW file, DisclosuresOK(file), NEW issuers, IssuersOK(file, issuers),
         NEW done \in SUBSET DOMAIN file, NEW acc, AggregateOK(file, issuers, acc, done),
         \A m \in DOMAIN file \ done : acc.date < file[m].date
  PROVE  PointsOK(file, issuers, Flush(acc), done)
<1> DEFINE Ids == IssuersIn(issuers)
           before == {m \in done : file[m].date < acc.date}
           Point(i) == [issuer |-> i, date |-> acc.date, bp |-> acc.total[i],
                        holders |-> acc.holders[i], events |-> acc.touched[i]]
           touched == {i \in Ids : acc.touched[i] > 0}
<1>1. /\ DOMAIN acc.touched = Ids
      /\ \A i \in Ids :
           /\ acc.total[i] = TotalOf(file, issuers, i, done)
           /\ acc.holders[i] = Cardinality(HeldIn(file, issuers, i, done))
           /\ acc.touched[i] > 0 <=> \E m \in done : issuers[m] = i /\ file[m].date = acc.date
      /\ PointsOK(file, issuers, acc.points, before)
      /\ acc.date \in Nat /\ \A m \in done : file[m].date <= acc.date
  BY DEF AggregateOK
<1>2. \A m \in DOMAIN file : file[m].date \in Nat
  BY DEF DisclosuresOK
<1>3. Until(file, acc.date) = done
  BY <1>1, <1>2 DEF Until
<1>4. Flush(acc) = acc.points \union {Point(i) : i \in touched}
  BY <1>1 DEF Flush
<1>5. ASSUME NEW p \in Flush(acc)
      PROVE  /\ \E n \in done : p.issuer = issuers[n] /\ p.date = file[n].date
             /\ p.bp = TotalOf(file, issuers, p.issuer, Until(file, p.date))
             /\ p.holders = Cardinality(HeldIn(file, issuers, p.issuer, Until(file, p.date)))
  <2>1. CASE p \in acc.points
    BY <1>1, <2>1 DEF PointsOK
  <2>2. CASE p \notin acc.points
    <3>1. PICK i \in touched : p = Point(i)
      BY <1>4, <2>2
    <3>2. /\ p.issuer = i /\ p.date = acc.date
          /\ p.bp = acc.total[i] /\ p.holders = acc.holders[i]
      BY <3>1
    <3>3. i \in Ids /\ \E m \in done : issuers[m] = i /\ file[m].date = acc.date
      BY <1>1, <3>1
    <3> QED
      BY <1>1, <1>3, <3>2, <3>3
  <2> QED
    BY <2>1, <2>2
<1>6. ASSUME NEW n \in done
      PROVE  \E p \in Flush(acc) : p.issuer = issuers[n] /\ p.date = file[n].date
  <2>1. CASE file[n].date < acc.date
    <3>1. PICK p \in acc.points : p.issuer = issuers[n] /\ p.date = file[n].date
      BY <1>1, <2>1 DEF PointsOK
    <3> QED
      BY <1>4, <3>1
  <2>2. CASE file[n].date = acc.date
    <3>1. issuers[n] \in Ids
      BY DEF IssuersIn, IssuersOK
    <3>2. issuers[n] \in touched
      BY <1>1, <2>2, <3>1
    <3>3. Point(issuers[n]) \in Flush(acc)
      BY <1>4, <3>2
    <3>4. Point(issuers[n]).issuer = issuers[n] /\ Point(issuers[n]).date = file[n].date
      BY <2>2
    <3> HIDE DEF Point
    <3> QED
      BY <3>3, <3>4
  <2>3. file[n].date < acc.date \/ file[n].date = acc.date
    BY <1>1, <1>2
  <2> QED
    BY <2>1, <2>2, <2>3
<1> QED
  BY <1>5, <1>6 DEF PointsOK

\* The invariant of the replay holds before the first row.
LEMMA AggregateBegins ==
  ASSUME NEW file, DisclosuresOK(file), NEW issuers, IssuersOK(file, issuers)
  PROVE  AggregateOK(file, issuers, Undisclosed(file, issuers), {})
<1> DEFINE acc == Undisclosed(file, issuers)
           Ids == IssuersIn(issuers)
<1>0. ToSet(issuers) = Ids
  BY DEF ToSet, IssuersIn
<1>1. /\ acc.date = 0 /\ acc.points = {}
      /\ acc.state = [k \in {Key(issuers[n], file[n]) : n \in DOMAIN file} |-> 0]
      /\ acc.total = [i \in Ids |-> 0] /\ acc.holders = [i \in Ids |-> 0]
      /\ acc.touched = [i \in Ids |-> 0]
  BY <1>0 DEF Undisclosed
<1>2. \A c : ValueOf(file, {}, c) = 0
  BY DEF ValueOf, RowsOfHolding, LastDisclosed
<1>3. ASSUME NEW i PROVE TotalOf(file, issuers, i, {}) = 0
  <2> DEFINE f == HoldingValues(file, issuers, i, {})
             C == HoldingsOf(file, issuers, i)
  <2>1. DOMAIN f = C /\ \A c \in C : f[c] = 0
    BY <1>2 DEF HoldingValues
  <2>2. IsFiniteSet(C)
    BY HoldingsAreFinite
  <2>3. TotalOf(file, issuers, i, {}) = SumFunctionOnSet(f, C)
    BY <2>1 DEF TotalOf, SumFunction
  <2> HIDE DEF f, C
  <2> QED
    BY <2>1, <2>2, <2>3, SumOfZeros
<1>4. ASSUME NEW i PROVE Cardinality(HeldIn(file, issuers, i, {})) = 0
  <2>1. HeldIn(file, issuers, i, {}) = {}
    BY <1>2 DEF HeldIn
  <2> QED
    BY <2>1, FS_EmptySet
<1>5. PointsOK(file, issuers, {}, {m \in {} : file[m].date < 0})
  BY DEF PointsOK
<1> HIDE DEF acc, Ids
<1>6. \A n \in DOMAIN file : acc.state[Key(issuers[n], file[n])] = 0
  BY <1>1
<1> QED
  BY <1>1, <1>2, <1>3, <1>4, <1>5, <1>6 DEF AggregateOK, acc, Ids

\* It is kept by every row.
LEMMA AggregateStep ==
  ASSUME NEW file, DisclosuresOK(file), NEW issuers, IssuersOK(file, issuers),
         NEW done \in SUBSET DOMAIN file, NEW n \in DOMAIN file,
         \A m \in done : Earlier(file, m, n),
         \A m \in DOMAIN file \ (done \union {n}) : Earlier(file, n, m),
         NEW acc, AggregateOK(file, issuers, acc, done)
  PROVE  AggregateOK(file, issuers, Replay(acc, file[n], issuers[n]), done \union {n})
<1> DEFINE row == file[n]
           i == issuers[n]
           k == Key(i, row)
           new == Disclosed(row.bp)
           turn == row.date # acc.date
           Ids == IssuersIn(issuers)
           all == done \union {n}
           next == Replay(acc, row, i)
<1>1. /\ next.date = row.date
      /\ next.state = [acc.state EXCEPT ![k] = new]
      /\ next.total = [acc.total EXCEPT ![i] = @ - acc.state[k] + new]
      /\ next.holders = [acc.holders EXCEPT ![i] =
                           @ - (IF acc.state[k] > 0 THEN 1 ELSE 0) + (IF new > 0 THEN 1 ELSE 0)]
      /\ next.touched = [j \in DOMAIN acc.touched |->
                           (IF turn THEN 0 ELSE acc.touched[j]) + (IF j = i THEN 1 ELSE 0)]
      /\ next.points = IF turn THEN Flush(acc) ELSE acc.points
  BY DEF Replay
<1>2. /\ acc.date \in Nat /\ row.date \in Nat \ {0}
      /\ \A m \in DOMAIN file : file[m].date \in Nat
      /\ \A m \in done : file[m].date <= acc.date /\ file[m].date <= row.date
      /\ acc.date <= row.date
  <2>1. acc.date \in Nat /\ \A m \in DOMAIN file : file[m].date \in Nat /\ file[m].date # 0
    BY DEF AggregateOK, DisclosuresOK
  <2>2. \A m \in done : file[m].date <= row.date
    BY <2>1 DEF Earlier
  <2> QED
    BY <2>1, <2>2 DEF AggregateOK
<1>3. i \in Ids
  BY DEF IssuersIn, IssuersOK
<1>4. acc.state[k] = ValueOf(file, done, HoldingOf(row))
  BY DEF AggregateOK
<1>5. /\ DOMAIN next.state = {Key(issuers[m], file[m]) : m \in DOMAIN file}
      /\ \A m \in DOMAIN file :
           next.state[Key(issuers[m], file[m])] = ValueOf(file, all, HoldingOf(file[m]))
  <2>1. /\ DOMAIN acc.state = {Key(issuers[m], file[m]) : m \in DOMAIN file}
        /\ \A m \in DOMAIN file :
             acc.state[Key(issuers[m], file[m])] = ValueOf(file, done, HoldingOf(file[m]))
    BY DEF AggregateOK
  <2>2. DOMAIN next.state = DOMAIN acc.state
    BY <1>1
  <2>3. ASSUME NEW m \in DOMAIN file
        PROVE  next.state[Key(issuers[m], file[m])] = ValueOf(file, all, HoldingOf(file[m]))
    <3> DEFINE l == Key(issuers[m], file[m])
    <3>1. l = k <=> file[m].holder = row.holder /\ file[m].isin = row.isin
      BY DEF Key, IssuersOK
    <3>2. l \in DOMAIN acc.state
      BY <2>1
    <3>3. next.state[l] = IF l = k THEN new ELSE acc.state[l]
      <4> HIDE DEF l, k, new
      <4> QED
        BY <1>1, <3>2
    <3>4. ValueOf(file, all, HoldingOf(file[m])) =
            IF row.isin = file[m].isin /\ row.holder = file[m].holder
              THEN new ELSE ValueOf(file, done, HoldingOf(file[m]))
      <4>1. HoldingOf(file[m])[1] = file[m].isin /\ HoldingOf(file[m])[2] = file[m].holder
        BY DEF HoldingOf
      <4> QED
        BY <4>1, ValueChanges
    <3> HIDE DEF new, next, all, k, row
    <3> QED
      BY <2>1, <3>1, <3>3, <3>4
  <2> QED
    BY <2>1, <2>2, <2>3
<1>6. /\ next.total = [j \in Ids |-> TotalOf(file, issuers, j, all)]
      /\ next.holders = [j \in Ids |-> Cardinality(HeldIn(file, issuers, j, all))]
  <2> DEFINE old == acc.state[k]
  <2>1. \A j : /\ TotalOf(file, issuers, j, all) =
                    IF j = i THEN TotalOf(file, issuers, j, done) - old + new
                    ELSE TotalOf(file, issuers, j, done)
               /\ Cardinality(HeldIn(file, issuers, j, all)) =
                    IF j = i
                      THEN Cardinality(HeldIn(file, issuers, j, done))
                             - (IF old > 0 THEN 1 ELSE 0) + (IF new > 0 THEN 1 ELSE 0)
                      ELSE Cardinality(HeldIn(file, issuers, j, done))
    BY <1>4, TotalChanges
  <2>2. /\ acc.total = [j \in Ids |-> TotalOf(file, issuers, j, done)]
        /\ acc.holders = [j \in Ids |-> Cardinality(HeldIn(file, issuers, j, done))]
    BY DEF AggregateOK
  <2>3. /\ next.total = [acc.total EXCEPT ![i] = acc.total[i] - old + new]
        /\ next.holders = [acc.holders EXCEPT ![i] =
             acc.holders[i] - (IF old > 0 THEN 1 ELSE 0) + (IF new > 0 THEN 1 ELSE 0)]
    BY <1>1
  <2> HIDE DEF old, new, i, all, next, Ids
  <2>4. next.total = [j \in Ids |-> TotalOf(file, issuers, j, all)]
    <3>1. DOMAIN acc.total = Ids /\ \A j \in Ids : acc.total[j] = TotalOf(file, issuers, j, done)
      BY <2>2
    <3>2. next.total = [j \in Ids |-> IF j = i THEN acc.total[i] - old + new ELSE acc.total[j]]
      BY <2>3, <3>1
    <3>3. \A j \in Ids : (IF j = i THEN acc.total[i] - old + new ELSE acc.total[j])
                          = TotalOf(file, issuers, j, all)
      BY <1>3, <2>1, <3>1
    <3> QED
      BY <3>2, <3>3
  <2>5. next.holders = [j \in Ids |-> Cardinality(HeldIn(file, issuers, j, all))]
    <3> DEFINE was == IF old > 0 THEN 1 ELSE 0
               is == IF new > 0 THEN 1 ELSE 0
    <3>0. next.holders = [acc.holders EXCEPT ![i] = acc.holders[i] - was + is]
      BY <2>3
    <3>1. DOMAIN acc.holders = Ids
          /\ \A j \in Ids : acc.holders[j] = Cardinality(HeldIn(file, issuers, j, done))
      BY <2>2
    <3>4. \A j : Cardinality(HeldIn(file, issuers, j, all)) =
                   IF j = i THEN Cardinality(HeldIn(file, issuers, j, done)) - was + is
                            ELSE Cardinality(HeldIn(file, issuers, j, done))
      BY <2>1
    <3> HIDE DEF was, is
    <3>2. next.holders = [j \in Ids |-> IF j = i THEN acc.holders[i] - was + is ELSE acc.holders[j]]
      BY <3>0, <3>1
    <3>3. \A j \in Ids : (IF j = i THEN acc.holders[i] - was + is ELSE acc.holders[j])
                          = Cardinality(HeldIn(file, issuers, j, all))
      BY <1>3, <3>1, <3>4
    <3> QED
      BY <3>2, <3>3
  <2> QED
    BY <2>4, <2>5
<1>7. /\ acc.touched \in [Ids -> Nat]
      /\ \A j \in Ids :
           acc.touched[j] > 0 <=> \E m \in done : issuers[m] = j /\ file[m].date = acc.date
  BY DEF AggregateOK
<1>8. /\ next.touched \in [Ids -> Nat]
      /\ \A j \in Ids :
           next.touched[j] > 0 <=> \E m \in all : issuers[m] = j /\ file[m].date = row.date
  <2>1. ASSUME NEW j \in Ids
        PROVE  /\ next.touched[j] = (IF turn THEN 0 ELSE acc.touched[j]) + (IF j = i THEN 1 ELSE 0)
               /\ acc.touched[j] \in Nat
    BY <1>1, <1>7
  <2>2. DOMAIN next.touched = Ids /\ next.touched = [j \in Ids |-> next.touched[j]]
    BY <1>1, <1>7
  <2>3. next.touched \in [Ids -> Nat]
    <3>1. \A j \in Ids : next.touched[j] \in Nat
      BY <2>1
    <3> HIDE DEF next
    <3> QED
      BY <2>2, <3>1
  <2>4. ASSUME NEW j \in Ids
        PROVE  next.touched[j] > 0 <=> \E m \in all : issuers[m] = j /\ file[m].date = row.date
    <3>1. CASE j = i
      <4>1. next.touched[j] > 0
        BY <2>1, <3>1
      <4> QED
        BY <3>1, <4>1
    <3>2. CASE j # i
      <4>1. CASE turn
        <5>1. ~(next.touched[j] > 0)
          BY <2>1, <3>2, <4>1
        <5>2. \A m \in done : file[m].date # row.date
          BY <1>2, <4>1
        <5> QED
          BY <3>2, <5>1, <5>2
      <4>2. CASE ~turn
        <5>1. next.touched[j] = acc.touched[j]
          BY <2>1, <3>2, <4>2
        <5> QED
          BY <1>7, <3>2, <4>2, <5>1
      <4> QED
        BY <4>1, <4>2
    <3> QED
      BY <3>1, <3>2
  <2> QED
    BY <2>3, <2>4
<1>9. PointsOK(file, issuers, next.points, {m \in all : file[m].date < row.date})
  <2>1. CASE turn
    <3>1. acc.date < row.date
      BY <1>2, <2>1
    <3>2. \A m \in DOMAIN file \ done : acc.date < file[m].date
      <4> SUFFICES ASSUME NEW m \in DOMAIN file \ done PROVE acc.date < file[m].date
        OBVIOUS
      <4>1. m = n \/ row.date <= file[m].date
        BY <1>2 DEF Earlier
      <4> QED
        BY <1>2, <3>1, <4>1
    <3>3. PointsOK(file, issuers, Flush(acc), done)
      BY <3>2, FlushIsComplete
    <3>4. {m \in all : file[m].date < row.date} = done
      BY <1>2, <3>1
    <3> QED
      BY <1>1, <2>1, <3>3, <3>4
  <2>2. CASE ~turn
    <3>1. {m \in all : file[m].date < row.date} = {m \in done : file[m].date < acc.date}
      BY <1>2, <2>2
    <3> QED
      BY <1>1, <2>2, <3>1 DEF AggregateOK
  <2> QED
    BY <2>1, <2>2
<1>10. /\ next.date \in Nat /\ \E m \in all : file[m].date = next.date
       /\ \A m \in all : file[m].date <= next.date
  BY <1>1, <1>2
<1>11. next.date = row.date
  BY <1>1
<1> HIDE DEF next, all, row, Ids
<1>12. AggregateOK(file, issuers, next, all)
  BY <1>5, <1>6, <1>8, <1>9, <1>10, <1>11 DEF AggregateOK, Ids
<1> QED
  BY <1>12 DEF next, all, row

\* The aggregate has one point for every issuer and day with rows, and each
\* shows what the holdings of the issuer had left by the end of that day.
LEMMA AggregateShowsDisclosed ==
  ASSUME NEW file, DisclosuresOK(file), NEW issuers, IssuersOK(file, issuers)
  PROVE  PointsOK(file, issuers, LegacyAggregate(file, issuers), DOMAIN file)
<1> DEFINE rows == DOMAIN file
           c == Len(file)
           acc(k) == Replayed(file, issuers)[k]
           done(k) == Done(file, rows, k)
           OK(k) == AggregateOK(file, issuers, acc(k), done(k))
           Bad == {k \in 0 .. c : ~OK(k)}
<1>1. c \in Nat /\ Cardinality(rows) = c
  <2>1. c \in Nat /\ c \in Int /\ 1 \in Int /\ rows = 1 .. c
    BY DEF DisclosuresOK
  <2>2. Cardinality(1 .. c) = IF 1 > c THEN 0 ELSE c - 1 + 1
    BY <2>1, FS_Interval
  <2> QED
    BY <2>1, <2>2
<1>2. OK(0)
  <2>1. acc(0) = Undisclosed(file, issuers)
    BY <1>1, ReplayedByRow
  <2>2. done(0) = {}
    BY DoneEnds
  <2> QED
    BY <2>1, <2>2, AggregateBegins
<1>3. ASSUME NEW k \in 1 .. c, OK(k - 1) PROVE OK(k)
  <2> DEFINE n == ByDate(file, rows)[k]
  <2>1. /\ n \in rows /\ done(k - 1) \subseteq rows /\ done(k) = done(k - 1) \union {n}
        /\ \A m \in done(k - 1) : Earlier(file, m, n)
        /\ \A m \in rows \ (done(k - 1) \union {n}) : Earlier(file, n, m)
    BY <1>1, DoneGrows
  <2>2. acc(k) = Replay(acc(k - 1), file[n], issuers[n])
    BY <1>1, ReplayedByRow
  <2> HIDE DEF n, acc, done
  <2>3. AggregateOK(file, issuers, Replay(acc(k - 1), file[n], issuers[n]), done(k - 1) \union {n})
    BY <1>3, <2>1, AggregateStep
  <2> QED
    BY <2>1, <2>2, <2>3
<1> HIDE DEF OK, c
<1>4. Bad = {}
  <2> SUFFICES ASSUME Bad # {} PROVE FALSE
    OBVIOUS
  <2>1. PICK k \in Bad : \A m \in Bad : k <= m
    <3>1. Bad \in SUBSET Nat /\ Bad # {}
      BY <1>1
    <3> HIDE DEF Bad
    <3> QED
      BY <3>1, LeastNumber
  <2>2. k \in 1 .. c /\ k - 1 \in 0 .. c
    BY <1>1, <1>2, <2>1
  <2>3. k - 1 \notin Bad
    BY <1>1, <2>1, <2>2
  <2> QED
    BY <1>3, <2>1, <2>2, <2>3
<1>5. OK(c)
  BY <1>1, <1>4
<1>6. done(c) = rows
  BY <1>1, DoneEnds
<1>7. Flush(acc(c)) = LegacyAggregate(file, issuers)
  BY DEF c, LegacyAggregate
<1> HIDE DEF acc, done
<1>8. AggregateOK(file, issuers, acc(c), rows)
  BY <1>5, <1>6 DEF OK
<1>9. PointsOK(file, issuers, Flush(acc(c)), rows)
  BY <1>8, FlushIsComplete
<1> QED
  BY <1>7, <1>9

\* The total of an issuer is the sum of the series of its ISINs.
LEMMA TotalOfShares ==
  ASSUME NEW file, DisclosuresOK(file), NEW issuers, IssuersOK(file, issuers),
         NEW i, NEW date \in Nat
  PROVE  TotalOf(file, issuers, i, Until(file, date)) =
           SumFunction([x \in {file[n].isin : n \in RowsOfIssuer(issuers, i)} |->
                          SeriesAt(LegacySeries(file, x), date)])
<1> DEFINE rows == RowsOfIssuer(issuers, i)
           S == {file[n].isin : n \in rows}
           H == {file[n].holder : n \in rows}
           P == HoldingsOf(file, issuers, i)
           f == HoldingValues(file, issuers, i, Until(file, date))
           shares == [x \in S |-> SeriesAt(LegacySeries(file, x), date)]
<1>0. rows \in SUBSET DOMAIN file /\ IsFiniteSet(rows)
  <2>1. rows \in SUBSET DOMAIN file
    BY DEF RowsOfIssuer, IssuersOK
  <2> QED
    BY <2>1, ByDateOrders
<1>1. IsFiniteSet(S) /\ IsFiniteSet(H)
  <2> DEFINE isin == [n \in rows |-> file[n].isin]
             holder == [n \in rows |-> file[n].holder]
  <2>1. /\ DOMAIN isin = rows /\ {isin[n] : n \in DOMAIN isin} = S
        /\ DOMAIN holder = rows /\ {holder[n] : n \in DOMAIN holder} = H
    OBVIOUS
  <2> HIDE DEF isin, holder, rows, S, H
  <2> QED
    BY <1>0, <2>1, ValuesAreFinite
<1>2. P \in SUBSET (S \X H)
  BY DEF HoldingsOf, HoldingOf
<1>3. /\ DOMAIN f = P /\ \A c \in P : f[c] = ValueOf(file, Until(file, date), c)
      /\ \A c \in P : f[c] \in Int
  <2>1. Until(file, date) \in SUBSET DOMAIN file
    BY DEF Until
  <2>2. \A c \in P : ValueOf(file, Until(file, date), c) \in Int
    BY <2>1, ValueType
  <2> QED
    BY <2>2 DEF HoldingValues
<1>4. ASSUME NEW x \in S PROVE SumAt(f, P, H, x) = SeriesAt(LegacySeries(file, x), date)
  <2> DEFINE g == HolderValues(file, Until(file, date), x)
             C == HoldersOf(file, x)
             e == ValuesAt(f, H, x)
  <2>1. Seconds(P, H, x) = C
    <3>1. ASSUME NEW h \in Seconds(P, H, x) PROVE h \in C
      <4>1. PICK n \in rows : <<x, h>> = HoldingOf(file[n])
        BY <3>1 DEF Seconds, HoldingsOf
      <4>2. file[n].isin = x /\ file[n].holder = h /\ n \in DOMAIN file
        BY <1>0, <4>1 DEF HoldingOf
      <4> QED
        BY <4>2 DEF HoldersOf, NamedRows
    <3>2. ASSUME NEW h \in C PROVE h \in Seconds(P, H, x)
      <4>1. PICK n \in DOMAIN file : file[n].isin = x /\ file[n].holder = h
        BY <3>2 DEF HoldersOf, NamedRows
      <4>2. PICK m \in rows : file[m].isin = x
        OBVIOUS
      <4>3. n \in rows
        BY <1>0, <4>1, <4>2 DEF RowsOfIssuer, IssuersOK
      <4> QED
        BY <4>1, <4>3 DEF Seconds, HoldingsOf, HoldingOf
    <3> QED
      BY <3>1, <3>2
  <2>2. ASSUME NEW h \in C PROVE e[h] = g[h]
    <3>1. h \in H /\ <<x, h>> \in P
      BY <2>1 DEF Seconds
    <3>2. e[h] = f[<<x, h>>]
      BY <3>1 DEF ValuesAt
    <3>3. g[h] = ValueOf(file, Until(file, date), <<x, h>>)
      BY DEF HolderValues
    <3> QED
      BY <1>3, <3>1, <3>2, <3>3
  <2>3. DOMAIN g = C
    BY DEF HolderValues
  <2>4. IsFiniteSet(C)
    <3>1. C \subseteq H
      BY <2>1 DEF Seconds
    <3> QED
      BY <1>1, <3>1, FS_Subset
  <2>5. SumAt(f, P, H, x) = SumFunctionOnSet(e, C)
    BY <2>1 DEF SumAt
  <2>6. SeriesAt(LegacySeries(file, x), date) = SumFunctionOnSet(g, C)
    BY <2>3, SeriesAtIsDisclosed DEF SumFunction
  <2> HIDE DEF g, C, e
  <2>7. SumFunctionOnSet(e, C) = SumFunctionOnSet(g, C)
    BY <2>2, <2>4, SumSame
  <2> QED
    BY <2>5, <2>6, <2>7
<1>5. [x \in S |-> SumAt(f, P, H, x)] = shares
  BY <1>4
<1>6. TotalOf(file, issuers, i, Until(file, date)) = SumFunctionOnSet(f, P)
  BY <1>3 DEF TotalOf, SumFunction
<1>7. SumFunction(shares) = SumFunctionOnSet(shares, S)
  BY DEF SumFunction
<1> HIDE DEF f, P, S, H, shares
<1>8. SumFunctionOnSet(f, P) = SumFunctionOnSet([x \in S |-> SumAt(f, P, H, x)], S)
  BY <1>1, <1>2, <1>3, SumOfPairs
<1> QED
  BY <1>5, <1>6, <1>7, <1>8 DEF shares, S

\* What the aggregate of the issuers and the series of the ISINs show of a
\* file is what its rows say, and they agree.
LEMMA AggregateAndSeriesAgree ==
  ASSUME NEW file, DisclosuresOK(file), NEW issuers, IssuersOK(file, issuers)
  PROVE  SeriesAgree(file, issuers)
<1> DEFINE Points == LegacyAggregate(file, issuers)
           Rows(i) == {n \in DOMAIN file : issuers[n] = i}
           Days(i) == {file[n].date : n \in Rows(i)}
           Shares(i) == {file[n].isin : n \in Rows(i)}
           Holdings(i) == {<<file[n].isin, file[n].holder>> : n \in Rows(i)}
           Disclosures(p) == [c \in Holdings(p.issuer) |-> DisclosedOn(file, c[1], c[2], p.date)]
<1>1. PointsOK(file, issuers, Points, DOMAIN file)
  BY AggregateShowsDisclosed
<1>2. ASSUME NEW i
      PROVE  RowsOfIssuer(issuers, i) = Rows(i) /\ HoldingsOf(file, issuers, i) = Holdings(i)
  BY DEF RowsOfIssuer, IssuersOK, HoldingsOf, HoldingOf
<1>3. ASSUME NEW p
      PROVE  /\ HoldingValues(file, issuers, p.issuer, Until(file, p.date)) = Disclosures(p)
             /\ HeldIn(file, issuers, p.issuer, Until(file, p.date)) =
                  {c \in Holdings(p.issuer) : Disclosures(p)[c] > 0}
  <2>1. \A c \in Holdings(p.issuer) :
          DisclosedOn(file, c[1], c[2], p.date) = ValueOf(file, Until(file, p.date), c)
    <3> SUFFICES ASSUME NEW c \in Holdings(p.issuer)
                 PROVE  DisclosedOn(file, c[1], c[2], p.date)
                          = ValueOf(file, Until(file, p.date), c)
      OBVIOUS
    <3>1. c = <<c[1], c[2]>>
      OBVIOUS
    <3>2. DisclosedOn(file, c[1], c[2], p.date) = ValueOf(file, Until(file, p.date), <<c[1], c[2]>>)
      BY DisclosedOnIsValue
    <3> QED
      BY <3>1, <3>2
  <2> HIDE DEF Holdings
  <2>2. HoldingsOf(file, issuers, p.issuer) = Holdings(p.issuer)
    BY <1>2
  <2> QED
    BY <2>1, <2>2 DEF HoldingValues, HeldIn
<1>4. ASSUME NEW i PROVE {p.date : p \in {q \in Points : q.issuer = i}} = Days(i)
  <2> HIDE DEF Points
  <2> QED
    BY <1>1 DEF PointsOK
<1>5. ASSUME NEW p \in Points
      PROVE  /\ p.bp = SumFunction(Disclosures(p))
             /\ p.bp = SumFunction([x \in Shares(p.issuer) |->
                                      SeriesAt(LegacySeries(file, x), p.date)])
             /\ p.holders = Cardinality({c \in Holdings(p.issuer) : Disclosures(p)[c] > 0})
  <2>1. /\ p.bp = TotalOf(file, issuers, p.issuer, Until(file, p.date))
        /\ p.holders = Cardinality(HeldIn(file, issuers, p.issuer, Until(file, p.date)))
        /\ p.date \in Nat
    <3>1. \E n \in DOMAIN file : p.date = file[n].date
      BY <1>1 DEF PointsOK
    <3> QED
      BY <1>1, <3>1 DEF PointsOK, DisclosuresOK
  <2>2. p.bp = SumFunction(Disclosures(p))
    BY <1>3, <2>1 DEF TotalOf
  <2>3. TotalOf(file, issuers, p.issuer, Until(file, p.date)) =
          SumFunction([x \in {file[n].isin : n \in RowsOfIssuer(issuers, p.issuer)} |->
                         SeriesAt(LegacySeries(file, x), p.date)])
    BY <2>1, TotalOfShares
  <2>4. {file[n].isin : n \in RowsOfIssuer(issuers, p.issuer)} = Shares(p.issuer)
    BY <1>2
  <2> HIDE DEF Shares, Disclosures, Holdings
  <2>5. p.bp = SumFunction([x \in Shares(p.issuer) |->
                              SeriesAt(LegacySeries(file, x), p.date)])
    BY <2>1, <2>3, <2>4
  <2>6. p.holders = Cardinality({c \in Holdings(p.issuer) : Disclosures(p)[c] > 0})
    BY <1>3, <2>1
  <2> QED
    BY <2>2, <2>5, <2>6
<1> HIDE DEF Points, Days, Disclosures, Shares, Holdings
<1>6. /\ \A i \in ToSet(issuers) : {p.date : p \in {q \in Points : q.issuer = i}} = Days(i)
      /\ \A p \in Points :
           /\ p.bp = SumFunction(Disclosures(p))
           /\ p.bp = SumFunction([x \in Shares(p.issuer) |->
                                    SeriesAt(LegacySeries(file, x), p.date)])
           /\ p.holders = Cardinality({c \in Holdings(p.issuer) : Disclosures(p)[c] > 0})
  BY <1>4, <1>5
<1> USE DEF Points, Days, Disclosures, Shares, Holdings
<1> QED
  BY ONLY <1>6 DEF SeriesAgree
=============================================================================
