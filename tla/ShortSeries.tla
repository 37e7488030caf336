---------------------------- MODULE ShortSeries ----------------------------
(***************************************************************************)
(* The series derived from the rows of one published set of files: the     *)
(* replay of the named disclosures by issuer (fca.py) and by ISIN          *)
(* (public_export.py) and the chart intervals of the ANSP states.          *)
(*                                                                         *)
(* A file is a sequence of rows and a row number is a position in it;      *)
(* issuers[n] is the issuer row n was resolved to.  Dates are numbered and *)
(* None stands for a date or a row that is not there.                      *)
(***************************************************************************)
EXTENDS Integers, SequencesExt

CONSTANTS
  Threshold,        \* LEGACY_PUBLIC_THRESHOLD_BP
  InitialPosition,  \* ANSP_INITIAL_POSITION_DATE
  FirstPublished,   \* ANSP_FIRST_PUBLISHED_ON
  None

ASSUME SeriesAssumption ==
  Threshold > 0 /\ InitialPosition > 0 /\ FirstPublished >= InitialPosition

Later(a, b) == IF a >= b THEN a ELSE b

\* Row numbers in the order of the SQL queries: by a date, then by row.
Before(date, m, n) == date[m] < date[n] \/ (date[m] = date[n] /\ m < n)
InOrder(date) ==
  CHOOSE order \in [1 .. Cardinality(DOMAIN date) -> DOMAIN date] :
    \A i, j \in DOMAIN order : i < j => Before(date, order[i], order[j])

Disclosed(bp) == IF bp >= Threshold THEN bp ELSE 0

-----------------------------------------------------------------------------
(* Named disclosures                                                       *)

\* The points of the date that has been replayed; dates begin at 1.
Flush(acc) ==
  acc.points \union
    {[issuer |-> i, date |-> acc.date, bp |-> acc.total[i],
      holders |-> acc.holders[i], events |-> acc.touched[i]] :
       i \in {j \in DOMAIN acc.touched : acc.touched[j] > 0}}

\* Mutant: the share classes of an issuer are not told apart.
KeyWithoutIsin(issuer, row) == <<issuer, row.holder>>

Key(issuer, row) == <<issuer, row.holder, row.isin>>

\* Before the first row: nothing is disclosed of any key.
Undisclosed(file, issuers) ==
  [date |-> 0,
   state |-> [k \in {Key(issuers[n], file[n]) : n \in DOMAIN file} |-> 0],
   total |-> [i \in ToSet(issuers) |-> 0], holders |-> [i \in ToSet(issuers) |-> 0],
   touched |-> [i \in ToSet(issuers) |-> 0], points |-> {}]

\* One more row: what its key had is taken from the totals of its issuer and
\* the new value added; a row of a new date gives out the points first.
Replay(acc, row, i) ==
  LET k == Key(i, row)
      new == Disclosed(row.bp)
      turn == row.date # acc.date
  IN  [date |-> row.date,
       state |-> [acc.state EXCEPT ![k] = new],
       total |-> [acc.total EXCEPT ![i] = @ - acc.state[k] + new],
       holders |-> [acc.holders EXCEPT ![i] =
                      @ - (IF acc.state[k] > 0 THEN 1 ELSE 0) + (IF new > 0 THEN 1 ELSE 0)],
       touched |-> [j \in DOMAIN acc.touched |->
                      (IF turn THEN 0 ELSE acc.touched[j]) + (IF j = i THEN 1 ELSE 0)],
       points |-> IF turn THEN Flush(acc) ELSE acc.points]

\* The rows of a file, or some of them, by date and row number.
ByDate(file, rows) == InOrder([n \in rows |-> file[n].date])

\* The state of the replay after each row.
Replayed(file, issuers) ==
  LET order == ByDate(file, DOMAIN file)
      after[k \in 0 .. Len(file)] ==
        IF k = 0 THEN Undisclosed(file, issuers)
        ELSE Replay(after[k - 1], file[order[k]], issuers[order[k]])
  IN  after

\* _derive_legacy_aggregate: running totals per issuer over the rows by date
\* and row number, a point for every issuer touched on a date.
LegacyAggregate(file, issuers) == Flush(Replayed(file, issuers)[Len(file)])

NamedRows(file, isin) == {n \in DOMAIN file : file[n].isin = isin}

\* _legacy_series: the state of the holders of one ISIN, and a point for every
\* date, begun with nothing.
UndisclosedSeries(file, isin) ==
  [state |-> [h \in {file[n].holder : n \in NamedRows(file, isin)} |-> 0],
   points |-> [d \in {file[n].date : n \in NamedRows(file, isin)} |->
                 [bp |-> 0, holders |-> 0, events |-> 0]]]

\* One more row: the point of its date has the sum over all holders.
ReplaySeries(acc, row) ==
  LET state == [acc.state EXCEPT ![row.holder] = Disclosed(row.bp)]
  IN  [state |-> state,
       points |-> [acc.points EXCEPT ![row.date] =
         [bp |-> SumFunction(state),
          holders |-> Cardinality({h \in DOMAIN state : state[h] > 0}),
          events |-> @.events + 1]]]

SeriesReplayed(file, isin) ==
  LET order == ByDate(file, NamedRows(file, isin))
      after[k \in 0 .. Cardinality(NamedRows(file, isin))] ==
        IF k = 0 THEN UndisclosedSeries(file, isin)
        ELSE ReplaySeries(after[k - 1], file[order[k]])
  IN  after

LegacySeries(file, isin) ==
  SeriesReplayed(file, isin)[Cardinality(NamedRows(file, isin))].points

-----------------------------------------------------------------------------
(* ANSP states                                                             *)

\* _ansp_scope_start
ScopeStart(added) ==
  IF added = None \/ added <= FirstPublished THEN InitialPosition
                                             ELSE Later(InitialPosition, added)

\* Mutant: the states are linked by the date of their positions.
BecameByPosition(file, n) == file[n].pos

Became(file, n) == file[n].became

\* The historic states of an ISIN in the order they became historical.
HistoricRows(historic, isin) ==
  InOrder([n \in {m \in DOMAIN historic : historic[m].isin = isin} |-> Became(historic, n)])

\* _ansp_chart_schedule: every state lasts from the end of the one before it;
\* the first begins with the scope, or with its position if that is later.
Schedule(historic, order, current, added) ==
  LET initial == Later(ScopeStart(added),
                       IF order # <<>> THEN historic[order[1]].pos ELSE current.pos)
      Start(k) == IF k = 1 THEN initial ELSE historic[order[k - 1]].became
      Points == {[from |-> Start(k), until |-> historic[order[k]].became,
                  bp |-> historic[order[k]].bp, isin |-> historic[order[k]].isin] :
                    k \in DOMAIN order}
  IN  IF current = None
        THEN Points
        ELSE Points \union {[from |-> Start(Len(order) + 1), until |-> None,
                             bp |-> current.bp, isin |-> current.isin]}

\* The ValueError of _ansp_chart_schedule: a state ends before it starts.
BrokenChain(points) ==
  \E p \in points : p.until # None /\ p.until < p.from

AddedDates(rsl, isin) ==
  {rsl[n].added : n \in {m \in DOMAIN rsl : rsl[m].isin = isin}} \ {None}
Added(rsl, isin) ==
  IF AddedDates(rsl, isin) = {} THEN None
  ELSE CHOOSE d \in AddedDates(rsl, isin) : \A e \in AddedDates(rsl, isin) : d <= e

\* The current row that the queries take: the latest position, then row.
LatestCurrent(current, rows) ==
  IF rows = {} THEN None
  ELSE current[Last(InOrder([n \in rows |-> current[n].pos]))]

CurrentRows(current, isin) == {n \in DOMAIN current : current[n].isin = isin}

\* _ansp_series: the points of one ISIN.
AnspSeries(set, isin) ==
  LET current == LatestCurrent(set.current, CurrentRows(set.current, isin))
      order == HistoricRows(set.historic, isin)
  IN  IF order = <<>> /\ current = None THEN {}
      ELSE Schedule(set.historic, order, current, Added(set.rsl, isin))

\* get_short_series: one current row per issuer, whatever its ISINs have.
IssuerAnspSeries(set, isins) ==
  LET current == LatestCurrent(set.current,
                   {n \in DOMAIN set.current : set.current[n].isin \in isins})
      Points(isin) ==
        LET own == IF current # None /\ current.isin = isin THEN current ELSE None
            order == HistoricRows(set.historic, isin)
        IN  IF order = <<>> /\ own = None THEN {}
            ELSE Schedule(set.historic, order, own, Added(set.rsl, isin))
  IN  UNION {Points(isin) : isin \in isins}

-----------------------------------------------------------------------------
(* What the series mean                                                    *)

\* The value of the last of some rows, if it is disclosed.
LastDisclosed(file, rows) ==
  IF rows = {} THEN 0
  ELSE LET last == CHOOSE n \in rows : \A m \in rows :
                     \/ file[m].date < file[n].date
                     \/ file[m].date = file[n].date /\ m <= n
       IN  IF file[last].bp >= Threshold THEN file[last].bp ELSE 0

\* The last row of a holder for an ISIN up to a date counts.
DisclosedOn(file, isin, holder, date) ==
  LastDisclosed(file, {n \in DOMAIN file : /\ file[n].isin = isin
                                          /\ file[n].holder = holder
                                          /\ file[n].date <= date})

\* The published points of an ISIN at a date, 0 before the first of them.
SeriesAt(series, date) ==
  LET past == {d \in DOMAIN series : d <= date}
  IN  IF past = {} THEN 0
      ELSE series[CHOOSE d \in past : \A e \in past : e <= d].bp

\* A point of the aggregate stands for every day with rows of its issuer, and
\* shows the sum, over the holdings of the issuer, of what was last disclosed;
\* which is the sum of the series of its ISINs.
SeriesAgree(file, issuers) ==
  LET Points == LegacyAggregate(file, issuers)
      Rows(i) == {n \in DOMAIN file : issuers[n] = i}
      Days(i) == {file[n].date : n \in Rows(i)}
      Shares(i) == {file[n].isin : n \in Rows(i)}
      Holdings(i) == {<<file[n].isin, file[n].holder>> : n \in Rows(i)}
      Disclosures(p) == [c \in Holdings(p.issuer) |-> DisclosedOn(file, c[1], c[2], p.date)]
  IN  /\ \A i \in ToSet(issuers) : {p.date : p \in {q \in Points : q.issuer = i}} = Days(i)
      /\ \A p \in Points :
           /\ p.bp = SumFunction(Disclosures(p))
           /\ p.bp = SumFunction([x \in Shares(p.issuer) |->
                                    SeriesAt(LegacySeries(file, x), p.date)])
           /\ p.holders = Cardinality({c \in Holdings(p.issuer) : Disclosures(p)[c] > 0})

\* The state in force on a date: the first to become historical after it,
\* the current one if there is none.
InForce(set, isin, date) ==
  LET rows == {n \in DOMAIN set.historic :
                 set.historic[n].isin = isin /\ set.historic[n].became > date}
      current == LatestCurrent(set.current, CurrentRows(set.current, isin))
  IN  IF rows # {}
        THEN {set.historic[CHOOSE n \in rows : \A m \in rows :
                \/ set.historic[n].became < set.historic[m].became
                \/ set.historic[n].became = set.historic[m].became /\ n <= m].bp}
        ELSE IF current # None THEN {current.bp} ELSE {}

\* What the points say about a date.
Charted(points, date) ==
  {p.bp : p \in {q \in points : q.from <= date /\ (q.until # None => date < q.until)}}
=============================================================================
