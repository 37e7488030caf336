---------------------------- MODULE PublicExport ----------------------------
(***************************************************************************)
(* From the rows of the FCA files to what is read of them: the imports     *)
(* with their issuer resolver (fca.py), the requests that read the         *)
(* published rows (fca.py) and the exporters that turn them into a         *)
(* directory of static files (public_export.py) and may die at any step.   *)
(*                                                                         *)
(* Every SQL statement of a reader sees the database of its own moment.    *)
(* Rows that were imported never change, so what matters of a statement is *)
(* which set of files it took its rows from: a reader keeps that set.      *)
(* FcaSync models fetching, failing and retrying; a sync here succeeds.    *)
(***************************************************************************)
EXTENDS ShortSeries

CONSTANTS
  Isins, Names, Dates,
  FirstFiles,   \* the sets of files the first sync may fetch
  Revisions,    \* the sets of files a later one may fetch
  MaxSyncs,     \* bound on the syncs
  Readers,      \* requests of the web front end
  Exporters,    \* exporter processes, by process id
  Partial       \* what is left of a directory that was removed in part

Datasets == {"rsl", "current", "historic", "legacy"}
ImportOrder == <<"rsl", "current", "historic", "legacy">>
FileSets == FirstFiles \union Revisions

\* A directory with an export is known by the set its rows come from.
ASSUME ExportAssumption == None \notin FileSets /\ Partial \notin FileSets

\* A file is a sequence of rows; dates and values of positions are numbers.
ASSUME FilesAssumption ==
  /\ IsFiniteSet(Isins)
  /\ MaxSyncs \in Nat
  /\ Dates \subseteq Nat \ {0} /\ None \notin Nat
  /\ \A set \in FileSets :
       /\ \A d \in Datasets :
            /\ set[d] \in Seq(ToSet(set[d]))
            /\ \A n \in DOMAIN set[d] :
                 /\ set[d][n] # None
                 /\ set[d][n].isin \in Isins /\ set[d][n].name \in Names
       /\ \A n \in DOMAIN set.current : set.current[n].pos \in Dates
       /\ \A n \in DOMAIN set.historic : set.historic[n].became \in Dates
       /\ \A n \in DOMAIN set.legacy :
            set.legacy[n].date \in Dates /\ set.legacy[n].bp \in Nat

VARIABLES
  fetched,   \* the files of the sync that runs
  stage,     \* imports the running sync has done
  syncs,     \* syncs that have published
  ident,     \* issuer_identifiers: the issuer of an ISIN, 0 if unknown
  alias,     \* issuer_aliases
  imported,  \* imported snapshots with the issuers of their rows
  heads,     \* dataset_heads
  reader,    \* the requests
  exporter,  \* the exporters
  output,    \* the output directory
  backup     \* the directories exporters have moved aside, by process id

syncVars == <<fetched, stage, syncs>>
identityVars == <<ident, alias, imported>>
directoryVars == <<output, backup>>
vars == <<syncVars, identityVars, heads, reader, exporter, directoryVars>>

NoRead == [pc |-> "idle", issuer |-> 0, shares |-> None, heads |-> None,
           historic |-> None, current |-> None]
NoExport == [pc |-> "idle", rows |-> None, moves |-> FALSE]

Init ==
  /\ fetched = None /\ stage = 0 /\ syncs = 0
  /\ ident = [x \in Isins |-> 0]
  /\ alias = {}
  /\ imported = {}
  /\ heads = None
  /\ reader = [r \in Readers |-> NoRead]
  /\ exporter = [e \in Exporters |-> NoExport]
  /\ output = None
  /\ backup = [e \in Exporters |-> None]

-----------------------------------------------------------------------------
(* Imports                                                                 *)

Missing == -1
Issuers == {a.issuer : a \in alias}

\* INSERT ... ON CONFLICT(isin): an ISIN that is known keeps its issuer.
Identify(identifiers, isin, issuer) ==
  [identifiers EXCEPT ![isin] = IF @ = 0 THEN issuer ELSE @]

\* Mutant: the name is looked up before the ISIN.
ResolveByName(acc, row) ==
  LET named == {a.issuer : a \in {b \in acc.alias : b.name = row.name}}
      issuer == IF named # {} THEN CHOOSE i \in named : TRUE
                ELSE IF acc.ident[row.isin] # 0 THEN acc.ident[row.isin]
                ELSE Cardinality({a.issuer : a \in acc.alias}) + 1
  IN  [ident |-> Identify(acc.ident, row.isin, issuer),
       alias |-> acc.alias \union {[issuer |-> issuer, name |-> row.name]},
       byName |-> acc.byName,
       issuers |-> Append(acc.issuers, issuer)]

\* _IssuerResolver.resolve: by ISIN, then by the name as this import has seen
\* it, then by the name in the database if one issuer has it, else anew.
Resolve(acc, row) ==
  LET known == acc.ident[row.isin]
      cached == acc.byName[row.name]
      named == {a.issuer : a \in {b \in acc.alias : b.name = row.name}}
      stored == IF Cardinality(named) = 1 THEN CHOOSE i \in named : TRUE ELSE 0
      found == IF known # 0 THEN known ELSE IF cached # Missing THEN cached ELSE stored
      issuer == IF found # 0 THEN found
                ELSE Cardinality({a.issuer : a \in acc.alias}) + 1
      current == IF found = 0 THEN issuer
                 ELSE IF known = 0 /\ cached = Missing THEN stored ELSE cached
  IN  [ident |-> Identify(acc.ident, row.isin, issuer),
       alias |-> acc.alias \union {[issuer |-> issuer, name |-> row.name]},
       byName |-> [acc.byName EXCEPT ![row.name] =
                     IF current \in {Missing, 0} THEN issuer
                     ELSE IF current # issuer THEN 0 ELSE issuer],
       issuers |-> Append(acc.issuers, issuer)]

\* What a new resolver begins with.
Unresolved ==
  [ident |-> ident, alias |-> alias, byName |-> [n \in Names |-> Missing],
   issuers |-> <<>>]

\* What it knows after each row of a file.
Resolving(file) ==
  LET after[n \in 0 .. Len(file)] ==
        IF n = 0 THEN Unresolved ELSE Resolve(after[n - 1], file[n])
  IN  after

\* A resolver of its own for every import.
ResolveAll(file) == Resolving(file)[Len(file)]

\* What the FCA publishes when a sync runs.
Fetch ==
  /\ fetched = None
  /\ syncs < MaxSyncs
  /\ fetched' \in IF syncs = 0 THEN FirstFiles ELSE Revisions
  /\ UNCHANGED <<stage, syncs, identityVars, heads, reader, exporter, directoryVars>>

\* _ensure_import: a snapshot is imported once.
Import ==
  /\ fetched # None
  /\ stage < Len(ImportOrder)
  /\ stage' = stage + 1
  /\ LET d == ImportOrder[stage + 1]
         file == fetched[d]
         result == ResolveAll(file)
     IN  IF \E s \in imported : s.dataset = d /\ s.file = file
           THEN UNCHANGED identityVars
           ELSE /\ imported' = imported \union
                     {[dataset |-> d, file |-> file, issuers |-> result.issuers]}
                /\ ident' = result.ident
                /\ alias' = result.alias
  /\ UNCHANGED <<fetched, syncs, heads, reader, exporter, directoryVars>>

\* Mutant: the heads do not wait for the last dataset.
PublishEarly ==
  /\ stage = Len(ImportOrder) - 1
  /\ heads' = fetched
  /\ fetched' = None
  /\ stage' = 0
  /\ syncs' = syncs + 1
  /\ UNCHANGED <<identityVars, reader, exporter, directoryVars>>

\* The heads of all datasets move in one transaction.
Publish ==
  /\ stage = Len(ImportOrder)
  /\ heads' = fetched
  /\ fetched' = None
  /\ stage' = 0
  /\ syncs' = syncs + 1
  /\ UNCHANGED <<identityVars, reader, exporter, directoryVars>>

-----------------------------------------------------------------------------
(* Requests                                                                *)

Unread == UNCHANGED <<syncVars, identityVars, heads, exporter, directoryVars>>

\* get_short_series begins with get_security: the issuer of an ISIN and its
\* entries in the list of shares, by a join with the heads.
ReadSecurity(r) ==
  /\ reader[r].pc = "idle"
  /\ \E isin \in Isins :
       /\ ident[isin] # 0
       /\ reader' = [reader EXCEPT ![r] = [NoRead EXCEPT !.pc = "heads", !.shares = heads,
                                                        !.issuer = ident[isin]]]
  /\ Unread

\* On a connection of its own it reads the heads, once.
ReadHeads(r) ==
  /\ reader[r].pc = "heads"
  /\ reader' = [reader EXCEPT ![r].heads = heads, ![r].pc = "historic"]
  /\ Unread

\* The historic states of the issuer in the snapshot that the heads named.
ReadHistoric(r) ==
  /\ reader[r].pc = "historic"
  /\ reader' = [reader EXCEPT ![r].historic = reader[r].heads, ![r].pc = "current"]
  /\ Unread

\* Before the first sync there are no rows.
Rows(set, d) == IF set = None THEN <<>> ELSE set[d]

\* The points made of the rows that request q has read.  A row belongs to the
\* issuer of its import, which is the issuer of its ISIN: IdentityHolds.
Series(q) ==
  IssuerAnspSeries([rsl |-> Rows(q.shares, "rsl"), historic |-> Rows(q.historic, "historic"),
                    current |-> Rows(q.current, "current")],
                   {x \in Isins : ident[x] = q.issuer})

\* The chart is made and answered, or raises and the request fails.
Charting(q) == IF BrokenChain(Series(q)) THEN NoRead ELSE [q EXCEPT !.pc = "answered"]

\* Mutant: the current state is read like get_security reads it, by a join
\* with the heads of its own moment.
ReadCurrentOfNow(r) ==
  /\ reader[r].pc = "current"
  /\ reader' = [reader EXCEPT ![r] = Charting([reader[r] EXCEPT !.current = heads])]
  /\ Unread

\* The latest current state of the issuer, in the snapshot the heads named.
ReadCurrent(r) ==
  /\ reader[r].pc = "current"
  /\ reader' = [reader EXCEPT ![r] = Charting([reader[r] EXCEPT !.current = reader[r].heads])]
  /\ Unread

ReaderLeaves(r) ==
  /\ reader[r].pc = "answered"
  /\ reader' = [reader EXCEPT ![r] = NoRead]
  /\ Unread

-----------------------------------------------------------------------------
(* Exporters                                                               *)

ExportUnread == UNCHANGED <<syncVars, identityVars, heads, reader>>
Proceed(e, pc) == exporter' = [exporter EXCEPT ![e].pc = pc]

\* The export ends and its staging directory is gone.
Stop(e) == exporter' = [exporter EXCEPT ![e] = NoExport]

\* _load_coverage: no dataset may be missing or empty.
BeginExport(e) ==
  /\ exporter[e].pc = "idle"
  /\ heads # None
  /\ \A d \in Datasets : heads[d] # <<>>
  /\ Proceed(e, "heads")
  /\ ExportUnread /\ UNCHANGED directoryVars

\* _active_heads, in a statement of its own: these may be the heads of another
\* set than the one whose coverage was loaded and is written with the rows.
ReadExportHeads(e) ==
  /\ exporter[e].pc = "heads"
  /\ exporter' = [exporter EXCEPT ![e].rows = heads, ![e].pc = "building"]
  /\ ExportUnread /\ UNCHANGED directoryVars

ActiveIsins(set) == UNION {{set[d][n].isin : n \in DOMAIN set[d]} : d \in Datasets}

Exportable(set) ==
  /\ set.current # <<>>
  /\ \A isin \in ActiveIsins(set) :
       /\ Cardinality(CurrentRows(set.current, isin)) <= 1
       /\ ~BrokenChain(AnspSeries(set, isin))

\* The files are written and validated in the staging directory.
Build(e) ==
  /\ exporter[e].pc = "building"
  /\ \/ Exportable(exporter[e].rows) /\ Proceed(e, "staged")
     \/ Stop(e)
  /\ ExportUnread /\ UNCHANGED directoryVars

\* _replace_directory: is there a directory to move aside, and a free name?
LookAtOutput(e) ==
  /\ exporter[e].pc = "staged"
  /\ IF output = None THEN Proceed(e, "installing")
     ELSE exporter' = [exporter EXCEPT ![e].moves = TRUE,
                         ![e].pc = IF backup[e] = None THEN "moving" ELSE "restoring"]
  /\ ExportUnread /\ UNCHANGED directoryVars

\* Mutant: the old directory is removed to make room.
RemoveOld(e) ==
  /\ exporter[e].pc = "moving"
  /\ output' = None
  /\ Proceed(e, "installing")
  /\ UNCHANGED backup /\ ExportUnread

\* The old directory is moved aside, or that fails.
MoveAside(e) ==
  /\ exporter[e].pc = "moving"
  /\ \/ /\ output # None
        /\ backup' = [backup EXCEPT ![e] = output]
        /\ output' = None
        /\ Proceed(e, "installing")
     \/ Proceed(e, "restoring") /\ UNCHANGED directoryVars
  /\ ExportUnread

\* The staging directory takes its place, if that is free, or that fails.
Install(e) ==
  /\ exporter[e].pc = "installing"
  /\ \/ /\ output = None
        /\ output' = exporter[e].rows
        /\ IF exporter[e].moves THEN Proceed(e, "cleaning") ELSE Stop(e)
     \/ UNCHANGED output /\ Proceed(e, "restoring")
  /\ UNCHANGED backup /\ ExportUnread

\* After a failure the old directory comes back, unless that fails too.
Restore(e) ==
  /\ exporter[e].pc = "restoring"
  /\ Stop(e)
  /\ \/ /\ exporter[e].moves /\ backup[e] # None /\ output = None
        /\ output' = backup[e]
        /\ backup' = [backup EXCEPT ![e] = None]
     \/ UNCHANGED directoryVars
  /\ ExportUnread

\* The directory that was moved aside is removed, or only in part.
CleanUp(e) ==
  /\ exporter[e].pc = "cleaning"
  /\ Stop(e)
  /\ \E rest \in {None, Partial} : backup' = [backup EXCEPT ![e] = rest]
  /\ UNCHANGED output /\ ExportUnread

\* The process dies; the next one may get its process id.
Die(e) ==
  /\ exporter[e].pc # "idle"
  /\ Stop(e)
  /\ UNCHANGED directoryVars /\ ExportUnread

-----------------------------------------------------------------------------
Sync == Fetch \/ Import \/ Publish

Read(r) ==
  \/ ReadSecurity(r) \/ ReadHeads(r) \/ ReadHistoric(r)
  \/ ReadCurrent(r) \/ ReaderLeaves(r)

Export(e) ==
  \/ BeginExport(e) \/ ReadExportHeads(e) \/ Build(e) \/ LookAtOutput(e)
  \/ MoveAside(e) \/ Install(e) \/ Restore(e) \/ CleanUp(e) \/ Die(e)

Next ==
  \/ Sync
  \/ \E r \in Readers : Read(r)
  \/ \E e \in Exporters : Export(e)

Spec == Init /\ [][Next]_vars

-----------------------------------------------------------------------------
(* Properties                                                              *)

Reads == [pc : {"idle", "heads", "historic", "current", "answered"},
          issuer : 0 .. Cardinality(Isins), shares : FileSets \union {None},
          heads : FileSets \union {None}, historic : FileSets \union {None},
          current : FileSets \union {None}]

\* The type of the state, and: what is published has been imported.
TypeOK ==
  /\ fetched \in FileSets \union {None}
  /\ stage \in 0 .. Len(ImportOrder)
  /\ syncs \in 0 .. MaxSyncs
  /\ ident \in [Isins -> 0 .. Cardinality(Isins)]
  /\ \A a \in alias : a.issuer \in 1 .. Cardinality(Isins) /\ a.name \in Names
  /\ heads # None => \A d \in Datasets :
       \E s \in imported : s.dataset = d /\ s.file = heads[d]
  /\ reader \in [Readers -> Reads]
  /\ \A e \in Exporters :
       /\ exporter[e].pc \in {"idle", "heads", "building", "staged", "moving",
                              "installing", "restoring", "cleaning"}
       /\ exporter[e].pc \notin {"idle", "heads"} => exporter[e].rows \in FileSets
       /\ backup[e] \in FileSets \union {None, Partial}
  /\ output \in FileSets \union {None, Partial}

IsinRows == UNION {{s.file[n] : n \in DOMAIN s.file} : s \in imported}
Linked(x, y) ==
  \E a, b \in IsinRows : a.isin = x /\ b.isin = y /\ a.name = b.name

\* The identity of issuers: every imported row belongs to the issuer its ISIN
\* has today, whatever has been imported since, and the ISINs of an issuer are
\* linked by names they were published under, be these names ambiguous or not.
\* (get_short_series selects rows by the issuer of the import, the exporter by
\* the ISIN.)
IdentityHolds ==
  /\ \A s \in imported : \A n \in DOMAIN s.file : ident[s.file[n].isin] = s.issuers[n]
  /\ \A i \in Issuers :
       LET shares == {x \in Isins : ident[x] = i}
       IN  \A part \in (SUBSET shares) \ {{}, shares} :
             \E x \in part, y \in shares \ part : Linked(x, y)

\* An ISIN that is new is not given to an issuer because of a name that two
\* issuers have: "ambiguous exact names are left as separate issuers".
AmbiguousNamesStaySeparate ==
  [][imported' # imported =>
       LET file == fetched[ImportOrder[stage + 1]]
           known == Resolving(file)
           Bearers(n) == {a.issuer : a \in {b \in known[n - 1].alias : b.name = file[n].name}}
       IN  \A n \in DOMAIN file :
             known[n - 1].ident[file[n].isin] = 0 /\ Cardinality(Bearers(n)) > 1
               => known[n].ident[file[n].isin] \notin Bearers(n)]_vars

IssuersOf(d) == (CHOOSE s \in imported : s.dataset = d /\ s.file = heads[d]).issuers

\* What the front end and the public export show of the named disclosures is
\* what the rows say: the incremental totals of an issuer are the sum, over
\* its holders and ISINs, of the last disclosed value, and the sum of the
\* exported series of its ISINs; a point stands for every day with rows.
LegacySeriesAgree ==
  heads # None => SeriesAgree(heads.legacy, IssuersOf("legacy"))

\* On every day from the first point of a chain of states, even one that ends
\* before it starts, the chart shows exactly the state in force; and the front
\* end shows the same points, except that an issuer has one current state there.
AnspChartShowsStateInForce ==
  heads # None =>
    \A isin \in Isins :
      LET points == AnspSeries(heads, isin)
          shown == {p \in IssuerAnspSeries(heads, {x \in Isins : ident[x] = ident[isin]}) :
                      p.isin = isin}
      IN  /\ \A t \in {d \in Dates : \E p \in points : p.from <= d} :
               Charted(points, t) = InForce(heads, isin, t)
          /\ {p \in shown : p.until # None} = {p \in points : p.until # None}
          /\ shown \subseteq points

\* A series shows the states of one published set, however many sets are
\* published while it is read.  Of every ISIN of the issuer it has all states
\* that have ended, and from its first point it shows on every day exactly the
\* state in force, or nothing when that is a current state and the one current
\* row of the issuer is of another ISIN.  The list of shares, which comes from
\* the heads of an earlier moment, moves that first point and nothing else.
SeriesShowsOneSet ==
  \A r \in Readers : reader[r].pc = "answered" /\ reader[r].heads # None =>
    LET set == reader[r].heads
        isins == {x \in Isins : ident[x] = reader[r].issuer}
    IN  \A isin \in isins :
          LET shown == {p \in Series(reader[r]) : p.isin = isin}
              ended == {n \in DOMAIN set.historic : set.historic[n].isin = isin}
          IN  /\ {<<p.until, p.bp>> : p \in {q \in shown : q.until # None}} =
                   {<<set.historic[n].became, set.historic[n].bp>> : n \in ended}
              /\ \A t \in {d \in Dates : \E p \in shown : p.from <= d} :
                   \/ Charted(shown, t) = InForce(set, isin, t)
                   \/ /\ Charted(shown, t) = {}
                      /\ \E n \in DOMAIN set.current : set.current[n].isin \in isins \ {isin}

\* Once an export has been installed a whole copy of one stays on the disk, in
\* its place or moved aside, whatever fails, dies or runs at the same time.
Whole(directory) == directory \notin {None, Partial}
CopyOnDisk == Whole(output) \/ \E e \in Exporters : Whole(backup[e])
LastExportIsKept == [][CopyOnDisk => CopyOnDisk']_vars
=============================================================================
