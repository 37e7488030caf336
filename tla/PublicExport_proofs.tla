------------------------ MODULE PublicExport_proofs ------------------------
(***************************************************************************)
(* Theorems about PublicExport for any files, readers and exporters and    *)
(* any number of syncs: the identity of issuers over any sequence of       *)
(* imports, the export that is kept, and what a series shows that is read  *)
(* while sets are published.                                               *)
(***************************************************************************)
EXTENDS PublicExport, ShortSeries_proofs

Directory == FileSets \union {None, Partial}

Exporting ==
  [pc : {"idle", "heads", "building", "staged", "moving", "installing",
         "restoring", "cleaning"},
   rows : FileSets \union {None}, moves : BOOLEAN]

\* A published set has been fetched, and a set is fetched before it is
\* imported.
SyncOK ==
  /\ heads \in FileSets \union {None}
  /\ fetched \in FileSets \union {None}
  /\ stage # 0 => fetched # None

\* What an exporter q has read, h being the heads of now.
ExporterOK(q, h) ==
  /\ q.pc # "idle" => h \in FileSets
  /\ q.pc \notin {"idle", "heads"} => q.rows \in FileSets

DirectoriesOK == output \in Directory /\ backup \in [Exporters -> Directory]

\* A name that a directory is going to be moved to is free.
FreeName == \A e \in Exporters : exporter[e].pc = "moving" => backup[e] = None

\* While any exporter removes what it has moved aside, there is a whole copy
\* that nobody removes.
Spared ==
  \/ Whole(output)
  \/ \E e \in Exporters : Whole(backup[e]) /\ exporter[e].pc # "cleaning"
CleaningIsSafe == (\E e \in Exporters : exporter[e].pc = "cleaning") => Spared

\* The inductive invariant of the exports.
IInv ==
  /\ SyncOK
  /\ exporter \in [Exporters -> Exporting]
  /\ \A e \in Exporters : ExporterOK(exporter[e], heads)
  /\ DirectoriesOK
  /\ FreeName
  /\ CleaningIsSafe

-----------------------------------------------------------------------------
(* The steps                                                               *)

\* It holds before the first sync.
LEMMA InitHolds == Init => IInv
<1> SUFFICES ASSUME Init PROVE IInv
  OBVIOUS
<1>1. NoExport \in Exporting /\ NoExport.pc = "idle"
  BY DEF NoExport, Exporting
<1>2. SyncOK /\ DirectoriesOK
  BY DEF Init, SyncOK, DirectoriesOK, Directory
<1>3. exporter \in [Exporters -> Exporting] /\ \A e \in Exporters : exporter[e] = NoExport
  BY <1>1 DEF Init
<1>4. \A e \in Exporters : ExporterOK(exporter[e], heads)
  BY <1>1, <1>3 DEF ExporterOK
<1>5. FreeName /\ CleaningIsSafe
  BY <1>1, <1>3 DEF FreeName, CleaningIsSafe
<1> QED
  BY <1>2, <1>3, <1>4, <1>5 DEF IInv

\* A sync replaces the heads and leaves the exporters and directories alone.
LEMMA SyncKeeps == ASSUME IInv, Sync PROVE IInv'
<1>1. UNCHANGED <<exporter, output, backup>>
  BY DEF Sync, Fetch, Import, Publish, directoryVars
<1>2. SyncOK' /\ (heads \in FileSets => heads' \in FileSets)
  <2>1. CASE Publish
    BY <2>1 DEF Publish, ImportOrder, IInv, SyncOK
  <2>2. CASE Fetch \/ Import
    BY <2>2 DEF Fetch, Import, IInv, SyncOK, FileSets
  <2> QED
    BY <2>1, <2>2 DEF Sync
<1>3. \A e \in Exporters : ExporterOK(exporter'[e], heads')
  BY <1>1, <1>2 DEF IInv, ExporterOK
<1> QED
  BY <1>1, <1>2, <1>3 DEF IInv, DirectoriesOK, FreeName, CleaningIsSafe, Spared

\* Requests leave all of it alone.
LEMMA ReadKeeps == ASSUME IInv, NEW r \in Readers, Read(r) PROVE IInv'
<1>1. UNCHANGED <<fetched, stage, heads, exporter, output, backup>>
  BY DEF Read, ReadSecurity, ReadHeads, ReadHistoric, ReadCurrent, ReaderLeaves,
         Unread, syncVars, directoryVars
<1> QED
  BY <1>1 DEF IInv, SyncOK, DirectoriesOK, FreeName, CleaningIsSafe, Spared

\* One exporter that goes on, and what it does to the directories.
LEMMA ExporterChanges ==
  ASSUME IInv, NEW e \in Exporters, ExportUnread, NEW q \in Exporting,
         ExporterOK(q, heads), exporter' = [exporter EXCEPT ![e] = q],
         DirectoriesOK', FreeName', CleaningIsSafe'
  PROVE  IInv'
<1>1. UNCHANGED <<fetched, stage, heads>>
  BY DEF ExportUnread, syncVars
<1>2. /\ exporter' \in [Exporters -> Exporting]
      /\ \A p \in Exporters : ExporterOK(exporter'[p], heads)
  BY DEF IInv
<1> QED
  BY <1>1, <1>2 DEF IInv, SyncOK

\* An exporter that leaves the directories alone and neither begins nor is
\* going to remove anything.
LEMMA ExporterProceeds ==
  ASSUME IInv, NEW e \in Exporters, ExportUnread, UNCHANGED directoryVars,
         NEW q \in Exporting, ExporterOK(q, heads),
         exporter' = [exporter EXCEPT ![e] = q],
         q.pc # "cleaning", q.pc = "moving" => backup[e] = None
  PROVE  IInv'
<1>1. output' = output /\ backup' = backup
  BY DEF directoryVars
<1>2. \A p \in Exporters : exporter'[p] = IF p = e THEN q ELSE exporter[p]
  BY DEF IInv
<1>3. DirectoriesOK' /\ FreeName'
  BY <1>1, <1>2 DEF IInv, DirectoriesOK, FreeName
<1>4. CleaningIsSafe'
  BY <1>1, <1>2 DEF IInv, CleaningIsSafe, Spared
<1> QED
  BY <1>3, <1>4, ExporterChanges

\* An exporter at another pc with nothing else changed.
LEMMA AtAnotherPc ==
  ASSUME IInv, NEW e \in Exporters,
         NEW pc \in {"staged", "moving", "installing", "restoring", "cleaning"},
         exporter[e].pc \notin {"idle", "heads"}, Proceed(e, pc)
  PROVE  \E q \in Exporting :
           /\ q.pc = pc
           /\ ExporterOK(q, heads)
           /\ exporter' = [exporter EXCEPT ![e] = q]
<1> DEFINE q == [exporter[e] EXCEPT !.pc = pc]
<1>1. exporter[e] \in Exporting /\ ExporterOK(exporter[e], heads)
  BY DEF IInv
<1>2. q \in Exporting /\ q.pc = pc /\ q.rows = exporter[e].rows
  BY <1>1 DEF Exporting
<1>3. ExporterOK(q, heads)
  BY <1>1, <1>2 DEF ExporterOK
<1>4. exporter' = [exporter EXCEPT ![e] = q]
  BY DEF Proceed, IInv, Exporting
<1> QED
  BY <1>2, <1>3, <1>4

\* An exporter that has stopped.
LEMMA Stopped ==
  ASSUME IInv, NEW e \in Exporters, Stop(e)
  PROVE  /\ NoExport \in Exporting /\ NoExport.pc = "idle"
         /\ ExporterOK(NoExport, heads)
         /\ exporter' = [exporter EXCEPT ![e] = NoExport]
<1>1. NoExport \in Exporting /\ NoExport.pc = "idle"
  BY DEF NoExport, Exporting
<1> QED
  BY <1>1 DEF Stop, ExporterOK

\* Reading and building leave the directories alone.
LEMMA BuildKeeps ==
  ASSUME IInv, NEW e \in Exporters,
         BeginExport(e) \/ ReadExportHeads(e) \/ Build(e) \/ LookAtOutput(e) \/ Die(e)
  PROVE  IInv'
<1>0. exporter[e] \in Exporting /\ ExporterOK(exporter[e], heads) /\ SyncOK
  BY DEF IInv
<1>1. CASE BeginExport(e)
  <2> DEFINE q == [exporter[e] EXCEPT !.pc = "heads"]
  <2>1. heads \in FileSets
    BY <1>0, <1>1 DEF BeginExport, SyncOK
  <2>2. q \in Exporting /\ q.pc = "heads"
    BY <1>0 DEF Exporting
  <2>3. ExporterOK(q, heads)
    BY <2>1, <2>2 DEF ExporterOK
  <2>4. exporter' = [exporter EXCEPT ![e] = q]
    BY <1>1 DEF BeginExport, Proceed, IInv, Exporting
  <2> QED
    BY <1>1, <2>2, <2>3, <2>4, ExporterProceeds DEF BeginExport
<1>2. CASE ReadExportHeads(e)
  <2> DEFINE q == [exporter[e] EXCEPT !.rows = heads, !.pc = "building"]
  <2>1. heads \in FileSets
    BY <1>0, <1>2 DEF ReadExportHeads, ExporterOK
  <2>2. q \in Exporting /\ q.pc = "building" /\ q.rows = heads
    BY <1>0, <2>1 DEF Exporting
  <2>3. ExporterOK(q, heads)
    BY <1>0, <1>2, <2>1, <2>2 DEF ExporterOK, ReadExportHeads
  <2>4. exporter' = [exporter EXCEPT ![e] = q]
    BY <1>2 DEF ReadExportHeads, IInv, Exporting
  <2> QED
    BY <1>2, <2>2, <2>3, <2>4, ExporterProceeds DEF ReadExportHeads
<1>3. CASE Build(e)
  <2>1. CASE Stop(e)
    BY <1>3, <2>1, Stopped, ExporterProceeds DEF Build
  <2>2. CASE Proceed(e, "staged")
    BY <1>3, <2>2, AtAnotherPc, ExporterProceeds DEF Build
  <2> QED
    BY <1>3, <2>1, <2>2 DEF Build
<1>4. CASE LookAtOutput(e)
  <2>1. CASE Proceed(e, "installing")
    BY <1>4, <2>1, AtAnotherPc, ExporterProceeds DEF LookAtOutput
  <2>2. CASE exporter' = [exporter EXCEPT ![e].moves = TRUE,
                 ![e].pc = IF backup[e] = None THEN "moving" ELSE "restoring"]
    <3> DEFINE next == IF backup[e] = None THEN "moving" ELSE "restoring"
    <3> DEFINE q == [exporter[e] EXCEPT !.moves = TRUE, !.pc = next]
    <3>1. next \in {"moving", "restoring"}
      OBVIOUS
    <3>2. q \in Exporting /\ q.pc = next /\ q.rows = exporter[e].rows
      BY <1>0, <3>1 DEF Exporting
    <3>3. ExporterOK(q, heads)
      BY <1>0, <1>4, <3>1, <3>2 DEF ExporterOK, LookAtOutput
    <3>4. exporter' = [exporter EXCEPT ![e] = q]
      BY <2>2 DEF IInv, Exporting
    <3>5. q.pc # "cleaning" /\ (q.pc = "moving" => backup[e] = None)
      BY <3>2
    <3> HIDE DEF q
    <3> QED
      BY <1>4, <3>2, <3>3, <3>4, <3>5, ExporterProceeds DEF LookAtOutput
  <2> QED
    BY <1>4, <2>1, <2>2 DEF LookAtOutput
<1>5. CASE Die(e)
  BY <1>5, Stopped, ExporterProceeds DEF Die
<1> QED
  BY <1>1, <1>2, <1>3, <1>4, <1>5

\* Moving aside and installing keep a whole copy that nobody removes.
LEMMA InstallKeeps ==
  ASSUME IInv, NEW e \in Exporters, MoveAside(e) \/ Install(e) PROVE IInv'
<1>0. /\ exporter[e] \in Exporting /\ ExporterOK(exporter[e], heads)
      /\ exporter \in [Exporters -> Exporting]
      /\ DirectoriesOK /\ FreeName /\ CleaningIsSafe
  BY DEF IInv
<1>1. CASE MoveAside(e)
  <2>0. exporter[e].pc = "moving" /\ backup[e] = None /\ ExportUnread
    BY <1>0, <1>1 DEF MoveAside, FreeName
  <2>1. CASE Proceed(e, "restoring") /\ UNCHANGED directoryVars
    BY <2>0, <2>1, AtAnotherPc, ExporterProceeds
  <2>2. CASE /\ backup' = [backup EXCEPT ![e] = output] /\ output' = None
             /\ Proceed(e, "installing")
    <3>1. PICK q \in Exporting : /\ q.pc = "installing" /\ ExporterOK(q, heads)
                                 /\ exporter' = [exporter EXCEPT ![e] = q]
      BY <2>0, <2>2, AtAnotherPc
    <3>2. \A p \in Exporters : exporter'[p] = IF p = e THEN q ELSE exporter[p]
      BY <1>0, <3>1
    <3>3. \A p \in Exporters : backup'[p] = IF p = e THEN output ELSE backup[p]
      BY <1>0, <2>2 DEF DirectoriesOK
    <3>4. DirectoriesOK'
      BY <1>0, <2>2 DEF DirectoriesOK, Directory
    <3>5. FreeName'
      BY <1>0, <3>1, <3>2, <3>3 DEF FreeName
    <3>6. CleaningIsSafe'
      BY <1>0, <2>0, <3>1, <3>2, <3>3 DEF CleaningIsSafe, Spared, Whole
    <3> QED
      BY <2>0, <3>1, <3>4, <3>5, <3>6, ExporterChanges
  <2> QED
    BY <1>1, <2>1, <2>2 DEF MoveAside
<1>2. CASE Install(e)
  <2>0. exporter[e].pc = "installing" /\ ExportUnread /\ backup' = backup
    BY <1>2 DEF Install
  <2>1. CASE UNCHANGED output /\ Proceed(e, "restoring")
    BY <2>0, <2>1, AtAnotherPc, ExporterProceeds DEF directoryVars
  <2>2. CASE /\ output' = exporter[e].rows
             /\ IF exporter[e].moves THEN Proceed(e, "cleaning") ELSE Stop(e)
    <3>1. PICK q \in Exporting : /\ ExporterOK(q, heads) /\ q.pc # "moving"
                                 /\ exporter' = [exporter EXCEPT ![e] = q]
      BY <2>0, <2>2, AtAnotherPc, Stopped
    <3>2. \A p \in Exporters : exporter'[p] = IF p = e THEN q ELSE exporter[p]
      BY <1>0, <3>1
    <3>3. output' \in FileSets
      BY <1>0, <2>0, <2>2 DEF ExporterOK
    <3>4. Whole(output')
      BY <3>3, ExportAssumption DEF Whole
    <3>5. DirectoriesOK'
      BY <1>0, <2>0, <3>3, <3>4 DEF DirectoriesOK, Directory
    <3>6. FreeName' /\ CleaningIsSafe'
      BY <1>0, <2>0, <3>1, <3>2, <3>4 DEF FreeName, CleaningIsSafe, Spared
    <3> QED
      BY <2>0, <3>1, <3>5, <3>6, ExporterChanges
  <2> QED
    BY <1>2, <2>1, <2>2 DEF Install
<1> QED
  BY <1>1, <1>2

\* What comes back is whole if it was, and what is removed is not the last.
LEMMA FinishKeeps ==
  ASSUME IInv, NEW e \in Exporters, Restore(e) \/ CleanUp(e) PROVE IInv'
<1>0. /\ exporter \in [Exporters -> Exporting]
      /\ DirectoriesOK /\ FreeName /\ CleaningIsSafe
  BY DEF IInv
<1>1. Stop(e) /\ ExportUnread
  BY DEF Restore, CleanUp
<1>2. /\ NoExport \in Exporting /\ NoExport.pc = "idle" /\ ExporterOK(NoExport, heads)
      /\ exporter' = [exporter EXCEPT ![e] = NoExport]
  BY <1>1, Stopped
<1>3. \A p \in Exporters : exporter'[p] = IF p = e THEN NoExport ELSE exporter[p]
  BY <1>0, <1>2
<1>4. CASE UNCHANGED directoryVars
  BY <1>1, <1>2, <1>4, ExporterProceeds
<1>5. CASE /\ Restore(e) /\ output = None
           /\ output' = backup[e] /\ backup' = [backup EXCEPT ![e] = None]
  <2>1. \A p \in Exporters : backup'[p] = IF p = e THEN None ELSE backup[p]
    BY <1>0, <1>5 DEF DirectoriesOK
  <2>2. DirectoriesOK'
    BY <1>0, <1>5 DEF DirectoriesOK, Directory
  <2>3. FreeName'
    BY <1>0, <1>2, <1>3, <2>1 DEF FreeName
  <2>4. CleaningIsSafe'
    BY <1>0, <1>2, <1>3, <1>5, <2>1 DEF CleaningIsSafe, Spared, Whole
  <2> QED
    BY <1>1, <1>2, <2>2, <2>3, <2>4, ExporterChanges
<1>6. ASSUME NEW rest \in {None, Partial}, CleanUp(e),
             backup' = [backup EXCEPT ![e] = rest]
      PROVE  IInv'
  <2>1. exporter[e].pc = "cleaning" /\ output' = output
    BY <1>6 DEF CleanUp
  <2>2. \A p \in Exporters : backup'[p] = IF p = e THEN rest ELSE backup[p]
    BY <1>0, <1>6 DEF DirectoriesOK
  <2>3. DirectoriesOK'
    BY <1>0, <1>6, <2>1 DEF DirectoriesOK, Directory
  <2>4. FreeName'
    BY <1>0, <1>2, <1>3, <2>2 DEF FreeName
  <2>5. Spared
    BY <1>0, <2>1 DEF CleaningIsSafe
  <2>6. CleaningIsSafe'
    BY <1>2, <1>3, <2>1, <2>2, <2>5 DEF CleaningIsSafe, Spared
  <2> QED
    BY <1>1, <1>2, <2>3, <2>4, <2>6, ExporterChanges
<1>7. CASE CleanUp(e)
  BY <1>6, <1>7 DEF CleanUp
<1> QED
  BY <1>4, <1>5, <1>7 DEF Restore

\* Every step keeps the inductive invariant.
LEMMA StepKeeps == IInv /\ [Next]_vars => IInv'
<1> SUFFICES ASSUME IInv, [Next]_vars PROVE IInv'
  OBVIOUS
<1>1. CASE UNCHANGED vars
  BY <1>1 DEF vars, syncVars, identityVars, directoryVars, IInv, SyncOK, DirectoriesOK,
              FreeName, CleaningIsSafe, Spared
<1>2. CASE Sync
  BY <1>2, SyncKeeps
<1>3. ASSUME NEW r \in Readers, Read(r) PROVE IInv'
  BY <1>3, ReadKeeps
<1>4. ASSUME NEW e \in Exporters, Export(e) PROVE IInv'
  BY <1>4, BuildKeeps, InstallKeeps, FinishKeeps DEF Export
<1> QED
  BY <1>1, <1>2, <1>3, <1>4 DEF Next

\* The inductive invariant of the exports and the directories.
THEOREM Invariance == Spec => []IInv
BY InitHolds, StepKeeps, PTL DEF Spec

-----------------------------------------------------------------------------
(* Imports and the identity of issuers                                     *)

\* The ISINs of an issuer are connected by names of the rows.
LinkedBy(rows, x, y) == \E a, b \in rows : a.isin = x /\ b.isin = y /\ a.name = b.name
Connected(identifiers, rows) ==
  \A i \in Nat \ {0} : \A part \in SUBSET Isins :
    /\ part # {} /\ \A x \in part : identifiers[x] = i
    /\ \E y \in Isins \ part : identifiers[y] = i
    => \E x \in part, y \in Isins \ part : identifiers[y] = i /\ LinkedBy(rows, x, y)

\* What the identifiers and the aliases say of the rows they come from.
Known(identifiers, aliases, rows) ==
  /\ identifiers \in [Isins -> Nat]
  /\ aliases \subseteq [issuer : Nat \ {0}, name : Names]
  /\ \A r \in rows : /\ r.isin \in Isins /\ r.name \in Names /\ identifiers[r.isin] # 0
                     /\ [issuer |-> identifiers[r.isin], name |-> r.name] \in aliases
  /\ \A a \in aliases : \E r \in rows : r.name = a.name /\ identifiers[r.isin] = a.issuer
  /\ \A x \in Isins : identifiers[x] # 0 => \E r \in rows : r.isin = x
  /\ \E k \in Nat : {a.issuer : a \in aliases} = 1 .. k
  /\ Connected(identifiers, rows)

\* What the cache of names says is an alias.
Cached(byName, aliases) ==
  /\ byName \in [Names -> Nat \union {Missing}]
  /\ \A n \in Names : byName[n] \notin {0, Missing} =>
       [issuer |-> byName[n], name |-> n] \in aliases

\* An ISIN that has an issuer keeps it.
Kept(before, after) == \A x \in Isins : before[x] # 0 => after[x] = before[x]

\* One row: who it is given to, and that everything known stays known.
LEMMA ResolveKeeps ==
  ASSUME NEW acc, NEW rows, NEW row, row.isin \in Isins, row.name \in Names,
         Known(acc.ident, acc.alias, rows), Cached(acc.byName, acc.alias)
  PROVE  /\ Known(Resolve(acc, row).ident, Resolve(acc, row).alias, rows \union {row})
         /\ Cached(Resolve(acc, row).byName, Resolve(acc, row).alias)
         /\ Kept(acc.ident, Resolve(acc, row).ident)
         /\ Resolve(acc, row).issuers =
              Append(acc.issuers, Resolve(acc, row).ident[row.isin])
<1> DEFINE known == acc.ident[row.isin]
           cached == acc.byName[row.name]
           named == {a.issuer : a \in {b \in acc.alias : b.name = row.name}}
           stored == IF Cardinality(named) = 1 THEN CHOOSE i \in named : TRUE ELSE 0
           found == IF known # 0 THEN known ELSE IF cached # Missing THEN cached ELSE stored
           issuer == IF found # 0 THEN found
                     ELSE Cardinality({a.issuer : a \in acc.alias}) + 1
           current == IF found = 0 THEN issuer
                      ELSE IF known = 0 /\ cached = Missing THEN stored ELSE cached
           own == [issuer |-> issuer, name |-> row.name]
           new == Resolve(acc, row)
           entry == IF current \in {Missing, 0} THEN issuer
                    ELSE IF current # issuer THEN 0 ELSE issuer
<1>0. /\ acc.ident \in [Isins -> Nat] /\ known \in Nat
      /\ acc.alias \subseteq [issuer : Nat \ {0}, name : Names]
      /\ acc.byName \in [Names -> Nat \union {Missing}]
  BY DEF Known, Cached
<1>1. PICK k \in Nat : {a.issuer : a \in acc.alias} = 1 .. k
  BY DEF Known
<1>2. IsFiniteSet(1 .. k) /\ Cardinality({a.issuer : a \in acc.alias}) = k
  <2>1. IsFiniteSet(1 .. k) /\ Cardinality(1 .. k) = IF 1 > k THEN 0 ELSE k - 1 + 1
    BY FS_Interval
  <2>2. Cardinality(1 .. k) = k
    BY <2>1
  <2> QED
    BY <1>1, <2>1, <2>2
<1>3. stored \in Nat /\ (stored # 0 => stored \in named)
  <2>1. named \subseteq 1 .. k
    BY <1>1
  <2>2. IsFiniteSet(named)
    BY <1>2, <2>1, FS_Subset
  <2>3. Cardinality(named) = 1 => \E x : named = {x}
    BY <2>2, FS_Singleton
  <2>4. Cardinality(named) = 1 => stored \in named
    <3> HIDE DEF named
    <3> QED
      BY <2>3
  <2>5. CASE Cardinality(named) = 1
    <3>1. stored \in named
      BY <2>4, <2>5
    <3> HIDE DEF named, stored
    <3>2. stored \in 1 .. k
      BY <2>1, <3>1
    <3> QED
      BY <3>1, <3>2
  <2>6. CASE Cardinality(named) # 1
    BY <2>6
  <2> QED
    BY <2>5, <2>6
<1>4. \A i \in named : [issuer |-> i, name |-> row.name] \in acc.alias
  BY <1>0
<1>5. Missing \in Int /\ Missing \notin Nat /\ Missing # 0
  BY DEF Missing
<1>6. /\ found \in Nat
      /\ found # 0 /\ known = 0 => [issuer |-> found, name |-> row.name] \in acc.alias
  <2>1. cached \in Nat \union {Missing}
    BY <1>0
  <2>2. cached \notin {0, Missing} => [issuer |-> cached, name |-> row.name] \in acc.alias
    BY DEF Cached
  <2> HIDE DEF known, cached, stored, named
  <2> QED
    BY <1>0, <1>3, <1>4, <1>5, <2>1, <2>2
<1>7. /\ issuer \in Nat \ {0}
      /\ known # 0 => issuer = known
      /\ found # 0 => issuer = found
      /\ found = 0 => known = 0 /\ issuer = k + 1
  <2> DEFINE count == Cardinality({a.issuer : a \in acc.alias})
  <2>1. count = k
    BY <1>2
  <2> HIDE DEF known, cached, stored, named, count
  <2>2. known # 0 => found = known
    OBVIOUS
  <2>3. issuer = IF found # 0 THEN found ELSE count + 1
    BY DEF count
  <2> HIDE DEF found, issuer
  <2> QED
    BY <1>0, <1>6, <2>1, <2>2, <2>3
<1>8. /\ new.ident = Identify(acc.ident, row.isin, issuer)
      /\ new.alias = acc.alias \union {own}
      /\ new.byName = [acc.byName EXCEPT ![row.name] = entry]
      /\ new.issuers = Append(acc.issuers, issuer)
  BY DEF Resolve
<1>9. entry \in Nat /\ (entry # 0 => entry = issuer)
  <2> HIDE DEF issuer, current
  <2> QED
    BY <1>7
<1> HIDE DEF known, cached, named, stored, found, issuer, current, new, entry
<1>10. /\ new.ident \in [Isins -> Nat]
       /\ new.ident[row.isin] = issuer
       /\ \A x \in Isins : x # row.isin => new.ident[x] = acc.ident[x]
       /\ Kept(acc.ident, new.ident)
  BY <1>0, <1>7, <1>8 DEF Identify, Kept, known
<1>11. Cached(new.byName, new.alias)
  <2>1. new.byName \in [Names -> Nat \union {Missing}]
    BY <1>0, <1>8, <1>9
  <2>2. \A n \in Names : new.byName[n] = IF n = row.name THEN entry ELSE acc.byName[n]
    BY <1>0, <1>8
  <2>3. \A n \in Names : acc.byName[n] \notin {0, Missing} =>
          [issuer |-> acc.byName[n], name |-> n] \in acc.alias
    BY DEF Cached
  <2> QED
    BY <1>8, <1>9, <2>1, <2>2, <2>3 DEF Cached
<1>12. own \in [issuer : Nat \ {0}, name : Names] /\ own.issuer = issuer /\ own.name = row.name
  BY <1>7
<1>13. \A r \in rows : r.isin \in Isins /\ acc.ident[r.isin] # 0 /\ new.ident[r.isin] = acc.ident[r.isin]
  BY <1>10 DEF Known, Kept
<1>14. new.alias \subseteq [issuer : Nat \ {0}, name : Names]
  BY <1>0, <1>8, <1>12
<1>15. \A r \in rows \union {row} :
         /\ r.isin \in Isins /\ r.name \in Names /\ new.ident[r.isin] # 0
         /\ [issuer |-> new.ident[r.isin], name |-> r.name] \in new.alias
  BY <1>7, <1>8, <1>10, <1>13 DEF Known
<1>16. \A a \in new.alias : \E r \in rows \union {row} :
         r.name = a.name /\ new.ident[r.isin] = a.issuer
  <2>1. \A a \in acc.alias : \E r \in rows : r.name = a.name /\ new.ident[r.isin] = a.issuer
    BY <1>13 DEF Known
  <2> QED
    BY <1>8, <1>10, <1>12, <2>1
<1>17. \A x \in Isins : new.ident[x] # 0 => \E r \in rows \union {row} : r.isin = x
  BY <1>10 DEF Known
<1>18. \E j \in Nat : {a.issuer : a \in new.alias} = 1 .. j
  <2>1. {a.issuer : a \in new.alias} = (1 .. k) \union {issuer}
    BY <1>1, <1>8, <1>12
  <2>2. CASE found = 0
    BY <1>7, <2>1, <2>2
  <2>3. CASE found # 0
    <3>1. \E a \in acc.alias : a.issuer = issuer
      <4>1. CASE known = 0
        <5>1. [issuer |-> found, name |-> row.name].issuer = issuer
          BY <1>7, <2>3
        <5> QED
          BY <1>6, <2>3, <4>1, <5>1
      <4>2. CASE known # 0
        <5>1. PICK r \in rows : r.isin = row.isin
          BY <4>2 DEF Known, known
        <5>2. [issuer |-> known, name |-> r.name] \in acc.alias
          BY <5>1 DEF Known, known
        <5>3. [issuer |-> known, name |-> r.name].issuer = issuer
          BY <1>7, <4>2
        <5> QED
          BY <5>2, <5>3
      <4> QED
        BY <4>1, <4>2
    <3>2. issuer \in 1 .. k
      BY <1>1, <3>1
    <3>3. (1 .. k) \union {issuer} = 1 .. k
      BY <3>2
    <3> QED
      BY <2>1, <3>3
  <2> QED
    BY <2>2, <2>3
<1>19. Connected(new.ident, rows \union {row})
  <2> SUFFICES ASSUME NEW i \in Nat \ {0}, NEW part \in SUBSET Isins, part # {},
                      \A x \in part : new.ident[x] = i,
                      NEW z \in Isins \ part, new.ident[z] = i
               PROVE  \E x \in part, y \in Isins \ part :
                        new.ident[y] = i /\ LinkedBy(rows \union {row}, x, y)
    BY DEF Connected
  <2>1. \A x, y : LinkedBy(rows, x, y) => LinkedBy(rows \union {row}, x, y)
    BY DEF LinkedBy
  <2>2. Connected(acc.ident, rows)
    BY DEF Known
  <2>3. CASE known # 0 \/ i # issuer
    <3>1. \A x \in Isins : new.ident[x] = i <=> acc.ident[x] = i
      BY <1>7, <1>10, <2>3 DEF known
    <3>2. \E x \in part, y \in Isins \ part : acc.ident[y] = i /\ LinkedBy(rows, x, y)
      BY <2>2, <3>1 DEF Connected
    <3> QED
      BY <2>1, <3>1, <3>2
  <2>4. CASE known = 0 /\ i = issuer
    <3> DEFINE new1 == row.isin
               old == part \ {new1}
    <3>1. \A x \in Isins : new.ident[x] = i <=> x = new1 \/ acc.ident[x] = i
      BY <1>7, <1>10, <2>4 DEF known
    <3>2. found # 0
      <4>1. SUFFICES ASSUME found = 0 PROVE FALSE
        OBVIOUS
      <4>2. PICK x \in Isins : acc.ident[x] = i
        BY <3>1
      <4>3. PICK r \in rows : r.isin = x
        BY <4>2 DEF Known
      <4>4. [issuer |-> i, name |-> r.name] \in acc.alias
        BY <4>2, <4>3 DEF Known
      <4>5. i \in 1 .. k
        BY <1>1, <4>4
      <4> QED
        BY <1>7, <2>4, <4>1, <4>5
    <3>3. PICK s \in rows : s.name = row.name /\ acc.ident[s.isin] = i
      <4>1. [issuer |-> i, name |-> row.name] \in acc.alias
        BY <1>6, <1>7, <2>4, <3>2
      <4>2. [issuer |-> i, name |-> row.name].issuer = i
            /\ [issuer |-> i, name |-> row.name].name = row.name
        OBVIOUS
      <4>3. \A a \in acc.alias : \E r \in rows : r.name = a.name /\ acc.ident[r.isin] = a.issuer
        BY DEF Known
      <4> QED
        BY <4>1, <4>2, <4>3
    <3>4. s.isin \in Isins /\ s.isin # new1
      BY <1>13, <2>4, <3>3 DEF known
    <3>5. /\ LinkedBy(rows \union {row}, new1, s.isin)
          /\ LinkedBy(rows \union {row}, s.isin, new1)
      BY <3>3 DEF LinkedBy
    <3>6. acc.ident[new1] # i
      BY <2>4 DEF known
    <3> HIDE DEF new1
    <3>7. new1 \in Isins
      BY DEF new1
    <3>8. CASE \E y \in Isins \ old : acc.ident[y] = i
      <4>1. CASE old = {}
        <5>1. part = {new1}
          BY <4>1
        <5>2. s.isin \in Isins \ part /\ new.ident[s.isin] = i
          BY <3>1, <3>3, <3>4, <5>1
        <5> QED
          BY <3>5, <5>1, <5>2
      <4>2. CASE old # {}
        <5>1. old \in SUBSET Isins /\ \A x \in old : acc.ident[x] = i
          BY <3>1
        <5>2. PICK x \in old, y \in Isins \ old : acc.ident[y] = i /\ LinkedBy(rows, x, y)
          BY <2>2, <3>8, <4>2, <5>1 DEF Connected
        <5>3. y \in Isins \ part /\ new.ident[y] = i
          BY <3>1, <3>6, <5>2
        <5> QED
          BY <2>1, <5>2, <5>3
      <4> QED
        BY <4>1, <4>2
    <3>9. CASE ~ \E y \in Isins \ old : acc.ident[y] = i
      <4>1. z = new1
        BY <3>1, <3>9
      <4>2. s.isin \in part
        BY <3>3, <3>4, <3>9
      <4> QED
        BY <3>5, <4>1, <4>2
    <3> QED
      BY <3>8, <3>9
  <2> QED
    BY <2>3, <2>4
<1>20. Known(new.ident, new.alias, rows \union {row})
  BY <1>10, <1>14, <1>15, <1>16, <1>17, <1>18, <1>19 DEF Known
<1> QED
  BY <1>8, <1>10, <1>11, <1>20 DEF new

\* After each row, in the order of the rows.
LEMMA ResolvingByRow ==
  ASSUME NEW file, Len(file) \in Nat
  PROVE  \A n \in 0 .. Len(file) :
           Resolving(file)[n] =
             IF n = 0 THEN Unresolved ELSE Resolve(Resolving(file)[n - 1], file[n])
<1> DEFINE Steps(f, n) ==
             f = [k \in 0 .. n |-> IF k = 0 THEN Unresolved ELSE Resolve(f[k - 1], file[k])]
           P(n) == \E f : Steps(f, n)
           Bad == {n \in Nat : ~P(n)}
<1>1. P(0)
  <2>1. Steps([k \in 0 .. 0 |-> Unresolved], 0)
    OBVIOUS
  <2> QED
    BY <2>1
<1>2. ASSUME NEW n \in Nat, P(n) PROVE P(n + 1)
  <2>1. PICK f : Steps(f, n)
    BY <1>2
  <2> DEFINE g == [k \in 0 .. n + 1 |-> IF k = n + 1 THEN Resolve(f[n], file[n + 1]) ELSE f[k]]
  <2>2. ASSUME NEW k \in 0 .. n + 1
        PROVE  g[k] = IF k = 0 THEN Unresolved ELSE Resolve(g[k - 1], file[k])
    <3>1. CASE k = n + 1
      <4>1. k - 1 = n /\ n \in 0 .. n + 1 /\ n # n + 1 /\ k # 0
        BY <3>1
      <4>2. g[k - 1] = f[n]
        BY <4>1
      <4> QED
        BY <3>1, <4>1, <4>2
    <3>2. CASE k # n + 1
      <4>1. k \in 0 .. n /\ g[k] = f[k]
        BY <3>2
      <4>2. k # 0 => k - 1 \in 0 .. n + 1 /\ k - 1 # n + 1
        BY <4>1
      <4>3. k # 0 => g[k - 1] = f[k - 1]
        BY <4>2
      <4> QED
        BY <2>1, <4>1, <4>3
    <3> QED
      BY <3>1, <3>2
  <2>3. Steps(g, n + 1)
    BY <2>2
  <2> QED
    BY <2>3
<1> HIDE DEF P
<1>3. Bad = {}
  <2> SUFFICES ASSUME Bad # {} PROVE FALSE
    OBVIOUS
  <2>1. PICK n \in Bad : \A m \in Bad : n <= m
    BY LeastNumber
  <2>2. n - 1 \in Nat /\ n - 1 \notin Bad
    BY <1>1, <2>1
  <2>3. P((n - 1) + 1) /\ (n - 1) + 1 = n
    BY <1>2, <2>1, <2>2
  <2> QED
    BY <2>3
<1>4. P(Len(file))
  BY <1>3
<1>5. Steps(Resolving(file), Len(file))
  BY <1>4 DEF P, Resolving
<1> QED
  BY <1>5

\* A file is a sequence of rows of known ISINs and names.
FileOK(file) ==
  /\ file \in Seq(ToSet(file))
  /\ \A n \in DOMAIN file : file[n].isin \in Isins /\ file[n].name \in Names

RowsOf(file, n) == {file[m] : m \in 1 .. n}

\* A whole file: everything known stays known, its rows are known as well,
\* and each is given to the issuer that its ISIN has in the end.
LEMMA ResolveAllKeeps ==
  ASSUME NEW rows, Known(ident, alias, rows), NEW file, FileOK(file)
  PROVE  /\ Known(ResolveAll(file).ident, ResolveAll(file).alias, rows \union RowsOf(file, Len(file)))
         /\ Kept(ident, ResolveAll(file).ident)
         /\ DOMAIN ResolveAll(file).issuers = DOMAIN file
         /\ \A n \in DOMAIN file :
              ResolveAll(file).issuers[n] = ResolveAll(file).ident[file[n].isin]
<1>0. Len(file) \in Nat /\ DOMAIN file = 1 .. Len(file)
  BY DEF FileOK
<1> DEFINE acc(n) == Resolving(file)[n]
           P(n) == /\ Known(acc(n).ident, acc(n).alias, rows \union RowsOf(file, n))
                   /\ Cached(acc(n).byName, acc(n).alias)
                   /\ Kept(ident, acc(n).ident)
                   /\ acc(n).issuers \in Seq(Nat) /\ Len(acc(n).issuers) = n
                   /\ \A m \in 1 .. n : acc(n).issuers[m] = acc(n).ident[file[m].isin]
           Bad == {n \in 0 .. Len(file) : ~P(n)}
<1>1. P(0)
  <2>1. acc(0) = Unresolved
    BY <1>0, ResolvingByRow
  <2>2. /\ Unresolved.ident = ident /\ Unresolved.alias = alias
        /\ Unresolved.byName = [n \in Names |-> Missing] /\ Unresolved.issuers = <<>>
    BY DEF Unresolved
  <2>3. rows \union RowsOf(file, 0) = rows
    BY DEF RowsOf
  <2>4. Cached(Unresolved.byName, alias)
    BY <2>2 DEF Cached
  <2>5. Kept(ident, ident)
    BY DEF Kept
  <2>6. acc(0).issuers \in Seq(Nat) /\ Len(acc(0).issuers) = 0 /\ 1 .. 0 = {}
    BY <2>1, <2>2
  <2>7. acc(0).ident = ident /\ acc(0).alias = alias /\ acc(0).byName = Unresolved.byName
    BY <2>1, <2>2
  <2> HIDE DEF acc
  <2> QED
    BY <2>3, <2>4, <2>5, <2>6, <2>7
<1>2. ASSUME NEW n \in 1 .. Len(file), P(n - 1) PROVE P(n)
  <2> DEFINE old == acc(n - 1)
             new == acc(n)
  <2>1. n - 1 \in 0 .. Len(file) /\ n \in 0 .. Len(file) /\ n # 0
    BY <1>0
  <2>2. new = Resolve(old, file[n])
    BY <1>0, <2>1, ResolvingByRow
  <2>3. file[n].isin \in Isins /\ file[n].name \in Names
    BY <1>0 DEF FileOK
  <2>4. rows \union RowsOf(file, n) = (rows \union RowsOf(file, n - 1)) \union {file[n]}
    <3>1. 1 .. n = (1 .. n - 1) \union {n}
      BY <1>0
    <3> QED
      BY <3>1 DEF RowsOf
  <2>5. /\ Known(old.ident, old.alias, rows \union RowsOf(file, n - 1))
        /\ Cached(old.byName, old.alias)
        /\ Kept(ident, old.ident)
        /\ old.issuers \in Seq(Nat) /\ Len(old.issuers) = n - 1
        /\ \A m \in 1 .. n - 1 : old.issuers[m] = old.ident[file[m].isin]
    BY <1>2
  <2> HIDE DEF old, new
  <2>6. /\ Known(new.ident, new.alias, (rows \union RowsOf(file, n - 1)) \union {file[n]})
        /\ Cached(new.byName, new.alias)
        /\ Kept(old.ident, new.ident)
        /\ new.issuers = Append(old.issuers, new.ident[file[n].isin])
    <3> DEFINE before == rows \union RowsOf(file, n - 1)
               row == file[n]
    <3>1. Known(old.ident, old.alias, before) /\ Cached(old.byName, old.alias)
          /\ row.isin \in Isins /\ row.name \in Names /\ new = Resolve(old, row)
      BY <2>2, <2>3, <2>5
    <3> HIDE DEF before, row
    <3>2. /\ Known(Resolve(old, row).ident, Resolve(old, row).alias, before \union {row})
          /\ Cached(Resolve(old, row).byName, Resolve(old, row).alias)
          /\ Kept(old.ident, Resolve(old, row).ident)
          /\ Resolve(old, row).issuers =
               Append(old.issuers, Resolve(old, row).ident[row.isin])
      BY <3>1, ResolveKeeps
    <3> QED
      BY <3>1, <3>2 DEF before, row
  <2>7. Kept(ident, new.ident)
    BY <2>5, <2>6 DEF Kept
  <2>8. new.ident[file[n].isin] \in Nat
    BY <2>3, <2>6 DEF Known
  <2>9. /\ new.issuers \in Seq(Nat) /\ Len(new.issuers) = n
        /\ new.issuers[n] = new.ident[file[n].isin]
        /\ \A m \in 1 .. n - 1 : new.issuers[m] = old.issuers[m]
    BY <1>0, <2>5, <2>6, <2>8
  <2>10. \A m \in 1 .. n - 1 : new.ident[file[m].isin] = old.ident[file[m].isin]
    <3> SUFFICES ASSUME NEW m \in 1 .. n - 1
                 PROVE  new.ident[file[m].isin] = old.ident[file[m].isin]
      OBVIOUS
    <3>1. file[m] \in RowsOf(file, n - 1)
      BY DEF RowsOf
    <3>2. old.ident[file[m].isin] # 0 /\ file[m].isin \in Isins
      BY <2>5, <3>1 DEF Known
    <3> QED
      BY <2>6, <3>2 DEF Kept
  <2>11. \A m \in 1 .. n : new.issuers[m] = new.ident[file[m].isin]
    <3> SUFFICES ASSUME NEW m \in 1 .. n PROVE new.issuers[m] = new.ident[file[m].isin]
      OBVIOUS
    <3>1. CASE m = n
      BY <2>9, <3>1
    <3>2. CASE m # n
      <4>1. m \in 1 .. n - 1
        BY <1>0, <3>2
      <4> QED
        BY <2>5, <2>9, <2>10, <4>1
    <3> QED
      BY <3>1, <3>2
  <2> QED
    BY <2>4, <2>6, <2>7, <2>9, <2>11 DEF new
<1> HIDE DEF P
<1>3. Bad = {}
  <2> SUFFICES ASSUME Bad # {} PROVE FALSE
    OBVIOUS
  <2>0. Bad \in SUBSET Nat
    BY <1>0
  <2> HIDE DEF Bad
  <2>1. PICK n \in Bad : \A m \in Bad : n <= m
    BY <2>0, LeastNumber
  <2> USE DEF Bad
  <2>2. n \in 1 .. Len(file) /\ n - 1 \in 0 .. Len(file) /\ n - 1 \notin Bad
    BY <1>0, <1>1, <2>1
  <2> QED
    BY <1>2, <2>1, <2>2
<1>4. P(Len(file))
  BY <1>0, <1>3
<1> QED
  BY <1>0, <1>4 DEF P, ResolveAll

\* The sync goes through the datasets in order, and what is published has been
\* imported.
Has(snapshots, d, file) == \E s \in snapshots : s.dataset = d /\ s.file = file
SyncProgress ==
  /\ fetched \in FileSets \union {None} /\ heads \in FileSets \union {None}
  /\ stage \in 0 .. Len(ImportOrder) /\ (stage # 0 => fetched # None)
  /\ syncs \in 0 .. MaxSyncs /\ (fetched # None => syncs < MaxSyncs)
  /\ \A k \in 1 .. stage : Has(imported, ImportOrder[k], fetched[ImportOrder[k]])
  /\ heads # None => \A d \in Datasets : Has(imported, d, heads[d])

\* Every imported row is known and belongs to the issuer of its ISIN.
OwnIssuers(s) ==
  /\ FileOK(s.file) /\ DOMAIN s.issuers = DOMAIN s.file
  /\ \A n \in DOMAIN s.file : ident[s.file[n].isin] = s.issuers[n]
IdentityOK ==
  /\ Known(ident, alias, IsinRows)
  /\ \A s \in imported : OwnIssuers(s)

\* The inductive invariant of the imports.
ImportsOK == SyncProgress /\ IdentityOK

\* The imports of a sync are those of the four datasets.
LEMMA ImportOrderIsWhole ==
  /\ Len(ImportOrder) = 4
  /\ \A k \in 1 .. 4 : ImportOrder[k] \in Datasets
  /\ \A d \in Datasets : \E k \in 1 .. 4 : ImportOrder[k] = d
BY DEF ImportOrder, Datasets

\* In an empty database nobody is known.
LEMMA ImportsBegin == Init => ImportsOK
<1> SUFFICES ASSUME Init PROVE ImportsOK
  OBVIOUS
<1>1. SyncProgress
  BY FilesAssumption, ImportOrderIsWhole DEF Init, SyncProgress
<1>2. imported = {} /\ alias = {} /\ ident = [x \in Isins |-> 0]
  BY DEF Init
<1>3. IsinRows = {}
  BY <1>2 DEF IsinRows
<1>4. {a.issuer : a \in alias} = 1 .. 0
  BY <1>2
<1>5. Connected(ident, {})
  BY <1>2 DEF Connected
<1>6. Known(ident, alias, {})
  BY <1>2, <1>4, <1>5 DEF Known
<1> QED
  BY <1>1, <1>2, <1>3, <1>6 DEF ImportsOK, IdentityOK

\* A fetched file is one.
LEMMA FetchedFileOK ==
  ASSUME fetched \in FileSets, NEW d \in Datasets PROVE FileOK(fetched[d])
BY FilesAssumption DEF FileOK

\* Importing a file resolves its rows, unless it was imported before.
LEMMA ImportKeeps == ASSUME ImportsOK, Import PROVE ImportsOK'
<1> DEFINE d == ImportOrder[stage + 1]
           file == fetched[d]
           result == ResolveAll(file)
           new == [dataset |-> d, file |-> file, issuers |-> result.issuers]
<1>0. /\ SyncProgress /\ IdentityOK
      /\ fetched \in FileSets /\ stage \in 0 .. 3 /\ stage' = stage + 1
      /\ UNCHANGED <<fetched, syncs, heads>>
  BY ImportOrderIsWhole DEF ImportsOK, SyncProgress, Import
<1>1. d \in Datasets /\ FileOK(file)
  BY <1>0, ImportOrderIsWhole, FetchedFileOK
<1>2. ASSUME Has(imported', d, file), imported \subseteq imported' PROVE SyncProgress'
  <2>1. \A e, g : Has(imported, e, g) => Has(imported', e, g)
    BY <1>2 DEF Has
  <2>2. \A k \in 1 .. stage' : Has(imported', ImportOrder[k], fetched[ImportOrder[k]])
    <3> SUFFICES ASSUME NEW k \in 1 .. stage + 1
                 PROVE  Has(imported', ImportOrder[k], fetched[ImportOrder[k]])
      BY <1>0
    <3>1. CASE k = stage + 1
      BY <1>2, <3>1
    <3>2. CASE k # stage + 1
      <4>1. k \in 1 .. stage
        BY <1>0, <3>2
      <4>2. Has(imported, ImportOrder[k], fetched[ImportOrder[k]])
        BY <1>0, <4>1 DEF SyncProgress
      <4> QED
        BY <2>1, <4>2
    <3> QED
      BY <3>1, <3>2
  <2>3. heads # None => \A e \in Datasets : Has(imported', e, heads[e])
    BY <1>0, <2>1 DEF SyncProgress
  <2>4. stage' \in 0 .. Len(ImportOrder) /\ fetched # None /\ syncs < MaxSyncs
        /\ syncs \in 0 .. MaxSyncs /\ heads \in FileSets \union {None}
    BY <1>0, ImportOrderIsWhole, ExportAssumption DEF SyncProgress
  <2> QED
    BY <1>0, <2>2, <2>3, <2>4 DEF SyncProgress
<1>3. CASE UNCHANGED identityVars /\ \E s \in imported : s.dataset = d /\ s.file = file
  <2>1. UNCHANGED <<ident, alias, imported>>
    BY <1>3 DEF identityVars
  <2>2. Has(imported', d, file)
    BY <1>3, <2>1 DEF Has
  <2>3. SyncProgress'
    BY <1>2, <2>1, <2>2
  <2>4. Known(ident, alias, IsinRows)' /\ \A s \in imported' : OwnIssuers(s)'
    BY <1>0, <2>1 DEF IdentityOK, OwnIssuers, IsinRows
  <2> QED
    BY <2>3, <2>4 DEF ImportsOK, IdentityOK
<1>4. CASE imported' = imported \union {new} /\ ident' = result.ident /\ alias' = result.alias
  <2>0. new.dataset = d /\ new.file = file /\ new.issuers = result.issuers
    OBVIOUS
  <2>1. Has(imported', d, file)
    BY <1>4, <2>0 DEF Has
  <2>2. SyncProgress'
    BY <1>2, <1>4, <2>1
  <2>3. /\ Known(result.ident, result.alias, IsinRows \union RowsOf(file, Len(file)))
        /\ Kept(ident, result.ident)
        /\ DOMAIN result.issuers = DOMAIN file
        /\ \A n \in DOMAIN file : result.issuers[n] = result.ident[file[n].isin]
    BY <1>0, <1>1, ResolveAllKeeps DEF IdentityOK
  <2>4. IsinRows' = IsinRows \union RowsOf(file, Len(file))
    <3>1. DOMAIN file = 1 .. Len(file)
      BY <1>1 DEF FileOK
    <3>2. RowsOf(file, Len(file)) = {new.file[n] : n \in DOMAIN new.file}
      BY <2>0, <3>1 DEF RowsOf
    <3> HIDE DEF new, file
    <3> QED
      BY <1>4, <3>2 DEF IsinRows
  <2>5. Known(ident', alias', IsinRows')
    BY <1>4, <2>3, <2>4
  <2>6. ASSUME NEW s \in imported
        PROVE  /\ FileOK(s.file) /\ DOMAIN s.issuers = DOMAIN s.file
               /\ \A n \in DOMAIN s.file : ident'[s.file[n].isin] = s.issuers[n]
    <3>1. OwnIssuers(s)
      BY <1>0 DEF IdentityOK
    <3>2. ASSUME NEW n \in DOMAIN s.file PROVE ident'[s.file[n].isin] = ident[s.file[n].isin]
      <4>1. s.file[n] \in IsinRows
        BY DEF IsinRows
      <4>2. s.file[n].isin \in Isins /\ ident[s.file[n].isin] # 0
        BY <1>0, <4>1 DEF IdentityOK, Known
      <4> QED
        BY <1>4, <2>3, <4>2 DEF Kept
    <3> QED
      BY <3>1, <3>2 DEF OwnIssuers
  <2>7. /\ DOMAIN new.issuers = DOMAIN new.file
        /\ \A n \in DOMAIN new.file : ident'[new.file[n].isin] = new.issuers[n]
    BY <1>4, <2>0, <2>3
  <2>8. \A s \in imported' : /\ FileOK(s.file) /\ DOMAIN s.issuers = DOMAIN s.file
                             /\ \A n \in DOMAIN s.file : ident'[s.file[n].isin] = s.issuers[n]
    BY <1>1, <1>4, <2>0, <2>6, <2>7
  <2> QED
    BY <2>2, <2>5, <2>8 DEF ImportsOK, IdentityOK, OwnIssuers
<1> QED
  BY <1>3, <1>4 DEF Import

\* Fetching and publishing leave the identity alone.
LEMMA PublishKeeps == ASSUME ImportsOK, Fetch \/ Publish PROVE ImportsOK'
<1>0. SyncProgress /\ IdentityOK /\ None \notin FileSets /\ MaxSyncs \in Nat
  BY ExportAssumption, FilesAssumption DEF ImportsOK
<1>1. UNCHANGED <<ident, alias, imported>>
  BY DEF Fetch, Publish, identityVars
<1>2. IdentityOK'
  BY <1>0, <1>1 DEF IdentityOK, OwnIssuers, IsinRows
<1>3. CASE Fetch
  <2>1. /\ fetched' \in FileSets /\ fetched' # None
        /\ stage = 0 /\ stage' = 0 /\ syncs < MaxSyncs /\ UNCHANGED <<syncs, heads>>
    BY <1>0, <1>3 DEF Fetch, FileSets, SyncProgress
  <2> QED
    BY <1>0, <1>1, <1>2, <2>1, ImportOrderIsWhole DEF ImportsOK, SyncProgress
<1>4. CASE Publish
  <2>1. /\ fetched \in FileSets /\ stage = 4 /\ syncs < MaxSyncs
        /\ heads' = fetched /\ fetched' = None /\ stage' = 0 /\ syncs' = syncs + 1
    BY <1>0, <1>4, ImportOrderIsWhole DEF Publish, SyncProgress
  <2>2. \A d \in Datasets : Has(imported, d, fetched[d])
    BY <1>0, <2>1, ImportOrderIsWhole DEF SyncProgress
  <2>3. heads' # None => \A d \in Datasets : Has(imported', d, heads'[d])
    BY <1>1, <2>1, <2>2
  <2>4. syncs' \in 0 .. MaxSyncs /\ stage' \in 0 .. Len(ImportOrder)
    BY <1>0, <2>1, ImportOrderIsWhole DEF SyncProgress
  <2> QED
    BY <1>2, <2>1, <2>3, <2>4 DEF ImportsOK, SyncProgress
<1> QED
  BY <1>3, <1>4

\* Readers and exporters leave all of it alone.
LEMMA ImportsStay == ASSUME ImportsOK, [Next]_vars PROVE ImportsOK'
<1>1. CASE Sync
  BY <1>1, ImportKeeps, PublishKeeps DEF Sync
<1>2. CASE UNCHANGED vars \/ (\E r \in Readers : Read(r)) \/ (\E e \in Exporters : Export(e))
  <2>1. UNCHANGED <<fetched, stage, syncs, ident, alias, imported, heads>>
    BY <1>2 DEF vars, syncVars, identityVars, Read, Unread, ReadSecurity, ReadHeads,
                ReadHistoric, ReadCurrent, ReaderLeaves, Export,
                ExportUnread, BeginExport, ReadExportHeads, Build, LookAtOutput, MoveAside,
                Install, Restore, CleanUp, Die
  <2>2. SyncProgress'
    BY <2>1 DEF ImportsOK, SyncProgress
  <2>3. IdentityOK'
    BY <2>1 DEF ImportsOK, IdentityOK, OwnIssuers, IsinRows
  <2> QED
    BY <2>2, <2>3 DEF ImportsOK
<1> QED
  BY <1>1, <1>2 DEF Next

\* There are no more issuers than ISINs, and every issuer has a name.
LEMMA IssuersCounted ==
  ASSUME IdentityOK
  PROVE  /\ ident \in [Isins -> 0 .. Cardinality(Isins)]
         /\ \A a \in alias : a.issuer \in 1 .. Cardinality(Isins) /\ a.name \in Names
<1>0. /\ ident \in [Isins -> Nat] /\ alias \subseteq [issuer : Nat \ {0}, name : Names]
      /\ IsFiniteSet(Isins) /\ Cardinality(Isins) \in Nat
  BY FilesAssumption, FS_CardinalityType DEF IdentityOK, Known
<1>1. PICK k \in Nat : {a.issuer : a \in alias} = 1 .. k
  BY DEF IdentityOK, Known
<1> DEFINE used == {ident[x] : x \in Isins}
<1>2. 1 .. k \subseteq used
  <2> SUFFICES ASSUME NEW i \in 1 .. k PROVE i \in used
    OBVIOUS
  <2>1. PICK a \in alias : a.issuer = i
    BY <1>1
  <2>2. PICK r \in IsinRows : ident[r.isin] = i
    BY <2>1 DEF IdentityOK, Known
  <2>3. r.isin \in Isins
    BY DEF IdentityOK, Known
  <2> QED
    BY <2>2, <2>3
<1>3. k <= Cardinality(Isins)
  <2>1. ident \in Surjection(Isins, used)
    BY <1>0 DEF Surjection
  <2>2. IsFiniteSet(used) /\ Cardinality(used) <= Cardinality(Isins)
    <3> HIDE DEF used
    <3> QED
      BY <1>0, <2>1, FS_Surjection
  <2>3. Cardinality(1 .. k) = k
    <3>1. Cardinality(1 .. k) = IF 1 > k THEN 0 ELSE k - 1 + 1
      BY FS_Interval
    <3> QED
      BY <3>1
  <2>4. Cardinality(1 .. k) <= Cardinality(used)
    <3> HIDE DEF used
    <3> QED
      BY <1>2, <2>2, FS_Subset
  <2>5. Cardinality(used) \in Nat
    <3> HIDE DEF used
    <3> QED
      BY <2>2, FS_CardinalityType
  <2> HIDE DEF used
  <2> QED
    BY <1>0, <2>2, <2>3, <2>4, <2>5
<1>4. ASSUME NEW x \in Isins PROVE ident[x] \in 0 .. k
  <2>1. CASE ident[x] = 0
    BY <2>1
  <2>2. CASE ident[x] # 0
    <3>1. PICK r \in IsinRows : r.isin = x
      BY <2>2 DEF IdentityOK, Known
    <3>2. [issuer |-> ident[x], name |-> r.name] \in alias
      BY <3>1 DEF IdentityOK, Known
    <3>3. ident[x] \in 1 .. k
      BY <1>1, <3>2
    <3> QED
      BY <3>3
  <2> QED
    BY <2>1, <2>2
<1>5. \A a \in alias : a.issuer \in 1 .. k /\ a.name \in Names
  BY <1>0, <1>1
<1> QED
  BY <1>0, <1>3, <1>4, <1>5

\* What the identity of issuers means.
LEMMA IdentityOKHolds == ASSUME IdentityOK PROVE IdentityHolds
<1>1. \A s \in imported : \A n \in DOMAIN s.file : ident[s.file[n].isin] = s.issuers[n]
  BY DEF IdentityOK, OwnIssuers
<1>2. ASSUME NEW i \in Issuers,
             NEW part \in (SUBSET {x \in Isins : ident[x] = i})
                            \ {{}, {x \in Isins : ident[x] = i}}
      PROVE  \E x \in part, y \in {z \in Isins : ident[z] = i} \ part : Linked(x, y)
  <2>1. i \in Nat \ {0} /\ Connected(ident, IsinRows)
    BY DEF Issuers, IdentityOK, Known
  <2>2. /\ part \in SUBSET Isins /\ part # {} /\ \A x \in part : ident[x] = i
        /\ \E y \in Isins \ part : ident[y] = i
    OBVIOUS
  <2>3. PICK x \in part, y \in Isins \ part : ident[y] = i /\ LinkedBy(IsinRows, x, y)
    BY <2>1, <2>2 DEF Connected
  <2> QED
    BY <2>3 DEF Linked, LinkedBy
<1> QED
  BY <1>1, <1>2 DEF IdentityHolds

\* The inductive invariant of the imports.
THEOREM ImportInvariance == Spec => []ImportsOK
BY ImportsBegin, ImportsStay, PTL DEF Spec

-----------------------------------------------------------------------------
(* What a request has read                                                 *)

\* All states are read by the heads that were read once.
ReaderOK(q) ==
  /\ q.pc = "current" => q.historic = q.heads
  /\ q.pc = "answered" => q.historic = q.heads /\ q.current = q.heads
ReadersOK == reader \in [Readers -> Reads] /\ \A r \in Readers : ReaderOK(reader[r])

\* Nothing has been read at first.
LEMMA ReadersBegin == Init => ReadersOK
<1> SUFFICES ASSUME Init PROVE ReadersOK
  OBVIOUS
<1>1. NoRead \in Reads /\ ReaderOK(NoRead)
  <2>1. Cardinality(Isins) \in Nat
    BY FilesAssumption, FS_CardinalityType
  <2> QED
    BY <2>1 DEF NoRead, Reads, ReaderOK
<1> QED
  BY <1>1 DEF Init, ReadersOK

\* A step of a request, whatever happens between its steps.
LEMMA ReaderSteps ==
  ASSUME ReadersOK, ImportsOK, NEW r \in Readers, Read(r)
  PROVE  \E q \in Reads : ReaderOK(q) /\ reader' = [reader EXCEPT ![r] = q]
<1>0. /\ reader \in [Readers -> Reads] /\ reader[r] \in Reads /\ ReaderOK(reader[r])
      /\ heads \in FileSets \union {None}
  BY DEF ReadersOK, ImportsOK, SyncProgress
<1>1. NoRead \in Reads /\ ReaderOK(NoRead)
  <2>1. Cardinality(Isins) \in Nat
    BY FilesAssumption, FS_CardinalityType
  <2> QED
    BY <2>1 DEF NoRead, Reads, ReaderOK
<1>2. CASE ReadSecurity(r)
  <2>1. PICK isin \in Isins :
          reader' = [reader EXCEPT ![r] = [NoRead EXCEPT !.pc = "heads", !.shares = heads,
                                                         !.issuer = ident[isin]]]
    BY <1>2 DEF ReadSecurity
  <2> DEFINE q == [NoRead EXCEPT !.pc = "heads", !.shares = heads, !.issuer = ident[isin]]
  <2>2. ident[isin] \in 0 .. Cardinality(Isins)
    BY IssuersCounted DEF ImportsOK
  <2>3. q \in Reads /\ q.pc = "heads"
    BY <1>0, <1>1, <2>2 DEF Reads, NoRead
  <2> QED
    BY <2>1, <2>3 DEF ReaderOK
<1>3. CASE ReadHeads(r)
  <2> DEFINE q == [reader[r] EXCEPT !.heads = heads, !.pc = "historic"]
  <2>1. q \in Reads /\ q.pc = "historic"
    BY <1>0 DEF Reads
  <2>2. reader' = [reader EXCEPT ![r] = q]
    BY <1>0, <1>3 DEF ReadHeads, Reads
  <2> QED
    BY <2>1, <2>2 DEF ReaderOK
<1>4. CASE ReadHistoric(r)
  <2> DEFINE q == [reader[r] EXCEPT !.historic = reader[r].heads, !.pc = "current"]
  <2>1. q \in Reads /\ q.pc = "current" /\ q.historic = q.heads
    BY <1>0 DEF Reads
  <2>2. reader' = [reader EXCEPT ![r] = q]
    BY <1>0, <1>4 DEF ReadHistoric, Reads
  <2> QED
    BY <2>1, <2>2 DEF ReaderOK
<1>5. CASE ReadCurrent(r)
  <2> DEFINE p == [reader[r] EXCEPT !.current = reader[r].heads]
             q == [p EXCEPT !.pc = "answered"]
  <2>1. reader' = [reader EXCEPT ![r] = Charting(p)] /\ reader[r].pc = "current"
    BY <1>5 DEF ReadCurrent
  <2>2. Charting(p) = NoRead \/ Charting(p) = q
    <3> HIDE DEF p
    <3> QED
      BY DEF Charting
  <2>3. q \in Reads /\ q.pc = "answered" /\ q.historic = reader[r].historic
        /\ q.heads = reader[r].heads /\ q.current = reader[r].heads
    BY <1>0 DEF Reads
  <2> HIDE DEF p, q
  <2>4. ReaderOK(q)
    BY <1>0, <2>1, <2>3 DEF ReaderOK
  <2> QED
    BY <1>1, <2>1, <2>2, <2>3, <2>4
<1>6. CASE ReaderLeaves(r)
  BY <1>1, <1>6 DEF ReaderLeaves
<1> QED
  BY <1>2, <1>3, <1>4, <1>5, <1>6 DEF Read

\* Syncs and exporters leave the requests alone.
LEMMA ReadersStay == ASSUME ReadersOK, ImportsOK, [Next]_vars PROVE ReadersOK'
<1>1. CASE \E r \in Readers : Read(r)
  <2>1. PICK r \in Readers : Read(r)
    BY <1>1
  <2>2. PICK q \in Reads : ReaderOK(q) /\ reader' = [reader EXCEPT ![r] = q]
    BY <2>1, ReaderSteps
  <2> QED
    BY <2>2 DEF ReadersOK
<1>2. CASE UNCHANGED vars \/ Sync \/ \E e \in Exporters : Export(e)
  <2>1. reader' = reader
    BY <1>2 DEF vars, Sync, Fetch, Import, Publish, Export, ExportUnread, BeginExport,
                ReadExportHeads, Build, LookAtOutput, MoveAside, Install, Restore, CleanUp, Die
  <2> QED
    BY <2>1 DEF ReadersOK
<1> QED
  BY <1>1, <1>2 DEF Next

\* The inductive invariant of the requests.
THEOREM ReaderInvariance == Spec => []ReadersOK
BY ReadersBegin, ReadersStay, ImportInvariance, PTL DEF Spec

-----------------------------------------------------------------------------
(* What the runs check                                                     *)

\* Every variable keeps its type, there are never more issuers than ISINs, and
\* what is published has been imported.
THEOREM TypeCorrect == Spec => []TypeOK
<1>1. IInv /\ ImportsOK /\ ReadersOK => TypeOK
  <2> SUFFICES ASSUME IInv, ImportsOK, ReadersOK PROVE TypeOK
    OBVIOUS
  <2>1. /\ ident \in [Isins -> 0 .. Cardinality(Isins)]
        /\ \A a \in alias : a.issuer \in 1 .. Cardinality(Isins) /\ a.name \in Names
    BY IssuersCounted DEF ImportsOK
  <2>2. heads # None => \A d \in Datasets :
          \E s \in imported : s.dataset = d /\ s.file = heads[d]
    BY DEF ImportsOK, SyncProgress, Has
  <2>3. /\ fetched \in FileSets \union {None}
        /\ stage \in 0 .. Len(ImportOrder) /\ syncs \in 0 .. MaxSyncs
    BY DEF ImportsOK, SyncProgress
  <2>4. reader \in [Readers -> Reads] /\ output \in Directory
    BY DEF IInv, DirectoriesOK, ReadersOK
  <2>5. ASSUME NEW e \in Exporters
        PROVE  /\ exporter[e].pc \in {"idle", "heads", "building", "staged", "moving",
                                      "installing", "restoring", "cleaning"}
               /\ exporter[e].pc \notin {"idle", "heads"} => exporter[e].rows \in FileSets
               /\ backup[e] \in Directory
    BY DEF IInv, Exporting, ExporterOK, DirectoriesOK
  <2> QED
    BY <2>1, <2>2, <2>3, <2>4, <2>5 DEF TypeOK, Directory
<1> QED
  BY <1>1, Invariance, ImportInvariance, ReaderInvariance, PTL

\* An imported row keeps the issuer of its ISIN whatever is imported later, and
\* the ISINs of an issuer are linked by names they were published under.
THEOREM IdentityIsKept == Spec => []IdentityHolds
<1>1. ImportsOK => IdentityHolds
  BY IdentityOKHolds DEF ImportsOK
<1> QED
  BY <1>1, ImportInvariance, PTL

\* Any set of files has states that can be charted.
LEMMA FilesHaveStates == ASSUME NEW set \in FileSets PROVE StatesOK(set)
<1>1. /\ set.current = set["current"] /\ set.historic = set["historic"]
      /\ "current" \in Datasets /\ "historic" \in Datasets
  BY DEF Datasets
<1>2. \A d \in Datasets : Len(set[d]) \in Nat /\ DOMAIN set[d] = 1 .. Len(set[d])
                          /\ \A n \in DOMAIN set[d] : set[d][n] # None
  BY FilesAssumption
<1>3. Dates \subseteq Nat /\ None \notin Nat
  BY FilesAssumption
<1>4. /\ \A n \in DOMAIN set.current : set.current[n].pos \in Dates
      /\ \A n \in DOMAIN set.historic : set.historic[n].became \in Dates
  BY FilesAssumption
<1> QED
  BY <1>1, <1>2, <1>3, <1>4 DEF StatesOK

\* From the first point of a chain of states, its chart shows the state in force
\* on every day, and the front end shows the same points.
THEOREM ChartsShowStates == Spec => []AnspChartShowsStateInForce
<1>1. ImportsOK => AnspChartShowsStateInForce
  <2> SUFFICES ASSUME ImportsOK, heads # None, NEW isin \in Isins
               PROVE  LET points == AnspSeries(heads, isin)
                          isins == {x \in Isins : ident[x] = ident[isin]}
                          shown == {p \in IssuerAnspSeries(heads, isins) : p.isin = isin}
                      IN  /\ \A t \in {d \in Dates : \E p \in points : p.from <= d} :
                               Charted(points, t) = InForce(heads, isin, t)
                          /\ {p \in shown : p.until # None} = {p \in points : p.until # None}
                          /\ shown \subseteq points
    BY DEF AnspChartShowsStateInForce
  <2>1. StatesOK(heads)
    BY FilesHaveStates DEF ImportsOK, SyncProgress
  <2>2. isin \in {x \in Isins : ident[x] = ident[isin]}
    OBVIOUS
  <2>3. Dates \subseteq Nat
    BY FilesAssumption
  <2>4. \A t \in {d \in Dates : \E p \in AnspSeries(heads, isin) : p.from <= d} :
          Charted(AnspSeries(heads, isin), t) = InForce(heads, isin, t)
    BY <2>1, <2>3, ChartShowsStateInForce
  <2> QED
    BY <2>1, <2>2, <2>4, FrontEndShowsExported
<1> QED
  BY <1>1, ImportInvariance, PTL

\* Whatever is published while a series is read, it shows the states of the one
\* set whose heads it read: all that have ended, and on every day from the first
\* point the state in force or, for the current state of a further ISIN, nothing.
THEOREM SeriesShowTheirSet == Spec => []SeriesShowsOneSet
<1>1. ImportsOK /\ ReadersOK => SeriesShowsOneSet
  <2> SUFFICES ASSUME ReadersOK, NEW r \in Readers, reader[r].pc = "answered",
                      reader[r].heads # None,
                      NEW isin \in {x \in Isins : ident[x] = reader[r].issuer}
               PROVE  LET set == reader[r].heads
                          isins == {x \in Isins : ident[x] = reader[r].issuer}
                          shown == {p \in Series(reader[r]) : p.isin = isin}
                          ended == {n \in DOMAIN set.historic : set.historic[n].isin = isin}
                      IN  /\ {<<p.until, p.bp>> : p \in {q \in shown : q.until # None}} =
                               {<<set.historic[n].became, set.historic[n].bp>> : n \in ended}
                          /\ \A t \in {d \in Dates : \E p \in shown : p.from <= d} :
                               \/ Charted(shown, t) = InForce(set, isin, t)
                               \/ /\ Charted(shown, t) = {}
                                  /\ \E n \in DOMAIN set.current :
                                       set.current[n].isin \in isins \ {isin}
    BY DEF SeriesShowsOneSet
  <2> DEFINE set == reader[r].heads
             isins == {x \in Isins : ident[x] = reader[r].issuer}
             read == [rsl |-> Rows(reader[r].shares, "rsl"), historic |-> set.historic,
                      current |-> set.current]
             shown == {p \in Series(reader[r]) : p.isin = isin}
  <2>1. set \in FileSets /\ reader[r].historic = set /\ reader[r].current = set
    BY DEF ReadersOK, ReaderOK, Reads
  <2>2. Series(reader[r]) = IssuerAnspSeries(read, isins)
    BY <2>1 DEF Series, Rows
  <2>3. read.historic = set.historic /\ read.current = set.current
    OBVIOUS
  <2>4. StatesOK(read)
    BY <2>1, <2>3, FilesHaveStates DEF StatesOK
  <2>5. \A t : InForce(read, isin, t) = InForce(set, isin, t)
    BY <2>3 DEF InForce
  <2>6. HistoricOf(read, isin) = {n \in DOMAIN set.historic : set.historic[n].isin = isin}
    BY <2>3 DEF HistoricOf
  <2>7. Dates \subseteq Nat
    BY FilesAssumption
  <2> HIDE DEF read, set, isins
  <2>8. {p \in shown : p.until # None} = {p \in AnspSeries(read, isin) : p.until # None}
    BY <2>2, <2>4, FrontEndShowsExported DEF isins
  <2>9. {<<p.until, p.bp>> : p \in {q \in shown : q.until # None}} =
          {<<set.historic[n].became, set.historic[n].bp>> :
             n \in {n \in DOMAIN set.historic : set.historic[n].isin = isin}}
    BY <2>3, <2>4, <2>6, <2>8, HistoricStatesAreExported
  <2>10. ASSUME NEW t \in Dates, \E p \in shown : p.from <= t
         PROVE  \/ Charted(shown, t) = InForce(set, isin, t)
                \/ /\ Charted(shown, t) = {}
                   /\ \E n \in DOMAIN set.current : set.current[n].isin \in isins \ {isin}
    <3>1. t \in Nat /\ isin \in isins
      BY <2>7 DEF isins
    <3>2. \E p \in IssuerAnspSeries(read, isins) : p.isin = isin /\ p.from <= t
      BY <2>2, <2>10
    <3> QED
      BY <2>2, <2>3, <2>4, <2>5, <3>1, <3>2, FrontEndShowsStateInForce
  <2> QED
    BY <2>9, <2>10 DEF set, isins
<1> QED
  BY <1>1, ImportInvariance, ReaderInvariance, PTL

\* The named disclosures of any set of files can be replayed.
LEMMA FilesHaveDisclosures ==
  ASSUME NEW set \in FileSets PROVE DisclosuresOK(set.legacy)
<1>1. set.legacy = set["legacy"] /\ "legacy" \in Datasets
  BY DEF Datasets
<1>2. Len(set["legacy"]) \in Nat /\ DOMAIN set["legacy"] = 1 .. Len(set["legacy"])
  BY <1>1, FilesAssumption
<1>3. \A n \in DOMAIN set.legacy : set.legacy[n].date \in Nat \ {0} /\ set.legacy[n].bp \in Nat
  BY FilesAssumption
<1> QED
  BY <1>1, <1>2, <1>3 DEF DisclosuresOK

\* The aggregate of an issuer that the front end shows, kept up to date from row
\* to row, is on every day with rows the sum over its holdings of what was last
\* disclosed, and the sum of the series that are exported for its ISINs.
THEOREM SeriesAndAggregateAgree == Spec => []LegacySeriesAgree
<1>1. ImportsOK => LegacySeriesAgree
  <2> SUFFICES ASSUME ImportsOK, heads # None PROVE LegacySeriesAgree
    BY DEF LegacySeriesAgree
  <2> DEFINE s == CHOOSE t \in imported : t.dataset = "legacy" /\ t.file = heads["legacy"]
             file == heads.legacy
             issuers == IssuersOf("legacy")
  <2>1. heads \in FileSets /\ "legacy" \in Datasets
    BY DEF ImportsOK, SyncProgress, Datasets
  <2>2. Has(imported, "legacy", heads["legacy"])
    BY <2>1 DEF ImportsOK, SyncProgress
  <2>3. s \in imported /\ s.file = file
    BY <2>2 DEF Has
  <2>4. issuers = s.issuers
    BY DEF IssuersOf
  <2> HIDE DEF s
  <2>5. OwnIssuers(s)
    BY <2>3 DEF ImportsOK, IdentityOK
  <2>6. IssuersOK(file, issuers)
    BY <2>3, <2>4, <2>5 DEF OwnIssuers, IssuersOK
  <2>7. DisclosuresOK(file)
    BY <2>1, FilesHaveDisclosures
  <2>8. SeriesAgree(file, issuers)
    <3> HIDE DEF file, issuers
    <3> QED
      BY <2>6, <2>7, AggregateAndSeriesAgree
  <2> QED
    BY <2>8 DEF LegacySeriesAgree
<1> QED
  BY <1>1, ImportInvariance, PTL

\* Once an export has been installed, a whole copy of one stays on the disk.
THEOREM ExportIsKept == Spec => LastExportIsKept
<1>1. IInv /\ [Next]_vars => (CopyOnDisk => CopyOnDisk')
  <2> SUFFICES ASSUME IInv, [Next]_vars, CopyOnDisk PROVE CopyOnDisk'
    OBVIOUS
  <2>0. backup \in [Exporters -> Directory] /\ IInv'
    BY StepKeeps DEF IInv, DirectoriesOK
  <2>1. CASE UNCHANGED <<output, backup>>
    BY <2>1 DEF CopyOnDisk
  <2>2. ASSUME NEW e \in Exporters, MoveAside(e), backup' = [backup EXCEPT ![e] = output]
        PROVE  CopyOnDisk'
    <3>1. backup[e] = None
      BY <2>2 DEF MoveAside, IInv, FreeName
    <3> QED
      BY <2>0, <2>2, <3>1 DEF CopyOnDisk, Whole
  <2>3. ASSUME NEW e \in Exporters, Install(e), output' # output PROVE CopyOnDisk'
    <3>1. output = None
      BY <2>3 DEF Install
    <3>2. output' \in FileSets
      BY <2>3 DEF Install, IInv, ExporterOK
    <3> QED
      BY <3>2, ExportAssumption DEF CopyOnDisk, Whole
  <2>4. ASSUME NEW e \in Exporters, output = None, output' = backup[e],
               backup' = [backup EXCEPT ![e] = None]
        PROVE  CopyOnDisk'
    BY <2>0, <2>4 DEF CopyOnDisk, Whole
  <2>5. ASSUME NEW e \in Exporters, CleanUp(e) PROVE CopyOnDisk'
    <3>1. PICK rest \in {None, Partial} : backup' = [backup EXCEPT ![e] = rest]
      BY <2>5 DEF CleanUp
    <3>2. output' = output /\ exporter[e].pc = "cleaning"
      BY <2>5 DEF CleanUp
    <3>3. Spared
      BY <3>2 DEF IInv, CleaningIsSafe
    <3> QED
      BY <2>0, <3>1, <3>2, <3>3 DEF CopyOnDisk, Spared
  <2>6. \/ UNCHANGED <<output, backup>>
        \/ \E e \in Exporters :
             \/ MoveAside(e) /\ backup' = [backup EXCEPT ![e] = output]
             \/ Install(e) /\ output' # output
             \/ output = None /\ output' = backup[e] /\ backup' = [backup EXCEPT ![e] = None]
             \/ CleanUp(e)
    <3>1. CASE UNCHANGED vars \/ Sync \/ \E r \in Readers : Read(r)
      BY <3>1 DEF vars, directoryVars, Sync, Fetch, Import, Publish, Read, Unread,
                  ReadSecurity, ReadHeads, ReadHistoric, ReadCurrent, ReaderLeaves
    <3>2. ASSUME NEW e \in Exporters, Export(e)
          PROVE  \/ UNCHANGED <<output, backup>>
                 \/ MoveAside(e) /\ backup' = [backup EXCEPT ![e] = output]
                 \/ Install(e) /\ output' # output
                 \/ output = None /\ output' = backup[e] /\ backup' = [backup EXCEPT ![e] = None]
                 \/ CleanUp(e)
      BY <3>2 DEF Export, BeginExport, ReadExportHeads, Build, LookAtOutput, MoveAside,
                  Install, Restore, Die, directoryVars
    <3> QED
      BY <3>1, <3>2 DEF Next
  <2> QED
    BY <2>1, <2>2, <2>3, <2>4, <2>5, <2>6
<1> QED
  BY <1>1, Invariance, PTL DEF Spec, LastExportIsKept
=============================================================================
