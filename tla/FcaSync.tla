------------------------------ MODULE FcaSync ------------------------------
(***************************************************************************)
(* FCADataService.sync (fca.py) over the SQLite tables of db.py and the    *)
(* raw archive: every source is fetched and recorded, every dataset is     *)
(* imported, then all the heads move in one transaction, and the run is    *)
(* marked in another one.                                                  *)
(*                                                                         *)
(* Every transaction, archive write and request is one action, and between *)
(* any two of them the process may die or the next one may fail.  One sync *)
(* runs at a time (SyncCoordinator!OneWriter), so its local state is one   *)
(* set of variables.  A dataset is named by the source it is imported from *)
(* and a snapshot by its source and payload: raw_snapshots is unique on    *)
(* (source_key, sha256) and the importer has one version.                  *)
(***************************************************************************)
EXTENDS Naturals, Sequences

CONSTANTS
  Sources,      \* FCA_SOURCES
  Datasets,     \* the sources with a dataset_key
  FetchOrder,   \* the order of FCA_SOURCES
  ImportOrder,  \* import_order in sync()
  Payloads,     \* what the FCA may serve
  Malformed,    \* payloads _validate_payload refuses
  Unparsable,   \* payloads an importer refuses
  RunIds,       \* sync_runs ids; a row no head refers to may be forgotten
  None          \* NULL

ASSUME FcaAssumption ==
  /\ Datasets \subseteq Sources
  /\ Datasets # {}
  /\ FetchOrder \in Seq(Sources)
  /\ \A s \in Sources : \E i \in 1..Len(FetchOrder) : FetchOrder[i] = s
  /\ ImportOrder \in Seq(Datasets)
  /\ \A d \in Datasets : \E i \in 1..Len(ImportOrder) : ImportOrder[i] = d
  /\ None \notin Payloads
  /\ None \notin RunIds
  /\ None \notin [payload : Payloads, run : RunIds]

VARIABLES
  upstream,   \* what the FCA serves now
  archived,   \* the files under data/raw
  snapshots,  \* the rows of raw_snapshots
  previous,   \* the row checked last, by last_checked_at and id
  imports,    \* import_runs.status
  rows,       \* the snapshots whose rows a dataset table holds
  heads,      \* dataset_heads
  runs,       \* sync_runs.status
  pc,         \* where sync() is
  step,       \* its position in FetchOrder or ImportOrder
  run,        \* sync_id
  force,      \* the argument force
  body,       \* the response being archived and recorded
  fetched     \* source_results

disk == <<archived, snapshots, previous, imports, rows, heads, runs>>
local == <<pc, step, run, force, body, fetched>>
vars == <<upstream, disk, local>>

PcValues == {"idle", "fetch", "record", "import", "importing",
             "import_failed", "activate", "mark", "failing"}
RunStatus == {"unused", "running", "success", "failed"}
ImportStatus == {"none", "running", "success", "failed"}
HeadRow == [payload : Payloads, run : RunIds]

TypeOK ==
  /\ upstream \in [Sources -> Payloads]
  /\ archived \in [Sources -> SUBSET Payloads]
  /\ snapshots \in [Sources -> SUBSET Payloads]
  /\ previous \in [Sources -> Payloads \union {None}]
  /\ imports \in [Datasets -> [Payloads -> ImportStatus]]
  /\ rows \in [Datasets -> SUBSET Payloads]
  /\ heads \in [Datasets -> HeadRow \union {None}]
  /\ runs \in [RunIds -> RunStatus]
  /\ pc \in PcValues
  /\ step \in DOMAIN FetchOrder \union DOMAIN ImportOrder
  /\ run \in RunIds \union {None}
  /\ force \in BOOLEAN
  /\ body \in Payloads \union {None}
  /\ fetched \in [Sources -> Payloads \union {None}]

NothingFetched == [s \in Sources |-> None]

Init ==
  /\ upstream \in [Sources -> Payloads]
  /\ archived = [s \in Sources |-> {}]
  /\ snapshots = [s \in Sources |-> {}]
  /\ previous = NothingFetched
  /\ imports = [d \in Datasets |-> [x \in Payloads |-> "none"]]
  /\ rows = [d \in Datasets |-> {}]
  /\ heads = [d \in Datasets |-> None]
  /\ runs = [r \in RunIds |-> "unused"]
  /\ pc = "idle"
  /\ step = 1
  /\ run = None
  /\ force = FALSE
  /\ body = None
  /\ fetched = NothingFetched

-----------------------------------------------------------------------------

\* sync() returns, raises or dies: its locals are gone.
Forget ==
  /\ pc' = "idle"
  /\ step' = 1
  /\ run' = None
  /\ force' = FALSE
  /\ body' = None
  /\ fetched' = NothingFetched

\* Mutant: the loop runs once too often.
AdvanceTooFar(order, after) ==
  IF step <= Len(order)
    THEN step' = step + 1 /\ pc' = (IF after = "import" THEN "fetch" ELSE "import")
    ELSE step' = 1 /\ pc' = after

\* The next source or dataset of the loop, or what follows the loop.
Advance(order, after) ==
  IF step < Len(order)
    THEN step' = step + 1 /\ pc' = (IF after = "import" THEN "fetch" ELSE "import")
    ELSE step' = 1 /\ pc' = after

\* A new FCA publication, or the return of an earlier one.
UpstreamChanges(s) ==
  \E x \in Payloads :
    /\ upstream' = [upstream EXCEPT ![s] = x]
    /\ UNCHANGED <<disk, local>>

\* The transaction that opens the run.
Start(r, f) ==
  /\ pc = "idle"
  /\ \A d \in Datasets : heads[d] # None => heads[d].run # r
  /\ runs' = [runs EXCEPT ![r] = "running"]
  /\ pc' = "fetch"
  /\ step' = 1
  /\ run' = r
  /\ force' = f
  /\ UNCHANGED <<upstream, archived, snapshots, previous, imports, rows, heads,
                 body, fetched>>

-----------------------------------------------------------------------------
(* _fetch_source                                                           *)

\* A conditional request, sent when the archive of the row checked last is
\* there, is answered by 304: the row is checked again and returned.
NotModified ==
  LET s == FetchOrder[step] IN
  /\ pc = "fetch"
  /\ ~force
  /\ previous[s] # None
  /\ previous[s] \in archived[s]
  /\ upstream[s] = previous[s]
  /\ fetched' = [fetched EXCEPT ![s] = previous[s]]
  /\ Advance(FetchOrder, "import")
  /\ UNCHANGED <<upstream, disk, run, force, body>>

\* Mutant: the file is not there yet when its row is written.
ArchiveLater(s) == UNCHANGED archived

\* A payload is archived under its hash (temporary file, fsync, replace) unless
\* it is there already.
Archive(s) == archived' = [archived EXCEPT ![s] = @ \union {upstream[s]}]

\* A valid response is archived.
Download ==
  LET s == FetchOrder[step] IN
  /\ pc = "fetch"
  /\ upstream[s] \notin Malformed
  /\ body' = upstream[s]
  /\ Archive(s)
  /\ pc' = "record"
  /\ UNCHANGED <<upstream, snapshots, previous, imports, rows, heads, runs,
                 step, run, force, fetched>>

RejectPayload ==
  /\ pc = "fetch"
  /\ upstream[FetchOrder[step]] \in Malformed
  /\ pc' = "failing"
  /\ UNCHANGED <<upstream, disk, step, run, force, body, fetched>>

\* The transaction that inserts the snapshot, or updates the one with the hash.
RecordSnapshot ==
  LET s == FetchOrder[step] IN
  /\ pc = "record"
  /\ snapshots' = [snapshots EXCEPT ![s] = @ \union {body}]
  /\ previous' = [previous EXCEPT ![s] = body]
  /\ fetched' = [fetched EXCEPT ![s] = body]
  /\ body' = None
  /\ Advance(FetchOrder, "import")
  /\ UNCHANGED <<upstream, archived, imports, rows, heads, runs, run, force>>

-----------------------------------------------------------------------------
(* _ensure_import                                                          *)

\* Mutants: an import that was begun counts as done; imports are not reused.
BegunIsImported(d) == imports[d][fetched[d]] \in {"running", "success"}
NeverImported(d) == FALSE

\* There is an import to reuse; any other status is retried.
Imported(d) == imports[d][fetched[d]] = "success"

ReuseImport ==
  LET d == ImportOrder[step] IN
  /\ pc = "import"
  /\ Imported(d)
  /\ Advance(ImportOrder, "activate")
  /\ UNCHANGED <<upstream, disk, run, force, body, fetched>>

BeginImport ==
  LET d == ImportOrder[step] IN
  /\ pc = "import"
  /\ ~Imported(d)
  /\ imports' = [imports EXCEPT ![d][fetched[d]] = "running"]
  /\ pc' = "importing"
  /\ UNCHANGED <<upstream, archived, snapshots, previous, rows, heads, runs,
                 step, run, force, body, fetched>>

\* One transaction deletes the snapshot's rows, inserts the parsed ones and
\* marks the import.
CommitImport ==
  LET d == ImportOrder[step] IN
  /\ pc = "importing"
  /\ fetched[d] \notin Unparsable
  /\ rows' = [rows EXCEPT ![d] = @ \union {fetched[d]}]
  /\ imports' = [imports EXCEPT ![d][fetched[d]] = "success"]
  /\ Advance(ImportOrder, "activate")
  /\ UNCHANGED <<upstream, archived, snapshots, previous, heads, runs, run,
                 force, body, fetched>>

ParseError ==
  /\ pc = "importing"
  /\ fetched[ImportOrder[step]] \in Unparsable
  /\ pc' = "import_failed"
  /\ UNCHANGED <<upstream, disk, step, run, force, body, fetched>>

RecordImportFailure ==
  LET d == ImportOrder[step] IN
  /\ pc = "import_failed"
  /\ imports' = [imports EXCEPT ![d][fetched[d]] = "failed"]
  /\ pc' = "failing"
  /\ UNCHANGED <<upstream, archived, snapshots, previous, rows, heads, runs,
                 step, run, force, body, fetched>>

-----------------------------------------------------------------------------
(* The end of sync()                                                       *)

NewHead(d) == [payload |-> fetched[d], run |-> run]

\* Mutants: a head is moved only if it changes, or only the first time.
MoveChangedHeads ==
  heads' = [d \in Datasets |->
              IF heads[d] # None /\ heads[d].payload = fetched[d]
                THEN heads[d] ELSE NewHead(d)]
InsertHeads ==
  heads' = [d \in Datasets |-> IF heads[d] # None THEN heads[d] ELSE NewHead(d)]

\* Mutant: every head is moved by a transaction of its own, and the process may
\* die after any of them.
MoveHeadsOneByOne ==
  \E moved \in SUBSET Datasets :
    heads' = [d \in Datasets |-> IF d \in moved THEN NewHead(d) ELSE heads[d]]

MoveHeads == heads' = [d \in Datasets |-> NewHead(d)]

\* One immediate transaction moves every head.
Activate ==
  /\ pc = "activate"
  /\ MoveHeads
  /\ pc' = "mark"
  /\ UNCHANGED <<upstream, archived, snapshots, previous, imports, rows, runs,
                 step, run, force, body, fetched>>

MarkSuccess ==
  /\ pc = "mark"
  /\ runs' = [runs EXCEPT ![run] = "success"]
  /\ Forget
  /\ UNCHANGED <<upstream, archived, snapshots, previous, imports, rows, heads>>

\* The except branch: mark the run and raise.
MarkFailed ==
  /\ pc = "failing"
  /\ runs' = [runs EXCEPT ![run] = "failed"]
  /\ Forget
  /\ UNCHANGED <<upstream, archived, snapshots, previous, imports, rows, heads>>

\* The request, write or transaction that was next raises (network, disk full,
\* database locked); a transaction is rolled back.  Control goes to the except
\* branch around it.
StepFails ==
  /\ pc \notin {"idle", "failing"}
  /\ pc' = IF pc = "importing" THEN "import_failed" ELSE "failing"
  /\ UNCHANGED <<upstream, disk, step, run, force, body, fetched>>

\* Marking the run as failed fails as well.
MarkFails ==
  /\ pc = "failing"
  /\ Forget
  /\ UNCHANGED <<upstream, disk>>

Crash ==
  /\ pc # "idle"
  /\ Forget
  /\ UNCHANGED <<upstream, disk>>

SyncStep ==
  \/ NotModified \/ Download \/ RejectPayload \/ RecordSnapshot
  \/ ReuseImport \/ BeginImport \/ CommitImport \/ ParseError \/ RecordImportFailure
  \/ Activate \/ MarkSuccess \/ MarkFailed

FaultStep == StepFails \/ MarkFails \/ Crash

Next ==
  \/ \E s \in Sources : UpstreamChanges(s)
  \/ \E r \in RunIds, f \in BOOLEAN : Start(r, f)
  \/ SyncStep
  \/ FaultStep

\* A sync that is not interrupted goes on, and the scheduler starts a sync
\* again and again.
Fairness ==
  /\ WF_vars(SyncStep)
  /\ WF_vars(\E r \in RunIds, f \in BOOLEAN : Start(r, f))

Spec == Init /\ [][Next]_vars
FairSpec == Spec /\ Fairness

-----------------------------------------------------------------------------
(* Properties                                                              *)

\* What a head points to is a snapshot with its archive and with the rows of
\* a successful import, whatever failed or died in the meantime.
HeadsServeImportedRows ==
  \A d \in Datasets :
    heads[d] # None =>
      LET x == heads[d].payload IN
      /\ imports[d][x] = "success"
      /\ x \in rows[d] \intersect snapshots[d] \intersect archived[d]

\* The heads always come from one and the same sync: readers never see the
\* datasets of two syncs, or some datasets and not others.
HeadsFromOneSync ==
  \A d, e \in Datasets :
    heads[d] # None => heads[e] # None /\ heads[e].run = heads[d].run

\* A recorded snapshot has its file, although the file and the row are written
\* one after the other and the process may die between them.
SnapshotsAreArchived ==
  \A s \in Sources : snapshots[s] \subseteq archived[s]

\* A successful import and its rows are never touched again.
ImportedRowsStay ==
  [][\A d \in Datasets, x \in Payloads :
       imports[d][x] = "success" =>
         imports'[d][x] = "success" /\ (x \in rows[d] => x \in rows'[d])]_vars

\* When the FCA keeps serving files that can be imported and the failures
\* cease, the files are published in the end: no crash or failure leaves a
\* snapshot, an import or a run in a state the next syncs cannot get past.
Converges ==
  \A good \in [Sources -> Payloads \ (Malformed \union Unparsable)] :
    <>[](upstream = good) /\ <>[][~FaultStep]_vars =>
      <>[](\A d \in Datasets : heads[d] # None /\ heads[d].payload = good[d])

\* A run that is marked failed has not replaced what readers see (db.py: "A
\* failed or partial sync can therefore never replace the last known-good
\* public dataset").
FailedSyncOwnsNoHead ==
  \A d \in Datasets : heads[d] # None => runs[heads[d].run] # "failed"

\* What the sync that is going on has imported, dataset by dataset: the datasets
\* before its position, and all of them when the heads are about to move.
Collected(d) ==
  \/ pc = "activate"
  \/ /\ pc \in {"import", "importing", "import_failed"}
     /\ \E i \in DOMAIN ImportOrder : i < step /\ ImportOrder[i] = d

Candidate == [d \in Datasets |-> IF Collected(d) THEN fetched[d] ELSE None]

\* What the heads give a reader.
Published ==
  IF \A d \in Datasets : heads[d] # None /\ heads[d].payload \in rows[d]
    THEN [d \in Datasets |-> heads[d].payload]
    ELSE None

Abstract == INSTANCE PublishedData WITH
  Importable <- Payloads \ Unparsable,
  candidate <- Candidate, published <- Published

\* Readers are given nothing, or exactly what one sync has imported: one step
\* replaces every dataset by the file that sync collected, and a sync that fails
\* or dies, wherever it is, replaces none.
ImplementsPublishedData == Abstract!Spec
=============================================================================
