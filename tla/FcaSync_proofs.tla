--------------------------- MODULE FcaSync_proofs ---------------------------
(***************************************************************************)
(* Theorems about FcaSync for any sources, datasets, orders, payloads and  *)
(* runs.  IInv adds to the checked invariants what sync() knows at each    *)
(* place: which sources are fetched, which datasets are imported.          *)
(***************************************************************************)
EXTENDS FcaSync, TLAPS

Fetching == {"fetch", "record"}
Importing == {"import", "importing", "import_failed"}

\* The loops stay inside their lists, and a run that goes on has its id.
Position ==
  /\ pc \in Fetching => step \in 1..Len(FetchOrder)
  /\ pc \in Importing => step \in 1..Len(ImportOrder)
  /\ pc # "idle" => run \in RunIds
  /\ pc = "record" => body \in archived[FetchOrder[step]] \intersect Payloads

\* What was fetched, or checked last, is recorded; the import phase begins
\* when every source was fetched.
Recorded ==
  /\ \A s \in Sources : fetched[s] # None => fetched[s] \in snapshots[s]
  /\ \A s \in Sources : previous[s] # None => previous[s] \in snapshots[s]
  /\ pc \in Fetching => \A i \in 1..Len(FetchOrder) :
                          i < step => fetched[FetchOrder[i]] # None
  /\ pc \in Importing \union {"activate"} => \A s \in Sources : fetched[s] # None

\* The datasets before the current one are imported, and all of them when the
\* heads are about to move; an import that goes on is not a finished one.
Progress ==
  /\ pc \in Importing => \A i \in 1..Len(ImportOrder) :
       i < step => imports[ImportOrder[i]][fetched[ImportOrder[i]]] = "success"
  /\ pc = "activate" => \A d \in Datasets : imports[d][fetched[d]] = "success"
  /\ pc \in {"importing", "import_failed"} =>
       imports[ImportOrder[step]][fetched[ImportOrder[step]]] # "success"

\* A successful import has its rows, and only what can be parsed has rows.
ImportsHaveRows ==
  \A d \in Datasets :
    /\ \A x \in Payloads : imports[d][x] = "success" => x \in rows[d]
    /\ rows[d] \intersect Unparsable = {}

IInv == /\ TypeOK /\ Position /\ Recorded /\ Progress /\ SnapshotsAreArchived
        /\ ImportsHaveRows /\ HeadsServeImportedRows /\ HeadsFromOneSync

-----------------------------------------------------------------------------

\* The lists are not empty, hold sources and datasets, and hold all of them.
LEMMA OrderFacts ==
  /\ Len(FetchOrder) \in Nat \ {0} /\ DOMAIN FetchOrder = 1..Len(FetchOrder)
  /\ Len(ImportOrder) \in Nat \ {0} /\ DOMAIN ImportOrder = 1..Len(ImportOrder)
  /\ \A i \in 1..Len(FetchOrder) : FetchOrder[i] \in Sources
  /\ \A i \in 1..Len(ImportOrder) : ImportOrder[i] \in Datasets
  /\ \A s \in Sources : \E i \in 1..Len(FetchOrder) : FetchOrder[i] = s
  /\ \A d \in Datasets : \E i \in 1..Len(ImportOrder) : ImportOrder[i] = d
  /\ Datasets \subseteq Sources /\ Datasets # {}
  /\ None \notin Payloads /\ None \notin RunIds /\ None \notin HeadRow
<1>1. FetchOrder \in Seq(Sources) /\ ImportOrder \in Seq(Datasets)
  BY FcaAssumption DEF FcaAssumption
<1>2. PICK d \in Datasets : TRUE
  BY FcaAssumption DEF FcaAssumption
<1>3. PICK k \in 1..Len(ImportOrder) : ImportOrder[k] = d
  BY FcaAssumption DEF FcaAssumption
<1>4. PICK j \in 1..Len(FetchOrder) : FetchOrder[j] = d
  BY FcaAssumption DEF FcaAssumption
<1>5. Len(FetchOrder) \in Nat \ {0} /\ Len(ImportOrder) \in Nat \ {0}
  BY <1>1, <1>3, <1>4
<1>6. /\ \A i \in 1..Len(FetchOrder) : FetchOrder[i] \in Sources
      /\ \A i \in 1..Len(ImportOrder) : ImportOrder[i] \in Datasets
      /\ DOMAIN FetchOrder = 1..Len(FetchOrder)
      /\ DOMAIN ImportOrder = 1..Len(ImportOrder)
  BY <1>1
<1>7. /\ \A s \in Sources : \E i \in 1..Len(FetchOrder) : FetchOrder[i] = s
      /\ \A e \in Datasets : \E i \in 1..Len(ImportOrder) : ImportOrder[i] = e
      /\ Datasets \subseteq Sources /\ Datasets # {}
      /\ None \notin Payloads /\ None \notin RunIds
  BY FcaAssumption DEF FcaAssumption
<1>8. None \notin HeadRow
  BY FcaAssumption DEF FcaAssumption, HeadRow
<1> QED
  BY <1>5, <1>6, <1>7, <1>8

\* The state Init gives satisfies the inductive invariant.
LEMMA InitIInv == Init => IInv
<1> SUFFICES ASSUME Init PROVE IInv
  OBVIOUS
<1> USE OrderFacts DEF Init, NothingFetched
<1>1. TypeOK
  <2>1. step \in DOMAIN FetchOrder
    OBVIOUS
  <2>2. imports \in [Datasets -> [Payloads -> ImportStatus]]
    BY DEF ImportStatus
  <2> QED
    BY <2>1, <2>2 DEF TypeOK, PcValues, RunStatus
<1>2. Position /\ Recorded /\ Progress
  BY DEF Position, Recorded, Progress, Fetching, Importing
<1>3. /\ SnapshotsAreArchived /\ ImportsHaveRows
      /\ HeadsServeImportedRows /\ HeadsFromOneSync
  BY DEF SnapshotsAreArchived, ImportsHaveRows, HeadsServeImportedRows,
         HeadsFromOneSync
<1> QED
  BY <1>1, <1>2, <1>3 DEF IInv

\* Every action keeps the types.
LEMMA TypeStep == IInv /\ [Next]_vars => TypeOK'
<1> SUFFICES ASSUME TypeOK, Position, Recorded, [Next]_vars PROVE TypeOK'
  BY DEF IInv
<1> USE OrderFacts DEF TypeOK, PcValues, RunStatus, ImportStatus, disk, local
<1>1. ASSUME NEW s \in Sources, UpstreamChanges(s) PROVE TypeOK'
  BY <1>1 DEF UpstreamChanges
<1>2. ASSUME NEW r \in RunIds, NEW f \in BOOLEAN, Start(r, f) PROVE TypeOK'
  BY <1>2 DEF Start
<1>3. CASE NotModified
  <2>1. step' \in DOMAIN FetchOrder \union DOMAIN ImportOrder /\ pc' \in PcValues
    BY <1>3 DEF NotModified, Advance, Position, Fetching
  <2> QED
    BY <1>3, <2>1 DEF NotModified, Position, Fetching
<1>4. CASE Download
  BY <1>4 DEF Download, Archive, Position, Fetching
<1>5. CASE RejectPayload
  BY <1>5 DEF RejectPayload
<1>6. CASE RecordSnapshot
  <2>1. step' \in DOMAIN FetchOrder \union DOMAIN ImportOrder /\ pc' \in PcValues
    BY <1>6 DEF RecordSnapshot, Advance, Position, Fetching
  <2> QED
    BY <1>6, <2>1 DEF RecordSnapshot, Position, Fetching
<1>7. CASE ReuseImport
  <2>1. step' \in DOMAIN FetchOrder \union DOMAIN ImportOrder /\ pc' \in PcValues
    BY <1>7 DEF ReuseImport, Advance, Position, Importing
  <2> QED
    BY <1>7, <2>1 DEF ReuseImport
<1>8. CASE BeginImport
  BY <1>8 DEF BeginImport
<1>9. CASE CommitImport
  <2>1. step' \in DOMAIN FetchOrder \union DOMAIN ImportOrder /\ pc' \in PcValues
    BY <1>9 DEF CommitImport, Advance, Position, Importing
  <2>2. rows' \in [Datasets -> SUBSET Payloads]
    BY <1>9 DEF CommitImport, Position, Importing, Recorded
  <2> QED
    BY <1>9, <2>1, <2>2 DEF CommitImport
<1>10. CASE ParseError
  BY <1>10 DEF ParseError
<1>11. CASE RecordImportFailure
  BY <1>11 DEF RecordImportFailure
<1>12. CASE Activate
  <2>1. \A d \in Datasets : NewHead(d) \in HeadRow
    BY <1>12 DEF Activate, NewHead, HeadRow, Position, Recorded
  <2> QED
    BY <1>12, <2>1 DEF Activate, MoveHeads
<1>13. CASE MarkSuccess \/ MarkFailed \/ MarkFails \/ Crash
  <2>1. Forget
    BY <1>13 DEF MarkSuccess, MarkFailed, MarkFails, Crash
  <2>2. 1 \in DOMAIN FetchOrder
    OBVIOUS
  <2>3. /\ pc' \in PcValues
        /\ step' \in DOMAIN FetchOrder
        /\ run' \in RunIds \union {None} /\ force' \in BOOLEAN
        /\ body' \in Payloads \union {None}
        /\ fetched' \in [Sources -> Payloads \union {None}]
    BY <2>1, <2>2 DEF Forget, NothingFetched
  <2>4. runs' \in [RunIds -> RunStatus]
    BY <1>13 DEF MarkSuccess, MarkFailed, MarkFails, Crash
  <2> QED
    BY <1>13, <2>3, <2>4 DEF MarkSuccess, MarkFailed, MarkFails, Crash
<1>14. CASE StepFails
  BY <1>14 DEF StepFails
<1>15. CASE UNCHANGED vars
  BY <1>15 DEF vars
<1> HIDE DEF TypeOK
<1> QED
  BY <1>1, <1>2, <1>3, <1>4, <1>5, <1>6, <1>7, <1>8, <1>9, <1>10, <1>11, <1>12,
     <1>13, <1>14, <1>15 DEF Next, SyncStep, FaultStep

\* Every action keeps the loops inside their lists.
LEMMA PositionStep == IInv /\ [Next]_vars => Position'
<1> SUFFICES ASSUME TypeOK, Position, [Next]_vars PROVE Position'
  BY DEF IInv
<1> USE OrderFacts DEF Position, Fetching, Importing, disk, local
<1>1. ASSUME NEW s \in Sources, UpstreamChanges(s) PROVE Position'
  BY <1>1 DEF UpstreamChanges
<1>2. ASSUME NEW r \in RunIds, NEW f \in BOOLEAN, Start(r, f) PROVE Position'
  BY <1>2 DEF Start
<1>3. CASE NotModified \/ RecordSnapshot
  BY <1>3 DEF NotModified, RecordSnapshot, Advance
<1>4. CASE Download
  <2>1. FetchOrder[step] \in Sources
    BY <1>4 DEF Download
  <2>2. upstream[FetchOrder[step]] \in Payloads
    BY <2>1 DEF TypeOK
  <2>3. archived'[FetchOrder[step]] = archived[FetchOrder[step]] \union {upstream[FetchOrder[step]]}
    BY <1>4, <2>1 DEF Download, Archive, TypeOK
  <2> QED
    BY <1>4, <2>2, <2>3 DEF Download
<1>5. CASE ReuseImport \/ CommitImport
  BY <1>5 DEF ReuseImport, CommitImport, Advance
<1>6. CASE BeginImport \/ ParseError \/ StepFails
  BY <1>6 DEF BeginImport, ParseError, StepFails
<1>7. CASE RejectPayload \/ RecordImportFailure \/ Activate
  BY <1>7 DEF RejectPayload, RecordImportFailure, Activate
<1>8. CASE MarkSuccess \/ MarkFailed \/ MarkFails \/ Crash
  BY <1>8 DEF MarkSuccess, MarkFailed, MarkFails, Crash, Forget
<1>9. CASE UNCHANGED vars
  BY <1>9 DEF vars
<1> HIDE DEF Position
<1> QED
  BY <1>1, <1>2, <1>3, <1>4, <1>5, <1>6, <1>7, <1>8, <1>9
     DEF Next, SyncStep, FaultStep

\* Snapshots are only added to, and each with its file in the archive.
LEMMA ArchivedStep ==
  IInv /\ [Next]_vars =>
    /\ SnapshotsAreArchived'
    /\ \A s \in Sources : snapshots[s] \subseteq snapshots'[s]
<1> SUFFICES ASSUME TypeOK, Position, SnapshotsAreArchived, [Next]_vars
             PROVE  /\ SnapshotsAreArchived'
                    /\ \A s \in Sources : snapshots[s] \subseteq snapshots'[s]
  BY DEF IInv
<1> USE DEF SnapshotsAreArchived
<1>1. CASE Download
  <2>1. UNCHANGED snapshots /\ \A s \in Sources : archived[s] \subseteq archived'[s]
    BY <1>1 DEF Download, Archive, TypeOK
  <2> QED
    BY <2>1
<1>2. CASE RecordSnapshot
  <2>1. /\ UNCHANGED archived
        /\ snapshots' = [snapshots EXCEPT ![FetchOrder[step]] = @ \union {body}]
        /\ body \in archived[FetchOrder[step]]
    BY <1>2 DEF RecordSnapshot, Position
  <2> QED
    BY <2>1 DEF TypeOK
<1>3. CASE UNCHANGED <<snapshots, archived>>
  BY <1>3
<1>4. UNCHANGED <<snapshots, archived>> \/ Download \/ RecordSnapshot
  BY DEF Next, SyncStep, FaultStep, UpstreamChanges, Start, NotModified,
         RejectPayload, ReuseImport, BeginImport, CommitImport, ParseError,
         RecordImportFailure, Activate, MarkSuccess, MarkFailed, StepFails,
         MarkFails, Crash, Forget, disk, vars
<1> QED
  BY <1>1, <1>2, <1>3, <1>4

\* What is fetched stays recorded, and the import phase has every source.
LEMMA RecordedStep == IInv /\ [Next]_vars => Recorded'
<1> SUFFICES ASSUME IInv, [Next]_vars PROVE Recorded'
  OBVIOUS
<1>0. TypeOK /\ Position /\ Recorded /\ \A s \in Sources : snapshots[s] \subseteq snapshots'[s]
  BY ArchivedStep DEF IInv
<1> DEFINE Have(x) ==
      /\ fetched' = [fetched EXCEPT ![FetchOrder[step]] = x]
      /\ x \in snapshots'[FetchOrder[step]] /\ x # None
      /\ pc \in Fetching /\ Advance(FetchOrder, "import")
      /\ \A s \in Sources : previous'[s] # None => previous'[s] \in snapshots'[s]
<1>1. ASSUME NEW x, Have(x) PROVE Recorded'
  <2>1. FetchOrder[step] \in Sources
    BY <1>0, <1>1, OrderFacts DEF Position
  <2>2. /\ fetched'[FetchOrder[step]] = x
        /\ \A s \in Sources : s # FetchOrder[step] => fetched'[s] = fetched[s]
    BY <1>0, <1>1, <2>1 DEF TypeOK
  <2>3. \A s \in Sources : fetched'[s] # None => fetched'[s] \in snapshots'[s]
    BY <1>0, <1>1, <2>2 DEF Recorded
  <2>4. \A i \in 1..Len(FetchOrder) : i <= step => fetched'[FetchOrder[i]] # None
    <3> SUFFICES ASSUME NEW i \in 1..Len(FetchOrder), i <= step
                 PROVE  fetched'[FetchOrder[i]] # None
      OBVIOUS
    <3>1. CASE FetchOrder[i] = FetchOrder[step]
      BY <3>1, <2>2, <1>1
    <3>2. CASE FetchOrder[i] # FetchOrder[step]
      <4>1. i < step /\ FetchOrder[i] \in Sources
        BY <3>2, <1>0, <1>1, OrderFacts DEF Position
      <4> QED
        BY <4>1, <3>2, <2>2, <1>0, <1>1 DEF Recorded
    <3> QED
      BY <3>1, <3>2
  <2>5. step \in 1..Len(FetchOrder)
    BY <1>0, <1>1 DEF Position
  <2>6. CASE step < Len(FetchOrder)
    <3>1. step' = step + 1 /\ pc' = "fetch"
      BY <1>1, <2>6 DEF Advance
    <3> QED
      BY <3>1, <2>3, <2>4, <2>5, <1>1, OrderFacts DEF Recorded, Fetching, Importing
  <2>7. CASE step = Len(FetchOrder)
    <3>1. pc' = "import"
      BY <1>1, <2>7, OrderFacts DEF Advance
    <3>2. \A s \in Sources : fetched'[s] # None
      BY <2>4, <2>7, OrderFacts
    <3> QED
      BY <3>1, <3>2, <2>3, <1>1 DEF Recorded, Fetching, Importing
  <2>8. Len(FetchOrder) \in Nat
    BY OrderFacts
  <2>9. step < Len(FetchOrder) \/ step = Len(FetchOrder)
    BY <2>5, <2>8
  <2> QED
    BY <2>6, <2>7, <2>9
<1>2. CASE NotModified
  <2>1. FetchOrder[step] \in Sources
    BY <1>0, <1>2, OrderFacts DEF Position, NotModified, Fetching
  <2>2. Have(previous[FetchOrder[step]])
    BY <1>0, <1>2, <2>1 DEF Recorded, NotModified, disk, Fetching
  <2> HIDE DEF Have
  <2> QED
    BY <2>2, <1>1
<1>3. CASE RecordSnapshot
  <2>1. FetchOrder[step] \in Sources /\ body \in Payloads /\ body # None
    BY <1>0, <1>3, OrderFacts DEF Position, RecordSnapshot, Fetching
  <2>2. body \in snapshots'[FetchOrder[step]]
    BY <1>0, <1>3, <2>1 DEF RecordSnapshot, TypeOK
  <2>3. \A s \in Sources : previous'[s] # None => previous'[s] \in snapshots'[s]
    BY <1>0, <1>3, <2>1, <2>2 DEF RecordSnapshot, TypeOK, Recorded
  <2>4. /\ fetched' = [fetched EXCEPT ![FetchOrder[step]] = body]
        /\ pc \in Fetching /\ Advance(FetchOrder, "import")
    BY <1>3 DEF RecordSnapshot, Fetching
  <2>5. Have(body)
    BY <2>1, <2>2, <2>3, <2>4
  <2> HIDE DEF Have
  <2> QED
    BY <2>5, <1>1
<1>4. CASE Forget /\ UNCHANGED <<snapshots, previous>>
  BY <1>0, <1>4, OrderFacts DEF Forget, NothingFetched, Recorded, Fetching, Importing
<1>5. ASSUME NEW r \in RunIds, NEW f \in BOOLEAN, Start(r, f) PROVE Recorded'
  BY <1>0, <1>5, OrderFacts DEF Start, Recorded, Fetching, Importing
<1>6. CASE /\ UNCHANGED <<fetched, snapshots, previous>>
           /\ \/ UNCHANGED <<pc, step>>
              \/ pc' \in {"mark", "failing"}
              \/ pc \in Fetching /\ pc' \in Fetching /\ UNCHANGED step
              \/ /\ pc \in Importing /\ pc' \in Importing \union {"activate"}
  BY <1>0, <1>6 DEF Recorded, Fetching, Importing
<1>7. CASE Download \/ RejectPayload \/ StepFails \/ Activate
           \/ \E s \in Sources : UpstreamChanges(s)
  BY <1>6, <1>7 DEF Download, RejectPayload, StepFails, Activate,
                    UpstreamChanges, disk, local, Fetching, Importing
<1>8. CASE ReuseImport \/ BeginImport \/ CommitImport \/ ParseError \/ RecordImportFailure
  BY <1>6, <1>8 DEF ReuseImport, BeginImport, CommitImport, ParseError,
                    RecordImportFailure, Advance, disk, local, Importing
<1>9. CASE MarkSuccess \/ MarkFailed \/ MarkFails \/ Crash
  BY <1>4, <1>9 DEF MarkSuccess, MarkFailed, MarkFails, Crash, disk
<1>10. CASE UNCHANGED vars
  BY <1>6, <1>10 DEF vars, disk, local
<1> QED
  BY <1>2, <1>3, <1>5, <1>7, <1>8, <1>9, <1>10 DEF Next, SyncStep, FaultStep

\* A successful import is never touched again, and neither are its rows.
LEMMA ImportsStep ==
  IInv /\ [Next]_vars =>
    /\ ImportsHaveRows'
    /\ \A d \in Datasets : /\ rows[d] \subseteq rows'[d]
                           /\ \A x \in Payloads : imports[d][x] = "success" =>
                                                    imports'[d][x] = "success"
<1> SUFFICES ASSUME IInv, [Next]_vars
             PROVE  /\ ImportsHaveRows'
                    /\ \A d \in Datasets :
                         /\ rows[d] \subseteq rows'[d]
                         /\ \A x \in Payloads : imports[d][x] = "success" =>
                                                  imports'[d][x] = "success"
  OBVIOUS
<1>0. TypeOK /\ Position /\ Recorded /\ Progress /\ ImportsHaveRows
  BY DEF IInv
<1> DEFINE c == ImportOrder[step]
<1>1. ASSUME pc \in Importing
      PROVE  c \in Datasets /\ fetched[c] \in Payloads
  <2>1. c \in Datasets
    BY <1>0, <1>1, OrderFacts DEF Position
  <2>2. fetched[c] # None
    BY <1>0, <1>1, <2>1, OrderFacts DEF Recorded
  <2>3. c \in Sources
    BY <2>1, OrderFacts
  <2> QED
    BY <1>0, <2>1, <2>2, <2>3 DEF TypeOK
<1>2. CASE BeginImport \/ RecordImportFailure
  <2>1. pc \in Importing /\ UNCHANGED rows /\ imports[c][fetched[c]] # "success"
    BY <1>0, <1>2 DEF BeginImport, RecordImportFailure, Imported, Progress, Importing
  <2>2. PICK v \in {"running", "failed"} : imports' = [imports EXCEPT ![c][fetched[c]] = v]
    BY <1>2 DEF BeginImport, RecordImportFailure
  <2>3. \A d \in Datasets, x \in Payloads :
          imports'[d][x] = IF d = c /\ x = fetched[c] THEN v ELSE imports[d][x]
    <3> HIDE DEF c
    <3> QED
      BY <1>0, <1>1, <2>1, <2>2 DEF TypeOK
  <2> HIDE DEF c
  <2> QED
    BY <1>0, <2>1, <2>2, <2>3 DEF ImportsHaveRows
<1>3. CASE CommitImport
  <2>1. c \in Datasets /\ fetched[c] \in Payloads /\ fetched[c] \notin Unparsable
    BY <1>1, <1>3 DEF CommitImport, Importing
  <2>2. /\ imports' = [imports EXCEPT ![c][fetched[c]] = "success"]
        /\ rows' = [rows EXCEPT ![c] = @ \union {fetched[c]}]
    BY <1>3 DEF CommitImport
  <2> HIDE DEF c
  <2>3. \A d \in Datasets, x \in Payloads :
          imports'[d][x] = IF d = c /\ x = fetched[c] THEN "success" ELSE imports[d][x]
    BY <1>0, <2>1, <2>2 DEF TypeOK
  <2>4. \A d \in Datasets :
          rows'[d] = IF d = c THEN rows[d] \union {fetched[c]} ELSE rows[d]
    BY <1>0, <2>1, <2>2 DEF TypeOK
  <2>5. ASSUME NEW d \in Datasets
        PROVE  /\ rows[d] \subseteq rows'[d] /\ rows'[d] \intersect Unparsable = {}
               /\ \A x \in Payloads : imports'[d][x] = "success" => x \in rows'[d]
    BY <1>0, <2>1, <2>3, <2>4 DEF ImportsHaveRows
  <2>6. \A d \in Datasets, x \in Payloads :
          imports[d][x] = "success" => imports'[d][x] = "success"
    BY <2>3
  <2> QED
    BY <2>5, <2>6 DEF ImportsHaveRows
<1>4. CASE UNCHANGED <<imports, rows>>
  BY <1>0, <1>4 DEF ImportsHaveRows
<1>5. \/ UNCHANGED <<imports, rows>>
      \/ BeginImport \/ RecordImportFailure \/ CommitImport
  BY DEF Next, SyncStep, FaultStep, UpstreamChanges, Start, NotModified, Download,
         RejectPayload, RecordSnapshot, ReuseImport, ParseError, Activate,
         MarkSuccess, MarkFailed, StepFails, MarkFails, Crash, disk, vars
<1> QED
  BY <1>2, <1>3, <1>4, <1>5

\* The datasets before the current one stay imported.
LEMMA ProgressStep == IInv /\ [Next]_vars => Progress'
<1> SUFFICES ASSUME IInv, [Next]_vars PROVE Progress'
  OBVIOUS
<1>0. TypeOK /\ Position /\ Recorded /\ Progress
  BY DEF IInv
<1>1. \A d \in Datasets, x \in Payloads :
        imports[d][x] = "success" => imports'[d][x] = "success"
  BY ImportsStep
<1>2. ASSUME pc \in Importing \union {"activate"}, UNCHANGED fetched
      PROVE  \A d \in Datasets : imports[d][fetched[d]] = "success" =>
                                   imports'[d][fetched'[d]] = "success"
  <2>1. \A d \in Datasets : fetched[d] \in Payloads
    BY <1>0, <1>2, OrderFacts DEF Recorded, TypeOK
  <2> QED
    BY <1>1, <1>2, <2>1
<1>3. CASE ReuseImport \/ CommitImport
  <2>1. pc \in Importing /\ UNCHANGED fetched /\ Advance(ImportOrder, "activate")
    BY <1>3 DEF ReuseImport, CommitImport, Importing
  <2>2. step \in 1..Len(ImportOrder) /\ Len(ImportOrder) \in Nat
    BY <1>0, <2>1, OrderFacts DEF Position
  <2>3. imports'[ImportOrder[step]][fetched'[ImportOrder[step]]] = "success"
    <3>1. CASE ReuseImport
      BY <3>1 DEF ReuseImport, Imported, disk
    <3>2. CASE CommitImport
      <4>1. ImportOrder[step] \in Datasets
        BY <2>2, OrderFacts
      <4>2. fetched[ImportOrder[step]] \in Payloads
        BY <1>0, <2>1, <4>1, OrderFacts DEF Recorded, TypeOK
      <4> QED
        BY <1>0, <3>2, <4>1, <4>2 DEF CommitImport, TypeOK
    <3> QED
      BY <1>3, <3>1, <3>2
  <2>4. \A i \in 1..Len(ImportOrder) :
          i <= step => imports'[ImportOrder[i]][fetched'[ImportOrder[i]]] = "success"
    <3> SUFFICES ASSUME NEW i \in 1..Len(ImportOrder), i <= step, i # step
                 PROVE  imports'[ImportOrder[i]][fetched'[ImportOrder[i]]] = "success"
      BY <2>3
    <3>1. i < step /\ ImportOrder[i] \in Datasets
      BY <2>2, OrderFacts
    <3>2. imports[ImportOrder[i]][fetched[ImportOrder[i]]] = "success"
      BY <1>0, <2>1, <3>1 DEF Progress
    <3> QED
      BY <1>2, <2>1, <3>1, <3>2
  <2>5. CASE step < Len(ImportOrder)
    <3>1. step' = step + 1 /\ pc' = "import"
      BY <2>1, <2>5 DEF Advance
    <3> QED
      BY <2>2, <2>4, <3>1 DEF Progress, Importing
  <2>6. CASE step = Len(ImportOrder)
    <3>1. pc' = "activate"
      BY <2>1, <2>2, <2>6 DEF Advance
    <3>2. \A d \in Datasets : imports'[d][fetched'[d]] = "success"
      <4> SUFFICES ASSUME NEW d \in Datasets PROVE imports'[d][fetched'[d]] = "success"
        OBVIOUS
      <4>1. PICK i \in 1..Len(ImportOrder) : ImportOrder[i] = d
        BY OrderFacts
      <4> QED
        BY <2>2, <2>4, <2>6, <4>1
    <3> QED
      BY <3>1, <3>2 DEF Progress, Importing
  <2> QED
    BY <2>2, <2>5, <2>6
<1>4. ASSUME pc \in Importing, pc' \in Importing, UNCHANGED <<fetched, step>>,
             pc' \in {"importing", "import_failed"} =>
               imports'[ImportOrder[step]][fetched[ImportOrder[step]]] # "success"
      PROVE  Progress'
  <2>1. \A i \in 1..Len(ImportOrder) : i < step' =>
          imports'[ImportOrder[i]][fetched'[ImportOrder[i]]] = "success"
    BY <1>0, <1>2, <1>4, OrderFacts DEF Progress
  <2>2. pc' # "activate"
    BY <1>4 DEF Importing
  <2> QED
    BY <1>4, <2>1, <2>2 DEF Progress
<1>5. CASE BeginImport
  <2>1. pc = "import" /\ pc' = "importing" /\ UNCHANGED <<fetched, step>>
    BY <1>5 DEF BeginImport
  <2>2. ImportOrder[step] \in Datasets
    BY <1>0, <2>1, OrderFacts DEF Position, Importing
  <2>3. fetched[ImportOrder[step]] \in Payloads
    BY <1>0, <2>1, <2>2, OrderFacts DEF Recorded, TypeOK, Importing
  <2>4. imports'[ImportOrder[step]][fetched[ImportOrder[step]]] = "running"
    BY <1>0, <1>5, <2>2, <2>3 DEF BeginImport, TypeOK
  <2> QED
    BY <1>4, <2>1, <2>4 DEF Importing
<1>6. CASE ParseError \/ (StepFails /\ pc = "importing")
  <2>1. /\ pc = "importing" /\ pc' = "import_failed"
        /\ UNCHANGED <<fetched, step, imports>>
    BY <1>6 DEF ParseError, StepFails, disk
  <2> QED
    BY <1>0, <1>4, <2>1 DEF Progress, Importing
<1>7. CASE NotModified \/ RecordSnapshot
  <2>1. pc' = "fetch" \/ (pc' = "import" /\ step' = 1)
    BY <1>7 DEF NotModified, RecordSnapshot, Advance
  <2> QED
    BY <2>1, OrderFacts DEF Progress, Importing
<1>8. CASE pc' \notin Importing \union {"activate"}
  BY <1>8 DEF Progress, Importing
<1>9. CASE UNCHANGED <<pc, step, fetched, imports>>
  BY <1>0, <1>9 DEF Progress
<1>10. ASSUME NEW r \in RunIds, NEW f \in BOOLEAN, Start(r, f) PROVE Progress'
  BY <1>8, <1>10 DEF Start, Importing
<1>11. CASE \/ Download \/ RejectPayload \/ RecordImportFailure \/ Activate
            \/ MarkSuccess \/ MarkFailed \/ MarkFails \/ Crash
            \/ (StepFails /\ pc # "importing")
  BY <1>8, <1>11 DEF Download, RejectPayload, RecordImportFailure, Activate,
     MarkSuccess, MarkFailed, MarkFails, Crash, StepFails, Forget, Importing
<1>12. CASE UNCHANGED vars \/ \E s \in Sources : UpstreamChanges(s)
  BY <1>9, <1>12 DEF vars, UpstreamChanges, disk, local
<1> QED
  BY <1>3, <1>5, <1>6, <1>7, <1>10, <1>11, <1>12 DEF Next, SyncStep, FaultStep

\* Heads move only to what is imported, recorded and archived, all of them to
\* the files of one sync.
LEMMA HeadsStep ==
  IInv /\ [Next]_vars => HeadsServeImportedRows' /\ HeadsFromOneSync'
<1> SUFFICES ASSUME IInv, [Next]_vars
             PROVE  HeadsServeImportedRows' /\ HeadsFromOneSync'
  OBVIOUS
<1>0. /\ TypeOK /\ Position /\ Recorded /\ Progress /\ ImportsHaveRows
      /\ HeadsServeImportedRows /\ HeadsFromOneSync
  BY DEF IInv
<1>1. /\ SnapshotsAreArchived'
      /\ \A s \in Sources : snapshots[s] \subseteq snapshots'[s]
      /\ \A d \in Datasets :
           /\ rows[d] \subseteq rows'[d]
           /\ \A x \in Payloads : imports[d][x] = "success" => imports'[d][x] = "success"
  BY ArchivedStep, ImportsStep
<1>2. CASE UNCHANGED heads
  <2>1. HeadsFromOneSync'
    BY <1>0, <1>2 DEF HeadsFromOneSync
  <2>2. ASSUME NEW d \in Datasets, heads[d] # None
        PROVE  /\ imports'[d][heads[d].payload] = "success"
               /\ heads[d].payload \in rows'[d] \intersect snapshots'[d] \intersect archived'[d]
    <3>1. heads[d].payload \in Payloads /\ d \in Sources
      BY <1>0, <2>2, OrderFacts DEF TypeOK, HeadRow
    <3> QED
      BY <1>0, <1>1, <2>2, <3>1 DEF HeadsServeImportedRows, SnapshotsAreArchived
  <2> QED
    BY <1>2, <2>1, <2>2 DEF HeadsServeImportedRows
<1>3. CASE Activate
  <2>1. /\ UNCHANGED <<imports, rows, snapshots, archived>>
        /\ heads' = [d \in Datasets |-> NewHead(d)]
        /\ pc = "activate"
    BY <1>3 DEF Activate, MoveHeads
  <2>2. ASSUME NEW d \in Datasets
        PROVE  heads'[d] # None /\ heads'[d].payload = fetched[d] /\ heads'[d].run = run
    <3>1. fetched[d] \in Payloads /\ run \in RunIds
      BY <1>0, <2>1, OrderFacts DEF Recorded, Position, TypeOK
    <3>2. NewHead(d) \in HeadRow
      BY <3>1 DEF HeadRow, NewHead
    <3>3. NewHead(d) # None
      BY <3>2, OrderFacts
    <3>4. heads'[d] = NewHead(d)
      BY <2>1
    <3>5. NewHead(d).payload = fetched[d] /\ NewHead(d).run = run
      BY DEF NewHead
    <3> QED
      BY <3>3, <3>4, <3>5
  <2>3. HeadsFromOneSync'
    BY <2>2 DEF HeadsFromOneSync
  <2>4. ASSUME NEW d \in Datasets
        PROVE  /\ imports'[d][fetched[d]] = "success"
               /\ fetched[d] \in rows'[d] \intersect snapshots'[d] \intersect archived'[d]
    <3>1. fetched[d] \in Payloads /\ d \in Sources /\ fetched[d] # None
      BY <1>0, <2>1, OrderFacts DEF Recorded, TypeOK
    <3>2. imports[d][fetched[d]] = "success"
      BY <1>0, <2>1 DEF Progress
    <3> QED
      BY <1>0, <1>1, <2>1, <3>1, <3>2
         DEF Recorded, ImportsHaveRows, SnapshotsAreArchived
  <2> QED
    BY <2>2, <2>3, <2>4 DEF HeadsServeImportedRows
<1>4. UNCHANGED heads \/ Activate
  BY DEF Next, SyncStep, FaultStep, UpstreamChanges, Start, NotModified, Download,
         RejectPayload, RecordSnapshot, ReuseImport, BeginImport, CommitImport,
         ParseError, RecordImportFailure, MarkSuccess, MarkFailed, StepFails,
         MarkFails, Crash, disk, vars
<1> QED
  BY <1>2, <1>3, <1>4

-----------------------------------------------------------------------------
(* The theorems                                                            *)

\* The inductive invariant is kept by every step.
LEMMA StepIInv == IInv /\ [Next]_vars => IInv'
BY TypeStep, PositionStep, RecordedStep, ProgressStep, ArchivedStep, ImportsStep,
   HeadsStep DEF IInv

\* It holds in every reachable state.
LEMMA Invariance == Spec => []IInv
BY InitIInv, StepIInv, PTL DEF Spec

\* Every variable keeps its type: the type invariant of the module.
THEOREM TypeCorrect == Spec => []TypeOK
<1>1. IInv => TypeOK
  BY DEF IInv
<1> QED
  BY <1>1, Invariance, PTL

\* Readers are only ever pointed to imported, recorded and archived files.
THEOREM HeadsAreServable == Spec => []HeadsServeImportedRows
<1>1. IInv => HeadsServeImportedRows
  BY DEF IInv
<1> QED
  BY <1>1, Invariance, PTL

\* The heads never mix two syncs.
THEOREM HeadsAreOneSync == Spec => []HeadsFromOneSync
<1>1. IInv => HeadsFromOneSync
  BY DEF IInv
<1> QED
  BY <1>1, Invariance, PTL

\* No row of raw_snapshots is without its file.
THEOREM ArchiveIsComplete == Spec => []SnapshotsAreArchived
<1>1. IInv => SnapshotsAreArchived
  BY DEF IInv
<1> QED
  BY <1>1, Invariance, PTL

\* No step takes a successful import or its rows away.
THEOREM ImportsAreFinal == Spec => ImportedRowsStay
<1>1. IInv /\ [Next]_vars =>
        [\A d \in Datasets, x \in Payloads :
           imports[d][x] = "success" =>
             imports'[d][x] = "success" /\ (x \in rows[d] => x \in rows'[d])]_vars
  BY ImportsStep
<1> QED
  BY <1>1, Invariance, PTL DEF Spec, ImportedRowsStay

-----------------------------------------------------------------------------
(* FcaSync implements PublishedData                                        *)

\* What the heads tell a reader is nothing, or a complete set.
NothingOrAll ==
  \/ (\A d \in Datasets : heads[d] = None) /\ Published = None
  \/ /\ \A d \in Datasets : heads[d] # None
     /\ Published = [d \in Datasets |-> heads[d].payload]

\* The inductive invariant implies it.
LEMMA PublishedFacts == IInv => NothingOrAll
<1> SUFFICES ASSUME IInv PROVE NothingOrAll
  OBVIOUS
<1>0. TypeOK /\ HeadsServeImportedRows /\ HeadsFromOneSync
  BY DEF IInv
<1>1. CASE \A d \in Datasets : heads[d] # None
  <2>1. \A d \in Datasets : heads[d].payload \in rows[d]
    BY <1>0, <1>1 DEF TypeOK, HeadRow, HeadsServeImportedRows
  <2> QED
    BY <1>1, <2>1 DEF NothingOrAll, Published
<1>2. CASE \A d \in Datasets : heads[d] = None
  BY <1>2, OrderFacts DEF Published, NothingOrAll
<1> QED
  BY <1>0, <1>1, <1>2 DEF HeadsFromOneSync

\* Readers see another set only by a step that moves the heads.
LEMMA PublishedStays ==
  IInv /\ IInv' /\ UNCHANGED heads => UNCHANGED Published
<1>1. IInv' => NothingOrAll'
  BY PublishedFacts, PTL
<1> SUFFICES ASSUME IInv, IInv', UNCHANGED heads PROVE UNCHANGED Published
  OBVIOUS
<1>2. NothingOrAll /\ NothingOrAll'
  BY <1>1, PublishedFacts
<1>3. PICK d \in Datasets : TRUE
  BY OrderFacts
<1>4. CASE heads[d] = None
  BY <1>2, <1>4 DEF NothingOrAll
<1>5. CASE heads[d] # None
  BY <1>2, <1>5 DEF NothingOrAll
<1> QED
  BY <1>4, <1>5

\* What is collected has been imported, so it is importable.
LEMMA CollectedFacts ==
  ASSUME IInv, NEW d \in Datasets, Collected(d)
  PROVE  fetched[d] \in Payloads \ Unparsable /\ fetched[d] # None
<1>0. TypeOK /\ Position /\ Recorded /\ Progress /\ ImportsHaveRows
  BY DEF IInv
<1>1. imports[d][fetched[d]] = "success"
  <2>1. CASE pc = "activate"
    BY <1>0, <2>1 DEF Progress
  <2>2. CASE pc \in Importing /\ \E i \in DOMAIN ImportOrder : i < step /\ ImportOrder[i] = d
    BY <1>0, <2>2, OrderFacts DEF Progress
  <2> QED
    BY <2>1, <2>2 DEF Collected, Importing
<1>2. fetched[d] \in Payloads /\ fetched[d] # None
  BY <1>0, OrderFacts DEF Recorded, TypeOK, Collected, Importing
<1> QED
  BY <1>0, <1>1, <1>2, OrderFacts DEF ImportsHaveRows, TypeOK

\* Outside the import phase nothing is collected.
LEMMA NothingCollected ==
  ASSUME \/ pc \notin Importing \union {"activate"}
         \/ pc = "import" /\ step = 1
  PROVE  Candidate = Abstract!Empty
<1>1. \A d \in Datasets : ~Collected(d)
  BY OrderFacts DEF Collected, Importing
<1> QED
  BY <1>1 DEF Candidate, Abstract!Empty

\* When the loop of the imports goes on, or ends, one more dataset is collected.
LEMMA ImportCollects ==
  ASSUME IInv, IInv', ReuseImport \/ CommitImport
  PROVE  [Abstract!Next]_<<Candidate, Published>>
<1>0. TypeOK /\ Position
  BY DEF IInv
<1>1. /\ pc \in Importing /\ step \in 1..Len(ImportOrder) /\ Len(ImportOrder) \in Nat
      /\ UNCHANGED <<fetched, heads>> /\ Advance(ImportOrder, "activate")
  BY <1>0, OrderFacts DEF ReuseImport, CommitImport, Position, Importing, disk
<1>2. PICK d \in Datasets : d = ImportOrder[step]
  BY <1>1, OrderFacts
<1>3. UNCHANGED Published
  BY <1>1, PublishedStays
<1>4. \A e \in Datasets : Collected(e)' <=> (Collected(e) \/ e = d)
  <2> SUFFICES ASSUME NEW e \in Datasets PROVE Collected(e)' <=> (Collected(e) \/ e = d)
    OBVIOUS
  <2>1. Collected(e) <=> \E i \in 1..Len(ImportOrder) : i < step /\ ImportOrder[i] = e
    BY <1>1, OrderFacts DEF Collected, Importing
  <2>2. CASE step < Len(ImportOrder)
    <3>1. pc' = "import" /\ step' = step + 1
      BY <1>1, <2>2 DEF Advance
    <3>2. Collected(e)' <=> \E i \in 1..Len(ImportOrder) : i < step + 1 /\ ImportOrder[i] = e
      BY <3>1, OrderFacts DEF Collected
    <3>3. \A i \in 1..Len(ImportOrder) : i < step + 1 <=> i < step \/ i = step
      BY <1>1
    <3> QED
      BY <1>1, <1>2, <2>1, <3>2, <3>3
  <2>3. CASE step = Len(ImportOrder)
    <3>1. pc' = "activate"
      BY <1>1, <2>3 DEF Advance
    <3>2. Collected(e)'
      BY <3>1 DEF Collected
    <3>3. PICK i \in 1..Len(ImportOrder) : ImportOrder[i] = e
      BY OrderFacts
    <3>4. i < step \/ i = step
      BY <1>1, <2>3
    <3> QED
      BY <1>2, <2>1, <3>2, <3>3, <3>4
  <2> QED
    BY <1>1, <2>2, <2>3
<1>5. Collected(d)'
  BY <1>2, <1>4
<1>6. fetched'[d] \in Payloads \ Unparsable
  <2>1. IInv' /\ Collected(d)' => (fetched[d] \in Payloads \ Unparsable)'
    BY <1>2, CollectedFacts, PTL
  <2> QED
    BY <1>5, <2>1
<1>7. CASE Collected(d)
  <2>1. \A e \in Datasets : Collected(e)' <=> Collected(e)
    BY <1>4, <1>7
  <2>2. Candidate' = Candidate
    BY <1>1, <2>1 DEF Candidate
  <2> QED
    BY <1>3, <2>2
<1>8. CASE ~Collected(d)
  <2>1. Candidate[d] = None
    BY <1>2, <1>8 DEF Candidate
  <2>2. Candidate' = [Candidate EXCEPT ![d] = fetched[d]]
    BY <1>1, <1>2, <1>4 DEF Candidate
  <2>3. Abstract!Collect(d, fetched[d])
    BY <1>3, <2>1, <2>2 DEF Abstract!Collect
  <2> QED
    BY <1>1, <1>2, <1>6, <2>3 DEF Abstract!Next
<1> QED
  BY <1>7, <1>8

\* The step that moves the heads publishes what the sync collected.
LEMMA ActivatePublishes ==
  ASSUME IInv, IInv', Activate
  PROVE  Abstract!Publish
<1>0. TypeOK /\ Position /\ Recorded
  BY DEF IInv
<1>1. pc = "activate" /\ pc' = "mark" /\ heads' = [d \in Datasets |-> NewHead(d)]
  BY DEF Activate, MoveHeads
<1>2. Candidate = [d \in Datasets |-> fetched[d]]
  BY <1>1 DEF Candidate, Collected
<1>3. \A d \in Datasets : Candidate[d] # None
  BY <1>0, <1>1, <1>2, OrderFacts DEF Recorded
<1>4. \A d \in Datasets : heads'[d] # None /\ heads'[d].payload = fetched[d]
  <2> SUFFICES ASSUME NEW d \in Datasets
               PROVE  heads'[d] # None /\ heads'[d].payload = fetched[d]
    OBVIOUS
  <2>1. fetched[d] \in Payloads /\ run \in RunIds
    BY <1>0, <1>1, OrderFacts DEF Recorded, Position, TypeOK
  <2>2. NewHead(d) \in HeadRow /\ NewHead(d).payload = fetched[d]
    BY <2>1 DEF NewHead, HeadRow
  <2>3. heads'[d] = NewHead(d)
    BY <1>1
  <2> QED
    BY <2>2, <2>3, OrderFacts
<1>5. Published' = Candidate
  <2>1. IInv' => NothingOrAll'
    BY PublishedFacts, PTL
  <2>2. Published' = [d \in Datasets |-> heads'[d].payload]
    BY <1>4, <2>1, OrderFacts DEF NothingOrAll
  <2> QED
    BY <1>2, <1>4, <2>2
<1>6. Candidate' = Abstract!Empty
  <2>1. (pc \notin Importing \union {"activate"})' => (Candidate = Abstract!Empty)'
    BY NothingCollected, PTL
  <2>2. Abstract!Empty' = Abstract!Empty
    BY DEF Abstract!Empty
  <2> QED
    BY <1>1, <2>1, <2>2 DEF Importing
<1> QED
  BY <1>3, <1>5, <1>6 DEF Abstract!Publish

\* Every other step leaves the collected files and the published set alone, or
\* abandons what was collected.
LEMMA OthersKeep ==
  ASSUME IInv, IInv', [Next]_vars, ~Activate, ~ReuseImport, ~CommitImport
  PROVE  Abstract!Abandon \/ UNCHANGED <<Candidate, Published>>
<1>1. UNCHANGED heads
  BY DEF Next, SyncStep, FaultStep, UpstreamChanges, Start, NotModified, Download,
         RejectPayload, RecordSnapshot, BeginImport, ParseError,
         RecordImportFailure, MarkSuccess, MarkFailed, StepFails,
         MarkFails, Crash, disk, vars
<1>2. UNCHANGED Published
  BY <1>1, PublishedStays
<1>3. CASE \/ (pc \notin Importing \union {"activate"})'
           \/ (pc = "import" /\ step = 1)'
  <2>1. ((pc \notin Importing \union {"activate"}) \/ (pc = "import" /\ step = 1))'
          => (Candidate = Abstract!Empty)'
    BY NothingCollected, PTL
  <2>2. Abstract!Empty' = Abstract!Empty
    BY DEF Abstract!Empty
  <2> QED
    BY <1>2, <1>3, <2>1, <2>2 DEF Abstract!Abandon
<1>4. CASE pc \in Importing /\ pc' \in Importing /\ UNCHANGED <<step, fetched>>
  <2>1. \A d \in Datasets : Collected(d)' <=> Collected(d)
    BY <1>4 DEF Collected, Importing
  <2> QED
    BY <1>2, <1>4, <2>1 DEF Candidate
<1>5. CASE UNCHANGED <<pc, step, fetched>>
  <2>1. \A d \in Datasets : Collected(d)' <=> Collected(d)
    BY <1>5 DEF Collected
  <2> QED
    BY <1>2, <1>5, <2>1 DEF Candidate
<1>6. CASE \E s \in Sources : UpstreamChanges(s)
  BY <1>5, <1>6 DEF UpstreamChanges, local
<1>7. CASE \E r \in RunIds, f \in BOOLEAN : Start(r, f)
  BY <1>3, <1>7 DEF Start, Importing
<1>8. CASE NotModified \/ RecordSnapshot
  BY <1>3, <1>8 DEF NotModified, RecordSnapshot, Advance, Importing
<1>9. CASE Download \/ RejectPayload \/ RecordImportFailure
  BY <1>3, <1>9 DEF Download, RejectPayload, RecordImportFailure, Importing
<1>10. CASE BeginImport \/ ParseError
  BY <1>4, <1>10 DEF BeginImport, ParseError, Importing
<1>11. CASE StepFails
  BY <1>3, <1>4, <1>11 DEF StepFails, Importing
<1>12. CASE MarkSuccess \/ MarkFailed \/ MarkFails \/ Crash
  BY <1>3, <1>12 DEF MarkSuccess, MarkFailed, MarkFails, Crash, Forget, Importing
<1>13. CASE UNCHANGED vars
  BY <1>5, <1>13 DEF vars, local
<1> QED
  BY <1>6, <1>7, <1>8, <1>9, <1>10, <1>11, <1>12, <1>13 DEF Next, SyncStep, FaultStep

\* Every step is a step of the abstract specification, or changes nothing in it.
LEMMA StepRefines ==
  IInv /\ IInv' /\ [Next]_vars => [Abstract!Next]_<<Candidate, Published>>
BY ImportCollects, ActivatePublishes, OthersKeep DEF Abstract!Next

\* A data directory with its failing and dying syncs implements the promise
\* that readers are given exactly what one sync imported, or what they had.
THEOREM Refinement == Spec => ImplementsPublishedData
<1>1. Init => Abstract!Init
  <2> SUFFICES ASSUME Init PROVE Candidate = Abstract!Empty /\ Published = None
    BY DEF Abstract!Init
  <2>1. Candidate = Abstract!Empty
    BY NothingCollected DEF Init, Importing
  <2> QED
    BY <2>1, OrderFacts DEF Init, Published
<1> QED
  BY <1>1, StepRefines, Invariance, PTL DEF Spec, ImplementsPublishedData, Abstract!Spec
=============================================================================
