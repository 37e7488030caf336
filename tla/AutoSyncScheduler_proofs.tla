---------------------- MODULE AutoSyncScheduler_proofs ----------------------
(***************************************************************************)
(* Theorems about AutoSyncScheduler for any workers, closers, requests,    *)
(* intervals and delays.  That the composition keeps to SyncCoordinator is *)
(* proved first: what is proved of the coordinator then holds here too.    *)
(***************************************************************************)
EXTENDS AutoSyncScheduler, TLAPS

Coordinator == INSTANCE SyncCoordinator_proofs WITH Procs <- {Self}

\* The coordinator of the composition satisfies the coordinator's assumption.
LEMMA CoordinatorAssumed == Coordinator!CoordinatorAssumption
BY SchedulerAssumption DEF SchedulerAssumption, Coordinator!CoordinatorAssumption

-----------------------------------------------------------------------------
(* The composition implements SyncCoordinator                              *)

\* While the loop is inside coordinator.start(), slot is the worker it starts.
Slotted == spc = "starting" => slot \in Workers

\* Every action keeps it.
LEMMA SlottedStep == Slotted /\ [Next]_vars => Slotted'
<1> SUFFICES ASSUME Slotted, [Next]_vars, spc' = "starting" PROVE slot' \in Workers
  BY DEF Slotted
<1>1. ASSUME NEW w \in Workers, StartSync(w) PROVE slot' \in Workers
  BY <1>1 DEF StartSync
<1>2. CASE UNCHANGED <<spc, slot>>
  BY <1>2 DEF Slotted
<1>3. UNCHANGED <<spc, slot>> \/ \E w \in Workers : StartSync(w)
  BY DEF Next, SchedulerStep, WorkerStep, UpdaterStep, CloserStep, Tick, Launch,
         OtherProcessSyncs, LoadSettings, SettingsError, ShowSettings,
         LookAtCoordinator, Decide, QueryFails, StartRefused, Spawn, RecordAttempt,
         RecordStartFailure, WaitReturns, ClearWake, ManualSync, SpawnManual, SyncEnds,
         Release, RecordCompletion, WakeAfterSync, UpdateAccepted, UpdateWrites,
         UpdateFails, Reconfigure, WakeAfterUpdate, BeginClosing, SignalStop, Join,
         Drain, Exit, Goto, vars, schedVars
<1> QED
  BY <1>1, <1>2, <1>3

\* A step of the server is a step of its coordinator, or leaves it alone.
LEMMA StepOfCoordinator == Slotted /\ [Next]_vars => [Sync!Next]_(Sync!vars)
<1> SUFFICES ASSUME Slotted, [Next]_vars, ~UNCHANGED syncVars PROVE Sync!Next
  BY DEF syncVars, Sync!vars
<1>1. CASE Launch
  BY <1>1 DEF Launch, Sync!Next
<1>2. ASSUME NEW c \in Closers, Exit(c) PROVE Sync!Next
  BY <1>2 DEF Exit, Sync!Next, Sync!CloserStep
<1>3. ASSUME NEW w \in Workers, ManualSync(w) PROVE Sync!Next
  BY <1>3 DEF ManualSync, Sync!Next
<1>4. ASSUME NEW w \in Workers, WorkerStep(w) PROVE Sync!Next
  <2>1. \/ Sync!SpawnOk(Self, w) \/ Sync!SpawnFails(Self, w)
        \/ Sync!SyncReturns(Self, w) \/ Sync!Finish(Self, w) \/ Sync!Notify(Self, w)
    BY <1>4 DEF WorkerStep, SpawnManual, SyncEnds, Release, RecordCompletion,
                WakeAfterSync
  <2> QED
    BY <2>1 DEF Sync!Next, Sync!WorkerStep
<1>5. CASE SchedulerStep
  <2>1. CASE Spawn
    <3>1. slot \in Workers /\ (Sync!SpawnOk(Self, slot) \/ Sync!SpawnFails(Self, slot))
      BY <2>1 DEF Spawn, Slotted
    <3> QED
      BY <3>1 DEF Sync!Next, Sync!WorkerStep
  <2>2. ASSUME NEW w \in Workers, StartSync(w) PROVE Sync!Next
    BY <2>2 DEF StartSync, Sync!Next
  <2> QED
    BY <1>5, <2>1, <2>2 DEF SchedulerStep, LoadSettings, SettingsError, ShowSettings,
       LookAtCoordinator, Decide, QueryFails, StartRefused, RecordAttempt, RecordStartFailure,
       WaitReturns, ClearWake
<1>6. ASSUME NEW c \in Closers, NEW r \in BOOLEAN, BeginClosing(c, r) PROVE Sync!Next
  BY <1>6 DEF BeginClosing, Sync!Next, Sync!CloserStep
<1>7. ASSUME NEW c \in Closers, CloserStep(c) PROVE Sync!Next
  BY <1>7 DEF CloserStep, SignalStop, Join, Drain, Sync!Next, Sync!CloserStep
<1>8. ASSUME NEW u \in Updaters, UpdaterStep(u) PROVE FALSE
  BY <1>8 DEF UpdaterStep, UpdateWrites, UpdateFails, Reconfigure, WakeAfterUpdate
<1>9. ASSUME NEW u \in Updaters, NEW v, UpdateAccepted(u, v) PROVE FALSE
  BY <1>9 DEF UpdateAccepted
<1>10. CASE Tick \/ OtherProcessSyncs \/ UNCHANGED vars
  BY <1>10 DEF Tick, OtherProcessSyncs, vars
<1> QED
  BY <1>1, <1>2, <1>3, <1>4, <1>5, <1>6, <1>7, <1>8, <1>9, <1>10 DEF Next

\* The server's coordinator behaves like SyncCoordinator with one process.
THEOREM ComposesCoordinator == Spec => Sync!Spec
<1>1. Init => Sync!Init
  BY DEF Init
<1>2. Init => Slotted
  BY DEF Init, Slotted
<1> QED
  BY <1>1, <1>2, SlottedStep, StepOfCoordinator, PTL DEF Spec, Sync!Spec

-----------------------------------------------------------------------------
(* What is proved of the coordinator                                       *)

\* The module of the coordinator and the module of its proofs are instantiated
\* alike.
LEMMA SameType == Sync!TypeOK <=> Coordinator!TypeOK
BY DEF Sync!TypeOK, Coordinator!TypeOK, Sync!Locations,
       Coordinator!Locations, Sync!CloserLocations,
       Coordinator!CloserLocations, Sync!Verdicts, Coordinator!Verdicts

\* Their states are initialised alike.
LEMMA SameInit == Sync!Init <=> Coordinator!Init
BY DEF Sync!Init, Coordinator!Init, Sync!AllFalse, Coordinator!AllFalse

\* They take the same steps.
LEMMA SameNext == [Sync!Next]_(Sync!vars) <=> [Coordinator!Next]_(Coordinator!vars)
BY DEF Sync!vars, Coordinator!vars, Sync!Next, Coordinator!Next,
       Sync!WorkerStep, Coordinator!WorkerStep, Sync!CloserStep,
       Coordinator!CloserStep, Sync!Boot, Coordinator!Boot, Sync!Crash,
       Coordinator!Crash, Sync!Exit, Coordinator!Exit, Sync!Vanish,
       Coordinator!Vanish, Sync!Reserve, Coordinator!Reserve,
       Sync!MayReserve, Coordinator!MayReserve, Sync!ClearOutcome,
       Coordinator!ClearOutcome, Sync!SpawnOk, Coordinator!SpawnOk,
       Sync!SpawnFails, Coordinator!SpawnFails, Sync!SyncReturns,
       Coordinator!SyncReturns, Sync!Finish, Coordinator!Finish,
       Sync!SnapshotOutcome, Coordinator!SnapshotOutcome, Sync!Notify,
       Coordinator!Notify, Sync!BeginClosing, Coordinator!BeginClosing,
       Sync!DrainCheck, Coordinator!DrainCheck, Sync!ReleaseFileLock,
       Coordinator!ReleaseFileLock, Sync!WakeAll, Coordinator!WakeAll,
       Sync!procVars, Coordinator!procVars, Sync!coordVars,
       Coordinator!coordVars

\* Every sync of the server obeys what is proved of its coordinator: after a
\* drain none runs.
THEOREM DrainIsSafe == Spec => []Sync!DrainedMeansQuiet
<1>1. Coordinator!Spec => []Coordinator!DrainedMeansQuiet
  BY CoordinatorAssumed, Coordinator!DrainIsSafe DEF Coordinator!DrainIsSafe
<1>2. Sync!DrainedMeansQuiet <=> Coordinator!DrainedMeansQuiet
  BY DEF Sync!DrainedMeansQuiet, Coordinator!DrainedMeansQuiet, Sync!Active,
         Coordinator!Active
<1> QED
  BY <1>1, <1>2, SameInit, SameNext, ComposesCoordinator, PTL
     DEF Sync!Spec, Coordinator!Spec

-----------------------------------------------------------------------------
(* Types                                                                   *)

\* The initial state has the types.
LEMMA InitType == Init => TypeOK
<1> SUFFICES ASSUME Init PROVE TypeOK
  OBVIOUS
<1>1. Sync!TypeOK
  <2>1. Coordinator!Init => Coordinator!TypeOK
    BY CoordinatorAssumed, Coordinator!InitIInv DEF Coordinator!InitIInv, Coordinator!IInv
  <2> QED
    BY <2>1, SameInit, SameType DEF Init
<1>2. history \in Histories
  BY SchedulerAssumption DEF Init, NoHistory, Histories, Ages, SchedulerAssumption
<1> QED
  BY <1>1, <1>2 DEF Init, TypeOK, Settings, Ages

\* The scheduler's and the application's part of TypeOK.
OwnType ==
  /\ stored \in Settings /\ hasData \in BOOLEAN
  /\ upc \in [Updaters -> {"free", "write", "configure", "wake"}]
  /\ uval \in [Updaters -> Settings]
  /\ jpc \in [Closers -> {"none", "stop", "joining", "joined"}]
  /\ told \in [Workers -> BOOLEAN]
  /\ shown \in Settings /\ loaded \in Settings
  /\ history \in Histories /\ now \in Ages
  /\ slot \in Workers \union {NoWorker}
  /\ wake \in BOOLEAN /\ stop \in BOOLEAN
  /\ spc \in {"off", "top", "loaded", "look", "decide", "start", "starting",
              "started", "raised", "asleep", "woken", "ended", "died"}

\* Ages and counts stay in their range.
LEMMA HistoryFacts ==
  /\ \A a \in Ages : Older(a) \in Ages
  /\ \A n \in 0..FailureCap : OneMoreFailure(n) \in 0..FailureCap
  /\ 0 \in 0..FailureCap /\ 0 \in Ages /\ Never \in Ages
<1>1. Horizon \in Nat /\ FailureCap \in Nat /\ Never \notin Nat
  BY SchedulerAssumption DEF SchedulerAssumption
<1>2. \A a \in Ages : Older(a) \in Ages
  BY <1>1 DEF Ages, Older
<1>3. \A n \in 0..FailureCap : OneMoreFailure(n) \in 0..FailureCap
  BY <1>1 DEF OneMoreFailure
<1>4. 0 \in 0..FailureCap /\ 0 \in Ages /\ Never \in Ages
  BY <1>1 DEF Ages
<1> QED
  BY <1>2, <1>3, <1>4

\* Every action keeps the history's type.
LEMMA HistoryStep == OwnType /\ [Next]_vars => history' \in Histories /\ now' \in Ages
<1> SUFFICES ASSUME history \in Histories, now \in Ages, [Next]_vars
             PROVE  history' \in Histories /\ now' \in Ages
  BY DEF OwnType
<1>0. history.failures \in 0..FailureCap /\ OneMoreFailure(history.failures) \in 0..FailureCap
  BY HistoryFacts DEF Histories
<1>1. CASE Tick
  <2>1. /\ Older(history.attempt) \in Ages /\ Older(history.success) \in Ages
        /\ Older(now) \in Ages
    BY HistoryFacts DEF Histories
  <2> QED
    BY <1>1, <2>1 DEF Tick, Histories
<1>2. CASE Launch
  BY <1>2 DEF Launch, Persisted
<1>3. ASSUME NEW w \in Workers, RecordCompletion(w)
      PROVE history' \in Histories /\ now' \in Ages
  BY <1>0, <1>3, HistoryFacts DEF RecordCompletion, Histories, schedVars
<1>4. CASE SettingsError \/ RecordStartFailure \/ RecordAttempt
  <2>1. CASE SettingsError
    BY <1>0, <2>1 DEF SettingsError, Histories
  <2>2. CASE RecordStartFailure
    BY <1>0, <2>2, HistoryFacts DEF RecordStartFailure, Histories
  <2>3. CASE RecordAttempt
    BY <2>3, HistoryFacts DEF RecordAttempt, Histories
  <2> QED
    BY <1>4, <2>1, <2>2, <2>3
<1>5. CASE Decide \/ StartRefused
  BY <1>5, HistoryFacts DEF Decide, StartRefused
<1>6. CASE UNCHANGED <<history, now>>
  BY <1>6
<1>7. \/ UNCHANGED <<history, now>> \/ Tick \/ Launch
      \/ \E w \in Workers : RecordCompletion(w)
      \/ SettingsError \/ RecordStartFailure \/ RecordAttempt \/ Decide \/ StartRefused
  BY DEF Next, SchedulerStep, WorkerStep, UpdaterStep, CloserStep, OtherProcessSyncs,
         LoadSettings, ShowSettings, LookAtCoordinator, QueryFails, StartSync, Spawn, WaitReturns,
         ClearWake, ManualSync, SpawnManual, SyncEnds, Release, WakeAfterSync,
         UpdateAccepted, UpdateWrites, UpdateFails, Reconfigure, WakeAfterUpdate,
         BeginClosing, SignalStop, Join, Drain, Exit, vars, appVars, schedVars
<1> QED
  BY <1>1, <1>2, <1>3, <1>4, <1>5, <1>6, <1>7

\* Every action keeps the types of the scheduler and the application.
LEMMA OwnTypeStep == OwnType /\ [Next]_vars => OwnType'
<1> SUFFICES ASSUME OwnType, [Next]_vars PROVE OwnType'
  OBVIOUS
<1>0. history' \in Histories /\ now' \in Ages
  BY HistoryStep
<1> USE <1>0 DEF OwnType, appVars, schedVars, Goto
<1>1. CASE Tick \/ Launch \/ OtherProcessSyncs
  BY <1>1 DEF Tick, Launch, OtherProcessSyncs
<1>2. CASE SchedulerStep
  <2>1. CASE LoadSettings \/ SettingsError \/ ShowSettings \/ Decide \/ QueryFails
    BY <1>2, <2>1 DEF LoadSettings, SettingsError, ShowSettings, Decide, QueryFails
  <2>2. CASE LookAtCoordinator
    <3>1. spc' \in {"ended", "asleep", "decide"}
      BY <2>2 DEF LookAtCoordinator
    <3> QED
      BY <2>2, <3>1 DEF LookAtCoordinator
  <2>3. ASSUME NEW w \in Workers, StartSync(w) PROVE OwnType'
    BY <2>3 DEF StartSync
  <2>4. CASE StartRefused \/ Spawn \/ RecordAttempt
    BY <2>4 DEF StartRefused, Spawn, RecordAttempt
  <2>5. CASE RecordStartFailure \/ WaitReturns \/ ClearWake
    BY <2>5 DEF RecordStartFailure, WaitReturns, ClearWake
  <2> QED
    BY <1>2, <2>1, <2>2, <2>3, <2>4, <2>5 DEF SchedulerStep
<1>3. ASSUME NEW w \in Workers, ManualSync(w) \/ WorkerStep(w) PROVE OwnType'
  BY <1>3 DEF ManualSync, WorkerStep, SpawnManual, SyncEnds, Release,
              RecordCompletion, WakeAfterSync
<1>4. ASSUME NEW u \in Updaters, UpdaterStep(u) PROVE OwnType'
  <2>1. CASE UpdateWrites(u)
    <3>1. uval[u] \in Settings
      OBVIOUS
    <3> QED
      BY <2>1, <3>1 DEF UpdateWrites
  <2>2. CASE UpdateFails(u)
    BY <2>2 DEF UpdateFails
  <2>3. CASE Reconfigure(u)
    <3>1. uval[u] \in Settings
      OBVIOUS
    <3> QED
      BY <2>3, <3>1 DEF Reconfigure
  <2>4. CASE WakeAfterUpdate(u)
    BY <2>4 DEF WakeAfterUpdate
  <2> QED
    BY <1>4, <2>1, <2>2, <2>3, <2>4 DEF UpdaterStep
<1>5. ASSUME NEW u \in Updaters, NEW v, UpdateAccepted(u, v) PROVE OwnType'
  BY <1>5 DEF UpdateAccepted, Valid
<1>6. ASSUME NEW c \in Closers, CloserStep(c) \/ Exit(c) PROVE OwnType'
  BY <1>6 DEF CloserStep, SignalStop, Join, Drain, Exit
<1>7. ASSUME NEW c \in Closers, NEW r, BeginClosing(c, r) PROVE OwnType'
  BY <1>7 DEF BeginClosing
<1>8. CASE UNCHANGED vars
  BY <1>8 DEF vars
<1> HIDE DEF OwnType
<1> QED
  BY <1>1, <1>2, <1>3, <1>4, <1>5, <1>6, <1>7, <1>8 DEF Next

\* Every variable keeps its type, those of the coordinator included.
THEOREM TypeCorrect == Spec => []TypeOK
<1>1. Coordinator!Spec => []Coordinator!TypeOK
  BY CoordinatorAssumed, Coordinator!TypeCorrect DEF Coordinator!TypeCorrect
<1>2. Spec => []Sync!TypeOK
  BY <1>1, SameType, SameInit, SameNext, ComposesCoordinator, PTL
     DEF Sync!Spec, Coordinator!Spec
<1>3. Init => OwnType
  BY InitType DEF TypeOK, OwnType
<1>4. TypeOK <=> Sync!TypeOK /\ OwnType
  BY DEF TypeOK, OwnType
<1> QED
  BY <1>2, <1>3, <1>4, OwnTypeStep, PTL DEF Spec

-----------------------------------------------------------------------------
(* Stopping                                                                *)

\* A server that is not launched has no closing thread; one that has is
\* closing; and stop() has returned only when the loop has ended.
Lifecycle ==
  /\ spc = "off" => ~alive[Self] /\ \A c \in Closers : jpc[c] = "none"
  /\ \A c \in Closers : alive[Self] /\ jpc[c] # "none" => closing[Self]
  /\ \A c \in Closers : jpc[c] = "joined" => LoopOver

\* Only a launch, an exit and begin_closing() touch alive and closing.
LEMMA AliveAndClosing ==
  [Next]_vars =>
    \/ UNCHANGED <<alive, closing, jpc>>
    \/ Launch
    \/ \E c \in Closers : Exit(c) \/ SignalStop(c) \/ Join(c)
    \/ \E c \in Closers, r \in BOOLEAN : BeginClosing(c, r)
<1> SUFFICES ASSUME [Next]_vars
             PROVE  \/ UNCHANGED <<alive, closing, jpc>>
                    \/ Launch
                    \/ \E c \in Closers : Exit(c) \/ SignalStop(c) \/ Join(c)
                    \/ \E c \in Closers, r \in BOOLEAN : BeginClosing(c, r)
  OBVIOUS
<1> USE DEF syncVars, appVars, Sync!procVars, Sync!coordVars
<1>1. CASE SchedulerStep
  <2>1. CASE Spawn
    BY <2>1 DEF Spawn, Sync!SpawnOk, Sync!SpawnFails
  <2>2. ASSUME NEW w \in Workers, StartSync(w) PROVE UNCHANGED <<alive, closing, jpc>>
    BY <2>2 DEF StartSync, Sync!Reserve
  <2> QED
    BY <1>1, <2>1, <2>2 DEF SchedulerStep, LoadSettings, SettingsError, ShowSettings,
       LookAtCoordinator, Decide, QueryFails, StartRefused, RecordAttempt, RecordStartFailure,
       WaitReturns, ClearWake
<1>2. ASSUME NEW w \in Workers, ManualSync(w) \/ WorkerStep(w)
      PROVE  UNCHANGED <<alive, closing, jpc>>
  BY <1>2 DEF ManualSync, WorkerStep, SpawnManual, SyncEnds, Release, RecordCompletion,
     WakeAfterSync, Sync!Reserve, Sync!SpawnOk, Sync!SpawnFails, Sync!SyncReturns,
     Sync!Finish, Sync!Notify
<1>3. ASSUME NEW u \in Updaters, UpdaterStep(u) \/ \E v \in 0..Horizon + 1 : UpdateAccepted(u, v)
      PROVE  UNCHANGED <<alive, closing, jpc>>
  BY <1>3 DEF UpdaterStep, UpdateWrites, UpdateFails, Reconfigure, WakeAfterUpdate,
     UpdateAccepted
<1>4. ASSUME NEW c \in Closers, Drain(c) PROVE UNCHANGED <<alive, closing, jpc>>
  BY <1>4 DEF Drain, Sync!DrainCheck
<1>5. CASE Tick \/ OtherProcessSyncs \/ UNCHANGED vars
  BY <1>5 DEF Tick, OtherProcessSyncs, vars
<1> QED
  BY <1>1, <1>2, <1>3, <1>4, <1>5 DEF Next, CloserStep

\* A loop that is over stays over, and "off" does not come back.
LEMMA LoopEnds ==
  [Next]_vars => /\ LoopOver => LoopOver'
                 /\ spc' = "off" => spc = "off"
                 /\ ~UNCHANGED spc => spc' # "off"
BY DEF Next, SchedulerStep, WorkerStep, UpdaterStep, CloserStep, Tick, Launch,
       OtherProcessSyncs, LoadSettings, SettingsError, ShowSettings,
       LookAtCoordinator, Decide, QueryFails, StartSync, StartRefused, Spawn, RecordAttempt,
       RecordStartFailure, WaitReturns, ClearWake, ManualSync, SpawnManual, SyncEnds,
       Release, RecordCompletion, WakeAfterSync, UpdateAccepted, UpdateWrites,
       UpdateFails, Reconfigure, WakeAfterUpdate, BeginClosing, SignalStop, Join,
       Drain, Exit, Goto, LoopOver, vars, schedVars

\* Every action keeps the order of launching, closing and stopping.
LEMMA LifecycleStep == TypeOK /\ Lifecycle /\ [Next]_vars => Lifecycle'
<1> SUFFICES ASSUME TypeOK, Lifecycle, [Next]_vars PROVE Lifecycle'
  OBVIOUS
<1>0. /\ alive \in [{Self} -> BOOLEAN] /\ closing \in [{Self} -> BOOLEAN]
      /\ jpc \in [Closers -> {"none", "stop", "joining", "joined"}]
  BY DEF TypeOK, Sync!TypeOK
<1>1. CASE UNCHANGED <<alive, closing, jpc>>
  BY <1>1, LoopEnds DEF Lifecycle
<1>2. CASE Launch
  <2>1. spc = "off" /\ spc' = "top" /\ UNCHANGED jpc
    BY <1>2 DEF Launch, appVars
  <2> QED
    BY <2>1 DEF Lifecycle
<1>3. ASSUME NEW c \in Closers, Exit(c) PROVE Lifecycle'
  <2>1. spc' = "ended" /\ UNCHANGED jpc /\ ~alive'[Self]
    BY <1>0, <1>3 DEF Exit, appVars, Sync!Exit, Sync!Vanish
  <2> QED
    BY <2>1 DEF Lifecycle, LoopOver
<1>4. ASSUME NEW c \in Closers, NEW r \in BOOLEAN, BeginClosing(c, r) PROVE Lifecycle'
  <2>1. /\ closing'[Self] /\ UNCHANGED <<alive, spc>> /\ spc # "off"
        /\ jpc' = [jpc EXCEPT ![c] = "stop"]
    BY <1>0, <1>4 DEF BeginClosing, Sync!BeginClosing, Sync!procVars, schedVars
  <2>2. \A d \in Closers : jpc'[d] = "joined" => jpc[d] = "joined"
    BY <1>0, <2>1
  <2> QED
    BY <2>1, <2>2 DEF Lifecycle, LoopOver
<1>5. ASSUME NEW c \in Closers, SignalStop(c) \/ Join(c) PROVE Lifecycle'
  <2>1. UNCHANGED <<alive, closing, spc>> /\ alive[Self] /\ jpc[c] # "none"
    BY <1>5 DEF SignalStop, Join, syncVars, schedVars
  <2>2. \A d \in Closers : /\ jpc[d] = "none" => jpc'[d] = "none"
                           /\ jpc'[d] = "joined" => jpc[d] = "joined" \/ LoopOver
    BY <1>0, <1>5 DEF SignalStop, Join
  <2>3. closing[Self] /\ spc # "off"
    BY <2>1 DEF Lifecycle
  <2> QED
    BY <2>1, <2>2, <2>3 DEF Lifecycle, LoopOver
<1> QED
  BY <1>1, <1>2, <1>3, <1>4, <1>5, AliveAndClosing

\* When stop() has returned the loop has ended for good and the service is
\* closing: no automatic sync begins any more.
THEOREM StopIsFinal == Spec => []StoppedForGood
<1>1. Init => Lifecycle
  BY DEF Init, Lifecycle, Sync!Init, Sync!AllFalse
<1>2. Lifecycle => StoppedForGood
  BY DEF Lifecycle, StoppedForGood
<1> QED
  BY <1>1, <1>2, LifecycleStep, TypeCorrect, PTL DEF Spec

-----------------------------------------------------------------------------
(* No lost wakeup                                                          *)

\* The loop will be woken: an event is set, or a request will set it.
Pending == wake \/ \E u \in Updaters : upc[u] \in {"configure", "wake"}

\* Unless it will be woken, the loop has what the file holds from the moment
\* it has loaded it, and shows it from the moment it has stored it.
Current ==
  ~Pending =>
    /\ spc = "loaded" => loaded = stored
    /\ spc \in {"look", "decide", "start", "starting", "started", "raised", "asleep"} =>
         loaded = stored /\ shown = stored

\* Every action keeps it, when the settings file can be read.
LEMMA CurrentStep ==
  ~SettingsMayFail /\ OwnType /\ Current /\ [Next]_vars => Current'
<1> SUFFICES ASSUME ~SettingsMayFail, OwnType, Current, [Next]_vars, ~Pending'
             PROVE  Current'
  BY DEF Current
<1>0. ~wake' /\ \A u \in Updaters : upc'[u] \notin {"configure", "wake"}
  BY DEF Pending
<1>1. CASE SchedulerStep
  <2>1. CASE ClearWake \/ LoadSettings \/ WaitReturns
    BY <2>1 DEF ClearWake, LoadSettings, WaitReturns, Goto, Current, Pending, appVars
  <2>2. CASE SettingsError
    BY <2>2 DEF SettingsError
  <2>3. CASE /\ UNCHANGED <<wake, upc, stored, loaded>>
             /\ \/ spc = "loaded" /\ shown' = loaded
                \/ /\ spc \in {"look", "decide", "start", "starting", "started", "raised"}
                   /\ UNCHANGED shown
    BY <2>3 DEF Current, Pending
  <2> QED
    BY <1>1, <2>1, <2>2, <2>3 DEF SchedulerStep, ShowSettings, LookAtCoordinator,
       Decide, QueryFails, StartSync, StartRefused, Spawn, RecordAttempt,
       RecordStartFailure, appVars
<1>2. CASE UNCHANGED <<wake, upc, stored, loaded, shown, spc>>
  BY <1>2 DEF Current, Pending
<1>3. CASE Launch \/ \E c \in Closers : Exit(c)
  BY <1>3 DEF Launch, Exit, Current
<1>4. ASSUME NEW w \in Workers, ManualSync(w) \/ WorkerStep(w) PROVE Current'
  BY <1>0, <1>2, <1>4 DEF ManualSync, WorkerStep, SpawnManual, SyncEnds, Release,
     RecordCompletion, WakeAfterSync, appVars, schedVars
<1>5. ASSUME NEW u \in Updaters, UpdaterStep(u) PROVE Current'
  <2>1. CASE UpdateWrites(u) \/ Reconfigure(u) \/ WakeAfterUpdate(u)
    BY <1>0, <2>1 DEF UpdateWrites, Reconfigure, WakeAfterUpdate, OwnType
  <2>2. CASE UpdateFails(u)
    <3>1. /\ UNCHANGED <<wake, stored, loaded, shown, spc>>
          /\ \A v \in Updaters : upc[v] \in {"configure", "wake"} => upc'[v] = upc[v]
      BY <2>2 DEF UpdateFails, schedVars, OwnType
    <3> QED
      BY <3>1 DEF Current, Pending
  <2> QED
    BY <1>5, <2>1, <2>2 DEF UpdaterStep
<1>6. ASSUME NEW u \in Updaters, NEW x, UpdateAccepted(u, x) PROVE Current'
  <2>1. /\ UNCHANGED <<wake, stored, loaded, shown, spc>>
        /\ \A v \in Updaters : upc[v] \in {"configure", "wake"} => upc'[v] = upc[v]
    BY <1>6 DEF UpdateAccepted, schedVars, OwnType
  <2> QED
    BY <2>1 DEF Current, Pending
<1>7. ASSUME NEW c \in Closers, CloserStep(c) PROVE Current'
  BY <1>0, <1>2, <1>7 DEF CloserStep, SignalStop, Join, Drain, appVars, schedVars
<1>8. ASSUME NEW c \in Closers, NEW r, BeginClosing(c, r) PROVE Current'
  BY <1>2, <1>8 DEF BeginClosing, schedVars
<1>9. CASE Tick \/ OtherProcessSyncs \/ UNCHANGED vars
  BY <1>2, <1>9 DEF Tick, OtherProcessSyncs, vars, appVars, schedVars
<1> QED
  BY <1>1, <1>3, <1>4, <1>5, <1>6, <1>7, <1>8, <1>9 DEF Next

\* While the settings file can be read, the loop never sleeps on settings that
\* are not those of the file unless a wakeup is on its way.
THEOREM NoLostWakeup == ~SettingsMayFail => (Spec => []SleepsWithCurrentSettings)
<1> SUFFICES ASSUME ~SettingsMayFail PROVE Spec => []SleepsWithCurrentSettings
  OBVIOUS
<1>1. Init => Current
  BY DEF Init, Current
<1>2. TypeOK => OwnType
  BY DEF TypeOK, OwnType
<1>3. OwnType /\ Current => SleepsWithCurrentSettings
  BY DEF Current, Pending, OwnType, SleepsWithCurrentSettings
<1>4. OwnType /\ Current /\ [Next]_vars => Current'
  BY CurrentStep
<1> QED
  BY <1>1, <1>2, <1>3, <1>4, TypeCorrect, PTL DEF Spec
=============================================================================
