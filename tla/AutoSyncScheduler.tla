------------------------- MODULE AutoSyncScheduler -------------------------
(***************************************************************************)
(* AutoSyncScheduler (scheduler.py) inside one local server: composed with *)
(* SyncCoordinator, the settings handler of the HTTP server and the        *)
(* threads that close the service.                                         *)
(*                                                                         *)
(* The coordinator's part of the state moves only by actions of            *)
(* SyncCoordinator, each of them conjoined with what the same handler does *)
(* to the scheduler.  Every section under the scheduler's state lock is    *)
(* one action, and so is every read of another object's state.  Time is    *)
(* kept as ages that stop growing at Horizon; a wait may time out at any   *)
(* moment, since _wait never sleeps longer than the settings reload.       *)
(* next_check_at, last_attempt_at, last_success_at and last_error are      *)
(* display only; last_error is set exactly when failures are counted.      *)
(* The module describes one life of the server's process, from any history *)
(* the database may hold.  Other processes that share the data directory   *)
(* are its environment: they may hold the file lock at any time this one   *)
(* does not, and publish data.                                             *)
(***************************************************************************)
EXTENDS Naturals

CONSTANTS
  Workers, Closers, NoProc, ReleaseMayRaise,   \* of SyncCoordinator
  Self,             \* the process
  Updaters,         \* concurrent PUT /api/settings requests
  Intervals,        \* allowed interval_hours
  Base,             \* failure_backoff_base_seconds
  MaxDelay,         \* failure_backoff_max_seconds
  FailureCap,       \* failures beyond which the delay no longer grows
  Horizon,          \* bound of the ages
  Never,            \* no such moment yet
  NoWorker,
  SettingsMayFail   \* whether the settings file may become unreadable

ASSUME SchedulerAssumption ==
  /\ NoProc # Self
  /\ ReleaseMayRaise \in BOOLEAN
  /\ NoWorker \notin Workers
  /\ Intervals \subseteq Nat \ {0}
  /\ Base \in Nat \ {0}
  /\ MaxDelay \in Nat /\ MaxDelay >= Base
  /\ FailureCap \in Nat /\ Base * 2^FailureCap >= 2 * MaxDelay
  /\ Horizon \in Nat /\ Horizon >= MaxDelay /\ \A i \in Intervals : Horizon >= i
  /\ Never \notin Nat
  /\ SettingsMayFail \in BOOLEAN

VARIABLES
  \* of SyncCoordinator
  alive, osLock, held, running, closing, completed, lastError, lastResult,
  pc, outcome, event, cpc,
  \* of the application
  stored,    \* the settings file: an interval, or 0 when disabled
  upc,       \* where each settings request is
  uval,      \* the settings it carries
  hasData,   \* every required dataset has a head
  jpc,       \* where each closer is in AutoSyncScheduler.stop
  told,      \* the worker has passed its snapshot to _sync_completed
  \* of AutoSyncScheduler
  shown,     \* _settings
  loaded,    \* the local settings of _run
  history,   \* _last_attempt_time, _last_success_time, _consecutive_failures
  now,       \* the age of the local now of _run, while it is needed
  slot,      \* the worker _run is starting
  wake,      \* _wake is set
  stop,      \* _stop is set
  spc        \* where _run is

Sync == INSTANCE SyncCoordinator WITH Procs <- {Self}

syncVars == <<alive, osLock, held, running, closing, completed, lastError,
              lastResult, pc, outcome, event, cpc>>
appVars == <<stored, upc, uval, hasData, jpc, told>>
schedVars == <<shown, loaded, history, now, slot, wake, stop, spc>>
vars == <<syncVars, appVars, schedVars>>

Settings == Intervals \union {0}
Ages == 0..Horizon \union {Never}
Histories == [attempt : Ages, success : Ages, failures : 0..FailureCap]

TypeOK ==
  /\ Sync!TypeOK
  /\ stored \in Settings
  /\ upc \in [Updaters -> {"free", "write", "configure", "wake"}]
  /\ uval \in [Updaters -> Settings]
  /\ hasData \in BOOLEAN
  /\ jpc \in [Closers -> {"none", "stop", "joining", "joined"}]
  /\ told \in [Workers -> BOOLEAN]
  /\ shown \in Settings
  /\ loaded \in Settings
  /\ history \in Histories
  /\ now \in Ages
  /\ slot \in Workers \union {NoWorker}
  /\ wake \in BOOLEAN
  /\ stop \in BOOLEAN
  /\ spc \in {"off", "top", "loaded", "look", "decide", "start", "starting",
              "started", "raised", "asleep", "woken", "ended", "died"}

NoHistory == [attempt |-> Never, success |-> Never, failures |-> 0]

Init ==
  /\ Sync!Init
  /\ stored \in Settings
  /\ upc = [u \in Updaters |-> "free"]
  /\ uval = [u \in Updaters |-> 0]
  /\ hasData \in BOOLEAN
  /\ jpc = [c \in Closers |-> "none"]
  /\ told = [w \in Workers |-> FALSE]
  /\ shown = 0
  /\ loaded = 0
  /\ history = NoHistory
  /\ now = Never
  /\ slot = NoWorker
  /\ wake = FALSE
  /\ stop = FALSE
  /\ spc = "off"

-----------------------------------------------------------------------------
(* Time                                                                    *)

Older(age) == IF age = Never \/ age = Horizon THEN age ELSE age + 1

Tick ==
  /\ history' = [history EXCEPT !.attempt = Older(@), !.success = Older(@)]
  /\ now' = Older(now)
  /\ <<history, now>>' # <<history, now>>
  /\ UNCHANGED <<syncVars, appVars, shown, loaded, slot, wake, stop, spc>>

\* _failure_delay
FailureDelay(failures) ==
  LET delay == Base * 2^(failures - 1) IN
  IF delay < MaxDelay THEN delay ELSE MaxDelay

OneMoreFailure(failures) ==
  IF failures < FailureCap THEN failures + 1 ELSE failures

\* As old as the delay; what has never happened is as old as can be.
AtLeast(age, delay) == age # Never => age >= delay

\* The delay a failure asks for applies.
BackingOff(h) == h.failures > 0 /\ h.attempt # Never

\* Mutant: without a success nothing is due.
DueAfterSuccess(h) ==
  IF BackingOff(h) THEN AtLeast(h.attempt, FailureDelay(h.failures))
                   ELSE h.success # Never /\ AtLeast(h.success, loaded)

\* _due_at, compared with now; the settings are enabled.
Due(h) ==
  IF BackingOff(h) THEN AtLeast(h.attempt, FailureDelay(h.failures))
  ELSE IF hasData THEN AtLeast(h.success, loaded)
                  ELSE AtLeast(h.attempt, Base)

-----------------------------------------------------------------------------
(* The process                                                             *)

\* What _load_persisted_history can find: the newest run, the newest success,
\* and how many runs since then did not succeed.
Persisted ==
  {h \in Histories :
     /\ h.attempt = Never => h = NoHistory
     /\ h.attempt # Never /\ h.failures = 0 => h.success = h.attempt
     /\ h.success # Never =>
          /\ hasData
          /\ h.success >= h.attempt
          /\ h.failures > 0 => h.success > h.attempt \/ h.attempt = Horizon}

\* serve() calls start_background_services before it has any other thread:
\* __init__ reads settings and history, start() finds nothing to wait for.
Launch ==
  /\ spc = "off"
  /\ Sync!Boot(Self)
  /\ shown' = stored
  /\ history' \in Persisted
  /\ spc' = "top"
  /\ UNCHANGED <<appVars, loaded, now, slot, wake, stop>>

\* The main thread has drained and the process ends.
Exit(c) ==
  /\ Sync!Exit(Self, c)
  /\ spc' = "ended"
  /\ UNCHANGED <<appVars, shown, loaded, history, now, slot, wake, stop>>

-----------------------------------------------------------------------------
(* Workers                                                                 *)

\* POST /api/sync reserves; start() and _run_reserved go on as for any caller.
ManualSync(w) ==
  /\ Sync!Reserve(Self, w)
  /\ UNCHANGED <<appVars, shown, loaded, history, now, slot, wake, stop, spc>>

SpawnManual(w) ==
  /\ w # slot
  /\ Sync!SpawnOk(Self, w) \/ Sync!SpawnFails(Self, w)
  /\ UNCHANGED <<appVars, schedVars>>

\* A sync that succeeds leaves a head for every dataset; one that fails may
\* have moved them before it failed.
SyncEnds(w) ==
  /\ Sync!SyncReturns(Self, w)
  /\ hasData' \in {hasData, TRUE}
  /\ outcome'[Self][w] = "ok" => hasData'
  /\ UNCHANGED <<stored, upc, uval, jpc, told, schedVars>>

Release(w) ==
  /\ Sync!Finish(Self, w)
  /\ UNCHANGED <<appVars, shown, loaded, history, now, slot, wake, stop, spc>>

\* The locked part of _sync_completed.
RecordCompletion(w) ==
  /\ pc[Self][w] = "notifying"
  /\ ~told[w]
  /\ told' = [told EXCEPT ![w] = TRUE]
  /\ history' = IF event[Self][w] = "error"
                  THEN [history EXCEPT !.attempt = 0, !.failures = OneMoreFailure(@)]
                  ELSE [attempt |-> 0, success |-> 0, failures |-> 0]
  /\ UNCHANGED <<syncVars, stored, upc, uval, hasData, jpc, shown, loaded, now,
                 slot, wake, stop, spc>>

\* Its last line, and the end of the worker.
WakeAfterSync(w) ==
  /\ told[w]
  /\ Sync!Notify(Self, w)
  /\ told' = [told EXCEPT ![w] = FALSE]
  /\ wake' = TRUE
  /\ UNCHANGED <<stored, upc, uval, hasData, jpc, shown, loaded, history, now,
                 slot, stop, spc>>

\* Another process, such as the command-line sync, publishes data.
OtherProcessSyncs ==
  /\ ~hasData
  /\ hasData' = TRUE
  /\ UNCHANGED <<syncVars, stored, upc, uval, jpc, told, schedVars>>

-----------------------------------------------------------------------------
(* PUT /api/settings: update_settings, update_auto_sync, reconfigure       *)

\* Mutant: the interval is not validated.
AnyInterval(value) == TRUE

\* validate_auto_sync
Valid(value) == value \in Settings

\* The handler refuses while the service closes, and refuses invalid settings.
UpdateAccepted(u, value) ==
  /\ Valid(value)
  /\ alive[Self]
  /\ spc # "off"
  /\ upc[u] = "free"
  /\ ~closing[Self]
  /\ upc' = [upc EXCEPT ![u] = "write"]
  /\ uval' = [uval EXCEPT ![u] = value]
  /\ UNCHANGED <<syncVars, stored, hasData, jpc, told, schedVars>>

\* The file is replaced.
UpdateWrites(u) ==
  /\ alive[Self]
  /\ upc[u] = "write"
  /\ upc' = [upc EXCEPT ![u] = "configure"]
  /\ stored' = uval[u]
  /\ UNCHANGED <<syncVars, uval, hasData, jpc, told, schedVars>>

\* Writing it fails: an error response.
UpdateFails(u) ==
  /\ alive[Self]
  /\ upc[u] = "write"
  /\ upc' = [upc EXCEPT ![u] = "free"]
  /\ UNCHANGED <<syncVars, stored, uval, hasData, jpc, told, schedVars>>

Reconfigure(u) ==
  /\ alive[Self]
  /\ upc[u] = "configure"
  /\ upc' = [upc EXCEPT ![u] = "wake"]
  /\ shown' = uval[u]
  /\ UNCHANGED <<syncVars, stored, uval, hasData, jpc, told, loaded, history,
                 now, slot, wake, stop, spc>>

WakeAfterUpdate(u) ==
  /\ alive[Self]
  /\ upc[u] = "wake"
  /\ upc' = [upc EXCEPT ![u] = "free"]
  /\ wake' = TRUE
  /\ UNCHANGED <<syncVars, stored, uval, hasData, jpc, told, shown, loaded,
                 history, now, slot, stop, spc>>

-----------------------------------------------------------------------------
(* _run                                                                    *)

Goto(l) == spc' = l

\* The loop ends when stop() was called, and otherwise loads the settings.
LoadSettings ==
  /\ spc = "top"
  /\ \/ stop /\ Goto("ended") /\ UNCHANGED loaded
     \/ ~stop /\ Goto("loaded") /\ loaded' = stored
  /\ UNCHANGED <<syncVars, appVars, shown, history, now, slot, wake, stop>>

\* Mutant: the loop goes on after the error without the test of stop.
SettingsErrorIgnoringStop ==
  /\ spc = "top"
  /\ SettingsMayFail
  /\ Goto("asleep")
  /\ history' = [history EXCEPT !.failures = OneMoreFailure(@)]
  /\ UNCHANGED <<syncVars, appVars, shown, loaded, now, slot, wake, stop>>

\* The settings cannot be read: counted like a failed sync.
SettingsError ==
  /\ spc = "top"
  /\ ~stop
  /\ SettingsMayFail
  /\ Goto("asleep")
  /\ history' = [history EXCEPT !.failures = OneMoreFailure(@)]
  /\ UNCHANGED <<syncVars, appVars, shown, loaded, now, slot, wake, stop>>

\* Mutant: the event is cleared here and not when the wait is over.
ShowAndClear ==
  /\ spc = "loaded"
  /\ Goto("look")
  /\ shown' = loaded
  /\ wake' = FALSE
  /\ UNCHANGED <<syncVars, appVars, loaded, history, now, slot, stop>>

ShowSettings ==
  /\ spc = "loaded"
  /\ Goto("look")
  /\ shown' = loaded
  /\ UNCHANGED <<syncVars, appVars, loaded, history, now, slot, wake, stop>>

\* The coordinator's snapshot.
LookAtCoordinator ==
  /\ spc = "look"
  /\ Goto(CASE closing[Self] -> "ended"
            [] ~closing[Self] /\ (loaded = 0 \/ running[Self]) -> "asleep"
            [] OTHER -> "decide")
  /\ UNCHANGED <<syncVars, appVars, shown, loaded, history, now, slot, wake, stop>>

Decide ==
  /\ spc = "decide"
  /\ \/ Due(history) /\ Goto("start") /\ now' = 0
     \/ ~Due(history) /\ Goto("asleep") /\ UNCHANGED now
  /\ UNCHANGED <<syncVars, appVars, shown, loaded, history, slot, wake, stop>>

\* Unless a delay applies _due_at asks the database for data, and a query may
\* fail.  Nothing catches that: the loop's thread ends, and no other is started
\* before the next launch.
QueryFails ==
  /\ spc = "decide"
  /\ ~BackingOff(history)
  /\ Goto("died")
  /\ UNCHANGED <<syncVars, appVars, shown, loaded, history, now, slot, wake, stop>>

\* coordinator.start reserves.
StartSync(w) ==
  /\ spc = "start"
  /\ Sync!Reserve(Self, w)
  /\ Goto("starting")
  /\ slot' = w
  /\ UNCHANGED <<appVars, shown, loaded, history, now, wake, stop>>

\* It is refused: closing raises and ends the loop, a running sync or a file
\* lock another process holds returns False, and the lock file may be unusable.
StartRefused ==
  /\ spc = "start"
  /\ \/ closing[Self] /\ Goto("ended") /\ now' = Never
     \/ ~closing[Self] /\ Goto("asleep") /\ now' = Never
     \/ ~closing[Self] /\ ~running[Self] /\ Goto("raised") /\ UNCHANGED now
  /\ UNCHANGED <<syncVars, appVars, shown, loaded, history, slot, wake, stop>>

\* The thread is started, or cannot be.
Spawn ==
  /\ spc = "starting"
  /\ \/ Sync!SpawnOk(Self, slot) /\ Goto("started")
     \/ Sync!SpawnFails(Self, slot) /\ Goto("raised")
  /\ slot' = NoWorker
  /\ UNCHANGED <<appVars, shown, loaded, history, now, wake, stop>>

\* After start() returned True.
RecordAttempt ==
  /\ spc = "started"
  /\ Goto("asleep")
  /\ history' = [history EXCEPT !.attempt = now]
  /\ now' = Never
  /\ UNCHANGED <<syncVars, appVars, shown, loaded, slot, wake, stop>>

\* After start() raised.
RecordStartFailure ==
  /\ spc = "raised"
  /\ \/ closing[Self] /\ Goto("ended") /\ UNCHANGED history
     \/ /\ ~closing[Self]
        /\ Goto("asleep")
        /\ history' = [history EXCEPT !.attempt = now, !.failures = OneMoreFailure(@)]
  /\ now' = Never
  /\ UNCHANGED <<syncVars, appVars, shown, loaded, slot, wake, stop>>

\* _wait returns, woken or timed out.
WaitReturns ==
  /\ spc = "asleep"
  /\ Goto("woken")
  /\ UNCHANGED <<syncVars, appVars, shown, loaded, history, now, slot, wake, stop>>

ClearWake ==
  /\ spc = "woken"
  /\ Goto("top")
  /\ wake' = FALSE
  /\ UNCHANGED <<syncVars, appVars, shown, loaded, history, now, slot, stop>>

SchedulerStep ==
  /\ alive[Self]
  /\ \/ LoadSettings \/ SettingsError \/ ShowSettings \/ LookAtCoordinator
     \/ Decide \/ QueryFails
     \/ \E w \in Workers : StartSync(w)
     \/ StartRefused \/ Spawn \/ RecordAttempt \/ RecordStartFailure
     \/ WaitReturns \/ ClearWake

-----------------------------------------------------------------------------
(* begin_closing and drain of the application                              *)

\* Accepted by the coordinator; stop() follows.
BeginClosing(c, requireIdle) ==
  /\ spc # "off"
  /\ Sync!BeginClosing(Self, c, requireIdle)
  /\ jpc' = [jpc EXCEPT ![c] = "stop"]
  /\ UNCHANGED <<stored, upc, uval, hasData, told, schedVars>>

\* stop() sets both events and joins the thread without a timeout.
SignalStop(c) ==
  /\ alive[Self]
  /\ jpc[c] = "stop"
  /\ jpc' = [jpc EXCEPT ![c] = "joining"]
  /\ stop' = TRUE
  /\ wake' = TRUE
  /\ UNCHANGED <<syncVars, stored, upc, uval, hasData, told, shown, loaded, history,
                 now, slot, spc>>

\* The thread is not alive.
LoopOver == spc \in {"ended", "died"}

\* Mutant: the join times out.
JoinOrTimeOut(c) ==
  /\ alive[Self]
  /\ jpc[c] = "joining"
  /\ jpc' = [jpc EXCEPT ![c] = "joined"]
  /\ UNCHANGED <<syncVars, stored, upc, uval, hasData, told, schedVars>>

Join(c) ==
  /\ alive[Self]
  /\ jpc[c] = "joining"
  /\ LoopOver
  /\ jpc' = [jpc EXCEPT ![c] = "joined"]
  /\ UNCHANGED <<syncVars, stored, upc, uval, hasData, told, schedVars>>

\* wait_for_idle.
Drain(c) ==
  /\ jpc[c] = "joined"
  /\ Sync!DrainCheck(Self, c)
  /\ UNCHANGED <<appVars, schedVars>>

WorkerStep(w) ==
  \/ SpawnManual(w) \/ SyncEnds(w) \/ Release(w)
  \/ RecordCompletion(w) \/ WakeAfterSync(w)

UpdaterStep(u) ==
  UpdateWrites(u) \/ UpdateFails(u) \/ Reconfigure(u) \/ WakeAfterUpdate(u)

CloserStep(c) == SignalStop(c) \/ Join(c) \/ Drain(c)

Next ==
  \/ Tick
  \/ Launch
  \/ OtherProcessSyncs
  \/ SchedulerStep
  \/ \E w \in Workers : ManualSync(w) \/ WorkerStep(w)
  \/ \E u \in Updaters :
       UpdaterStep(u) \/ \E value \in 0..Horizon + 1 : UpdateAccepted(u, value)
  \/ \E c \in Closers :
       CloserStep(c) \/ Exit(c)
         \/ \E requireIdle \in BOOLEAN : BeginClosing(c, requireIdle)

Spec == Init /\ [][Next]_vars

\* Time passes, and the threads of the process that can run do run; a sync
\* returns.  Nobody has to close, to change settings or to sync by hand.
Fairness ==
  /\ WF_vars(Tick)
  /\ WF_vars(SchedulerStep)
  /\ \A w \in Workers : WF_vars(WorkerStep(w))
  /\ \A u \in Updaters : WF_vars(UpdaterStep(u))
  /\ \A c \in Closers : WF_vars(CloserStep(c))

FairSpec == Spec /\ Fairness

-----------------------------------------------------------------------------
(* Properties                                                              *)

\* No lost wakeup: while the loop sleeps, not yet woken, on settings it could
\* read, and no request is between the file and the wakeup, the loop and the
\* status page have the settings of the file, however requests race.
SleepsWithCurrentSettings ==
  spc = "asleep" /\ ~wake /\ (\A u \in Updaters : upc[u] \in {"free", "write"}) =>
    shown = stored /\ loaded = stored

\* stop() has returned: no automatic sync can begin any more, although the
\* loop may have decided to start one before (README: "Closing the window stops
\* both the local service and its in-app scheduler").
StoppedForGood ==
  \A c \in Closers :
    alive[Self] /\ jpc[c] = "joined" => LoopOver /\ closing[Self]

\* stop() joins the thread without a timeout, and the join ends: the loop is
\* never stuck in a call the closing threads block, even when settings cannot
\* be read.
StopEnds ==
  \A c \in Closers : jpc[c] = "stop" ~> jpc[c] = "joined" \/ ~alive[Self]

\* Every closing thread of the server gets through: neither the join nor the
\* wait for the running sync is missed by a notification.
DrainEnds == Sync!DrainEnds

\* While the check is enabled, the settings can be read again and no query of
\* the database has ended the thread, it is made again and again, or somebody
\* else syncs: no history, wakeup or earlier failure makes the loop sleep for
\* ever.
ChecksContinue ==
  <>[](alive[Self] /\ ~closing[Self] /\ stored # 0 /\ spc # "died")
      /\ <>[][~SettingsError]_vars =>
    []<>(spc = "start" \/ running[Self])

\* When the last sync succeeded, the next check is not started before the
\* configured interval (README: "it can check the FCA sources automatically
\* every 6, 12, or 24 hours").
IntervalRespected ==
  [][spc = "decide" /\ spc' = "start" /\ history.success # Never
       /\ history.attempt = history.success /\ ~lastError[Self]
     => history.success >= loaded]_vars
=============================================================================
