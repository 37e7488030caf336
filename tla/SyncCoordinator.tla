-------------------------- MODULE SyncCoordinator --------------------------
(***************************************************************************)
(* SyncCoordinator (server.py) with ProcessFileLock (process_lock.py), in  *)
(* several operating-system processes that share one data directory: local *)
(* servers and the command-line sync.                                      *)
(*                                                                         *)
(* Every critical section of the coordinator's state lock is one action.   *)
(* A worker slot w of process p stands for one call of start() or run():   *)
(* the caller up to the reservation and the spawn, the sync thread after   *)
(* it.  Several slots are busy at once only because a worker still calls   *)
(* its completion listeners after it has given the reservation back.       *)
(* A closer c is a thread that runs begin_closing() and then drain(): the  *)
(* shutdown-file watcher and the main thread leaving serve().              *)
(***************************************************************************)
CONSTANTS
  Procs,            \* processes sharing the data directory
  Workers,          \* concurrent start()/run() calls of one process
  Closers,          \* threads of one process that close the service
  NoProc,           \* "nobody holds the file lock"
  ReleaseMayRaise   \* whether unlocking the file may raise OSError

ASSUME CoordinatorAssumption ==
  /\ NoProc \notin Procs
  /\ ReleaseMayRaise \in BOOLEAN

VARIABLES
  alive,       \* the process runs
  osLock,      \* holder of the operating-system lock on fca-sync.lock
  held,        \* ProcessFileLock._handle is not None
  running,     \* SyncCoordinator._running
  closing,     \* SyncCoordinator._closing
  completed,   \* SyncCoordinator._completed_at is not None
  lastError,   \* SyncCoordinator._last_error is not None
  lastResult,  \* SyncCoordinator._last_result is not None
  pc,          \* where each worker slot is
  outcome,     \* what service.sync did for the slot's current call
  event,       \* last_error of the snapshot its listeners are called with
  cpc          \* where each closer is

procVars == <<alive, osLock, held>>
coordVars == <<running, closing, completed, lastError, lastResult>>
vars == <<alive, osLock, held, running, closing, completed, lastError,
          lastResult, pc, outcome, event, cpc>>

Locations == {"free", "reserved", "syncing", "finishing", "notifying"}
CloserLocations == {"open", "check", "asleep", "drained"}
Verdicts == {"none", "ok", "error"}

\* The slot holds the reservation: from _reserve to the end of the finally.
Active(p, w) == pc[p][w] \in {"reserved", "syncing", "finishing"}

TypeOK ==
  /\ alive \in [Procs -> BOOLEAN]
  /\ osLock \in Procs \union {NoProc}
  /\ held \in [Procs -> BOOLEAN]
  /\ running \in [Procs -> BOOLEAN]
  /\ closing \in [Procs -> BOOLEAN]
  /\ completed \in [Procs -> BOOLEAN]
  /\ lastError \in [Procs -> BOOLEAN]
  /\ lastResult \in [Procs -> BOOLEAN]
  /\ pc \in [Procs -> [Workers -> Locations]]
  /\ outcome \in [Procs -> [Workers -> Verdicts]]
  /\ event \in [Procs -> [Workers -> Verdicts]]
  /\ cpc \in [Procs -> [Closers -> CloserLocations]]

-----------------------------------------------------------------------------
(* A process that is not started has the memory __init__ would give it.    *)

AllFalse == [p \in Procs |-> FALSE]

Init ==
  /\ alive = AllFalse
  /\ osLock = NoProc
  /\ held = AllFalse
  /\ running = AllFalse
  /\ closing = AllFalse
  /\ completed = AllFalse
  /\ lastError = AllFalse
  /\ lastResult = AllFalse
  /\ pc = [p \in Procs |-> [w \in Workers |-> "free"]]
  /\ outcome = [p \in Procs |-> [w \in Workers |-> "none"]]
  /\ event = [p \in Procs |-> [w \in Workers |-> "none"]]
  /\ cpc = [p \in Procs |-> [c \in Closers |-> "open"]]

Boot(p) ==
  /\ ~alive[p]
  /\ alive' = [alive EXCEPT ![p] = TRUE]
  /\ UNCHANGED <<osLock, held, coordVars, pc, outcome, event, cpc>>

\* Mutant: notify instead of notify_all.
WakeOne(p) ==
  LET asleep == {c \in Closers : cpc[p][c] = "asleep"} IN
  cpc' = IF asleep = {} THEN cpc
         ELSE [cpc EXCEPT ![p][CHOOSE c \in asleep : TRUE] = "check"]

\* Idle condition: notify_all sends every sleeping closer back to its check.
WakeAll(p) ==
  cpc' = [cpc EXCEPT ![p] =
            [c \in Closers |-> IF @[c] = "asleep" THEN "check" ELSE @[c]]]

\* Mutant: the handle is closed but not forgotten.
ReleaseKeepsHandle(p) ==
  /\ UNCHANGED held
  /\ osLock' = IF osLock = p THEN NoProc ELSE osLock

\* ProcessFileLock.release: closing the handle gives the lock back even when
\* the explicit unlock raises.
ReleaseFileLock(p) ==
  /\ held' = [held EXCEPT ![p] = FALSE]
  /\ osLock' = IF osLock = p THEN NoProc ELSE osLock

-----------------------------------------------------------------------------
(* start() and run()                                                       *)

\* Mutants: a test of _reserve is missing.
MayReserveWhileClosing(p) == ~running[p] /\ ~held[p] /\ osLock = NoProc
MayReserveWithoutFileLock(p) == ~closing[p] /\ ~running[p] /\ ~held[p]

\* The tests of _reserve, in one critical section; the last two are those of
\* ProcessFileLock.try_acquire.
MayReserve(p) == ~closing[p] /\ ~running[p] /\ ~held[p] /\ osLock = NoProc

\* Mutant: the error of the last sync is not cleared.
KeepLastOutcome(p) ==
  /\ completed' = [completed EXCEPT ![p] = FALSE]
  /\ UNCHANGED lastError

\* A new sync has no outcome yet.
ClearOutcome(p) ==
  /\ completed' = [completed EXCEPT ![p] = FALSE]
  /\ lastError' = [lastError EXCEPT ![p] = FALSE]

\* _reserve succeeds.  A refusal (closing, running, lock busy, or an error
\* opening the lock file) changes nothing.
Reserve(p, w) ==
  /\ alive[p]
  /\ pc[p][w] = "free"
  /\ MayReserve(p)
  /\ osLock' = p
  /\ held' = [held EXCEPT ![p] = TRUE]
  /\ running' = [running EXCEPT ![p] = TRUE]
  /\ ClearOutcome(p)
  /\ pc' = [pc EXCEPT ![p][w] = "reserved"]
  /\ UNCHANGED <<alive, closing, lastResult, outcome, event, cpc>>

\* thread.start() succeeds (or run() goes on in the caller's own thread).
SpawnOk(p, w) ==
  /\ pc[p][w] = "reserved"
  /\ pc' = [pc EXCEPT ![p][w] = "syncing"]
  /\ UNCHANGED <<procVars, coordVars, outcome, event, cpc>>

\* thread.start() raises: the reservation is undone and no listener is told.
SpawnFails(p, w) ==
  /\ pc[p][w] = "reserved"
  /\ pc' = [pc EXCEPT ![p][w] = "free"]
  /\ running' = [running EXCEPT ![p] = FALSE]
  /\ completed' = [completed EXCEPT ![p] = TRUE]
  /\ lastError' = [lastError EXCEPT ![p] = TRUE]
  /\ ReleaseFileLock(p)
  /\ \/ WakeAll(p)
     \/ ReleaseMayRaise /\ UNCHANGED cpc
  /\ UNCHANGED <<alive, closing, lastResult, outcome, event>>

\* service.sync returns or raises; the result or the error is recorded in a
\* critical section of its own, before the reservation is given back.
SyncReturns(p, w) ==
  /\ pc[p][w] = "syncing"
  /\ pc' = [pc EXCEPT ![p][w] = "finishing"]
  /\ \/ /\ outcome' = [outcome EXCEPT ![p][w] = "ok"]
        /\ lastResult' = [lastResult EXCEPT ![p] = TRUE]
        /\ UNCHANGED lastError
     \/ /\ outcome' = [outcome EXCEPT ![p][w] = "error"]
        /\ lastError' = [lastError EXCEPT ![p] = TRUE]
        /\ UNCHANGED lastResult
  /\ UNCHANGED <<procVars, running, closing, completed, event, cpc>>

\* Mutant: the listeners are handed the words of sync_runs.status.
StatusOutcome(p) == IF lastError[p] THEN "failed" ELSE "success"

\* What _snapshot_unlocked tells the listeners about the outcome.
SnapshotOutcome(p) == IF lastError[p] THEN "error" ELSE "ok"

\* The locked part of the finally block.  When unlocking raises, the snapshot,
\* the notification and the listeners are all skipped.
Finish(p, w) ==
  /\ pc[p][w] = "finishing"
  /\ running' = [running EXCEPT ![p] = FALSE]
  /\ completed' = [completed EXCEPT ![p] = TRUE]
  /\ ReleaseFileLock(p)
  /\ \/ /\ pc' = [pc EXCEPT ![p][w] = "notifying"]
        /\ event' = [event EXCEPT ![p][w] = SnapshotOutcome(p)]
        /\ WakeAll(p)
     \/ /\ ReleaseMayRaise
        /\ pc' = [pc EXCEPT ![p][w] = "free"]
        /\ UNCHANGED <<event, cpc>>
  /\ UNCHANGED <<alive, closing, lastError, lastResult, outcome>>

\* The listeners have been called, outside the lock; what they raise is lost.
Notify(p, w) ==
  /\ pc[p][w] = "notifying"
  /\ pc' = [pc EXCEPT ![p][w] = "free"]
  /\ outcome' = [outcome EXCEPT ![p][w] = "none"]
  /\ event' = [event EXCEPT ![p][w] = "none"]
  /\ UNCHANGED <<procVars, coordVars, cpc>>

-----------------------------------------------------------------------------
(* begin_closing() and wait_for_idle()                                     *)

\* Accepted: the first time it closes and notifies, later it only agrees.
\* A refusal (require_idle while a sync runs) changes nothing.
BeginClosing(p, c, requireIdle) ==
  /\ alive[p]
  /\ cpc[p][c] = "open"
  /\ requireIdle => closing[p] \/ ~running[p]
  /\ closing' = [closing EXCEPT ![p] = TRUE]
  /\ cpc' = [cpc EXCEPT ![p] =
               [d \in Closers |->
                  IF d = c \/ (~closing[p] /\ @[d] = "asleep") THEN "check" ELSE @[d]]]
  /\ UNCHANGED <<procVars, running, completed, lastError, lastResult,
                 pc, outcome, event>>

\* wait_for_idle tests the predicate under the lock and sleeps if it is false.
DrainCheck(p, c) ==
  /\ cpc[p][c] = "check"
  /\ cpc' = [cpc EXCEPT ![p][c] = IF running[p] THEN "asleep" ELSE "drained"]
  /\ UNCHANGED <<procVars, coordVars, pc, outcome, event>>

-----------------------------------------------------------------------------
(* The end of a process: its memory is gone, and the operating system gives *)
(* its lock back.                                                           *)

Vanish(p) ==
  /\ alive' = [alive EXCEPT ![p] = FALSE]
  /\ ReleaseFileLock(p)
  /\ running' = [running EXCEPT ![p] = FALSE]
  /\ closing' = [closing EXCEPT ![p] = FALSE]
  /\ completed' = [completed EXCEPT ![p] = FALSE]
  /\ lastError' = [lastError EXCEPT ![p] = FALSE]
  /\ lastResult' = [lastResult EXCEPT ![p] = FALSE]
  /\ pc' = [pc EXCEPT ![p] = [w \in Workers |-> "free"]]
  /\ outcome' = [outcome EXCEPT ![p] = [w \in Workers |-> "none"]]
  /\ event' = [event EXCEPT ![p] = [w \in Workers |-> "none"]]
  /\ cpc' = [cpc EXCEPT ![p] = [c \in Closers |-> "open"]]

Crash(p) == alive[p] /\ Vanish(p)

\* serve() returns once the main thread has drained; daemon threads die.
Exit(p, c) == alive[p] /\ cpc[p][c] = "drained" /\ Vanish(p)

-----------------------------------------------------------------------------

WorkerStep(p, w) ==
  \/ SpawnOk(p, w) \/ SpawnFails(p, w)
  \/ SyncReturns(p, w)
  \/ Finish(p, w)
  \/ Notify(p, w)

CloserStep(p, c) ==
  \/ \E requireIdle \in BOOLEAN : BeginClosing(p, c, requireIdle)
  \/ DrainCheck(p, c)
  \/ Exit(p, c)

Next ==
  \E p \in Procs :
    \/ Boot(p)
    \/ Crash(p)
    \/ \E w \in Workers : Reserve(p, w) \/ WorkerStep(p, w)
    \/ \E c \in Closers : CloserStep(p, c)

Spec == Init /\ [][Next]_vars

-----------------------------------------------------------------------------
(* Properties                                                              *)

\* Two syncs never run at the same time, in one process or in two: the archive
\* and the database have a single writer (process_lock.py: "a CLI sync and
\* multiple local server instances cannot update the same FCA archive/database
\* concurrently").
MutualExclusion ==
  \A p, q \in Procs : \A w, v \in Workers :
    Active(p, w) /\ Active(q, v) => p = q /\ w = v

\* The reservation flag, the lock object and the operating system agree on who
\* holds the reservation, so no path out of a sync (thread.start() raising, the
\* sync raising, unlocking raising, the process dying) strands it.
ReservationNotStranded ==
  /\ \A p \in Procs : /\ held[p] <=> running[p]
                      /\ osLock = p <=> held[p]
                      /\ running[p] => \E w \in Workers : Active(p, w)

\* A closer that has drained leaves a process where no sync runs or will run:
\* serve() may return, and daemon threads may die, without killing a writer.
DrainedMeansQuiet ==
  \A p \in Procs, c \in Closers :
    cpc[p][c] = "drained" =>
      /\ closing[p]
      /\ \A w \in Workers : ~Active(p, w)

\* The snapshot a listener is called with tells the outcome of the sync that
\* calls it, not of an earlier or a concurrent one.
CompletionReportsOwnOutcome ==
  \A p \in Procs, w \in Workers :
    pc[p][w] = "notifying" => event[p][w] = outcome[p][w]

\* A closer that waits for the sync to end stops waiting: no notification is
\* lost between the test of the predicate and the sleep.  (What has to be fair
\* is said where this module is composed with the threads of a server.)
DrainEnds ==
  \A p \in Procs, c \in Closers :
    cpc[p][c] \in {"check", "asleep"} ~> cpc[p][c] \notin {"check", "asleep"}

\* The coordinator implements the abstract promise.
Abstract == INSTANCE ExclusiveSync WITH
  writers <- {x \in Procs \X Workers : Active(x[1], x[2])},
  open <- {p \in Procs : alive[p] /\ ~closing[p]}

ImplementsExclusiveSync == Abstract!Spec
=============================================================================
