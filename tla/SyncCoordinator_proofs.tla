----------------------- MODULE SyncCoordinator_proofs ----------------------
(***************************************************************************)
(* Theorems about SyncCoordinator for any sets of processes, workers and   *)
(* closers.  IInv strengthens the checked invariants to an inductive one.  *)
(***************************************************************************)
EXTENDS SyncCoordinator, TLAPS

\* The three records of the reservation agree, and exactly one slot of the
\* process has it.
Reservation ==
  /\ \A p \in Procs : held[p] <=> running[p]
  /\ \A p \in Procs : osLock = p <=> running[p]
  /\ \A p \in Procs : running[p] => \E w \in Workers : Active(p, w)
  /\ \A p \in Procs, w \in Workers : Active(p, w) => running[p]
  /\ \A p \in Procs, v, w \in Workers : Active(p, v) /\ Active(p, w) => v = w

\* A process that is not started holds nothing.
Unstarted == \A p \in Procs : ~alive[p] => ~running[p] /\ ~closing[p]

\* A closer past begin_closing() is in a closing process, and a drained one in
\* a process without a reservation.
Drained ==
  \A p \in Procs, c \in Closers :
    /\ cpc[p][c] # "open" => closing[p]
    /\ cpc[p][c] = "drained" => ~running[p]

\* _last_error belongs to the current reservation until the snapshot is taken.
OwnError ==
  \A p \in Procs, w \in Workers :
    /\ pc[p][w] \in {"reserved", "syncing"} => ~lastError[p]
    /\ pc[p][w] = "finishing" => outcome[p][w] = IF lastError[p] THEN "error" ELSE "ok"
    /\ pc[p][w] = "notifying" => event[p][w] = outcome[p][w]

IInv == TypeOK /\ Reservation /\ Unstarted /\ Drained /\ OwnError

-----------------------------------------------------------------------------

\* The state Init gives satisfies the inductive invariant.
LEMMA InitIInv == Init => IInv
<1> SUFFICES ASSUME Init PROVE IInv
  OBVIOUS
<1> USE CoordinatorAssumption DEF Init, AllFalse
<1>1. TypeOK
  BY DEF TypeOK, Locations, CloserLocations, Verdicts
<1>2. Reservation
  BY DEF Reservation, Active
<1>3. Unstarted /\ Drained /\ OwnError
  BY DEF Unstarted, Drained, OwnError
<1> QED
  BY <1>1, <1>2, <1>3 DEF IInv

\* Waking the closers keeps their type and creates no drained one.
LEMMA WakeAllFacts ==
  ASSUME NEW p \in Procs, TypeOK, WakeAll(p)
  PROVE  /\ cpc' \in [Procs -> [Closers -> CloserLocations]]
         /\ \A q \in Procs, c \in Closers :
              /\ cpc'[q][c] = "drained" <=> cpc[q][c] = "drained"
              /\ cpc'[q][c] = "open" <=> cpc[q][c] = "open"
<1> DEFINE woken == [c \in Closers |-> IF cpc[p][c] = "asleep" THEN "check" ELSE cpc[p][c]]
<1>1. woken \in [Closers -> CloserLocations]
  BY DEF TypeOK, CloserLocations
<1>2. cpc' = [cpc EXCEPT ![p] = woken]
  BY DEF WakeAll
<1>3. cpc' \in [Procs -> [Closers -> CloserLocations]]
  <2> HIDE DEF woken
  <2> QED
    BY <1>1, <1>2 DEF TypeOK
<1>4. cpc'[p] = woken
  <2> HIDE DEF woken
  <2> QED
    BY <1>2 DEF TypeOK
<1>5. ASSUME NEW q \in Procs, NEW c \in Closers
      PROVE  /\ cpc'[q][c] = "drained" <=> cpc[q][c] = "drained"
             /\ cpc'[q][c] = "open" <=> cpc[q][c] = "open"
  <2>1. CASE q = p
    <3>1. cpc'[q][c] = IF cpc[q][c] = "asleep" THEN "check" ELSE cpc[q][c]
      BY <2>1, <1>4
    <3> QED
      BY <3>1
  <2>2. CASE q # p
    <3>1. cpc'[q] = cpc[q]
      BY <2>2, <1>2 DEF TypeOK
    <3> QED
      BY <3>1
  <2> QED
    BY <2>1, <2>2
<1> QED
  BY <1>3, <1>5

\* Every action keeps the types.
LEMMA TypeStep == TypeOK /\ [Next]_vars => TypeOK'
<1> SUFFICES ASSUME TypeOK, [Next]_vars PROVE TypeOK'
  OBVIOUS
<1> USE DEF TypeOK, Locations, CloserLocations, Verdicts, procVars, coordVars
<1>1. ASSUME NEW p \in Procs, Boot(p) PROVE TypeOK'
  BY <1>1 DEF Boot
<1>2. ASSUME NEW p \in Procs, Vanish(p) PROVE TypeOK'
  BY <1>2 DEF Vanish, ReleaseFileLock
<1>3. ASSUME NEW p \in Procs, NEW w \in Workers, Reserve(p, w) PROVE TypeOK'
  BY <1>3 DEF Reserve, MayReserve, ClearOutcome
<1>4. ASSUME NEW p \in Procs, NEW w \in Workers, SpawnOk(p, w) PROVE TypeOK'
  BY <1>4 DEF SpawnOk
<1>5. ASSUME NEW p \in Procs, NEW w \in Workers, SpawnFails(p, w) PROVE TypeOK'
  <2>1. cpc' \in [Procs -> [Closers -> CloserLocations]]
    BY <1>5, WakeAllFacts DEF SpawnFails
  <2> QED
    BY <1>5, <2>1 DEF SpawnFails, ReleaseFileLock
<1>6. ASSUME NEW p \in Procs, NEW w \in Workers, SyncReturns(p, w) PROVE TypeOK'
  <2>1. pc' \in [Procs -> [Workers -> Locations]]
    BY <1>6 DEF SyncReturns
  <2>2. outcome' \in [Procs -> [Workers -> Verdicts]]
    <3>1. PICK v \in {"ok", "error"} : outcome' = [outcome EXCEPT ![p][w] = v]
      BY <1>6 DEF SyncReturns
    <3> QED
      BY <3>1
  <2>3. /\ lastResult' \in [Procs -> BOOLEAN]
        /\ lastError' \in [Procs -> BOOLEAN]
    BY <1>6 DEF SyncReturns
  <2> QED
    BY <1>6, <2>1, <2>2, <2>3 DEF SyncReturns
<1>7. ASSUME NEW p \in Procs, NEW w \in Workers, Finish(p, w) PROVE TypeOK'
  <2>1. cpc' \in [Procs -> [Closers -> CloserLocations]]
    BY <1>7, WakeAllFacts DEF Finish, SnapshotOutcome
  <2>2. pc' \in [Procs -> [Workers -> Locations]]
    <3>1. PICK l \in {"notifying", "free"} : pc' = [pc EXCEPT ![p][w] = l]
      BY <1>7 DEF Finish, SnapshotOutcome
    <3> QED
      BY <3>1
  <2>3. event' \in [Procs -> [Workers -> Verdicts]]
    <3>1. CASE UNCHANGED event
      BY <3>1
    <3>2. CASE event' = [event EXCEPT ![p][w] = IF lastError[p] THEN "error" ELSE "ok"]
      BY <3>2
    <3> QED
      BY <1>7, <3>1, <3>2 DEF Finish, SnapshotOutcome
  <2> QED
    BY <1>7, <2>1, <2>2, <2>3 DEF Finish, SnapshotOutcome, ReleaseFileLock
<1>8. ASSUME NEW p \in Procs, NEW w \in Workers, Notify(p, w) PROVE TypeOK'
  BY <1>8 DEF Notify
<1>9. ASSUME NEW p \in Procs, NEW c \in Closers, NEW r \in BOOLEAN, BeginClosing(p, c, r)
      PROVE TypeOK'
  BY <1>9 DEF BeginClosing
<1>10. ASSUME NEW p \in Procs, NEW c \in Closers, DrainCheck(p, c) PROVE TypeOK'
  BY <1>10 DEF DrainCheck
<1>11. CASE UNCHANGED vars
  BY <1>11 DEF vars
<1> QED
  BY <1>1, <1>2, <1>3, <1>4, <1>5, <1>6, <1>7, <1>8, <1>9, <1>10, <1>11
     DEF Next, WorkerStep, CloserStep, Crash, Exit

-----------------------------------------------------------------------------

\* Every action keeps the reservation exclusive and its records in agreement.
LEMMA ReservationStep ==
  TypeOK /\ Reservation /\ Unstarted /\ [Next]_vars => Reservation'
<1> SUFFICES ASSUME TypeOK, Reservation, Unstarted, [Next]_vars PROVE Reservation'
  OBVIOUS
<1> USE CoordinatorAssumption DEF TypeOK, Reservation, Active, procVars, coordVars
<1>1. ASSUME NEW p \in Procs, Boot(p) PROVE Reservation'
  BY <1>1 DEF Boot
<1>2. ASSUME NEW p \in Procs, Vanish(p) PROVE Reservation'
  BY <1>2 DEF Vanish, ReleaseFileLock
<1>3. ASSUME NEW p \in Procs, NEW w \in Workers, Reserve(p, w) PROVE Reservation'
  BY <1>3 DEF Reserve, MayReserve, ClearOutcome
<1>4. ASSUME NEW p \in Procs, NEW w \in Workers, SpawnOk(p, w) PROVE Reservation'
  BY <1>4 DEF SpawnOk
<1>5. ASSUME NEW p \in Procs, NEW w \in Workers, SpawnFails(p, w) PROVE Reservation'
  BY <1>5 DEF SpawnFails, ReleaseFileLock
<1>6. ASSUME NEW p \in Procs, NEW w \in Workers, SyncReturns(p, w) PROVE Reservation'
  BY <1>6 DEF SyncReturns
<1>7. ASSUME NEW p \in Procs, NEW w \in Workers, Finish(p, w) PROVE Reservation'
  <2>1. PICK l \in {"notifying", "free"} : pc' = [pc EXCEPT ![p][w] = l]
    BY <1>7 DEF Finish, SnapshotOutcome
  <2>2. ReleaseFileLock(p) /\ running' = [running EXCEPT ![p] = FALSE]
    BY <1>7 DEF Finish, SnapshotOutcome
  <2>3. pc[p][w] = "finishing"
    BY <1>7 DEF Finish, SnapshotOutcome
  <2> QED
    BY <2>1, <2>2, <2>3 DEF ReleaseFileLock
<1>8. ASSUME NEW p \in Procs, NEW w \in Workers, Notify(p, w) PROVE Reservation'
  BY <1>8 DEF Notify
<1>9. ASSUME NEW p \in Procs, NEW c \in Closers, NEW r \in BOOLEAN, BeginClosing(p, c, r)
      PROVE Reservation'
  BY <1>9 DEF BeginClosing
<1>10. ASSUME NEW p \in Procs, NEW c \in Closers, DrainCheck(p, c) PROVE Reservation'
  BY <1>10 DEF DrainCheck
<1>11. CASE UNCHANGED vars
  BY <1>11 DEF vars
<1> QED
  BY <1>1, <1>2, <1>3, <1>4, <1>5, <1>6, <1>7, <1>8, <1>9, <1>10, <1>11
     DEF Next, WorkerStep, CloserStep, Crash, Exit

-----------------------------------------------------------------------------

\* Every action keeps an unstarted process free of reservation and closing.
LEMMA UnstartedStep ==
  TypeOK /\ Reservation /\ Unstarted /\ [Next]_vars => Unstarted'
<1> SUFFICES ASSUME TypeOK, Reservation, Unstarted, [Next]_vars PROVE Unstarted'
  OBVIOUS
<1> USE DEF TypeOK, Unstarted, procVars, coordVars
<1>1. ASSUME NEW p \in Procs, Boot(p) PROVE Unstarted'
  BY <1>1 DEF Boot
<1>2. ASSUME NEW p \in Procs, Vanish(p) PROVE Unstarted'
  BY <1>2 DEF Vanish
<1>3. ASSUME NEW p \in Procs, NEW w \in Workers, Reserve(p, w) PROVE Unstarted'
  BY <1>3 DEF Reserve, MayReserve, ClearOutcome
<1>4. ASSUME NEW p \in Procs, NEW w \in Workers, WorkerStep(p, w) PROVE Unstarted'
  BY <1>4 DEF WorkerStep, SpawnOk, SpawnFails, SyncReturns, Finish, SnapshotOutcome, Notify
<1>5. ASSUME NEW p \in Procs, NEW c \in Closers, NEW r \in BOOLEAN, BeginClosing(p, c, r)
      PROVE Unstarted'
  BY <1>5 DEF BeginClosing
<1>6. ASSUME NEW p \in Procs, NEW c \in Closers, DrainCheck(p, c) PROVE Unstarted'
  BY <1>6 DEF DrainCheck
<1>7. CASE UNCHANGED vars
  BY <1>7 DEF vars
<1> QED
  BY <1>1, <1>2, <1>3, <1>4, <1>5, <1>6, <1>7 DEF Next, CloserStep, Crash, Exit

\* Every action keeps a drained process quiet: closing rules out Reserve, the
\* only action that sets the reservation.
LEMMA DrainedStep ==
  TypeOK /\ Drained /\ [Next]_vars => Drained'
<1> SUFFICES ASSUME TypeOK, Drained, [Next]_vars PROVE Drained'
  OBVIOUS
<1> USE DEF TypeOK, Drained, procVars, coordVars
<1>1. ASSUME NEW p \in Procs, Boot(p) PROVE Drained'
  BY <1>1 DEF Boot
<1>2. ASSUME NEW p \in Procs, Vanish(p) PROVE Drained'
  BY <1>2 DEF Vanish
<1>3. ASSUME NEW p \in Procs, NEW w \in Workers, Reserve(p, w) PROVE Drained'
  BY <1>3 DEF Reserve, MayReserve, ClearOutcome
<1>4. ASSUME NEW p \in Procs, NEW w \in Workers, WorkerStep(p, w) PROVE Drained'
  <2>1. \A q \in Procs, c \in Closers :
          /\ cpc'[q][c] = "drained" <=> cpc[q][c] = "drained"
          /\ cpc'[q][c] = "open" <=> cpc[q][c] = "open"
    BY <1>4, WakeAllFacts
       DEF WorkerStep, SpawnOk, SpawnFails, SyncReturns, Finish, SnapshotOutcome, Notify
  <2>2. closing' = closing /\ \A q \in Procs : ~running[q] => ~running'[q]
    BY <1>4 DEF WorkerStep, SpawnOk, SpawnFails, SyncReturns, Finish, SnapshotOutcome, Notify
  <2> QED
    BY <2>1, <2>2
<1>5. ASSUME NEW p \in Procs, NEW c \in Closers, NEW r \in BOOLEAN, BeginClosing(p, c, r)
      PROVE Drained'
  BY <1>5 DEF BeginClosing
<1>6. ASSUME NEW p \in Procs, NEW c \in Closers, DrainCheck(p, c) PROVE Drained'
  <2>1. closing' = closing /\ running' = running
    BY <1>6 DEF DrainCheck
  <2>2. CASE running[p]
    <3>1. cpc[p][c] = "check" /\ cpc' = [cpc EXCEPT ![p][c] = "asleep"]
      BY <1>6, <2>2 DEF DrainCheck
    <3> QED
      BY <2>1, <3>1
  <2>3. CASE ~running[p]
    <3>1. cpc[p][c] = "check" /\ cpc' = [cpc EXCEPT ![p][c] = "drained"]
      BY <1>6, <2>3 DEF DrainCheck
    <3>2. closing[p]
      BY <3>1
    <3> QED
      BY <2>1, <2>3, <3>1, <3>2
  <2> QED
    BY <2>2, <2>3
<1>7. CASE UNCHANGED vars
  BY <1>7 DEF vars
<1> QED
  BY <1>1, <1>2, <1>3, <1>4, <1>5, <1>6, <1>7 DEF Next, CloserStep, Crash, Exit

\* Every action keeps _last_error the error of the current reservation.
LEMMA OwnErrorStep ==
  TypeOK /\ Reservation /\ OwnError /\ [Next]_vars => OwnError'
<1> SUFFICES ASSUME TypeOK, Reservation, OwnError, [Next]_vars PROVE OwnError'
  OBVIOUS
<1> USE DEF TypeOK, OwnError, procVars, coordVars
<1>1. ASSUME NEW p \in Procs, Boot(p) PROVE OwnError'
  BY <1>1 DEF Boot
<1>2. ASSUME NEW p \in Procs, Vanish(p) PROVE OwnError'
  BY <1>2 DEF Vanish
<1>3. ASSUME NEW p \in Procs, NEW w \in Workers, Reserve(p, w) PROVE OwnError'
  BY <1>3 DEF Reserve, MayReserve, ClearOutcome, Reservation, Active
<1>4. ASSUME NEW p \in Procs, NEW w \in Workers, SpawnOk(p, w) PROVE OwnError'
  BY <1>4 DEF SpawnOk
<1>5. ASSUME NEW p \in Procs, NEW w \in Workers, SpawnFails(p, w) PROVE OwnError'
  BY <1>5 DEF SpawnFails, Reservation, Active
<1>6. ASSUME NEW p \in Procs, NEW w \in Workers, SyncReturns(p, w) PROVE OwnError'
  BY <1>6 DEF SyncReturns, Reservation, Active
<1>7. ASSUME NEW p \in Procs, NEW w \in Workers, Finish(p, w) PROVE OwnError'
  <2>1. /\ pc[p][w] = "finishing"
        /\ lastError' = lastError
        /\ outcome' = outcome
    BY <1>7 DEF Finish, SnapshotOutcome
  <2>2. CASE /\ pc' = [pc EXCEPT ![p][w] = "notifying"]
             /\ event' = [event EXCEPT ![p][w] = IF lastError[p] THEN "error" ELSE "ok"]
    BY <2>1, <2>2
  <2>3. CASE /\ pc' = [pc EXCEPT ![p][w] = "free"]
             /\ event' = event
    BY <2>1, <2>3
  <2> QED
    BY <1>7, <2>2, <2>3 DEF Finish, SnapshotOutcome
<1>8. ASSUME NEW p \in Procs, NEW w \in Workers, Notify(p, w) PROVE OwnError'
  BY <1>8 DEF Notify
<1>9. ASSUME NEW p \in Procs, NEW c \in Closers, NEW r \in BOOLEAN, BeginClosing(p, c, r)
      PROVE OwnError'
  BY <1>9 DEF BeginClosing
<1>10. ASSUME NEW p \in Procs, NEW c \in Closers, DrainCheck(p, c) PROVE OwnError'
  BY <1>10 DEF DrainCheck
<1>11. CASE UNCHANGED vars
  BY <1>11 DEF vars
<1> QED
  BY <1>1, <1>2, <1>3, <1>4, <1>5, <1>6, <1>7, <1>8, <1>9, <1>10, <1>11
     DEF Next, WorkerStep, CloserStep, Crash, Exit

-----------------------------------------------------------------------------
(* The theorems                                                            *)

\* The inductive invariant is kept by every step of the coordinator.
LEMMA StepIInv == IInv /\ [Next]_vars => IInv'
BY TypeStep, ReservationStep, UnstartedStep, DrainedStep, OwnErrorStep DEF IInv

\* It holds in every reachable state.
LEMMA Invariance == Spec => []IInv
BY InitIInv, StepIInv, PTL DEF Spec

\* Every variable keeps its type: the type invariant of the coordinator.
THEOREM TypeCorrect == Spec => []TypeOK
<1>1. IInv => TypeOK
  BY DEF IInv
<1> QED
  BY <1>1, Invariance, PTL

\* For any number of processes and concurrent calls, two syncs never run at
\* the same time: a slot with the reservation is in the process that holds the
\* file lock, and that process has one such slot.
THEOREM OneWriter == Spec => []MutualExclusion
<1>1. IInv => MutualExclusion
  BY DEF IInv, Reservation, MutualExclusion
<1> QED
  BY <1>1, Invariance, PTL

\* No path out of a sync strands the reservation flag or the file lock.
THEOREM NothingStranded == Spec => []ReservationNotStranded
<1>1. IInv => ReservationNotStranded
  BY DEF IInv, Reservation, ReservationNotStranded
<1> QED
  BY <1>1, Invariance, PTL

\* When a closer has drained, no sync runs or can run in its process.
THEOREM DrainIsSafe == Spec => []DrainedMeansQuiet
<1>1. IInv => DrainedMeansQuiet
  BY DEF IInv, Reservation, Drained, DrainedMeansQuiet
<1> QED
  BY <1>1, Invariance, PTL

\* The snapshot given to the completion listeners tells the outcome of the
\* sync that gives it.
THEOREM OwnOutcome == Spec => []CompletionReportsOwnOutcome
<1>1. IInv => CompletionReportsOwnOutcome
  BY DEF IInv, OwnError, CompletionReportsOwnOutcome
<1> QED
  BY <1>1, Invariance, PTL

-----------------------------------------------------------------------------

\* Who sleeps in wait_for_idle sleeps for the reservation of its own process.
Waited == \A p \in Procs, c \in Closers : cpc[p][c] = "asleep" => running[p]

\* notify_all leaves nobody asleep in its process and puts nobody to sleep.
LEMMA WakeAllWakes ==
  ASSUME NEW p \in Procs, TypeOK, WakeAll(p)
  PROVE  \A q \in Procs, c \in Closers :
           cpc'[q][c] = "asleep" => q # p /\ cpc[q][c] = "asleep"
<1> DEFINE woken == [c \in Closers |-> IF cpc[p][c] = "asleep" THEN "check" ELSE cpc[p][c]]
<1>1. cpc' = [cpc EXCEPT ![p] = woken]
  BY DEF WakeAll
<1>2. \A c \in Closers : woken[c] # "asleep"
  OBVIOUS
<1>3. cpc'[p] = woken /\ \A q \in Procs : q # p => cpc'[q] = cpc[q]
  <2> HIDE DEF woken
  <2> QED
    BY <1>1 DEF TypeOK
<1> HIDE DEF woken
<1> QED
  BY <1>2, <1>3

\* Every step that takes a reservation away wakes those who sleep for it, if
\* the unlocking before the notification does not raise.
LEMMA WaitedStep ==
  ASSUME ~ReleaseMayRaise, TypeOK, Waited, [Next]_vars
  PROVE  Waited'
<1> USE DEF TypeOK, Waited, procVars, coordVars
<1>1. ASSUME NEW p \in Procs, Boot(p) PROVE Waited'
  BY <1>1 DEF Boot
<1>2. ASSUME NEW p \in Procs, Vanish(p) PROVE Waited'
  BY <1>2 DEF Vanish
<1>3. ASSUME NEW p \in Procs, NEW w \in Workers, Reserve(p, w) PROVE Waited'
  BY <1>3 DEF Reserve, MayReserve
<1>4. ASSUME NEW p \in Procs, NEW w \in Workers, SpawnFails(p, w) \/ Finish(p, w)
      PROVE Waited'
  <2>1. WakeAll(p) /\ running' = [running EXCEPT ![p] = FALSE]
    BY <1>4 DEF SpawnFails, Finish
  <2>2. \A q \in Procs, c \in Closers :
          cpc'[q][c] = "asleep" => q # p /\ cpc[q][c] = "asleep"
    BY <2>1, WakeAllWakes
  <2> QED
    BY <2>1, <2>2
<1>5. ASSUME NEW p \in Procs, NEW w \in Workers,
             SpawnOk(p, w) \/ SyncReturns(p, w) \/ Notify(p, w)
      PROVE Waited'
  BY <1>5 DEF SpawnOk, SyncReturns, Notify
<1>6. ASSUME NEW p \in Procs, NEW c \in Closers, NEW r \in BOOLEAN, BeginClosing(p, c, r)
      PROVE Waited'
  BY <1>6 DEF BeginClosing
<1>7. ASSUME NEW p \in Procs, NEW c \in Closers, DrainCheck(p, c) PROVE Waited'
  <2>1. running' = running
    BY <1>7 DEF DrainCheck
  <2>2. CASE running[p]
    <3>1. cpc' = [cpc EXCEPT ![p][c] = "asleep"]
      BY <1>7, <2>2 DEF DrainCheck
    <3> QED
      BY <2>1, <2>2, <3>1
  <2>3. CASE ~running[p]
    <3>1. cpc' = [cpc EXCEPT ![p][c] = "drained"]
      BY <1>7, <2>3 DEF DrainCheck
    <3> QED
      BY <2>1, <3>1
  <2> QED
    BY <2>2, <2>3
<1>8. CASE UNCHANGED vars
  BY <1>8 DEF vars
<1> QED
  BY <1>1, <1>2, <1>3, <1>4, <1>5, <1>6, <1>7, <1>8
     DEF Next, WorkerStep, CloserStep, Crash, Exit

\* No notification is lost between the test of wait_for_idle and its sleep: a
\* closer sleeps only while a slot of its own process has the reservation, and
\* the end of that reservation wakes it.  Unlocking that raises in the finally
\* of a sync skips the notification, so it is ruled out here.
THEOREM SleepersAreWaitedFor ==
  ASSUME ~ReleaseMayRaise
  PROVE  Spec => [](\A p \in Procs, c \in Closers :
                      cpc[p][c] = "asleep" => \E w \in Workers : Active(p, w))
<1>1. Init => Waited
  BY DEF Init, Waited
<1>2. IInv /\ Waited /\ [Next]_vars => Waited'
  BY WaitedStep DEF IInv
<1>3. IInv /\ Waited => \A p \in Procs, c \in Closers :
                          cpc[p][c] = "asleep" => \E w \in Workers : Active(p, w)
  BY DEF IInv, Reservation, Waited
<1> QED
  BY <1>1, <1>2, <1>3, Invariance, PTL DEF Spec

-----------------------------------------------------------------------------
(* Refinement: the writers are the slots with the reservation, the open    *)
(* processes those that run and are not closing.                           *)

Writers == {x \in Procs \X Workers : Active(x[1], x[2])}
Opened == {p \in Procs : alive[p] /\ ~closing[p]}

\* The reservation determines the abstract writer.
LEMMA WriterFacts ==
  ASSUME IInv
  PROVE  /\ \A p \in Procs, w \in Workers : Active(p, w) => Writers = {<<p, w>>}
         /\ osLock = NoProc => Writers = {}
<1> USE CoordinatorAssumption DEF IInv, TypeOK, Reservation
<1>1. ASSUME NEW p \in Procs, NEW w \in Workers, Active(p, w)
      PROVE  Writers = {<<p, w>>}
  <2>1. \A q \in Procs, v \in Workers : Active(q, v) => q = p /\ v = w
    BY <1>1
  <2> QED
    BY <1>1, <2>1 DEF Writers
<1>2. ASSUME osLock = NoProc PROVE Writers = {}
  <2>1. \A q \in Procs, v \in Workers : ~Active(q, v)
    BY <1>2
  <2> QED
    BY <2>1 DEF Writers
<1> QED
  BY <1>1, <1>2

\* Every step of the coordinator is a step of the abstract specification or
\* leaves its variables alone.
LEMMA StepRefines ==
  IInv /\ IInv' /\ [Next]_vars => [Abstract!Next]_(Abstract!avars)
<1> SUFFICES ASSUME IInv, IInv', [Next]_vars
             PROVE  [Abstract!Next]_(Abstract!avars)
  OBVIOUS
<1> DEFINE Stutter == Writers' = Writers /\ Opened' = Opened
<1>0. TypeOK /\ Reservation /\ Unstarted
  BY DEF IInv
<1>1. ASSUME NEW p \in Procs, Boot(p) PROVE Abstract!Open(p)
  <2>1. \A w \in Workers : ~Active(p, w)
    BY <1>0, <1>1 DEF Boot, Reservation, Unstarted
  <2>2. Writers' = Writers
    BY <1>1 DEF Boot, Writers, Active
  <2>3. p \notin Opened /\ Opened' = Opened \union {p}
    BY <1>0, <1>1 DEF Boot, Opened, Unstarted, TypeOK, coordVars
  <2> QED
    BY <2>1, <2>2, <2>3 DEF Abstract!Open, Abstract!OfProc, Writers, Opened
<1>2. ASSUME NEW p \in Procs, Vanish(p) PROVE Abstract!Leave(p)
  <2>1. Opened' = Opened \ {p}
    BY <1>0, <1>2 DEF Vanish, Opened, TypeOK
  <2>2. Writers' = Writers \ {x \in Writers : x[1] = p}
    BY <1>0, <1>2 DEF Vanish, Writers, Active, TypeOK
  <2> QED
    BY <2>1, <2>2 DEF Abstract!Leave, Abstract!OfProc, Writers, Opened
<1>3. ASSUME NEW p \in Procs, NEW w \in Workers, Reserve(p, w) PROVE Abstract!Begin(p, w)
  <2>1. Writers = {} /\ p \in Opened /\ Opened' = Opened
    BY <1>3, WriterFacts DEF Reserve, MayReserve, ClearOutcome, Opened
  <2>2. Active(p, w)'
    BY <1>0, <1>3 DEF Reserve, MayReserve, ClearOutcome, Active, TypeOK
  <2>3. Writers' = {<<p, w>>}
    <3>1. \A q \in Procs, v \in Workers : Active(q, v)' => q = p /\ v = w
      BY <1>0, <1>3, WriterFacts, <2>1 DEF Reserve, MayReserve, ClearOutcome, Active, TypeOK, Writers
    <3> QED
      BY <2>2, <3>1 DEF Writers
  <2> QED
    BY <2>1, <2>3 DEF Abstract!Begin, Writers, Opened
<1>4. ASSUME NEW p \in Procs, NEW w \in Workers, SpawnOk(p, w) \/ SyncReturns(p, w)
      PROVE  Stutter
  <2>1. PICK l \in {"syncing", "finishing"} : pc' = [pc EXCEPT ![p][w] = l]
    BY <1>4 DEF SpawnOk, SyncReturns
  <2>2. pc[p][w] \in {"reserved", "syncing"} /\ alive' = alive /\ closing' = closing
    BY <1>4 DEF SpawnOk, SyncReturns, procVars, coordVars
  <2>3. \A q \in Procs, v \in Workers : Active(q, v)' <=> Active(q, v)
    BY <1>0, <2>1, <2>2 DEF Active, TypeOK
  <2> QED
    BY <2>2, <2>3 DEF Writers, Opened
<1>5. ASSUME NEW p \in Procs, NEW w \in Workers, SpawnFails(p, w) \/ Finish(p, w)
      PROVE  Abstract!End(p, w)
  <2>1. Active(p, w)
    BY <1>5 DEF SpawnFails, Finish, SnapshotOutcome, Active
  <2>2. Writers = {<<p, w>>}
    BY <2>1, WriterFacts
  <2>3. ~Active(p, w)' /\ \A q \in Procs, v \in Workers : Active(q, v)' => Active(q, v)
    <3>1. PICK l \in {"free", "notifying"} : pc' = [pc EXCEPT ![p][w] = l]
      BY <1>5 DEF SpawnFails, Finish, SnapshotOutcome
    <3> QED
      BY <1>0, <3>1 DEF Active, TypeOK
  <2>4. Writers' = {}
    BY <2>2, <2>3 DEF Writers
  <2>5. Opened' = Opened
    BY <1>5 DEF SpawnFails, Finish, SnapshotOutcome, Opened
  <2> QED
    BY <2>2, <2>4, <2>5 DEF Abstract!End, Writers, Opened
<1>6. ASSUME NEW p \in Procs, NEW w \in Workers, Notify(p, w) PROVE Stutter
  BY <1>0, <1>6 DEF Notify, Writers, Opened, Active, TypeOK, procVars, coordVars
<1>7. ASSUME NEW p \in Procs, NEW c \in Closers, NEW r \in BOOLEAN, BeginClosing(p, c, r)
      PROVE Abstract!Close(p) \/ Stutter
  <2>1. Writers' = Writers
    BY <1>7 DEF BeginClosing, Writers, Active
  <2>2. CASE closing[p]
    BY <1>0, <1>7, <2>1, <2>2 DEF BeginClosing, Opened, TypeOK, procVars
  <2>3. CASE ~closing[p]
    <3>1. p \in Opened /\ Opened' = Opened \ {p}
      BY <1>0, <1>7, <2>3 DEF BeginClosing, Opened, TypeOK, procVars
    <3> QED
      BY <2>1, <3>1 DEF Abstract!Close, Writers, Opened
  <2> QED
    BY <2>2, <2>3
<1>8. ASSUME NEW p \in Procs, NEW c \in Closers, DrainCheck(p, c) PROVE Stutter
  BY <1>8 DEF DrainCheck, Writers, Opened, Active, procVars, coordVars
<1>9. ASSUME UNCHANGED vars PROVE Stutter
  BY <1>9 DEF vars, Writers, Opened, Active
<1>10. Stutter => UNCHANGED Abstract!avars
  BY DEF Abstract!avars, Writers, Opened
<1> HIDE DEF Stutter
<1>11. ASSUME NEW p \in Procs, NEW w \in Workers, WorkerStep(p, w)
       PROVE  Abstract!End(p, w) \/ Stutter
  BY <1>4, <1>5, <1>6, <1>11 DEF WorkerStep
<1>12. ASSUME NEW p \in Procs, NEW c \in Closers, CloserStep(p, c)
       PROVE  Abstract!Close(p) \/ Abstract!Leave(p) \/ Stutter
  BY <1>2, <1>7, <1>8, <1>12 DEF CloserStep, Exit
<1>13. CASE Next
  <2>1. PICK p \in Procs : \/ Boot(p)
                           \/ Crash(p)
                           \/ \E w \in Workers : Reserve(p, w) \/ WorkerStep(p, w)
                           \/ \E c \in Closers : CloserStep(p, c)
    BY <1>13 DEF Next
  <2>2. \/ Abstract!Open(p) \/ Abstract!Close(p) \/ Abstract!Leave(p)
        \/ \E w \in Workers : Abstract!Begin(p, w) \/ Abstract!End(p, w)
        \/ Stutter
    BY <2>1, <1>1, <1>2, <1>3, <1>11, <1>12 DEF Crash
  <2> QED
    BY <2>2, <1>10 DEF Abstract!Next
<1> QED
  BY <1>9, <1>10, <1>13

\* The coordinator implements the abstract promise of an exclusive sync.
THEOREM Refinement == Spec => ImplementsExclusiveSync
<1>1. Init => Abstract!Init
  BY DEF Init, AllFalse, Abstract!Init, Active
<1>2. IInv /\ IInv' /\ [Next]_vars => [Abstract!Next]_(Abstract!avars)
  BY StepRefines
<1> QED
  BY <1>1, <1>2, Invariance, PTL DEF Spec, ImplementsExclusiveSync, Abstract!Spec
=============================================================================
