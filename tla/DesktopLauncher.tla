-------------------------- MODULE DesktopLauncher --------------------------
(***************************************************************************)
(* ShortTrackerLauncher and DesktopSession (desktop_launcher.py) with the  *)
(* shutdown watcher of serve() (server.py), on one port and one data       *)
(* directory: launcher processes that start, stop or show the background   *)
(* server and may die at any step, the servers they spawn, and the other   *)
(* programs that may take the port.                                        *)
(*                                                                         *)
(* A server process, its instance id and its shutdown token are fresh      *)
(* together, so one token names all three; a dead server nobody refers to  *)
(* gives its token back.  A health probe may time out at any moment and so *)
(* may every wait; a connection to a program that listens may fail, which  *)
(* reads as a closed port; and the state file may be unreadable, or not    *)
(* parsable, for a moment or for good, which reads as no state.            *)
(***************************************************************************)
CONSTANTS
  Launchers,   \* launcher processes
  Tokens,      \* servers, by instance id and shutdown token
  NoOne,       \* no holder, no server, no state file
  Other,       \* a program that is not Short Tracker
  External,    \* a Short Tracker run in a console
  Damaged      \* a state file that is not valid

ASSUME LauncherAssumption ==
  /\ NoOne \notin Launchers \union Tokens
  /\ Other \notin Tokens \union {NoOne}
  /\ External \notin Tokens \union {NoOne, Other}
  /\ Damaged \notin Tokens \union {NoOne}

VARIABLES
  lock,      \* holder of desktop-launcher.lock
  state,     \* desktop-service-<port>.json
  stop,      \* stop-<token>.request
  port,      \* who listens on the port
  srv,       \* the server processes
  sync,      \* a server synchronises
  watcher,   \* watch_for_shutdown of each server
  la,        \* the launcher processes
  forsaken,  \* servers whose start() ended before it saw them well or gone
  missed     \* servers that a start() took the port without, or that a stop()
             \* took for closed, because the connection to them failed

serverVars == <<srv, sync, watcher>>
vars == <<lock, state, stop, port, serverVars, la, forsaken, missed>>

Idle == [pc |-> "idle", job |-> "none", force |-> FALSE, token |-> NoOne,
         saved |-> FALSE, window |-> "none"]

Init ==
  /\ lock = NoOne
  /\ state \in {NoOne, Damaged}
  /\ stop = [t \in Tokens |-> "none"]
  /\ port = NoOne
  /\ srv = [t \in Tokens |-> "dead"]
  /\ sync = [t \in Tokens |-> FALSE]
  /\ watcher = [t \in Tokens |-> "watching"]
  /\ la = [l \in Launchers |-> Idle]
  /\ forsaken = {}
  /\ missed = {}

-----------------------------------------------------------------------------
(* What a launcher can see                                                 *)

Answering(t) == srv[t] \in {"serving", "draining"}
Running(t) == srv[t] \in {"booting", "serving", "draining", "ended", "cleaned"}

\* _health: None, or the instance that answers.
Health ==
  {NoOne} \union {t \in Tokens : port = t /\ Answering(t)}
          \union (IF port = External THEN {External} ELSE {})

\* _read_state: what is written, or nothing when it cannot be read or parsed.
ReadState == {state, NoOne}

PortIsOpen == port # NoOne

\* _port_is_open: a connection to whoever listens may fail or time out.
Probe == {PortIsOpen, FALSE}

\* The server of this directory that a closed-looking port hides.
Hidden == IF port \in Tokens THEN {port} ELSE {}

-----------------------------------------------------------------------------
(* The server                                                              *)

KillServer(t) ==
  /\ srv' = [srv EXCEPT ![t] = "dead"]
  /\ sync' = [sync EXCEPT ![t] = FALSE]
  /\ watcher' = [watcher EXCEPT ![t] = "watching"]
  /\ missed' = missed \ {t}
  /\ port' = IF port = t THEN NoOne ELSE port

\* The listening socket is bound, or the process exits.
Bind(t) ==
  /\ srv[t] = "booting"
  /\ IF PortIsOpen
       THEN KillServer(t)
       ELSE /\ srv' = [srv EXCEPT ![t] = "serving"]
            /\ port' = t
            /\ UNCHANGED <<sync, watcher, missed>>
  /\ UNCHANGED <<lock, state, stop, la, forsaken>>

BeginSync(t) ==
  /\ srv[t] = "serving" /\ ~sync[t]
  /\ sync' = [sync EXCEPT ![t] = TRUE]
  /\ UNCHANGED <<lock, state, stop, port, srv, watcher, la, forsaken, missed>>

EndSync(t) ==
  /\ sync[t]
  /\ sync' = [sync EXCEPT ![t] = FALSE]
  /\ UNCHANGED <<lock, state, stop, port, srv, watcher, la, forsaken, missed>>

\* The watcher finds a request and reads it.
ReadRequest(t) ==
  /\ srv[t] = "serving"
  /\ watcher[t] = "watching"
  /\ stop[t] # "none"
  /\ watcher' = [watcher EXCEPT ![t] = stop[t]]
  /\ UNCHANGED <<lock, state, stop, port, srv, sync, la, forsaken, missed>>

\* begin_closing(require_idle = not force)
Decide(t) ==
  /\ watcher[t] \in {"normal", "force"}
  /\ IF sync[t] /\ watcher[t] = "normal"
       THEN watcher' = [watcher EXCEPT ![t] = "refused"] /\ UNCHANGED srv
       ELSE /\ watcher' = [watcher EXCEPT ![t] = "closing"]
            /\ srv' = [srv EXCEPT ![t] = "draining"]
  /\ UNCHANGED <<lock, state, stop, port, sync, la, forsaken, missed>>

\* The refused request is removed, whatever it says by now, or it cannot be
\* removed and the watcher ends with the exception.
Refuse(t) ==
  /\ watcher[t] = "refused"
  /\ \/ /\ stop' = [stop EXCEPT ![t] = "none"]
        /\ watcher' = [watcher EXCEPT ![t] = "watching"]
     \/ /\ watcher' = [watcher EXCEPT ![t] = "gone"]
        /\ UNCHANGED stop
  /\ UNCHANGED <<lock, state, port, srv, sync, la, forsaken, missed>>

\* Mutant: the request is removed before the server stops answering.
CleanWhileAnswering(t) ==
  /\ srv[t] = "draining"
  /\ stop' = [stop EXCEPT ![t] = "none"]
  /\ srv' = IF sync[t] THEN srv ELSE [srv EXCEPT ![t] = "cleaned"]
  /\ UNCHANGED <<lock, state, port, sync, watcher, la, forsaken, missed>>

\* drain() returned and the request loop ended; nothing is answered any more.
EndLoop(t) ==
  /\ srv[t] = "draining" /\ ~sync[t]
  /\ srv' = [srv EXCEPT ![t] = "ended"]
  /\ UNCHANGED <<lock, state, stop, port, sync, watcher, la, forsaken, missed>>

\* The request file is removed when serve() ends.
Clean(t) ==
  /\ srv[t] = "ended"
  /\ stop' = [stop EXCEPT ![t] = "none"]
  /\ srv' = [srv EXCEPT ![t] = "cleaned"]
  /\ UNCHANGED <<lock, state, port, sync, watcher, la, forsaken, missed>>

CloseSocket(t) ==
  /\ srv[t] = "cleaned"
  /\ port' = NoOne
  /\ srv' = [srv EXCEPT ![t] = "exiting"]
  /\ UNCHANGED <<lock, state, stop, sync, watcher, la, forsaken, missed>>

\* The process ends, in order or not.
Die(t) ==
  /\ srv[t] # "dead"
  /\ KillServer(t)
  /\ UNCHANGED <<lock, state, stop, la, forsaken>>

\* Another program takes the port or leaves it.
PortChangesHands ==
  /\ \/ port = NoOne /\ port' \in {Other, External}
     \/ port \in {Other, External} /\ port' = NoOne
  /\ UNCHANGED <<lock, state, stop, serverVars, la, forsaken, missed>>

-----------------------------------------------------------------------------
(* The runtime lock around start() and stop()                              *)

Goto(l, pc) == la' = [la EXCEPT ![l].pc = pc]

\* The action ends with an outcome and the lock is released.
End(l, outcome) ==
  /\ la' = [la EXCEPT ![l].pc = outcome, ![l].token = NoOne, ![l].saved = FALSE]
  /\ lock' = NoOne

Launch(l, job, force, window) ==
  /\ la[l].pc = "idle"
  /\ window # "none" => \A k \in Launchers : la[k].window = "none"
  /\ la' = [la EXCEPT ![l] = [Idle EXCEPT !.pc = "locking", !.job = job,
                                          !.force = force, !.window = window]]
  /\ UNCHANGED <<lock, state, stop, port, serverVars, forsaken, missed>>

\* Mutant: the lock is not waited for.
LockAnyway(l) ==
  /\ la[l].pc = "locking"
  /\ lock' = l
  /\ Goto(l, la[l].job)
  /\ UNCHANGED <<state, stop, port, serverVars, forsaken, missed>>

\* _runtime_lock: taken when free, or given up with LauncherBusyError.
Lock(l) ==
  /\ la[l].pc = "locking"
  /\ \/ lock = NoOne /\ lock' = l /\ Goto(l, la[l].job)
     \/ UNCHANGED lock /\ Goto(l, "failed")
  /\ UNCHANGED <<state, stop, port, serverVars, forsaken, missed>>

\* A launcher process dies; the system releases its lock.
Crash(l) ==
  /\ la[l].pc # "idle"
  /\ lock' = IF lock = l THEN NoOne ELSE lock
  /\ la' = [la EXCEPT ![l] = Idle]
  /\ forsaken' = IF la[l].job = "start"
                   THEN forsaken \union ({la[l].token} \intersect Tokens) ELSE forsaken
  /\ UNCHANGED <<state, stop, port, serverVars, missed>>

Leave(l) ==
  /\ la[l].window = "none"
  /\ la[l].pc \in {"started", "foreign", "stopped", "rejected", "failed"}
  /\ la' = [la EXCEPT ![l] = Idle]
  /\ UNCHANGED <<lock, state, stop, port, serverVars, forsaken, missed>>

-----------------------------------------------------------------------------
(* start()                                                                 *)

\* Something answers already: read in the state file, or somebody else's.
StartHealth(l) ==
  /\ la[l].pc = "start"
  /\ \E h \in Health, read \in ReadState :
       IF h = NoOne
         THEN Goto(l, "probe") /\ UNCHANGED lock
         ELSE End(l, IF h = read THEN "started" ELSE "foreign")
  /\ UNCHANGED <<state, stop, port, serverVars, forsaken, missed>>

StartProbe(l) ==
  /\ la[l].pc = "probe"
  /\ \E open \in Probe :
       IF open
         THEN End(l, "failed") /\ UNCHANGED missed
         ELSE Goto(l, "spawn") /\ missed' = missed \union Hidden /\ UNCHANGED lock
  /\ UNCHANGED <<state, stop, port, serverVars, forsaken>>

\* The token of a server that is gone and that nothing refers to.
Fresh(t) ==
  /\ srv[t] = "dead"
  /\ state # t
  /\ \A l \in Launchers : la[l].token # t

\* Popen: it fails, or the new process can or cannot be identified.
Spawn(l) ==
  /\ la[l].pc = "spawn"
  /\ \/ End(l, "failed") /\ UNCHANGED <<stop, srv, forsaken>>
     \/ \E t \in Tokens, next \in {"save", "kill"} :
          /\ Fresh(t)
          /\ stop' = [stop EXCEPT ![t] = "none"]
          /\ srv' = [srv EXCEPT ![t] = "booting"]
          /\ la' = [la EXCEPT ![l].pc = next, ![l].token = t]
          /\ forsaken' = forsaken \ {t}
          /\ UNCHANGED lock
  /\ UNCHANGED <<state, port, sync, watcher, missed>>

\* The state file is written, or the new process has to go.
SaveState(l) ==
  /\ la[l].pc = "save"
  /\ \/ state' = la[l].token /\ la' = [la EXCEPT ![l].pc = "poll", ![l].saved = TRUE]
     \/ UNCHANGED state /\ Goto(l, "revoke")
  /\ UNCHANGED <<lock, stop, port, serverVars, forsaken, missed>>

\* _remove_state: a record of another server stays if it can be read.
RemoveState(t) ==
  \E read \in ReadState :
    state' = IF read \in Tokens \ {t} THEN state ELSE NoOne

\* The process has exited, or it is well, or the time is up.
PollStart(l) ==
  LET t == la[l].token
  IN  /\ la[l].pc = "poll"
      /\ \/ srv[t] = "dead" /\ RemoveState(t) /\ End(l, "failed")
         \/ t \in Health /\ UNCHANGED state /\ End(l, "started")
         \/ UNCHANGED <<lock, state>> /\ Goto(l, "revoke")
      /\ UNCHANGED <<stop, port, serverVars, forsaken, missed>>

\* The forced request for the process that has to go; it may not be writable.
Revoke(l) ==
  /\ la[l].pc = "revoke"
  /\ stop' \in {stop, [stop EXCEPT ![la[l].token] = "force"]}
  /\ Goto(l, "kill")
  /\ UNCHANGED <<lock, state, port, serverVars, forsaken, missed>>

\* Mutant: the state of a process that is still there is removed.
KillAndForget(l) ==
  LET t == la[l].token
  IN  /\ la[l].pc = "kill"
      /\ RemoveState(t)
      /\ End(l, "failed")
      /\ UNCHANGED <<stop, port, serverVars, forsaken, missed>>

\* _terminate_fresh_process: the process has exited by now or is terminated,
\* and what was written for it is removed; or it is still there and what was
\* written stays.
Kill(l) ==
  LET t == la[l].token
  IN  /\ la[l].pc = "kill"
      /\ End(l, "failed")
      /\ \/ /\ KillServer(t)
            /\ stop' = [stop EXCEPT ![t] = "none"]
            /\ IF la[l].saved THEN RemoveState(t) ELSE UNCHANGED state
            /\ UNCHANGED forsaken
         \/ /\ srv[t] # "dead"
            /\ forsaken' = forsaken \union {t}
            /\ UNCHANGED <<stop, state, port, serverVars, missed>>

-----------------------------------------------------------------------------
(* stop()                                                                  *)

RequestKind(l) == IF la[l].force THEN "force" ELSE "normal"

\* Nothing answers, and what was read in the state file is looked at; or
\* somebody answers who was not read there; or a sync forbids it.
StopHealth(l) ==
  /\ la[l].pc = "stop"
  /\ \E h \in Health, read \in ReadState :
       CASE h = NoOne ->
              la' = [la EXCEPT ![l].pc = "unanswered", ![l].token = read]
              /\ UNCHANGED lock
         [] h \in Tokens /\ h = read /\ (sync[h] => la[l].force) ->
              la' = [la EXCEPT ![l].pc = "request", ![l].token = h] /\ UNCHANGED lock
         [] OTHER -> End(l, "failed")
  /\ UNCHANGED <<state, stop, port, serverVars, forsaken, missed>>

StopProbe(l) ==
  /\ la[l].pc = "unanswered"
  /\ \E open \in Probe :
       IF open THEN End(l, "failed") ELSE Goto(l, "inspect") /\ UNCHANGED lock
  /\ UNCHANGED <<state, stop, port, serverVars, forsaken, missed>>

\* Mutant: a process that cannot be identified counts as gone.
InspectUnknownAsGone(l) ==
  LET read == la[l].token
  IN  /\ la[l].pc = "inspect"
      /\ IF read = NoOne THEN UNCHANGED state ELSE RemoveState(read)
      /\ End(l, "stopped")
      /\ UNCHANGED <<stop, port, serverVars, forsaken, missed>>

\* _state_process_status of the process that was read: it is there, and is asked
\* to stop if the request can be written; it is gone; nothing was read, which
\* counts as stopped; or the state is invalid, or nobody can tell.
Inspect(l) ==
  LET read == la[l].token
  IN  /\ la[l].pc = "inspect"
      /\ \/ /\ read \in Tokens /\ srv[read] # "dead"
            /\ stop' \in {stop, [stop EXCEPT ![read] = RequestKind(l)]}
            /\ End(l, "failed")
            /\ UNCHANGED state
         \/ /\ read \in Tokens /\ srv[read] = "dead"
            /\ stop' = [stop EXCEPT ![read] = "none"]
            /\ RemoveState(read)
            /\ End(l, "stopped")
         \/ read = NoOne /\ End(l, "stopped") /\ UNCHANGED <<state, stop>>
         \/ read # NoOne /\ End(l, "failed") /\ UNCHANGED <<state, stop>>
      /\ UNCHANGED <<port, serverVars, forsaken, missed>>

WriteRequest(l) ==
  /\ la[l].pc = "request"
  /\ \/ /\ stop' = [stop EXCEPT ![la[l].token] = RequestKind(l)]
        /\ Goto(l, "waiting")
        /\ UNCHANGED lock
     \/ End(l, "failed") /\ UNCHANGED stop
  /\ UNCHANGED <<state, port, serverVars, forsaken, missed>>

\* Mutant: a health endpoint that does not answer is taken for a closed port.
AwaitSilence(l) ==
  LET t == la[l].token
  IN  /\ la[l].pc = "waiting"
      /\ NoOne \in Health
      /\ stop' = [stop EXCEPT ![t] = "none"]
      /\ RemoveState(t)
      /\ End(l, "stopped")
      /\ UNCHANGED <<port, serverVars, forsaken, missed>>

\* The port looks closed; or the request is gone while the port is open; or the
\* time is up.
AwaitStop(l) ==
  LET t == la[l].token
  IN  /\ la[l].pc = "waiting"
      /\ \/ /\ FALSE \in Probe
            /\ missed' = missed \union Hidden
            /\ stop' = [stop EXCEPT ![t] = "none"]
            /\ RemoveState(t)
            /\ End(l, "stopped")
         \/ /\ TRUE \in Probe /\ stop[t] = "none"
            /\ Goto(l, "confirming")
            /\ UNCHANGED <<stop, state, lock, missed>>
         \/ End(l, "failed") /\ UNCHANGED <<stop, state, missed>>
      /\ UNCHANGED <<port, serverVars, forsaken>>

\* The request is gone and its server answers: it was refused.
ConfirmRefusal(l) ==
  /\ la[l].pc = "confirming"
  /\ \E h \in Health :
       IF h = la[l].token THEN End(l, "rejected")
                          ELSE Goto(l, "waiting") /\ UNCHANGED lock
  /\ UNCHANGED <<state, stop, port, serverVars, forsaken, missed>>

-----------------------------------------------------------------------------
(* run_desktop and DesktopSession                                          *)

\* Only a service this launcher can stop is shown in a window; the window may
\* fail to open, which is cleaned up like one that has gone.
OpenWindow(l) ==
  /\ la[l].window = "opening"
  /\ \/ /\ la[l].pc = "started"
        /\ \E pc \in {"shown", "closing"} :
             la' = [la EXCEPT ![l].pc = pc, ![l].job = "none",
                              ![l].window = IF pc = "shown" THEN "open" ELSE "gone"]
     \/ la[l].pc \in {"foreign", "failed"} /\ la' = [la EXCEPT ![l] = Idle]
  /\ UNCHANGED <<lock, state, stop, port, serverVars, forsaken, missed>>

\* on_closing starts _close_worker and keeps the window; or the window is
\* gone without asking.
CloseWindow(l) ==
  /\ la[l].pc = "shown"
  /\ \E window \in {"open", "gone"} :
       la' = [la EXCEPT ![l].pc = "closing", ![l].window = window]
  /\ UNCHANGED <<lock, state, stop, port, serverVars, forsaken, missed>>

GiveUpClosing(l) ==
  la' = [la EXCEPT ![l] =
           IF @.window = "gone" THEN Idle
           ELSE [@ EXCEPT !.pc = "shown", !.job = "none"]]

\* _wait_for_safe_stop: while a sync is seen running it waits, until its time
\* is up; otherwise it calls stop().
WaitForSync(l) ==
  /\ la[l].pc = "closing"
  /\ \E h \in Health :
       IF h \in Tokens /\ sync[h]
         THEN GiveUpClosing(l)
         ELSE la' = [la EXCEPT ![l].pc = "locking", ![l].job = "stop"]
  /\ UNCHANGED <<lock, state, stop, port, serverVars, forsaken, missed>>

\* stop() returned: the window is destroyed after a success, and a failure is
\* retried only if a sync is seen running.
FinishClosing(l) ==
  /\ la[l].window \in {"open", "gone"}
  /\ \/ la[l].pc = "stopped" /\ la' = [la EXCEPT ![l] = Idle]
     \/ /\ la[l].pc \in {"failed", "rejected"}
        /\ \E h \in Health :
             IF h \in Tokens /\ sync[h] THEN Goto(l, "closing") ELSE GiveUpClosing(l)
  /\ UNCHANGED <<lock, state, stop, port, serverVars, forsaken, missed>>

-----------------------------------------------------------------------------
ServerStep(t) ==
  \/ Bind(t) \/ BeginSync(t) \/ EndSync(t)
  \/ ReadRequest(t) \/ Decide(t) \/ Refuse(t)
  \/ EndLoop(t) \/ Clean(t) \/ CloseSocket(t) \/ Die(t)

Command(l) ==
  \/ Launch(l, "start", FALSE, "none")
  \/ Launch(l, "start", FALSE, "opening")
  \/ \E force \in BOOLEAN : Launch(l, "stop", force, "none")

LauncherStep(l) ==
  \/ Command(l) \/ Lock(l) \/ Crash(l) \/ Leave(l)
  \/ StartHealth(l) \/ StartProbe(l) \/ Spawn(l) \/ SaveState(l)
  \/ PollStart(l) \/ Revoke(l) \/ Kill(l)
  \/ StopHealth(l) \/ StopProbe(l) \/ Inspect(l)
  \/ WriteRequest(l) \/ AwaitStop(l) \/ ConfirmRefusal(l)
  \/ OpenWindow(l) \/ CloseWindow(l) \/ WaitForSync(l) \/ FinishClosing(l)

Next ==
  \/ \E t \in Tokens : ServerStep(t)
  \/ \E l \in Launchers : LauncherStep(l)
  \/ PortChangesHands

Spec == Init /\ [][Next]_vars

-----------------------------------------------------------------------------
(* Properties                                                              *)

Starting == {"save", "poll", "revoke", "kill"}
Locked == {"start", "probe", "spawn", "stop", "unanswered", "inspect",
           "request", "waiting", "confirming"} \union Starting
Unlocked == {"idle", "locking", "started", "foreign", "stopped", "rejected",
             "failed", "shown", "closing"}

\* The type of the state, and what the runtime lock is for: at most one
\* launcher is inside start() or stop(), and it holds the lock.
TypeOK ==
  /\ lock \in Launchers \union {NoOne}
  /\ state \in Tokens \union {NoOne, Damaged}
  /\ stop \in [Tokens -> {"none", "normal", "force"}]
  /\ port \in Tokens \union {NoOne, Other, External}
  /\ srv \in [Tokens -> {"dead", "booting", "serving", "draining", "ended",
                         "cleaned", "exiting"}]
  /\ sync \in [Tokens -> BOOLEAN]
  /\ watcher \in [Tokens -> {"watching", "normal", "force", "refused", "closing",
                             "gone"}]
  /\ la \in [Launchers -> [pc : Locked \union Unlocked,
                           job : {"none", "start", "stop"}, force : BOOLEAN,
                           token : Tokens \union {NoOne, Damaged}, saved : BOOLEAN,
                           window : {"none", "opening", "open", "gone"}]]
  /\ forsaken \subseteq Tokens
  /\ missed \subseteq Tokens
  /\ \A l \in Launchers : la[l].pc \in Locked <=> lock = l

BeingStarted(t) ==
  \E l \in Launchers : la[l].pc \in Starting /\ la[l].token = t

\* A server that start() did not give up stays recorded for as long as it can
\* answer or come to answer, so the next stop() can ask it to stop: no other
\* start(), no stop(), failure, timeout or unreadable state file loses its
\* token.  Only a connection to it that failed when start() looked for a free
\* port, or when stop() waited for it to close, does.
Manageable ==
  \A t \in Tokens :
    Running(t) /\ t \notin forsaken \union missed => state = t \/ BeingStarted(t)

\* When stop() reports that the service has stopped, neither the server recorded
\* in the state file nor one that a start() brought up in order is running,
\* unless stop() could not read the file or missed the server while it waited.
\* A health probe and a port probe that both fail are not enough.
StoppedIsStopped ==
  [][\A l \in Launchers :
       /\ la[l].pc # "stopped" /\ la'[l].pc = "stopped"
       /\ state \in Tokens => la[l].token = state
       => \A t \in ((Tokens \ forsaken) \union ({state} \intersect Tokens)) \ missed' :
            srv'[t] \in {"dead", "exiting"}]_vars

\* When stop() reports that the server refused, the server has not begun to
\* close: a removed request and an answer never go with a shutdown under way.
RefusalIsReal ==
  [][\A l \in Launchers :
       la[l].pc # "rejected" /\ la'[l].pc = "rejected" =>
         srv[la[l].token] = "serving"]_vars

\* A stop request to a running server is removed by that server alone, when
\* it refuses the request or has stopped answering, unless the connection by
\* which stop() waits for it to close has failed.
RequestsReachServers ==
  [][\A t \in Tokens \ missed' :
       /\ stop[t] # "none" /\ stop'[t] = "none"
       /\ srv[t] \in {"booting", "serving", "draining"}
       /\ srv'[t] # "dead"
       => watcher[t] = "refused"]_vars
=============================================================================
