----------------------- MODULE DesktopLauncher_proofs -----------------------
(***************************************************************************)
(* Theorems about DesktopLauncher for any number of launchers and servers. *)
(***************************************************************************)
EXTENDS DesktopLauncher, TLAPS

Launcher ==
  [pc : Locked \union Unlocked, job : {"none", "start", "stop"}, force : BOOLEAN,
   token : Tokens \union {NoOne, Damaged}, saved : BOOLEAN,
   window : {"none", "opening", "open", "gone"}]

\* The types of what the launchers and the servers share.
SharedOK ==
  /\ state \in Tokens \union {NoOne, Damaged}
  /\ stop \in [Tokens -> {"none", "normal", "force"}]
  /\ port \in Tokens \union {NoOne, Other, External}
  /\ srv \in [Tokens -> {"dead", "booting", "serving", "draining", "ended",
                         "cleaned", "exiting"}]
  /\ sync \in [Tokens -> BOOLEAN]
  /\ watcher \in [Tokens -> {"watching", "normal", "force", "refused", "closing",
                             "gone"}]
  /\ forsaken \subseteq Tokens /\ missed \subseteq Tokens

\* TypeOK, part by part.
LEMMA TypeByPart ==
  TypeOK <=> /\ SharedOK
             /\ lock \in Launchers \union {NoOne}
             /\ la \in [Launchers -> Launcher]
             /\ \A l \in Launchers : la[l].pc \in Locked <=> lock = l
BY DEF TypeOK, SharedOK, Launcher

\* Exactly the server that has bound the port has it, until it closes the socket;
\* what its watcher is about to do belongs to a server that is not closing.  Only
\* a server that has bound the port is missed, until it is gone.
ServerOK(t) ==
  /\ t \in missed => srv[t] \notin {"booting", "dead"}
  /\ srv[t] \in {"serving", "draining", "ended", "cleaned"} <=> port = t
  /\ watcher[t] \in {"normal", "force", "refused", "gone"} => srv[t] = "serving"

\* A server without a request that will not come to close by itself.
Quiet(t) ==
  \/ srv[t] = "serving" /\ watcher[t] \in {"watching", "gone"}
  \/ srv[t] \in {"cleaned", "exiting", "dead"}

Asking == {"request", "waiting", "confirming"}

\* What a launcher q inside start() or stop() relies on.
LauncherOK(q) ==
  /\ q.pc = "locking" => q.job \in {"start", "stop"}
  /\ q.pc \in {"start", "probe", "spawn"} \union Starting => q.job = "start"
  /\ q.pc \in Starting => q.token \in Tokens
  /\ q.pc = "poll" => state = q.token
  /\ q.pc \in {"spawn"} \union Starting =>
       \A t \in Tokens : Running(t) /\ t \notin forsaken \union missed =>
                           q.pc \in Starting /\ q.token = t
  /\ q.pc \in {"unanswered", "inspect"} => q.token \in {state, NoOne}
  /\ q.pc \in Asking =>
       q.token \in Tokens /\ state = q.token /\ srv[q.token] # "booting"
  /\ q.pc \in {"waiting", "confirming"} /\ stop[q.token] = "none" => Quiet(q.token)
  /\ q.pc = "confirming" => stop[q.token] = "none"

\* A server that is still booting is watched by its start() or given up.
BootingIsWatched ==
  \A t \in Tokens : srv[t] = "booting" => t \in forsaken \/ BeingStarted(t)

\* The inductive invariant.
IInv ==
  /\ TypeOK
  /\ \A t \in Tokens : ServerOK(t)
  /\ \A l \in Launchers : LauncherOK(la[l])
  /\ BootingIsWatched
  /\ Manageable

-----------------------------------------------------------------------------
(* The holder of the lock                                                  *)

\* Everybody else is outside of start() and stop().
LEMMA HolderAlone ==
  ASSUME IInv, NEW l \in Launchers, la[l].pc \in Locked
  PROVE  /\ lock = l
         /\ \A k \in Launchers : k # l => la[k].pc \in Unlocked
         /\ \A t \in Tokens :
              BeingStarted(t) <=> la[l].pc \in Starting /\ la[l].token = t
<1>1. /\ la \in [Launchers -> Launcher]
      /\ \A k \in Launchers : la[k].pc \in Locked <=> lock = k
  BY TypeByPart DEF IInv
<1>2. \A k \in Launchers : la[k].pc \in Locked \union Unlocked
  BY <1>1 DEF Launcher
<1>3. \A k \in Launchers : la[k].pc \in Starting => la[k].pc \in Locked
  BY DEF Locked
<1> QED
  BY <1>1, <1>2, <1>3 DEF BeingStarted

\* A step of the holder keeps the invariant if it does at its own place.
LEMMA HolderKeeps ==
  ASSUME IInv, NEW l \in Launchers, la[l].pc \in Locked,
         NEW q \in Launcher, la' = [la EXCEPT ![l] = q],
         lock' = IF q.pc \in Locked THEN l ELSE NoOne,
         SharedOK', LauncherOK(q)', \A t \in Tokens : ServerOK(t)',
         \A t \in Tokens : srv'[t] = "booting" =>
           t \in forsaken' \/ (q.pc \in Starting /\ q.token = t),
         \A t \in Tokens : Running(t)' /\ t \notin (forsaken \union missed)' =>
           state' = t \/ (q.pc \in Starting /\ q.token = t)
  PROVE  IInv'
<1>1. /\ la \in [Launchers -> Launcher] /\ lock = l
      /\ \A k \in Launchers : k # l => la[k].pc \in Unlocked /\ la[k].pc \notin Locked
  BY HolderAlone, TypeByPart DEF IInv
<1>2. \A k \in Launchers : la'[k] = IF k = l THEN q ELSE la[k]
  BY <1>1
<1>3. lock' \in Launchers \union {NoOne} /\ la' \in [Launchers -> Launcher]
  BY <1>1
<1>4. \A k \in Launchers : la'[k].pc \in Locked <=> lock' = k
  BY <1>1, <1>2, LauncherAssumption DEF LauncherAssumption
<1>5. TypeOK'
  BY <1>3, <1>4 DEF TypeOK, SharedOK, Launcher
<1>6. ASSUME NEW k \in Launchers, k # l PROVE LauncherOK(la[k])'
  <2>1. la'[k] = la[k] /\ la[k].pc \in Unlocked /\ LauncherOK(la[k])
    BY <1>1, <1>2, <1>6 DEF IInv
  <2> QED
    BY <2>1 DEF LauncherOK, Unlocked, Starting, Asking
<1>7. \A k \in Launchers : LauncherOK(la[k])'
  BY <1>2, <1>6
<1>8. \A t \in Tokens : q.pc \in Starting /\ q.token = t => BeingStarted(t)'
  BY <1>2 DEF BeingStarted
<1>9. BootingIsWatched' /\ Manageable'
  BY <1>8 DEF BootingIsWatched, Manageable
<1> QED
  BY <1>5, <1>7, <1>9 DEF IInv

\* A launcher at another pc.
LEMMA AtAnotherPc ==
  ASSUME IInv, NEW l \in Launchers, NEW pc \in Locked \union Unlocked, Goto(l, pc)
  PROVE  \E q \in Launcher : /\ la' = [la EXCEPT ![l] = q]
                             /\ q.pc = pc /\ q.job = la[l].job /\ q.token = la[l].token
<1> DEFINE q == [la[l] EXCEPT !.pc = pc]
<1>1. la \in [Launchers -> Launcher] /\ la[l] \in Launcher
  BY TypeByPart DEF IInv
<1>2. q \in Launcher /\ q.pc = pc /\ q.job = la[l].job /\ q.token = la[l].token
  BY <1>1 DEF Launcher
<1>3. la' = [la EXCEPT ![l] = q]
  BY <1>1 DEF Goto, Launcher
<1> QED
  BY <1>2, <1>3

Outcomes == {"started", "foreign", "stopped", "rejected", "failed"}

\* start() or stop() ends.
LEMMA EndKeeps ==
  ASSUME IInv, NEW l \in Launchers, la[l].pc \in Locked, NEW outcome \in Outcomes,
         End(l, outcome), SharedOK', \A t \in Tokens : ServerOK(t)',
         \A t \in Tokens : srv'[t] = "booting" => t \in forsaken',
         \A t \in Tokens : Running(t)' /\ t \notin (forsaken \union missed)' => state' = t
  PROVE  IInv'
<1>1. la \in [Launchers -> Launcher] /\ la[l] \in Launcher
  BY TypeByPart DEF IInv
<1>2. PICK q \in Launcher : la' = [la EXCEPT ![l] = q] /\ q.pc = outcome
  <2> DEFINE q == [la[l] EXCEPT !.pc = outcome, !.token = NoOne, !.saved = FALSE]
  <2>1. outcome \in Locked \union Unlocked
    BY DEF Outcomes, Unlocked
  <2>2. q \in Launcher /\ q.pc = outcome
    BY <1>1, <2>1 DEF Launcher
  <2>3. /\ DOMAIN la' = Launchers
        /\ \A k \in Launchers : la'[k] = IF k = l THEN q ELSE la[k]
    BY <1>1 DEF End, Launcher
  <2>4. la' = [la EXCEPT ![l] = q]
    BY <1>1, <2>3 DEF End
  <2> QED
    BY <2>2, <2>4
<1>3. q.pc \notin Locked /\ q.pc \in Outcomes
  BY <1>2 DEF Locked, Starting, Outcomes
<1>4. LauncherOK(q)'
  BY <1>3 DEF LauncherOK, Outcomes, Starting, Asking
<1>5. lock' = NoOne
  BY DEF End
<1> QED
  BY <1>2, <1>3, <1>4, <1>5, HolderKeeps

\* It ends with everything as it was: a server that was being started, if it
\* runs and was not given up, is recorded and not booting any more.
LEMMA QuietEndKeeps ==
  ASSUME IInv, NEW l \in Launchers, la[l].pc \in Locked, NEW outcome \in Outcomes,
         End(l, outcome), UNCHANGED <<state, stop, port, serverVars, forsaken, missed>>,
         la[l].pc \in Starting => la[l].pc = "poll" /\ srv[la[l].token] # "booting"
  PROVE  IInv'
<1>1. UNCHANGED <<state, stop, port, srv, sync, watcher, forsaken, missed>>
  BY DEF serverVars
<1>2. SharedOK' /\ \A t \in Tokens : ServerOK(t)'
  BY <1>1, TypeByPart DEF IInv, SharedOK, ServerOK
<1>3. \A t \in Tokens :
        BeingStarted(t) => la[l].pc = "poll" /\ la[l].token = t /\ srv[t] # "booting"
  BY HolderAlone
<1>4. la[l].pc = "poll" => state = la[l].token
  BY DEF IInv, LauncherOK
<1>5. \A t \in Tokens : srv'[t] = "booting" => t \in forsaken'
  BY <1>1, <1>3 DEF IInv, BootingIsWatched
<1>6. \A t \in Tokens : Running(t)' /\ t \notin (forsaken \union missed)' => state' = t
  BY <1>1, <1>3, <1>4 DEF IInv, Manageable, Running
<1> QED
  BY <1>2, <1>5, <1>6, EndKeeps

\* It goes on with everything as it was.
LEMMA QuietGotoKeeps ==
  ASSUME IInv, NEW l \in Launchers, la[l].pc \in Locked, NEW pc \in Locked,
         Goto(l, pc), UNCHANGED <<lock, state, stop, port, serverVars, forsaken, missed>>,
         \A q \in Launcher :
           q.pc = pc /\ q.job = la[l].job /\ q.token = la[l].token => LauncherOK(q),
         la[l].pc \in Starting => pc \in Starting
  PROVE  IInv'
<1>1. UNCHANGED <<state, stop, port, srv, sync, watcher, forsaken, missed>>
  BY DEF serverVars
<1>2. PICK q \in Launcher : /\ la' = [la EXCEPT ![l] = q]
                            /\ q.pc = pc /\ q.job = la[l].job /\ q.token = la[l].token
  BY AtAnotherPc
<1>3. LauncherOK(q)
  BY <1>2
<1>4. LauncherOK(q)'
  BY <1>1, <1>3 DEF LauncherOK, Running, Quiet
<1>5. SharedOK' /\ \A t \in Tokens : ServerOK(t)'
  BY <1>1, TypeByPart DEF IInv, SharedOK, ServerOK
<1>6. \A t \in Tokens : BeingStarted(t) => q.pc \in Starting /\ q.token = t
  BY <1>2, HolderAlone
<1>7. \A t \in Tokens : srv'[t] = "booting" =>
        t \in forsaken' \/ (q.pc \in Starting /\ q.token = t)
  BY <1>1, <1>6 DEF IInv, BootingIsWatched
<1>8. \A t \in Tokens : Running(t)' /\ t \notin (forsaken \union missed)' =>
        state' = t \/ (q.pc \in Starting /\ q.token = t)
  BY <1>1, <1>6 DEF IInv, Manageable, Running
<1>9. lock' = l
  BY HolderAlone
<1> QED
  BY <1>2, <1>4, <1>5, <1>7, <1>8, <1>9, HolderKeeps

\* What answers is serving or draining and has the port.
LEMMA WhoAnswers ==
  ASSUME NEW h \in Health, h \in Tokens
  PROVE  port = h /\ srv[h] \in {"serving", "draining"}
BY LauncherAssumption DEF Health, Answering, LauncherAssumption

\* With nobody starting, a server that runs and was not given up holds the port.
LEMMA RunnersListen ==
  ASSUME IInv, NEW l \in Launchers, la[l].pc \in Locked \ Starting
  PROVE  \A t \in Tokens : Running(t) => t \in forsaken \union Hidden
<1>1. \A t \in Tokens : ~BeingStarted(t)
  BY HolderAlone
<1>2. \A t \in Tokens : ServerOK(t)
  BY DEF IInv
<1> QED
  BY <1>1, <1>2 DEF IInv, BootingIsWatched, Running, ServerOK, Hidden

\* What a launcher at each place of start() and stop() knows.
LEMMA HolderKnows ==
  ASSUME IInv, NEW l \in Launchers
  PROVE  LauncherOK(la[l]) /\ la[l] \in Launcher
BY TypeByPart DEF IInv

\* start(), up to Popen
LEMMA StartKeeps ==
  ASSUME IInv, NEW l \in Launchers, StartHealth(l) \/ StartProbe(l) PROVE IInv'
<1>0. LauncherOK(la[l])
  BY HolderKnows
<1>1. CASE StartHealth(l)
  <2>1. la[l].pc = "start" /\ UNCHANGED <<state, stop, port, serverVars, forsaken, missed>>
    BY <1>1 DEF StartHealth
  <2>2. la[l].pc \in Locked \ Starting
    BY <2>1 DEF Locked, Starting
  <2>3. CASE Goto(l, "probe") /\ UNCHANGED lock
    <3>1. \A q \in Launcher : q.pc = "probe" /\ q.job = la[l].job => LauncherOK(q)
      BY <1>0, <2>1 DEF LauncherOK, Starting, Asking
    <3>2. "probe" \in Locked
      BY DEF Locked
    <3> QED
      BY <2>1, <2>2, <2>3, <3>1, <3>2, QuietGotoKeeps
  <2>4. CASE End(l, "started") \/ End(l, "foreign")
    BY <2>1, <2>2, <2>4, QuietEndKeeps DEF Outcomes
  <2> QED
    BY <1>1, <2>3, <2>4 DEF StartHealth
<1>2. CASE StartProbe(l)
  <2>1. la[l].pc = "probe" /\ UNCHANGED <<state, stop, port, serverVars, forsaken>>
    BY <1>2 DEF StartProbe
  <2>2. la[l].pc \in Locked \ Starting
    BY <2>1 DEF Locked, Starting
  <2>3. ASSUME Goto(l, "spawn"), missed' = missed \union Hidden, UNCHANGED lock
        PROVE  IInv'
    <3>1. PICK q \in Launcher : /\ la' = [la EXCEPT ![l] = q]
                                /\ q.pc = "spawn" /\ q.job = la[l].job
      BY <2>3, AtAnotherPc DEF Locked
    <3>2. UNCHANGED <<state, stop, port, srv, sync, watcher, forsaken>>
      BY <2>1 DEF serverVars
    <3>3. \A t \in Tokens : Running(t)' => t \in (forsaken \union missed)'
      BY <2>2, <2>3, <3>2, RunnersListen DEF Running
    <3>4. LauncherOK(q)'
      BY <1>0, <2>1, <3>1, <3>3 DEF LauncherOK, Starting, Asking
    <3>5. SharedOK' /\ \A t \in Tokens : ServerOK(t)'
      BY <2>3, <3>2, TypeByPart DEF SharedOK, ServerOK, IInv, Hidden
    <3>6. \A t \in Tokens : srv'[t] = "booting" => t \in forsaken'
      BY <2>2, <3>2, HolderAlone DEF IInv, BootingIsWatched
    <3>7. q.pc \in Locked /\ lock' = l
      BY <2>2, <2>3, <3>1, HolderAlone DEF Locked
    <3> QED
      BY <2>2, <3>1, <3>3, <3>4, <3>5, <3>6, <3>7, HolderKeeps
  <2>4. CASE End(l, "failed") /\ UNCHANGED missed
    BY <2>1, <2>2, <2>4, QuietEndKeeps DEF Outcomes
  <2> QED
    BY <1>2, <2>3, <2>4 DEF StartProbe
<1> QED
  BY <1>1, <1>2

\* A server that is killed leaves the port and the others alone.
LEMMA KillLeaves ==
  ASSUME IInv, NEW t \in Tokens, KillServer(t)
  PROVE  /\ port' \in Tokens \union {NoOne, Other, External}
         /\ srv' \in [Tokens -> {"dead", "booting", "serving", "draining", "ended",
                                 "cleaned", "exiting"}]
         /\ sync' \in [Tokens -> BOOLEAN]
         /\ watcher' \in [Tokens -> {"watching", "normal", "force", "refused",
                                     "closing", "gone"}]
         /\ srv'[t] = "dead"
         /\ missed' = missed \ {t} /\ missed' \subseteq Tokens
         /\ \A u \in Tokens \ {t} : srv'[u] = srv[u] /\ watcher'[u] = watcher[u]
         /\ \A u \in Tokens : ServerOK(u)'
<1>1. SharedOK /\ \A u \in Tokens : ServerOK(u)
  BY TypeByPart DEF IInv
<1>2. /\ srv'[t] = "dead" /\ watcher'[t] = "watching"
      /\ \A u \in Tokens \ {t} : srv'[u] = srv[u] /\ watcher'[u] = watcher[u]
  BY <1>1 DEF KillServer, SharedOK
<1>3. ASSUME NEW u \in Tokens PROVE ServerOK(u)'
  <2>1. CASE u = t
    BY <1>2, <2>1, LauncherAssumption DEF ServerOK, KillServer, LauncherAssumption
  <2>2. CASE u # t
    <3>1. port' = u <=> port = u
      BY <2>2, LauncherAssumption DEF KillServer, LauncherAssumption
    <3> QED
      BY <1>1, <1>2, <2>2, <3>1 DEF ServerOK, KillServer
  <2> QED
    BY <2>1, <2>2
<1> QED
  BY <1>1, <1>2, <1>3 DEF KillServer, SharedOK

\* A new process is the only one that runs and was not given up.
LEMMA SpawnKeeps == ASSUME IInv, NEW l \in Launchers, Spawn(l) PROVE IInv'
<1>0. /\ la[l].pc = "spawn" /\ la[l].pc \in Locked \ Starting /\ lock = l
      /\ LauncherOK(la[l]) /\ la[l] \in Launcher /\ la \in [Launchers -> Launcher]
      /\ SharedOK /\ \A u \in Tokens : ServerOK(u)
  BY HolderAlone, HolderKnows, TypeByPart DEF Spawn, IInv, Locked, Starting
<1>1. CASE End(l, "failed") /\ UNCHANGED <<stop, srv, forsaken>>
  <2>1. UNCHANGED <<state, stop, port, serverVars, forsaken, missed>>
    BY <1>1 DEF Spawn, serverVars
  <2> QED
    BY <1>0, <1>1, <2>1, QuietEndKeeps DEF Outcomes
<1>2. ASSUME NEW t \in Tokens, NEW next \in {"save", "kill"}, Fresh(t),
             stop' = [stop EXCEPT ![t] = "none"],
             srv' = [srv EXCEPT ![t] = "booting"],
             la' = [la EXCEPT ![l].pc = next, ![l].token = t],
             forsaken' = forsaken \ {t},
             UNCHANGED <<lock, state, port, sync, watcher, missed>>
      PROVE  IInv'
  <2>1. PICK q \in Launcher : /\ la' = [la EXCEPT ![l] = q]
                              /\ q.pc = next /\ q.job = la[l].job /\ q.token = t
    <3> DEFINE q == [la[l] EXCEPT !.pc = next, !.token = t]
    <3>1. next \in Locked \union Unlocked
      BY DEF Locked, Starting
    <3>2. q \in Launcher /\ q.pc = next /\ q.job = la[l].job /\ q.token = t
      BY <1>0, <3>1 DEF Launcher
    <3>3. /\ DOMAIN la' = Launchers
          /\ \A k \in Launchers : la'[k] = IF k = l THEN q ELSE la[k]
      BY <1>0, <1>2 DEF Launcher
    <3>4. la' = [la EXCEPT ![l] = q]
      BY <1>0, <1>2, <3>3
    <3> QED
      BY <3>2, <3>4
  <2>2. srv[t] = "dead" /\ \A u \in Tokens : srv'[u] = IF u = t THEN "booting" ELSE srv[u]
    BY <1>0, <1>2 DEF Fresh, SharedOK
  <2>3. \A u \in Tokens : Running(u) => u \in forsaken \union missed
    BY <1>0 DEF LauncherOK, Starting
  <2>4. \A u \in Tokens : Running(u)' /\ u \notin (forsaken \union missed)' => u = t
    BY <1>2, <2>2, <2>3 DEF Running
  <2>5. SharedOK'
    BY <1>0, <1>2 DEF SharedOK
  <2>6. \A u \in Tokens : ServerOK(u)'
    BY <1>0, <1>2, <2>2 DEF ServerOK
  <2>7. q.pc \in Starting /\ q.pc \in Locked
    BY <2>1 DEF Starting, Locked
  <2>8. LauncherOK(q)'
    BY <1>0, <2>1, <2>4, <2>7 DEF LauncherOK, Asking
  <2>9. \A u \in Tokens : srv'[u] = "booting" => u \in forsaken' \/ u = t
    BY <2>4, <2>6 DEF Running, ServerOK
  <2> QED
    BY <1>0, <1>2, <2>1, <2>4, <2>5, <2>6, <2>7, <2>8, <2>9, HolderKeeps
<1>3. CASE /\ UNCHANGED <<lock, state, port, sync, watcher, missed>>
           /\ \E t \in Tokens, next \in {"save", "kill"} :
                /\ Fresh(t)
                /\ stop' = [stop EXCEPT ![t] = "none"]
                /\ srv' = [srv EXCEPT ![t] = "booting"]
                /\ la' = [la EXCEPT ![l].pc = next, ![l].token = t]
                /\ forsaken' = forsaken \ {t}
  BY <1>2, <1>3
<1> QED
  BY <1>1, <1>3 DEF Spawn

\* The state file names the process that is being started.
LEMMA SaveKeeps ==
  ASSUME IInv, NEW l \in Launchers, SaveState(l) \/ Revoke(l) PROVE IInv'
<1>0. /\ LauncherOK(la[l]) /\ la[l] \in Launcher /\ la \in [Launchers -> Launcher]
      /\ la[l].pc \in Starting /\ la[l].pc \in Locked /\ la[l].token \in Tokens /\ lock = l
      /\ SharedOK /\ \A t \in Tokens : ServerOK(t)
  <2>1. la[l].pc \in Starting /\ la[l].pc \in Locked
    BY DEF SaveState, Revoke, Starting, Locked
  <2> QED
    BY <2>1, HolderAlone, HolderKnows, TypeByPart DEF IInv, LauncherOK
<1>1. \A t \in Tokens : Running(t) /\ t \notin forsaken \union missed => t = la[l].token
  BY <1>0 DEF LauncherOK
<1>2. ASSUME NEW q \in Launcher, la' = [la EXCEPT ![l] = q], lock' = l,
             q.pc \in {"poll", "revoke", "kill"}, q.token = la[l].token,
             q.job = la[l].job, q.pc = "poll" => state' = q.token,
             SharedOK', UNCHANGED <<port, srv, sync, watcher, forsaken, missed>>
      PROVE  IInv'
  <2>1. q.pc \in Starting /\ q.pc \in Locked
    BY <1>2 DEF Starting, Locked
  <2>2. \A t \in Tokens : Running(t)' /\ t \notin (forsaken \union missed)' => t = q.token
    BY <1>1, <1>2 DEF Running
  <2>3. LauncherOK(q)'
    BY <1>0, <1>2, <2>1, <2>2 DEF LauncherOK, Asking
  <2>4. \A t \in Tokens : ServerOK(t)'
    BY <1>0, <1>2 DEF ServerOK
  <2>5. \A t \in Tokens : srv'[t] = "booting" => t \in forsaken' \/ t = q.token
    BY <2>2, <2>4 DEF Running, ServerOK
  <2> QED
    BY <1>0, <1>2, <2>1, <2>2, <2>3, <2>4, <2>5, HolderKeeps
<1>3. CASE SaveState(l)
  <2>1. CASE state' = la[l].token /\ la' = [la EXCEPT ![l].pc = "poll", ![l].saved = TRUE]
    <3> DEFINE q == [la[l] EXCEPT !.pc = "poll", !.saved = TRUE]
    <3>1. "poll" \in Locked
      BY DEF Locked, Starting
    <3>2. /\ q \in Launcher /\ q.pc = "poll" /\ q.job = la[l].job
          /\ q.token = la[l].token
      BY <1>0, <3>1 DEF Launcher
    <3>3. /\ DOMAIN la' = Launchers
          /\ \A k \in Launchers : la'[k] = IF k = l THEN q ELSE la[k]
      BY <1>0, <2>1 DEF Launcher
    <3>4. la' = [la EXCEPT ![l] = q]
      BY <1>0, <2>1, <3>3
    <3>5. SharedOK' /\ UNCHANGED <<lock, port, srv, sync, watcher, forsaken, missed>>
      BY <1>0, <1>3, <2>1 DEF SaveState, SharedOK, serverVars
    <3> HIDE DEF q
    <3> QED
      BY <1>0, <1>2, <2>1, <3>2, <3>4, <3>5
  <2>2. CASE UNCHANGED state /\ Goto(l, "revoke")
    <3>1. "revoke" \in Locked
      BY DEF Locked, Starting
    <3>2. PICK q \in Launcher : /\ la' = [la EXCEPT ![l] = q]
                                /\ q.pc = "revoke" /\ q.job = la[l].job /\ q.token = la[l].token
      BY <2>2, <3>1, AtAnotherPc
    <3>3. SharedOK' /\ UNCHANGED <<lock, port, srv, sync, watcher, forsaken, missed>>
      BY <1>0, <1>3, <2>2 DEF SaveState, SharedOK, serverVars
    <3> QED
      BY <1>0, <1>2, <3>2, <3>3
  <2> QED
    BY <1>3, <2>1, <2>2 DEF SaveState
<1>4. CASE Revoke(l)
  <2>1. "kill" \in Locked
    BY DEF Locked, Starting
  <2>2. PICK q \in Launcher : /\ la' = [la EXCEPT ![l] = q]
                              /\ q.pc = "kill" /\ q.job = la[l].job /\ q.token = la[l].token
    BY <1>4, <2>1, AtAnotherPc DEF Revoke
  <2>3. SharedOK' /\ UNCHANGED <<lock, port, srv, sync, watcher, forsaken, missed>>
    BY <1>0, <1>4 DEF Revoke, SharedOK, serverVars
  <2> QED
    BY <1>0, <1>2, <2>2, <2>3
<1> QED
  BY <1>3, <1>4

\* start() ends when the process is gone, well, or given up.
LEMMA PollKeeps == ASSUME IInv, NEW l \in Launchers, PollStart(l) \/ Kill(l) PROVE IInv'
<1> DEFINE t == la[l].token
<1>0. /\ LauncherOK(la[l]) /\ la[l] \in Launcher
      /\ la[l].pc \in Starting /\ la[l].pc \in Locked /\ t \in Tokens /\ lock = l
      /\ SharedOK /\ \A u \in Tokens : ServerOK(u)
  <2>1. la[l].pc \in Starting /\ la[l].pc \in Locked
    BY DEF PollStart, Kill, Starting, Locked
  <2> QED
    BY <2>1, HolderAlone, HolderKnows, TypeByPart DEF IInv, LauncherOK
<1>1. \A u \in Tokens : Running(u) /\ u \notin forsaken \union missed => u = t
  BY <1>0 DEF LauncherOK
<1>2. CASE PollStart(l)
  <2>0. la[l].pc = "poll" /\ state = t /\ UNCHANGED <<stop, port, serverVars, forsaken, missed>>
    BY <1>0, <1>2 DEF PollStart, LauncherOK
  <2>1. CASE srv[t] = "dead" /\ RemoveState(t) /\ End(l, "failed")
    <3>1. UNCHANGED <<stop, port, srv, sync, watcher, forsaken, missed>>
      BY <2>0 DEF serverVars
    <3>2. \A u \in Tokens : ~(Running(u)' /\ u \notin (forsaken \union missed)')
      BY <1>1, <2>1, <3>1 DEF Running
    <3>3. SharedOK' /\ \A u \in Tokens : ServerOK(u)'
      BY <1>0, <2>1, <3>1 DEF SharedOK, ServerOK, RemoveState
    <3> QED
      BY <1>0, <2>1, <3>2, <3>3, EndKeeps DEF Running, Outcomes, ServerOK
  <2>2. CASE t \in Health /\ UNCHANGED state /\ End(l, "started")
    <3>1. srv[t] # "booting"
      BY <1>0, <2>2, WhoAnswers
    <3> QED
      BY <1>0, <2>0, <2>2, <3>1, QuietEndKeeps DEF Outcomes
  <2>3. CASE UNCHANGED <<lock, state>> /\ Goto(l, "revoke")
    <3>1. \A q \in Launcher : q.pc = "revoke" /\ q.job = la[l].job /\ q.token = t => LauncherOK(q)
      BY <1>0, <1>1 DEF LauncherOK, Starting, Asking
    <3>2. "revoke" \in Locked /\ "revoke" \in Starting
      BY DEF Locked, Starting
    <3> QED
      BY <1>0, <2>0, <2>3, <3>1, <3>2, QuietGotoKeeps
  <2> QED
    BY <1>2, <2>1, <2>2, <2>3 DEF PollStart
<1>3. CASE Kill(l)
  <2>1. CASE /\ KillServer(t)
             /\ stop' = [stop EXCEPT ![t] = "none"]
             /\ IF la[l].saved THEN RemoveState(t) ELSE UNCHANGED state
             /\ UNCHANGED forsaken
    <3>1. \A u \in Tokens : ~(Running(u)' /\ u \notin (forsaken \union missed)')
      BY <1>0, <1>1, <2>1, KillLeaves DEF Running
    <3>2. SharedOK' /\ \A u \in Tokens : ServerOK(u)'
      BY <1>0, <2>1, KillLeaves DEF SharedOK, RemoveState
    <3> QED
      BY <1>0, <1>3, <3>1, <3>2, EndKeeps DEF Running, Outcomes, Kill, ServerOK
  <2>2. CASE /\ forsaken' = forsaken \union {t}
             /\ UNCHANGED <<stop, state, port, serverVars, missed>>
    <3>0. UNCHANGED <<stop, state, port, srv, sync, watcher, missed>>
      BY <2>2 DEF serverVars
    <3>1. \A u \in Tokens : ~(Running(u)' /\ u \notin (forsaken \union missed)')
      BY <1>1, <2>2, <3>0 DEF Running
    <3>2. SharedOK' /\ \A u \in Tokens : ServerOK(u)'
      BY <1>0, <2>2, <3>0 DEF SharedOK, ServerOK
    <3> QED
      BY <1>0, <1>3, <3>1, <3>2, EndKeeps DEF Running, Outcomes, Kill, ServerOK
  <2> QED
    BY <1>3, <2>1, <2>2 DEF Kill
<1> QED
  BY <1>2, <1>3

\* stop(), up to the request
LEMMA StopKeeps == ASSUME IInv, NEW l \in Launchers, StopHealth(l) \/ StopProbe(l) PROVE IInv'
<1>0. LauncherOK(la[l]) /\ la[l] \in Launcher /\ la \in [Launchers -> Launcher] /\ SharedOK
  BY HolderKnows, TypeByPart DEF IInv
<1>1. CASE StopHealth(l)
  <2>1. la[l].pc = "stop" /\ UNCHANGED <<state, stop, port, serverVars, forsaken, missed>>
    BY <1>1 DEF StopHealth
  <2>2. la[l].pc \in Locked \ Starting
    BY <2>1 DEF Locked, Starting
  <2>0. UNCHANGED <<state, stop, port, srv, sync, watcher, forsaken, missed>>
    BY <2>1 DEF serverVars
  <2>7. \A t \in Tokens : /\ srv'[t] = "booting" => t \in forsaken'
                          /\ Running(t)' /\ t \notin (forsaken \union missed)' => state' = t
    BY <2>0, <2>2, HolderAlone DEF IInv, BootingIsWatched, Manageable, Running
  <2>8. SharedOK' /\ \A t \in Tokens : ServerOK(t)'
    BY <1>0, <2>0 DEF SharedOK, ServerOK, IInv
  <2>9. ASSUME NEW pc \in {"unanswered", "request"},
               NEW token \in Tokens \union {NoOne, Damaged}, UNCHANGED lock,
               la' = [la EXCEPT ![l].pc = pc, ![l].token = token],
               pc = "unanswered" => token \in {state, NoOne},
               pc = "request" =>
                 token \in Tokens /\ token = state /\ srv[token] # "booting"
        PROVE  IInv'
    <3>1. PICK q \in Launcher : la' = [la EXCEPT ![l] = q] /\ q.pc = pc /\ q.token = token
      <4> DEFINE q == [la[l] EXCEPT !.pc = pc, !.token = token]
      <4>1. pc \in Locked
        BY DEF Locked
      <4>2. q \in Launcher /\ q.pc = pc /\ q.token = token
        BY <1>0, <4>1 DEF Launcher
      <4>3. /\ DOMAIN la' = Launchers
            /\ \A k \in Launchers : la'[k] = IF k = l THEN q ELSE la[k]
        BY <1>0, <2>9 DEF Launcher
      <4>4. la' = [la EXCEPT ![l] = q]
        BY <1>0, <2>9, <4>3
      <4> QED
        BY <4>2, <4>4
    <3>2. LauncherOK(q)'
      BY <2>0, <2>9, <3>1 DEF LauncherOK, Starting, Asking
    <3>3. q.pc \in Locked /\ lock' = l
      BY <2>2, <2>9, <3>1, HolderAlone DEF Locked
    <3> QED
      BY <2>2, <2>7, <2>8, <3>1, <3>2, <3>3, HolderKeeps
  <2>3. ASSUME NEW read \in ReadState, UNCHANGED lock,
               la' = [la EXCEPT ![l].pc = "unanswered", ![l].token = read]
        PROVE  IInv'
    BY <1>0, <2>3, <2>9 DEF ReadState, SharedOK
  <2>4. ASSUME NEW h \in Health, h \in Tokens, NEW read \in ReadState, h = read,
               UNCHANGED lock,
               la' = [la EXCEPT ![l].pc = "request", ![l].token = h]
        PROVE  IInv'
    <3>1. srv[h] # "booting"
      BY <2>4, WhoAnswers
    <3>2. h = state
      BY <2>4, LauncherAssumption DEF ReadState, LauncherAssumption
    <3> QED
      BY <2>4, <2>9, <3>1, <3>2
  <2>5. CASE End(l, "failed")
    BY <2>1, <2>2, <2>5, QuietEndKeeps DEF Outcomes
  <2>6. PICK h \in Health, read \in ReadState :
          CASE h = NoOne ->
                 la' = [la EXCEPT ![l].pc = "unanswered", ![l].token = read]
                 /\ UNCHANGED lock
            [] h \in Tokens /\ h = read /\ (sync[h] => la[l].force) ->
                 la' = [la EXCEPT ![l].pc = "request", ![l].token = h] /\ UNCHANGED lock
            [] OTHER -> End(l, "failed")
    BY <1>1 DEF StopHealth
  <2> QED
    BY <2>3, <2>4, <2>5, <2>6
<1>2. CASE StopProbe(l)
  <2>1. la[l].pc = "unanswered" /\ UNCHANGED <<state, stop, port, serverVars, forsaken, missed>>
    BY <1>2 DEF StopProbe
  <2>2. la[l].pc \in Locked \ Starting
    BY <2>1 DEF Locked, Starting
  <2>3. CASE Goto(l, "inspect") /\ UNCHANGED lock
    <3>1. \A q \in Launcher : q.pc = "inspect" /\ q.token = la[l].token => LauncherOK(q)
      BY <1>0, <2>1 DEF LauncherOK, Starting, Asking
    <3>2. "inspect" \in Locked
      BY DEF Locked
    <3> QED
      BY <2>1, <2>2, <2>3, <3>1, <3>2, QuietGotoKeeps
  <2>4. CASE End(l, "failed")
    BY <2>1, <2>2, <2>4, QuietEndKeeps DEF Outcomes
  <2> QED
    BY <1>2, <2>3, <2>4 DEF StopProbe
<1> QED
  BY <1>1, <1>2

\* The kinds of request that stop() writes.
LEMMA RequestTyped == \A l \in Launchers : RequestKind(l) \in {"normal", "force"}
BY DEF RequestKind

\* Outside of a start() every server that runs and was not given up is
\* recorded, and none is booting.
LEMMA AllRecorded ==
  ASSUME IInv, NEW l \in Launchers, la[l].pc \in Locked \ Starting
  PROVE  \A t \in Tokens : t \notin forsaken \union missed =>
           srv[t] # "booting" /\ (Running(t) => state = t)
<1>1. \A t \in Tokens : ~BeingStarted(t)
  BY HolderAlone
<1> QED
  BY <1>1 DEF IInv, BootingIsWatched, Manageable

\* A recorded process is asked, forgotten when it is gone, or left alone.
LEMMA InspectKeeps == ASSUME IInv, NEW l \in Launchers, Inspect(l) PROVE IInv'
<1> DEFINE read == la[l].token
<1>0. /\ la[l].pc \in Locked \ Starting
      /\ SharedOK /\ \A t \in Tokens : ServerOK(t)
      /\ UNCHANGED <<port, srv, sync, watcher, forsaken, missed>>
      /\ read \in {state, NoOne}
  BY TypeByPart, HolderKnows DEF Inspect, IInv, Locked, Starting, serverVars, LauncherOK
<1>1. \A t \in Tokens : ServerOK(t)'
  BY <1>0 DEF ServerOK
<1>2. \A t \in Tokens : t \notin forsaken \union missed =>
        srv[t] # "booting" /\ (Running(t) => state = t)
  BY <1>0, AllRecorded
<1>3. ASSUME state' = state, stop' \in [Tokens -> {"none", "normal", "force"}],
             NEW outcome \in Outcomes, End(l, outcome)
      PROVE  IInv'
  <2>1. SharedOK'
    BY <1>0, <1>3 DEF SharedOK
  <2>2. \A t \in Tokens : /\ srv'[t] = "booting" => t \in forsaken'
                          /\ Running(t)' /\ t \notin (forsaken \union missed)' => state' = t
    BY <1>0, <1>1, <1>2, <1>3 DEF Running, ServerOK
  <2> QED
    BY <1>0, <1>1, <1>3, <2>1, <2>2, EndKeeps
<1>4. CASE /\ read \in Tokens /\ srv[read] # "dead"
           /\ stop' \in {stop, [stop EXCEPT ![read] = RequestKind(l)]}
           /\ End(l, "failed")
           /\ UNCHANGED state
  <2>1. stop' \in [Tokens -> {"none", "normal", "force"}]
    BY <1>0, <1>4, RequestTyped DEF SharedOK
  <2> QED
    BY <1>3, <1>4, <2>1 DEF Outcomes
<1>5. CASE /\ read \in Tokens /\ srv[read] = "dead"
           /\ stop' = [stop EXCEPT ![read] = "none"]
           /\ RemoveState(read)
           /\ End(l, "stopped")
  <2>1. \A t \in Tokens : ~(Running(t)' /\ t \notin (forsaken \union missed)')
    BY <1>0, <1>2, <1>5, LauncherAssumption DEF Running, LauncherAssumption
  <2>2. SharedOK'
    BY <1>0, <1>5 DEF SharedOK, RemoveState
  <2> QED
    BY <1>0, <1>1, <1>5, <2>1, <2>2, EndKeeps DEF Running, Outcomes, ServerOK
<1>6. CASE read = NoOne /\ End(l, "stopped") /\ UNCHANGED <<state, stop>>
  BY <1>0, <1>3, <1>6 DEF SharedOK, Outcomes
<1>7. CASE read # NoOne /\ End(l, "failed") /\ UNCHANGED <<state, stop>>
  BY <1>0, <1>3, <1>7 DEF SharedOK, Outcomes
<1> QED
  BY <1>4, <1>5, <1>6, <1>7 DEF Inspect

\* The request that is waited for.
LEMMA RequestKeeps == ASSUME IInv, NEW l \in Launchers, WriteRequest(l) PROVE IInv'
<1>0. /\ la[l].pc \in Locked \ Starting /\ lock = l
      /\ SharedOK /\ \A t \in Tokens : ServerOK(t)
      /\ la[l].token \in Tokens /\ state = la[l].token /\ srv[la[l].token] # "booting"
  <2>1. la[l].pc = "request" /\ la[l].pc \in Locked \ Starting
    BY DEF WriteRequest, Locked, Starting
  <2> QED
    BY <2>1, HolderAlone, HolderKnows, TypeByPart DEF IInv, LauncherOK, Asking
<1>1. UNCHANGED <<state, port, srv, sync, watcher, forsaken, missed>>
  BY DEF WriteRequest, serverVars
<1>2. CASE End(l, "failed") /\ UNCHANGED stop
  BY <1>0, <1>1, <1>2, QuietEndKeeps DEF Outcomes, serverVars
<1>3. CASE /\ stop' = [stop EXCEPT ![la[l].token] = RequestKind(l)]
           /\ Goto(l, "waiting")
           /\ UNCHANGED lock
  <2>1. "waiting" \in Locked
    BY DEF Locked
  <2>2. PICK q \in Launcher : /\ la' = [la EXCEPT ![l] = q]
                              /\ q.pc = "waiting" /\ q.token = la[l].token
    BY <1>3, <2>1, AtAnotherPc
  <2>3. SharedOK' /\ \A t \in Tokens : ServerOK(t)'
    BY <1>0, <1>1, <1>3, RequestTyped DEF SharedOK, ServerOK
  <2>4. stop'[q.token] # "none"
    BY <1>0, <1>3, <2>2, RequestTyped DEF SharedOK
  <2>5. LauncherOK(q)'
    BY <1>0, <1>1, <2>2, <2>4 DEF LauncherOK, Starting, Asking
  <2>6. \A t \in Tokens : t \notin forsaken \union missed =>
          srv[t] # "booting" /\ (Running(t) => state = t)
    BY <1>0, AllRecorded
  <2>7. \A t \in Tokens : /\ srv'[t] = "booting" => t \in forsaken'
                          /\ Running(t)' /\ t \notin (forsaken \union missed)' => state' = t
    BY <1>1, <2>3, <2>6 DEF Running, ServerOK
  <2> QED
    BY <1>0, <1>3, <2>1, <2>2, <2>3, <2>5, <2>7, HolderKeeps
<1> QED
  BY <1>2, <1>3 DEF WriteRequest

\* stop() ends when the port is closed, when the request was refused, or when
\* the time is up.
LEMMA AwaitKeeps ==
  ASSUME IInv, NEW l \in Launchers, AwaitStop(l) \/ ConfirmRefusal(l) PROVE IInv'
<1> DEFINE t == la[l].token
<1>0. /\ la[l].pc \in Locked \ Starting /\ lock = l
      /\ SharedOK /\ \A u \in Tokens : ServerOK(u)
      /\ t \in Tokens /\ state = t /\ srv[t] # "booting"
      /\ stop[t] = "none" => Quiet(t)
      /\ UNCHANGED <<port, srv, sync, watcher, forsaken>>
      /\ UNCHANGED <<port, serverVars, forsaken>>
  <2>1. /\ la[l].pc \in {"waiting", "confirming"} /\ la[l].pc \in Locked \ Starting
        /\ la[l].pc \in Asking
    BY DEF AwaitStop, ConfirmRefusal, Locked, Starting, Asking
  <2>2. UNCHANGED <<port, serverVars, forsaken>>
    BY DEF AwaitStop, ConfirmRefusal
  <2>3. LauncherOK(la[l]) /\ lock = l
    BY <2>1, HolderAlone, HolderKnows
  <2> QED
    BY <2>1, <2>2, <2>3, TypeByPart DEF IInv, LauncherOK, serverVars
<1>1. CASE AwaitStop(l)
  <2>1. CASE /\ missed' = missed \union Hidden
             /\ stop' = [stop EXCEPT ![t] = "none"]
             /\ RemoveState(t)
             /\ End(l, "stopped")
    <3>1. \A u \in Tokens : ~(Running(u)' /\ u \notin (forsaken \union missed)')
      BY <1>0, <2>1, RunnersListen DEF Running
    <3>2. SharedOK' /\ \A u \in Tokens : ServerOK(u)'
      BY <1>0, <2>1 DEF SharedOK, ServerOK, RemoveState, Hidden
    <3> QED
      BY <1>0, <2>1, <3>1, <3>2, EndKeeps DEF Running, Outcomes, ServerOK
  <2>2. CASE /\ TRUE \in Probe /\ stop[t] = "none"
             /\ Goto(l, "confirming")
             /\ UNCHANGED <<stop, state, lock, missed>>
    <3>1. \A q \in Launcher : q.pc = "confirming" /\ q.token = t => LauncherOK(q)
      BY <1>0, <2>2 DEF LauncherOK, Starting, Asking
    <3>2. "confirming" \in Locked
      BY DEF Locked
    <3> QED
      BY <1>0, <2>2, <3>1, <3>2, QuietGotoKeeps
  <2>3. CASE End(l, "failed") /\ UNCHANGED <<stop, state, missed>>
    BY <1>0, <2>3, QuietEndKeeps DEF Outcomes
  <2> QED
    BY <1>1, <2>1, <2>2, <2>3 DEF AwaitStop
<1>2. CASE ConfirmRefusal(l)
  <2>1. UNCHANGED <<state, stop, missed>>
    BY <1>2 DEF ConfirmRefusal
  <2>2. CASE End(l, "rejected")
    BY <1>0, <2>1, <2>2, QuietEndKeeps DEF Outcomes
  <2>3. CASE Goto(l, "waiting") /\ UNCHANGED lock
    <3>1. \A q \in Launcher : q.pc = "waiting" /\ q.token = t => LauncherOK(q)
      BY <1>0 DEF LauncherOK, Starting, Asking
    <3>2. "waiting" \in Locked
      BY DEF Locked
    <3> QED
      BY <1>0, <2>1, <2>3, <3>1, <3>2, QuietGotoKeeps
  <2> QED
    BY <1>2, <2>2, <2>3 DEF ConfirmRefusal
<1> QED
  BY <1>1, <1>2

-----------------------------------------------------------------------------
(* The launchers outside of start() and stop()                             *)

\* An idle launcher.
LEMMA IdleTyped == Idle \in Launcher /\ Idle.pc = "idle"
BY DEF Idle, Launcher, Unlocked

\* A launcher outside of the lock moves outside of it.
LEMMA OutsideKeeps ==
  ASSUME IInv, NEW l \in Launchers, la[l].pc \in Unlocked,
         NEW q \in Launcher, q.pc \in Unlocked, q.pc = "locking" => q.job \in {"start", "stop"},
         la' = [la EXCEPT ![l] = q],
         UNCHANGED <<lock, state, stop, port, serverVars, missed>>,
         forsaken \subseteq forsaken', forsaken' \subseteq Tokens
  PROVE  IInv'
<1>0. /\ SharedOK /\ la \in [Launchers -> Launcher]
      /\ \A k \in Launchers : la[k].pc \in Locked <=> lock = k
      /\ UNCHANGED <<lock, state, stop, port, srv, sync, watcher, missed>>
  BY TypeByPart DEF IInv, serverVars
<1>1. \A k \in Launchers : la'[k] = IF k = l THEN q ELSE la[k]
  BY <1>0
<1>2. la[l].pc \notin Locked /\ q.pc \notin Locked
  BY DEF Locked, Unlocked, Starting
<1>3. SharedOK'
  BY <1>0 DEF SharedOK
<1>4. \A k \in Launchers : la'[k].pc \in Locked <=> lock' = k
  BY <1>0, <1>1, <1>2
<1>5. lock \in Launchers \union {NoOne}
  BY DEF IInv, TypeOK
<1>6. TypeOK'
  BY <1>0, <1>3, <1>4, <1>5 DEF TypeOK, SharedOK, Launcher
<1>7. \A t \in Tokens : ServerOK(t)'
  BY <1>0 DEF IInv, ServerOK
<1>8. LauncherOK(q)'
  BY <1>2 DEF LauncherOK, Unlocked, Starting, Asking
<1>9. ASSUME NEW k \in Launchers, k # l PROVE LauncherOK(la[k])'
  <2>1. la'[k] = la[k] /\ LauncherOK(la[k])
    BY <1>1, <1>9 DEF IInv
  <2> QED
    BY <1>0, <2>1 DEF LauncherOK, Running, Quiet
<1>10. \A t \in Tokens : BeingStarted(t) => BeingStarted(t)'
  BY <1>1, <1>2 DEF BeingStarted, Locked
<1>11. BootingIsWatched' /\ Manageable'
  BY <1>0, <1>10 DEF IInv, BootingIsWatched, Manageable, Running
<1>12. \A k \in Launchers : LauncherOK(la[k])'
  BY <1>1, <1>8, <1>9
<1> QED
  BY <1>6, <1>7, <1>11, <1>12 DEF IInv

\* What a step outside of the lock does to its launcher.
Outside(l) ==
  \E q \in Launcher : /\ q.pc \in Unlocked
                      /\ q.pc = "locking" => q.job \in {"start", "stop"}
                      /\ la' = [la EXCEPT ![l] = q]

\* Commands and windows.
LEMMA WindowKeeps ==
  ASSUME IInv, NEW l \in Launchers,
         \/ Command(l) \/ Leave(l)
         \/ OpenWindow(l) \/ CloseWindow(l) \/ WaitForSync(l) \/ FinishClosing(l)
  PROVE  IInv'
<1>0. la \in [Launchers -> Launcher] /\ la[l] \in Launcher /\ forsaken \subseteq Tokens
  BY TypeByPart DEF IInv, SharedOK
<1>1. ASSUME la' = [la EXCEPT ![l] = Idle] PROVE Outside(l)
  BY <1>1, IdleTyped DEF Outside, Unlocked
<1>2. ASSUME NEW pc \in Unlocked, NEW job \in {"none", "start", "stop"},
             NEW window \in {"none", "opening", "open", "gone"},
             pc = "locking" => job \in {"start", "stop"},
             la' = [la EXCEPT ![l].pc = pc, ![l].job = job, ![l].window = window]
      PROVE  Outside(l)
  <2> DEFINE q == [la[l] EXCEPT !.pc = pc, !.job = job, !.window = window]
  <2>1. q \in Launcher /\ q.pc = pc /\ q.job = job
    BY <1>0 DEF Launcher
  <2>2. /\ DOMAIN la' = Launchers
        /\ \A k \in Launchers : la'[k] = IF k = l THEN q ELSE la[k]
    BY <1>0, <1>2 DEF Launcher
  <2>3. la' = [la EXCEPT ![l] = q]
    BY <1>0, <1>2, <2>2
  <2> HIDE DEF q
  <2> QED
    BY <1>2, <2>1, <2>3 DEF Outside
<1>3. ASSUME NEW pc \in Unlocked \ {"locking"},
             NEW window \in {"none", "opening", "open", "gone"},
             la' = [la EXCEPT ![l].pc = pc, ![l].window = window]
      PROVE  Outside(l)
  <2>1. la[l].job \in {"none", "start", "stop"}
    BY <1>0 DEF Launcher
  <2>2. [la EXCEPT ![l].pc = pc, ![l].window = window] =
          [la EXCEPT ![l].pc = pc, ![l].job = la[l].job, ![l].window = window]
    BY <1>0 DEF Launcher
  <2> QED
    BY <1>2, <1>3, <2>1, <2>2
<1>4. ASSUME NEW pc \in Unlocked, NEW job \in {"none", "start", "stop"},
             pc = "locking" => job \in {"start", "stop"},
             \/ la' = [la EXCEPT ![l].pc = pc, ![l].job = job]
             \/ la' = [la EXCEPT ![l] = [@ EXCEPT !.pc = pc, !.job = job]]
      PROVE  Outside(l)
  <2>1. la[l].window \in {"none", "opening", "open", "gone"}
    BY <1>0 DEF Launcher
  <2>2. la' = [la EXCEPT ![l].pc = pc, ![l].job = job, ![l].window = la[l].window]
    BY <1>0, <1>4 DEF Launcher
  <2> QED
    BY <1>2, <1>4, <2>1, <2>2
<1>5. ASSUME Command(l) PROVE Outside(l)
  <2>1. ASSUME NEW job \in {"start", "stop"}, NEW force \in BOOLEAN,
               NEW window \in {"none", "opening"}, Launch(l, job, force, window)
        PROVE  Outside(l)
    <3> DEFINE q == [Idle EXCEPT !.pc = "locking", !.job = job, !.force = force,
                                 !.window = window]
    <3>1. q \in Launcher /\ q.pc = "locking" /\ q.job = job
      BY DEF Idle, Launcher, Unlocked
    <3>2. la' = [la EXCEPT ![l] = q]
      BY <2>1 DEF Launch
    <3>3. q.pc \in Unlocked
      BY <3>1 DEF Unlocked
    <3> HIDE DEF q
    <3> QED
      BY <3>1, <3>2, <3>3 DEF Outside
  <2> QED
    BY <1>5, <2>1 DEF Command
<1>6. ASSUME Leave(l) PROVE Outside(l)
  BY <1>1, <1>6 DEF Leave
<1>7. ASSUME OpenWindow(l) PROVE Outside(l)
  BY <1>1, <1>2, <1>7 DEF OpenWindow, Unlocked
<1>8. ASSUME CloseWindow(l) PROVE Outside(l)
  BY <1>3, <1>8 DEF CloseWindow, Unlocked
<1>9. ASSUME GiveUpClosing(l) PROVE Outside(l)
  <2>1. CASE la[l].window = "gone"
    BY <1>0, <1>1, <1>9, <2>1 DEF GiveUpClosing
  <2>2. CASE la[l].window # "gone"
    <3>1. la' = [la EXCEPT ![l] = [@ EXCEPT !.pc = "shown", !.job = "none"]]
      BY <1>0, <1>9, <2>2 DEF GiveUpClosing
    <3> QED
      BY <1>4, <3>1 DEF Unlocked
  <2> QED
    BY <2>1, <2>2
<1>10. ASSUME WaitForSync(l) PROVE Outside(l)
  BY <1>4, <1>9, <1>10 DEF WaitForSync, Unlocked
<1>11. ASSUME FinishClosing(l) PROVE Outside(l)
  <2>1. ASSUME Goto(l, "closing") PROVE Outside(l)
    <3>1. "closing" \in Unlocked
      BY DEF Unlocked
    <3>2. \E q \in Launcher : la' = [la EXCEPT ![l] = q] /\ q.pc = "closing"
      BY <2>1, <3>1, AtAnotherPc
    <3> QED
      BY <3>1, <3>2 DEF Outside
  <2> QED
    BY <1>1, <1>9, <1>11, <2>1 DEF FinishClosing
<1>12. Outside(l)
  BY <1>5, <1>6, <1>7, <1>8, <1>10, <1>11
<1>13. /\ la[l].pc \in Unlocked
       /\ UNCHANGED <<lock, state, stop, port, serverVars, forsaken, missed>>
  BY DEF Command, Launch, Leave, OpenWindow, CloseWindow, WaitForSync, FinishClosing,
         Unlocked
<1> QED
  BY <1>0, <1>12, <1>13, OutsideKeeps DEF Outside

\* The lock is taken when it is free.
LEMMA LockKeeps == ASSUME IInv, NEW l \in Launchers, Lock(l) PROVE IInv'
<1>0. /\ SharedOK /\ la \in [Launchers -> Launcher] /\ la[l] \in Launcher
      /\ la[l].pc = "locking" /\ la[l].job \in {"start", "stop"}
      /\ UNCHANGED <<state, stop, port, srv, sync, watcher, forsaken, missed>>
      /\ UNCHANGED <<state, stop, port, serverVars, forsaken, missed>>
  BY TypeByPart DEF Lock, IInv, LauncherOK, serverVars
<1>1. CASE UNCHANGED lock /\ Goto(l, "failed")
  <2>1. "failed" \in Unlocked /\ la[l].pc \in Unlocked
    BY <1>0 DEF Unlocked
  <2>2. PICK q \in Launcher : la' = [la EXCEPT ![l] = q] /\ q.pc = "failed"
    BY <1>1, <2>1, AtAnotherPc
  <2>3. forsaken \subseteq Tokens
    BY <1>0 DEF SharedOK
  <2> QED
    BY <1>0, <1>1, <2>1, <2>2, <2>3, OutsideKeeps
<1>2. CASE lock = NoOne /\ lock' = l /\ Goto(l, la[l].job)
  <2>1. la[l].job \in Locked
    BY <1>0 DEF Locked
  <2>2. PICK q \in Launcher : /\ la' = [la EXCEPT ![l] = q]
                              /\ q.pc = la[l].job /\ q.job = la[l].job
    BY <1>2, <2>1, AtAnotherPc
  <2>3. \A k \in Launchers : la'[k] = IF k = l THEN q ELSE la[k]
    BY <1>0, <2>2
  <2>4. \A k \in Launchers : la[k].pc \notin Locked
    BY <1>2, TypeByPart, LauncherAssumption DEF IInv, LauncherAssumption
  <2>5. TypeOK'
    <3>1. la' \in [Launchers -> Launcher] /\ lock' \in Launchers \union {NoOne}
      BY <1>0, <1>2, <2>2
    <3>2. \A k \in Launchers : la'[k].pc \in Locked <=> lock' = k
      BY <1>2, <2>1, <2>2, <2>3, <2>4
    <3> QED
      BY <1>0, <3>1, <3>2 DEF TypeOK, SharedOK, Launcher
  <2>6. \A t \in Tokens : ServerOK(t)'
    BY <1>0 DEF IInv, ServerOK
  <2>7. LauncherOK(q)'
    BY <1>0, <2>2 DEF LauncherOK, Starting, Asking
  <2>8. ASSUME NEW k \in Launchers, k # l PROVE LauncherOK(la[k])'
    <3>1. la'[k] = la[k] /\ LauncherOK(la[k])
      BY <2>3, <2>8 DEF IInv
    <3> QED
      BY <1>0, <3>1 DEF LauncherOK, Running, Quiet
  <2>9. \A k \in Launchers : LauncherOK(la[k])'
    BY <2>3, <2>7, <2>8
  <2>10. \A t \in Tokens : ~BeingStarted(t)
    BY <2>4 DEF BeingStarted, Locked
  <2>11. BootingIsWatched' /\ Manageable'
    BY <1>0, <2>10 DEF IInv, BootingIsWatched, Manageable, Running
  <2> QED
    BY <2>5, <2>6, <2>9, <2>11 DEF IInv
<1> QED
  BY <1>1, <1>2 DEF Lock

\* What a launcher that dies was starting is given up.
LEMMA CrashKeeps == ASSUME IInv, NEW l \in Launchers, Crash(l) PROVE IInv'
<1>0. /\ SharedOK /\ la[l] \in Launcher /\ LauncherOK(la[l])
      /\ \A k \in Launchers : la[k].pc \in Locked <=> lock = k
      /\ la' = [la EXCEPT ![l] = Idle]
      /\ lock' = IF lock = l THEN NoOne ELSE lock
      /\ forsaken \subseteq forsaken' /\ forsaken' \subseteq Tokens
      /\ UNCHANGED <<state, stop, port, srv, sync, watcher, missed>>
      /\ UNCHANGED <<state, stop, port, serverVars, missed>>
  <2>1. /\ SharedOK /\ la[l] \in Launcher /\ LauncherOK(la[l])
        /\ \A k \in Launchers : la[k].pc \in Locked <=> lock = k
    BY TypeByPart DEF IInv
  <2> QED
    BY <2>1 DEF Crash, SharedOK, serverVars
<1>1. Idle \in Launcher /\ Idle.pc = "idle" /\ Idle.pc \in Unlocked /\ Idle.pc \notin Locked
  BY IdleTyped DEF Unlocked, Locked, Starting
<1>2. CASE la[l].pc \in Locked
  <2>1. lock' = NoOne
    BY <1>0, <1>2
  <2>2. LauncherOK(Idle)'
    <3>1. PICK q \in Launcher : q = Idle /\ q.pc = "idle"
      BY <1>1
    <3>2. LauncherOK(q)'
      BY <3>1 DEF LauncherOK, Starting, Asking
    <3> QED
      BY <3>1, <3>2
  <2>3. SharedOK' /\ \A t \in Tokens : ServerOK(t)'
    BY <1>0 DEF SharedOK, ServerOK, IInv
  <2>4. \A t \in Tokens : BeingStarted(t) => t \in forsaken'
    <3>1. ASSUME NEW t \in Tokens, BeingStarted(t) PROVE t \in forsaken'
      <4>1. la[l].pc \in Starting /\ la[l].token = t
        BY <1>2, <3>1, HolderAlone
      <4>2. la[l].job = "start"
        BY <1>0, <4>1 DEF LauncherOK
      <4> QED
        BY <4>1, <4>2 DEF Crash
    <3> QED
      BY <3>1
  <2>5. \A t \in Tokens : /\ srv'[t] = "booting" => t \in forsaken'
                          /\ Running(t)' /\ t \notin (forsaken \union missed)' => state' = t
    BY <1>0, <2>4 DEF IInv, BootingIsWatched, Manageable, Running
  <2> QED
    BY <1>0, <1>1, <1>2, <2>1, <2>2, <2>3, <2>5, HolderKeeps
<1>3. CASE la[l].pc \notin Locked
  <2>1. la[l].pc \in Unlocked
    BY <1>0, <1>3 DEF Launcher
  <2>2. lock' = lock
    BY <1>0, <1>3
  <2> QED
    BY <1>0, <1>1, <2>1, <2>2, OutsideKeeps
<1> QED
  BY <1>2, <1>3

-----------------------------------------------------------------------------
(* The servers                                                             *)

\* A step of a server keeps the invariant if it does at its own place.
LEMMA OneServerKeeps ==
  ASSUME IInv, NEW t \in Tokens, UNCHANGED <<lock, state, la, forsaken>>, SharedOK',
         missed' = missed \/ (missed' = missed \ {t} /\ ~Running(t)'),
         \A u \in Tokens \ {t} :
           srv'[u] = srv[u] /\ stop'[u] = stop[u] /\ watcher'[u] = watcher[u],
         \A u \in Tokens : ServerOK(u)',
         Running(t)' => Running(t), srv'[t] = "booting" => srv[t] = "booting",
         stop[t] = "none" => stop'[t] = "none",
         stop'[t] = "none" /\ srv[t] # "booting" =>
           Quiet(t)' \/ (stop[t] = "none" /\ ~Quiet(t))
  PROVE  IInv'
<1>1. TypeOK'
  BY DEF IInv, TypeOK, SharedOK
<1>2. \A u \in Tokens : /\ Running(u)' => Running(u) /\ (u \in missed => u \in missed')
                        /\ srv'[u] = "booting" => srv[u] = "booting"
                        /\ stop[u] = "none" => stop'[u] = "none"
                        /\ stop'[u] = "none" /\ srv[u] # "booting" =>
                             Quiet(u)' \/ (stop[u] = "none" /\ ~Quiet(u))
  <2>1. ASSUME NEW u \in Tokens, u # t
        PROVE  /\ Running(u)' => Running(u) /\ (u \in missed => u \in missed')
               /\ srv'[u] = "booting" => srv[u] = "booting"
               /\ stop[u] = "none" => stop'[u] = "none"
               /\ stop'[u] = "none" /\ srv[u] # "booting" =>
                    Quiet(u)' \/ (stop[u] = "none" /\ ~Quiet(u))
    BY <2>1 DEF Running, Quiet
  <2> QED
    BY <2>1
<1>3. ASSUME NEW l \in Launchers PROVE LauncherOK(la[l])'
  <2>1. PICK q : q = la[l]
    OBVIOUS
  <2>2. LauncherOK(q)
    BY <2>1 DEF IInv
  <2>3. /\ state' = state /\ forsaken' = forsaken /\ la'[l] = q
        /\ q.pc \in {"unanswered", "inspect"} => q.token \in {state', NoOne}
    BY <2>1, <2>2 DEF LauncherOK
  <2>4. q.pc \in {"spawn"} \union Starting =>
          \A u \in Tokens : Running(u)' /\ u \notin (forsaken \union missed)' =>
                              q.pc \in Starting /\ q.token = u
    BY <1>2, <2>2, <2>3 DEF LauncherOK
  <2>5. q.pc \in Asking =>
          q.token \in Tokens /\ state' = q.token /\ srv'[q.token] # "booting"
    BY <1>2, <2>2, <2>3 DEF LauncherOK
  <2>6. q.pc \in {"waiting", "confirming"} /\ stop'[q.token] = "none" =>
          Quiet(q.token)'
    <3>1. SUFFICES ASSUME q.pc \in {"waiting", "confirming"}, stop'[q.token] = "none"
                   PROVE  Quiet(q.token)'
      OBVIOUS
    <3>2. q.token \in Tokens /\ srv[q.token] # "booting"
      BY <2>2, <3>1 DEF LauncherOK, Asking
    <3>3. stop[q.token] = "none" => Quiet(q.token)
      BY <2>2, <3>1 DEF LauncherOK
    <3> QED
      BY <1>2, <3>1, <3>2, <3>3
  <2>7. q.pc = "confirming" => stop'[q.token] = "none"
    BY <1>2, <2>2 DEF LauncherOK, Asking
  <2>8. /\ q.pc = "locking" => q.job \in {"start", "stop"}
        /\ q.pc \in {"start", "probe", "spawn"} \union Starting => q.job = "start"
        /\ q.pc \in Starting => q.token \in Tokens
        /\ q.pc = "poll" => state' = q.token
    BY <2>2, <2>3 DEF LauncherOK
  <2>9. LauncherOK(q)'
    BY <2>3, <2>4, <2>5, <2>6, <2>7, <2>8 DEF LauncherOK
  <2> QED
    BY <2>3, <2>9
<1>4. \A u \in Tokens : BeingStarted(u) => BeingStarted(u)'
  BY DEF BeingStarted
<1>5. BootingIsWatched' /\ Manageable'
  BY <1>2, <1>4 DEF IInv, BootingIsWatched, Manageable
<1> QED
  BY <1>1, <1>3, <1>5 DEF IInv

\* The servers and their watchers.
LEMMA ServerKeeps == ASSUME IInv, NEW t \in Tokens, ServerStep(t) PROVE IInv'
<1>0. SharedOK /\ \A u \in Tokens : ServerOK(u) /\ u # NoOne
  BY TypeByPart, LauncherAssumption DEF IInv, LauncherAssumption
<1>1. ASSUME KillServer(t), UNCHANGED <<lock, state, stop, la, forsaken>> PROVE IInv'
  <2>1. SharedOK'
    BY <1>0, <1>1, KillLeaves DEF SharedOK
  <2>2. ~Running(t)' /\ Quiet(t)' /\ srv'[t] = "dead"
    BY <1>1, KillLeaves DEF Running, Quiet
  <2>5. missed' = missed \ {t}
    BY <1>1, KillLeaves
  <2>3. \A u \in Tokens : ServerOK(u)'
    BY <1>1, KillLeaves
  <2>4. \A u \in Tokens \ {t} :
          srv'[u] = srv[u] /\ stop'[u] = stop[u] /\ watcher'[u] = watcher[u]
    BY <1>1, KillLeaves
  <2> QED
    BY <1>1, <2>1, <2>2, <2>3, <2>4, <2>5, OneServerKeeps
<1>2. CASE Bind(t)
  <2>1. CASE KillServer(t)
    BY <1>1, <1>2, <2>1 DEF Bind
  <2>2. CASE /\ ~PortIsOpen /\ srv' = [srv EXCEPT ![t] = "serving"] /\ port' = t
             /\ UNCHANGED <<sync, watcher, missed>>
    <3>1. srv[t] = "booting" /\ UNCHANGED <<lock, state, stop, la, forsaken, missed>>
      BY <1>2, <2>2 DEF Bind
    <3>2. \A u \in Tokens : srv'[u] = IF u = t THEN "serving" ELSE srv[u]
      BY <1>0, <2>2 DEF SharedOK
    <3>3. SharedOK'
      BY <1>0, <2>2, <3>1 DEF SharedOK
    <3>4. \A u \in Tokens : ServerOK(u)'
      BY <1>0, <2>2, <3>2 DEF ServerOK, PortIsOpen
    <3>5. Running(t)
      BY <3>1 DEF Running
    <3>6. srv'[t] = "serving"
      BY <3>2
    <3> QED
      BY <2>2, <3>1, <3>2, <3>3, <3>4, <3>5, <3>6, OneServerKeeps
  <2> QED
    BY <1>2, <2>1, <2>2 DEF Bind
<1>3. CASE BeginSync(t) \/ EndSync(t)
  <2>1. UNCHANGED <<lock, state, stop, port, srv, watcher, la, forsaken, missed>>
    BY <1>3 DEF BeginSync, EndSync
  <2>2. SharedOK'
    BY <1>0, <1>3 DEF SharedOK, BeginSync, EndSync
  <2>3. \A u \in Tokens : ServerOK(u)'
    BY <1>0, <2>1 DEF ServerOK
  <2>4. Running(t)' = Running(t) /\ Quiet(t)' = Quiet(t)
    BY <2>1 DEF Running, Quiet
  <2>5. stop'[t] = "none" /\ srv[t] # "booting" =>
          Quiet(t)' \/ (stop[t] = "none" /\ ~Quiet(t))
    BY <2>1 DEF Quiet
  <2> QED
    BY <2>1, <2>2, <2>3, <2>4, <2>5, OneServerKeeps
<1>4. CASE ReadRequest(t)
  <2>1. /\ srv[t] = "serving" /\ stop[t] # "none"
        /\ UNCHANGED <<lock, state, stop, port, srv, sync, la, forsaken, missed>>
    BY <1>4 DEF ReadRequest
  <2>2. SharedOK' /\ \A u \in Tokens : watcher'[u] = IF u = t THEN stop[t] ELSE watcher[u]
    BY <1>0, <1>4 DEF SharedOK, ReadRequest
  <2>3. \A u \in Tokens : ServerOK(u)'
    BY <1>0, <2>1, <2>2 DEF ServerOK
  <2>4. Running(t)' => Running(t)
    BY <2>1 DEF Running
  <2> QED
    BY <2>1, <2>2, <2>3, <2>4, OneServerKeeps
<1>5. CASE Decide(t)
  <2>1. /\ srv[t] = "serving" /\ watcher[t] \in {"normal", "force"}
        /\ UNCHANGED <<lock, state, stop, port, sync, la, forsaken, missed>>
    BY <1>0, <1>5 DEF Decide, ServerOK
  <2>2. /\ srv'[t] \in {"serving", "draining"}
        /\ srv'[t] = "draining" => watcher'[t] = "closing"
        /\ \A u \in Tokens \ {t} : srv'[u] = srv[u] /\ watcher'[u] = watcher[u]
    BY <1>0, <1>5, <2>1 DEF Decide, SharedOK
  <2>3. SharedOK'
    BY <1>0, <1>5 DEF Decide, SharedOK
  <2>4. \A u \in Tokens : ServerOK(u)'
    BY <1>0, <2>1, <2>2 DEF ServerOK
  <2>5. Running(t) /\ ~Quiet(t)
    BY <2>1 DEF Running, Quiet
  <2> QED
    BY <2>1, <2>2, <2>3, <2>4, <2>5, OneServerKeeps
<1>6. CASE Refuse(t)
  <2>1. /\ srv[t] = "serving" /\ UNCHANGED <<lock, state, port, srv, sync, la, forsaken, missed>>
    BY <1>0, <1>6 DEF Refuse, ServerOK
  <2>2. /\ watcher'[t] \in {"watching", "gone"}
        /\ stop[t] = "none" => stop'[t] = "none"
        /\ \A u \in Tokens \ {t} : stop'[u] = stop[u] /\ watcher'[u] = watcher[u]
    BY <1>0, <1>6 DEF Refuse, SharedOK
  <2>3. SharedOK'
    BY <1>0, <1>6 DEF Refuse, SharedOK
  <2>4. \A u \in Tokens : ServerOK(u)'
    BY <1>0, <2>1, <2>2 DEF ServerOK
  <2>5. Running(t) /\ Quiet(t)'
    BY <2>1, <2>2 DEF Running, Quiet
  <2> QED
    BY <2>1, <2>2, <2>3, <2>4, <2>5, OneServerKeeps
<1>7. CASE EndLoop(t)
  <2>1. /\ srv[t] = "draining" /\ UNCHANGED <<lock, state, stop, port, sync, watcher, la, forsaken, missed>>
        /\ \A u \in Tokens : srv'[u] = IF u = t THEN "ended" ELSE srv[u]
    BY <1>0, <1>7 DEF EndLoop, SharedOK
  <2>2. SharedOK'
    BY <1>0, <1>7 DEF EndLoop, SharedOK
  <2>3. \A u \in Tokens : ServerOK(u)'
    BY <1>0, <2>1 DEF ServerOK
  <2>4. Running(t) /\ ~Quiet(t) /\ srv'[t] = "ended"
    BY <2>1 DEF Running, Quiet
  <2> QED
    BY <2>1, <2>2, <2>3, <2>4, OneServerKeeps
<1>8. CASE Clean(t)
  <2>1. /\ srv[t] = "ended" /\ UNCHANGED <<lock, state, port, sync, watcher, la, forsaken, missed>>
        /\ \A u \in Tokens : srv'[u] = IF u = t THEN "cleaned" ELSE srv[u]
        /\ \A u \in Tokens : stop'[u] = IF u = t THEN "none" ELSE stop[u]
    BY <1>0, <1>8 DEF Clean, SharedOK
  <2>2. SharedOK'
    BY <1>0, <1>8 DEF Clean, SharedOK
  <2>3. \A u \in Tokens : ServerOK(u)'
    BY <1>0, <2>1 DEF ServerOK
  <2>4. Running(t) /\ Quiet(t)' /\ srv'[t] = "cleaned"
    BY <2>1 DEF Running, Quiet
  <2> QED
    BY <2>1, <2>2, <2>3, <2>4, OneServerKeeps
<1>9. CASE CloseSocket(t)
  <2>1. /\ srv[t] = "cleaned" /\ UNCHANGED <<lock, state, stop, sync, watcher, la, forsaken, missed>>
        /\ \A u \in Tokens : srv'[u] = IF u = t THEN "exiting" ELSE srv[u]
    BY <1>0, <1>9 DEF CloseSocket, SharedOK
  <2>2. SharedOK'
    BY <1>0, <1>9 DEF CloseSocket, SharedOK
  <2>5. port = t /\ port' = NoOne
    BY <1>0, <1>9, <2>1 DEF CloseSocket, ServerOK
  <2>3. \A u \in Tokens : ServerOK(u)'
    BY <1>0, <2>1, <2>5 DEF ServerOK
  <2>4. ~Running(t)' /\ Quiet(t)' /\ srv'[t] = "exiting"
    BY <2>1 DEF Running, Quiet
  <2> QED
    BY <2>1, <2>2, <2>3, <2>4, OneServerKeeps
<1>10. CASE Die(t)
  BY <1>1, <1>10 DEF Die
<1> QED
  BY <1>2, <1>3, <1>4, <1>5, <1>6, <1>7, <1>8, <1>9, <1>10 DEF ServerStep

\* Other programs on the port.
LEMMA PortKeeps == ASSUME IInv, PortChangesHands PROVE IInv'
<1>1. /\ UNCHANGED <<lock, state, stop, srv, sync, watcher, la, forsaken, missed>>
      /\ port \in {NoOne, Other, External} /\ port' \in {NoOne, Other, External}
  BY DEF PortChangesHands, serverVars
<1>2. TypeOK'
  BY <1>1 DEF IInv, TypeOK
<1>3. \A t \in Tokens : t \notin {NoOne, Other, External}
  BY LauncherAssumption DEF LauncherAssumption
<1>4. \A t \in Tokens : ServerOK(t)'
  BY <1>1, <1>3 DEF IInv, ServerOK
<1>5. ASSUME NEW l \in Launchers PROVE LauncherOK(la[l])'
  <2>1. LauncherOK(la[l]) /\ la'[l] = la[l]
    BY <1>1 DEF IInv
  <2> QED
    BY <1>1, <2>1 DEF LauncherOK, Running, Quiet
<1>6. BootingIsWatched' /\ Manageable'
  BY <1>1 DEF IInv, BootingIsWatched, Manageable, BeingStarted, Running
<1> QED
  BY <1>2, <1>4, <1>5, <1>6 DEF IInv

-----------------------------------------------------------------------------
(* The theorems                                                            *)

\* The inductive invariant holds at the start.
LEMMA InitHolds == Init => IInv
<1> SUFFICES ASSUME Init PROVE IInv
  OBVIOUS
<1>1. \A l \in Launchers : la[l] = Idle /\ la[l].pc = "idle" /\ lock # l
  BY IdleTyped, LauncherAssumption DEF Init, LauncherAssumption
<1>2. TypeOK
  <2>1. SharedOK /\ lock \in Launchers \union {NoOne}
    BY DEF Init, SharedOK
  <2>2. la \in [Launchers -> Launcher]
    BY IdleTyped DEF Init
  <2>3. \A l \in Launchers : la[l].pc \in Locked <=> lock = l
    BY <1>1 DEF Locked, Starting
  <2> QED
    BY <2>1, <2>2, <2>3, TypeByPart
<1>3. /\ \A t \in Tokens : srv[t] = "dead" /\ watcher[t] = "watching" /\ port # t
      /\ missed = {}
  BY LauncherAssumption DEF Init, LauncherAssumption
<1>4. \A t \in Tokens : ServerOK(t)
  BY <1>3 DEF ServerOK
<1>5. \A l \in Launchers : LauncherOK(la[l])
  BY <1>1 DEF LauncherOK, Starting, Asking
<1>6. BootingIsWatched /\ Manageable
  BY <1>3 DEF BootingIsWatched, Manageable, Running
<1> QED
  BY <1>2, <1>4, <1>5, <1>6 DEF IInv

\* Every step keeps the inductive invariant.
LEMMA StepKeeps == IInv /\ [Next]_vars => IInv'
<1> SUFFICES ASSUME IInv, [Next]_vars PROVE IInv'
  OBVIOUS
<1>1. CASE UNCHANGED vars
  <2>1. UNCHANGED <<lock, state, stop, port, srv, sync, watcher, la, forsaken, missed>>
    BY <1>1 DEF vars, serverVars
  <2> QED
    BY <2>1 DEF IInv, TypeOK, ServerOK, LauncherOK, BootingIsWatched, Manageable,
                BeingStarted, Running, Quiet
<1>2. ASSUME NEW t \in Tokens, ServerStep(t) PROVE IInv'
  BY <1>2, ServerKeeps
<1>3. ASSUME NEW l \in Launchers, LauncherStep(l) PROVE IInv'
  BY <1>3, WindowKeeps, LockKeeps, CrashKeeps, StartKeeps, SpawnKeeps, SaveKeeps,
     PollKeeps, StopKeeps, InspectKeeps, RequestKeeps, AwaitKeeps DEF LauncherStep
<1>4. CASE PortChangesHands
  BY <1>4, PortKeeps
<1> QED
  BY <1>1, <1>2, <1>3, <1>4 DEF Next

\* Type correctness and mutual exclusion: at most one launcher is inside
\* start() or stop(), and it holds the lock.
THEOREM TypeCorrect == Spec => []TypeOK
<1>1. IInv => TypeOK
  BY DEF IInv
<1> QED
  BY <1>1, InitHolds, StepKeeps, PTL DEF Spec

\* A server that was not given up stays recorded while it may answer.
THEOREM ServersAreManageable == Spec => []Manageable
<1>1. IInv => Manageable
  BY DEF IInv
<1> QED
  BY <1>1, InitHolds, StepKeeps, PTL DEF Spec

-----------------------------------------------------------------------------
(* The action properties                                                   *)

\* A launcher's step moves that launcher only.
LEMMA OthersStay ==
  ASSUME IInv, NEW k \in Launchers, LauncherStep(k)
  PROVE  la \in [Launchers -> Launcher] /\ \A l \in Launchers \ {k} : la'[l] = la[l]
<1>1. la \in [Launchers -> Launcher]
  BY TypeByPart DEF IInv
<1>2. CASE Command(k) \/ Lock(k) \/ Crash(k) \/ Leave(k)
  BY <1>1, <1>2 DEF Command, Launch, Lock, Crash, Leave, Goto
<1>3. CASE StartHealth(k) \/ StartProbe(k) \/ Spawn(k) \/ SaveState(k)
  BY <1>1, <1>3 DEF StartHealth, StartProbe, Spawn, SaveState, Goto, End
<1>4. CASE PollStart(k) \/ Revoke(k) \/ Kill(k)
  BY <1>1, <1>4 DEF PollStart, Revoke, Kill, Goto, End
<1>5. CASE StopHealth(k)
  BY <1>1, <1>5 DEF StopHealth, Goto, End
<1>6. CASE StopProbe(k) \/ Inspect(k) \/ WriteRequest(k)
  BY <1>1, <1>6 DEF StopProbe, Inspect, WriteRequest, Goto, End
<1>7. CASE AwaitStop(k) \/ ConfirmRefusal(k)
  BY <1>1, <1>7 DEF AwaitStop, ConfirmRefusal, Goto, End
<1>8. CASE OpenWindow(k) \/ CloseWindow(k) \/ WaitForSync(k) \/ FinishClosing(k)
  BY <1>1, <1>8 DEF OpenWindow, CloseWindow, WaitForSync, FinishClosing, GiveUpClosing, Goto
<1> QED
  BY <1>1, <1>2, <1>3, <1>4, <1>5, <1>6, <1>7, <1>8 DEF LauncherStep

\* Where Goto and End lead.
LEMMA NextPlace ==
  ASSUME IInv, NEW k \in Launchers, NEW pc
  PROVE  /\ Goto(k, pc) => la'[k].pc = pc
         /\ End(k, pc) => la'[k].pc = pc
<1>1. la \in [Launchers -> Launcher] /\ la[k] \in Launcher
  BY TypeByPart DEF IInv
<1> QED
  BY <1>1 DEF Goto, End, Launcher

\* stop() alone reports a stopped or an unwilling server.
LEMMA WhoReports ==
  ASSUME IInv, NEW k \in Launchers, LauncherStep(k), la'[k].pc # la[k].pc
  PROVE  /\ la'[k].pc = "stopped" => Inspect(k) \/ AwaitStop(k)
         /\ la'[k].pc = "rejected" => ConfirmRefusal(k)
<1>0. la \in [Launchers -> Launcher] /\ la[k] \in Launcher /\ LauncherOK(la[k])
  BY HolderKnows, TypeByPart DEF IInv
<1>1. CASE Command(k)
  <2>1. PICK job \in {"start", "stop"}, force \in BOOLEAN, window \in {"none", "opening"} :
          Launch(k, job, force, window)
    BY <1>1 DEF Command
  <2>2. la'[k] = [Idle EXCEPT !.pc = "locking", !.job = job, !.force = force,
                              !.window = window]
    BY <1>0, <2>1 DEF Launch
  <2>3. la'[k].pc = "locking"
    BY <2>2 DEF Idle
  <2> QED
    BY <2>3
<1>2. CASE Lock(k)
  <2>1. la[k].pc = "locking" /\ (Goto(k, la[k].job) \/ Goto(k, "failed"))
    BY <1>2 DEF Lock
  <2>2. la[k].job \in {"start", "stop"}
    BY <1>0, <2>1 DEF LauncherOK
  <2> QED
    BY <2>1, <2>2, NextPlace
<1>3. CASE Crash(k) \/ Leave(k)
  BY <1>0, <1>3, IdleTyped DEF Crash, Leave
<1>4. CASE StartHealth(k) \/ StartProbe(k) \/ Revoke(k) \/ Kill(k) \/ PollStart(k)
  <2>1. \/ \E pc \in {"probe", "spawn", "kill", "revoke"} : Goto(k, pc)
        \/ \E pc \in {"started", "foreign", "failed"} : End(k, pc)
    BY <1>4 DEF StartHealth, StartProbe, Revoke, Kill, PollStart
  <2> QED
    BY <2>1, NextPlace
<1>5. CASE Spawn(k)
  <2>1. \/ End(k, "failed")
        \/ \E t \in Tokens, next \in {"save", "kill"} :
             la' = [la EXCEPT ![k].pc = next, ![k].token = t]
    BY <1>5 DEF Spawn
  <2>2. \A t \in Tokens, next \in {"save", "kill"} :
          la' = [la EXCEPT ![k].pc = next, ![k].token = t] => la'[k].pc = next
    BY <1>0 DEF Launcher
  <2> QED
    BY <2>1, <2>2, NextPlace
<1>6. CASE SaveState(k)
  BY <1>0, <1>6 DEF SaveState, Goto, Launcher
<1>7. CASE StopHealth(k)
  BY <1>0, <1>7 DEF StopHealth, Goto, End, Launcher
<1>8. CASE StopProbe(k) \/ WriteRequest(k)
  <2>1. \/ \E pc \in {"inspect", "waiting"} : Goto(k, pc)
        \/ End(k, "failed")
    BY <1>8 DEF StopProbe, WriteRequest
  <2> QED
    BY <2>1, NextPlace
<1>9. CASE Inspect(k)
  <2>1. \E pc \in {"stopped", "failed"} : End(k, pc)
    BY <1>9 DEF Inspect
  <2> QED
    BY <1>9, <2>1, NextPlace
<1>10. CASE AwaitStop(k)
  <2>1. Goto(k, "confirming") \/ \E pc \in {"stopped", "failed"} : End(k, pc)
    BY <1>10 DEF AwaitStop
  <2> QED
    BY <1>10, <2>1, NextPlace
<1>11. CASE ConfirmRefusal(k)
  <2>1. Goto(k, "waiting") \/ End(k, "rejected")
    BY <1>11 DEF ConfirmRefusal
  <2> QED
    BY <1>11, <2>1, NextPlace
<1>12. CASE OpenWindow(k)
  BY <1>0, <1>12, IdleTyped DEF OpenWindow, Launcher
<1>13. CASE CloseWindow(k)
  BY <1>0, <1>13 DEF CloseWindow, Launcher
<1>14. GiveUpClosing(k) => la'[k].pc \in {"idle", "shown"}
  <2>1. ASSUME GiveUpClosing(k) PROVE la'[k].pc \in {"idle", "shown"}
    <3>1. la'[k] = IF la[k].window = "gone" THEN Idle
                   ELSE [la[k] EXCEPT !.pc = "shown", !.job = "none"]
      BY <1>0, <2>1 DEF GiveUpClosing
    <3>2. [la[k] EXCEPT !.pc = "shown", !.job = "none"].pc = "shown"
      BY <1>0 DEF Launcher
    <3> QED
      BY <3>1, <3>2, IdleTyped
  <2> QED
    BY <2>1
<1>15. CASE WaitForSync(k)
  <2>1. \/ GiveUpClosing(k)
        \/ la' = [la EXCEPT ![k].pc = "locking", ![k].job = "stop"]
    BY <1>15 DEF WaitForSync
  <2>2. la' = [la EXCEPT ![k].pc = "locking", ![k].job = "stop"] => la'[k].pc = "locking"
    BY <1>0 DEF Launcher
  <2> QED
    BY <1>14, <2>1, <2>2
<1>16. CASE FinishClosing(k)
  <2>1. GiveUpClosing(k) \/ Goto(k, "closing") \/ la' = [la EXCEPT ![k] = Idle]
    BY <1>16 DEF FinishClosing
  <2>2. la' = [la EXCEPT ![k] = Idle] => la'[k].pc = "idle"
    BY <1>0, IdleTyped
  <2> QED
    BY <1>14, <2>1, <2>2, NextPlace
<1> QED
  BY <1>1, <1>2, <1>3, <1>4, <1>5, <1>6, <1>7, <1>8, <1>9, <1>10, <1>11, <1>12,
     <1>13, <1>15, <1>16 DEF LauncherStep

\* Who reports is the launcher that takes the step.
LEMMA ReporterMoves ==
  ASSUME IInv, [Next]_vars, NEW l \in Launchers, la'[l].pc # la[l].pc
  PROVE  LauncherStep(l)
<1>1. CASE UNCHANGED vars
  BY <1>1 DEF vars
<1>2. ASSUME NEW t \in Tokens, ServerStep(t) PROVE la' = la
  BY <1>2 DEF ServerStep, Bind, BeginSync, EndSync, ReadRequest, Decide, Refuse,
              EndLoop, Clean, CloseSocket, Die
<1>3. PortChangesHands => la' = la
  BY DEF PortChangesHands
<1>4. PICK k \in Launchers : LauncherStep(k)
  BY <1>1, <1>2, <1>3 DEF Next
<1>5. k = l
  BY <1>4, OthersStay
<1> QED
  BY <1>4, <1>5

\* A server reported to have stopped does not run.
LEMMA StoppedStep ==
  ASSUME IInv, [Next]_vars, NEW l \in Launchers,
         la[l].pc # "stopped", la'[l].pc = "stopped",
         state \in Tokens => la[l].token = state,
         NEW t \in ((Tokens \ forsaken) \union ({state} \intersect Tokens)) \ missed'
  PROVE  srv'[t] \in {"dead", "exiting"}
<1>0. /\ LauncherStep(l) /\ (Inspect(l) \/ AwaitStop(l))
      /\ LauncherOK(la[l]) /\ SharedOK /\ ServerOK(t) /\ t \in Tokens
  BY ReporterMoves, WhoReports, HolderKnows, TypeByPart DEF IInv
<1>1. ~Running(t) => srv[t] \in {"dead", "exiting"}
  BY <1>0 DEF Running, SharedOK
<1>2. CASE Inspect(l)
  <2>1. la[l].pc = "inspect" /\ la[l].pc \in Locked \ Starting
    BY <1>2 DEF Inspect, Locked, Starting
  <2>2. Running(t) /\ t \notin forsaken \union missed => state = t
    BY <1>0, <2>1, HolderAlone DEF IInv, Manageable
  <2>3. srv' = srv /\ missed' = missed
    BY <1>2 DEF Inspect, serverVars
  <2>4. ~End(l, "failed")
    BY NextPlace
  <2>5. (la[l].token \in Tokens /\ srv[la[l].token] = "dead") \/ la[l].token = NoOne
    BY <1>2, <2>4 DEF Inspect
  <2>6. state = t => srv[t] = "dead"
    BY <1>0, <2>5, LauncherAssumption DEF LauncherAssumption
  <2> QED
    BY <1>0, <1>1, <2>2, <2>3, <2>6
<1>3. CASE AwaitStop(l)
  <2>1. la[l].pc = "waiting" /\ la[l].pc \in Locked \ Starting /\ la[l].pc \in Asking
    BY <1>3 DEF AwaitStop, Locked, Starting, Asking
  <2>2. ~End(l, "failed") /\ ~Goto(l, "confirming") /\ srv' = srv
    BY <1>3, NextPlace DEF AwaitStop, serverVars
  <2>3. t \notin Hidden
    BY <1>3, <2>2 DEF AwaitStop
  <2>4. Running(t) => t \in forsaken
    BY <1>0, <2>1, <2>3, RunnersListen
  <2>5. t = state => srv[t] # "booting" /\ port # t
    BY <1>0, <2>1, <2>3 DEF LauncherOK, Hidden
  <2>6. t = state => ~Running(t)
    BY <1>0, <2>5 DEF Running, ServerOK
  <2> QED
    BY <1>0, <1>1, <2>2, <2>4, <2>6
<1> QED
  BY <1>0, <1>2, <1>3

\* A server reported to have refused has not begun to close.
LEMMA RejectedStep ==
  ASSUME IInv, [Next]_vars, NEW l \in Launchers,
         la[l].pc # "rejected", la'[l].pc = "rejected"
  PROVE  srv[la[l].token] = "serving"
<1> DEFINE t == la[l].token
<1>0. LauncherStep(l) /\ ConfirmRefusal(l) /\ LauncherOK(la[l])
  BY ReporterMoves, WhoReports, HolderKnows
<1>1. la[l].pc = "confirming" /\ t \in Tokens /\ stop[t] = "none"
  BY <1>0 DEF ConfirmRefusal, LauncherOK, Asking
<1>2. Quiet(t)
  BY <1>0, <1>1 DEF LauncherOK
<1>3. ~Goto(l, "waiting")
  BY NextPlace
<1>4. t \in Health
  BY <1>0, <1>3 DEF ConfirmRefusal
<1>5. srv[t] \in {"serving", "draining"}
  BY <1>1, <1>4, WhoAnswers
<1> QED
  BY <1>2, <1>5 DEF Quiet

\* Who removes a stop request to a server that may still answer.
LEMMA RemovedStep ==
  ASSUME IInv, [Next]_vars, NEW t \in Tokens, stop[t] # "none", stop'[t] = "none",
         srv[t] \in {"booting", "serving", "draining"}, srv'[t] # "dead",
         t \notin missed'
  PROVE  watcher[t] = "refused"
<1>0. SharedOK /\ ServerOK(t) /\ \A u \in Tokens : u # NoOne
  BY TypeByPart, LauncherAssumption DEF IInv, LauncherAssumption
<1>1. CASE UNCHANGED vars
  BY <1>1 DEF vars
<1>2. ASSUME NEW u \in Tokens, ServerStep(u) PROVE watcher[t] = "refused"
  <2>1. Refuse(u) \/ Clean(u)
    BY <1>2 DEF ServerStep, Bind, BeginSync, EndSync, ReadRequest, Decide, EndLoop,
                CloseSocket, Die
  <2>2. CASE Refuse(u)
    BY <1>0, <2>2 DEF Refuse, SharedOK
  <2>3. CASE Clean(u)
    BY <1>0, <2>3 DEF Clean, SharedOK
  <2> QED
    BY <2>1, <2>2, <2>3
<1>3. ASSUME NEW l \in Launchers, LauncherStep(l) PROVE FALSE
  <2>0. LauncherOK(la[l])
    BY HolderKnows
  <2>1. \/ Spawn(l) \/ Kill(l) \/ Revoke(l) \/ Inspect(l)
        \/ WriteRequest(l) \/ AwaitStop(l)
    BY <1>3 DEF LauncherStep, Command, Launch, Lock, Crash, Leave, StartHealth,
                StartProbe, SaveState, PollStart, StopHealth, StopProbe,
                ConfirmRefusal, OpenWindow, CloseWindow, WaitForSync, FinishClosing
  <2>2. CASE Spawn(l)
    BY <1>0, <2>2 DEF Spawn, Fresh, SharedOK
  <2>3. CASE Kill(l)
    BY <1>0, <2>3 DEF Kill, KillServer, SharedOK
  <2>4. CASE Revoke(l)
    BY <1>0, <2>4 DEF Revoke, SharedOK
  <2>5. CASE Inspect(l)
    BY <1>0, <2>5, RequestTyped DEF Inspect, SharedOK
  <2>6. CASE WriteRequest(l)
    BY <1>0, <2>6, RequestTyped DEF WriteRequest, SharedOK
  <2>7. CASE AwaitStop(l)
    <3>1. la[l].pc = "waiting" /\ t \notin Hidden /\ t = la[l].token
      BY <1>0, <2>7 DEF AwaitStop, SharedOK
    <3>2. srv[t] # "booting" /\ port # t
      BY <1>0, <2>0, <3>1 DEF LauncherOK, Asking, Hidden
    <3> QED
      BY <1>0, <3>2 DEF ServerOK
  <2> QED
    BY <2>1, <2>2, <2>3, <2>4, <2>5, <2>6, <2>7
<1>4. PortChangesHands => stop' = stop
  BY DEF PortChangesHands
<1> QED
  BY <1>1, <1>2, <1>3, <1>4 DEF Next

\* stop() says that the service has stopped when it has, if it could read the
\* state file and its connection to a listening server did not fail.
THEOREM StoppedServersAreGone == Spec => StoppedIsStopped
<1>1. IInv /\ [Next]_vars =>
        [\A l \in Launchers :
           /\ la[l].pc # "stopped" /\ la'[l].pc = "stopped"
           /\ state \in Tokens => la[l].token = state
           => \A t \in ((Tokens \ forsaken) \union ({state} \intersect Tokens)) \ missed' :
                srv'[t] \in {"dead", "exiting"}]_vars
  BY StoppedStep
<1> QED
  BY <1>1, InitHolds, StepKeeps, PTL DEF Spec, StoppedIsStopped

\* stop() says that the server refused when it goes on serving.
THEOREM RefusalsAreReal == Spec => RefusalIsReal
<1>1. IInv /\ [Next]_vars =>
        [\A l \in Launchers :
           la[l].pc # "rejected" /\ la'[l].pc = "rejected" =>
             srv[la[l].token] = "serving"]_vars
  BY RejectedStep
<1> QED
  BY <1>1, InitHolds, StepKeeps, PTL DEF Spec, RefusalIsReal

\* No launcher takes a stop request away from a running server.
THEOREM RequestsAreLeftAlone == Spec => RequestsReachServers
<1>1. IInv /\ [Next]_vars =>
        [\A t \in Tokens \ missed' :
           /\ stop[t] # "none" /\ stop'[t] = "none"
           /\ srv[t] \in {"booting", "serving", "draining"}
           /\ srv'[t] # "dead"
           => watcher[t] = "refused"]_vars
  BY RemovedStep
<1> QED
  BY <1>1, InitHolds, StepKeeps, PTL DEF Spec, RequestsReachServers
=============================================================================
