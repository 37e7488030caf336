--------------------------- MODULE ExclusiveSync ---------------------------
(***************************************************************************)
(* What FCA synchronisation promises to everything that shares one data    *)
(* directory, without saying how: at most one writer exists at a time, a   *)
(* writer only begins in a process that is open, and closing a process     *)
(* lets its writer end but admits no other one.  SyncCoordinator           *)
(* implements this with a reservation flag, a closing flag and an          *)
(* operating-system file lock.                                             *)
(***************************************************************************)
CONSTANTS Procs,     \* operating-system processes sharing the data directory
          Workers    \* threads of one process that may run a sync

VARIABLES writers,   \* the <<process, thread>> pairs between begin and end
          open       \* the processes that accept new syncs

avars == <<writers, open>>

Init == writers = {} /\ open = {}

OfProc(p) == {x \in writers : x[1] = p}

Open(p) ==
  /\ p \notin open
  /\ OfProc(p) = {}
  /\ open' = open \union {p}
  /\ UNCHANGED writers

Begin(p, w) ==
  /\ p \in open
  /\ writers = {}
  /\ writers' = {<<p, w>>}
  /\ UNCHANGED open

End(p, w) ==
  /\ writers = {<<p, w>>}
  /\ writers' = {}
  /\ UNCHANGED open

Close(p) ==
  /\ p \in open
  /\ open' = open \ {p}
  /\ UNCHANGED writers

\* The process is gone, orderly or not, and its threads with it.
Leave(p) ==
  /\ open' = open \ {p}
  /\ writers' = writers \ OfProc(p)

Next ==
  \E p \in Procs :
    \/ Open(p) \/ Close(p) \/ Leave(p)
    \/ \E w \in Workers : Begin(p, w) \/ End(p, w)

Spec == Init /\ [][Next]_avars
=============================================================================
