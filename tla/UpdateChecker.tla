--------------------------- MODULE UpdateChecker ---------------------------
(***************************************************************************)
(* UpdateChecker (update.py): request threads of one server that share a   *)
(* release cache file and a non-blocking lock, a release source that       *)
(* publishes, throttles and fails, a clock that may be set back, a file    *)
(* that may not be readable or writable, and restarts of the server.       *)
(*                                                                         *)
(* A publication is the document the source serves: [shape, releases].  It *)
(* stands for its own ETag and Last-Modified.  An optional value is a set  *)
(* of at most one element, an absent time is NoTime.                       *)
(***************************************************************************)
EXTENDS SemanticVersion, Integers, FiniteSets

CONSTANTS
  Threads,        \* request threads
  NoThread,       \* nobody holds _check_lock
  Publications,   \* what the source may serve
  Channels,       \* the release channels the program is built for
  Current,        \* the version of the running program
  TTL,            \* cache_ttl
  Backoff,        \* DEFAULT_RATE_LIMIT_BACKOFF
  MaxBackoff,     \* MAX_RATE_LIMIT_BACKOFF
  Tolerance,      \* how far in the future a check time is still accepted
  Waits,          \* what a throttling answer asks for
  MaxTime,        \* bound of the clock
  MaxSetBack      \* bound on how far the clock is set back in all

NoTime == -1

ASSUME UpdateAssumption ==
  /\ NoThread \notin Threads
  /\ TTL \in Nat \ {0}
  /\ Backoff \in Nat \ {0}
  /\ MaxBackoff \in Nat \ {0}
  /\ Tolerance \in Nat
  /\ Waits \subseteq Nat
  /\ MaxTime \in Nat
  /\ MaxSetBack \in Nat
  /\ \A p \in Publications : p.shape = "missing" => p.releases = {}

\* The source serves finite lists, and versions that parse.
ASSUME VersionsAssumption ==
  /\ Current \in Versions
  /\ \A p \in Publications :
       /\ IsFiniteSet(p.releases)
       /\ \A raw \in p.releases : raw.version \in Versions

VARIABLES
  channel,   \* config.channel
  now,       \* the clock
  setBack,   \* how far it has been set back so far
  site,      \* the publication the source serves
  file,      \* the cache file
  lock,      \* holder of _check_lock
  th         \* the request threads

vars == <<channel, now, setBack, site, file, lock, th>>

\* "failed" stands for http_error, invalid_response and network_error.
Error == {"none", "rate_limited", "no_published_release", "failed", "invalid_cache"}

EmptyState ==
  [checked |-> NoTime, validator |-> {}, retry |-> NoTime, error |-> "none",
   release |-> {}, invalid |-> FALSE]
InvalidState == [EmptyState EXCEPT !.error = "invalid_cache", !.invalid = TRUE]

IdleThread ==
  [pc |-> "idle", force |-> FALSE, at |-> NoTime, state |-> EmptyState,
   blind |-> FALSE]

Init ==
  /\ channel \in Channels
  /\ now = 0
  /\ setBack = 0
  /\ site \in Publications
  /\ file \in [kind : {"absent", "foreign", "damaged"}, state : {EmptyState}]
  /\ lock = NoThread
  /\ th = [t \in Threads |-> IdleThread]

-----------------------------------------------------------------------------
(* What one publication offers on the channel.                             *)

\* _release_from_api: published, tag and flag agree, exactly one expected
\* asset, uploaded, of a sane size and with a digest.
Acceptable(raw) ==
  /\ raw.draft = FALSE
  /\ raw.flag = IsPrerelease(raw.version)
  /\ channel = "stable" => ~raw.flag
  /\ raw.assets = 1
  /\ raw.verified

\* _select_release raises.
Malformed(p) ==
  \/ p.shape # (IF channel = "stable" THEN "object" ELSE "list")
  \/ channel = "stable" /\ \E raw \in p.releases : ~Acceptable(raw)

Accepted(p) == {raw.version : raw \in {r \in p.releases : Acceptable(r)}}

\* _select_release returns: the release itself, or the newest of the list.
Offered(p) == IF Accepted(p) = {} THEN {} ELSE {Newest(Accepted(p))}

-----------------------------------------------------------------------------
(* The cache file and what follows from it.                                *)

\* _read_cache at a time: another identity is no cache, an impossible one is
\* an invalid cache, and no wait is longer than MaxBackoff.
ReadCache(at) ==
  CASE file.kind \in {"absent", "foreign"} -> EmptyState
    [] file.kind = "damaged" \/ file.state.checked > at + Tolerance -> InvalidState
    [] OTHER ->
         [file.state EXCEPT
            !.retry = IF @ > at + MaxBackoff THEN at + MaxBackoff ELSE @]

Throttled(s, at) == s.error = "rate_limited" /\ at < s.retry
Fresh(s, at) == s.checked # NoTime /\ s.checked <= at /\ at < s.checked + TTL

\* The gates of check(), before and after the lock.
MayAsk(s, at, force) == ~Throttled(s, at) /\ (force \/ ~Fresh(s, at))

\* _result_from_state: what status() and check() answer from a state.
StatusOf(s) ==
  CASE \E v \in s.release : Precedes(Current, v) -> "update_available"
    [] s.release # {} /\ \A v \in s.release : ~Precedes(Current, v) -> "up_to_date"
    [] s.release = {} /\ s # EmptyState -> "unavailable"
    [] OTHER -> "not_checked"

Return(t) == th' = [th EXCEPT ![t] = IdleThread]

-----------------------------------------------------------------------------
(* check()                                                                 *)

\* Reading the clock and the file; an unreadable file reads like none.
Reading(t, blind) ==
  [th[t] EXCEPT !.at = now, !.blind = blind,
                !.state = IF blind THEN EmptyState ELSE ReadCache(now)]

\* The first read: answered from the cache unless a request may be due.
Check(t, force, blind) ==
  LET r == [Reading(t, blind) EXCEPT !.force = force]
  IN  /\ th[t].pc = "idle"
      /\ IF MayAsk(r.state, now, force)
           THEN th' = [th EXCEPT ![t] = [r EXCEPT !.pc = "lock"]]
           ELSE Return(t)
      /\ UNCHANGED <<channel, now, setBack, site, file, lock>>

\* Mutant: what was read before the lock was taken is used under it.
AcquireWithoutReading(t, blind) ==
  /\ th[t].pc = "lock"
  /\ blind = FALSE
  /\ IF lock = NoThread
       THEN lock' = t /\ th' = [th EXCEPT ![t].pc = "ask"]
       ELSE Return(t) /\ UNCHANGED lock
  /\ UNCHANGED <<channel, now, setBack, site, file>>

\* _check_lock.acquire(blocking=False) and, under the lock, the second read
\* and the gates again.  When the lock is held, check_in_progress is returned
\* with the state that was read first.
Acquire(t, blind) ==
  LET r == Reading(t, blind)
  IN  /\ th[t].pc = "lock"
      /\ IF lock = NoThread /\ MayAsk(r.state, now, r.force)
           THEN lock' = t /\ th' = [th EXCEPT ![t] = [r EXCEPT !.pc = "ask"]]
           ELSE Return(t) /\ UNCHANGED lock
      /\ UNCHANGED <<channel, now, setBack, site, file>>

\* The request goes out, with the validators of the state that was read.
Ask(t) ==
  /\ th[t].pc = "ask"
  /\ th' = [th EXCEPT ![t].pc = "waiting"]
  /\ UNCHANGED <<channel, now, setBack, site, file, lock>>

\* Mutant: a file that cannot be written leaves the lock held.
RecordOrStayLocked(t, state) ==
  /\ \/ file' = [kind |-> "record", state |-> state] /\ lock' = NoThread
     \/ UNCHANGED <<file, lock>>
  /\ Return(t)
  /\ UNCHANGED <<channel, now, setBack, site>>

\* The answer is recorded and returned, or the file cannot be written and
\* the call raises; the lock is released either way.
Record(t, state) ==
  /\ \/ file' = [kind |-> "record", state |-> state]
     \/ UNCHANGED file
  /\ Return(t)
  /\ lock' = NoThread
  /\ UNCHANGED <<channel, now, setBack, site>>

\* _record_error
Failed(s) == [s EXCEPT !.retry = NoTime, !.error = "failed", !.invalid = FALSE]

\* 200 with a document; its ETag may be missing or unusable.
AnswerDocument(t) ==
  LET s == th[t].state
      checked == [EmptyState EXCEPT !.checked = th[t].at, !.release = Offered(site),
                    !.error = IF Offered(site) = {} THEN "no_published_release"
                                                    ELSE "none"]
  IN  /\ th[t].pc = "waiting"
      /\ site.shape # "missing"
      /\ IF Malformed(site)
           THEN Record(t, Failed(s))
           ELSE \E validator \in {{}, {site}} :
                  Record(t, [checked EXCEPT !.validator = validator])

\* 304: the source still serves what the validators name; or it says so to a
\* thread that knows no release.
AnswerNotModified(t) ==
  LET s == th[t].state
      nothingKnown == s.checked = NoTime \/ s.invalid
  IN  /\ th[t].pc = "waiting"
      /\ nothingKnown \/ s.validator = {site}
      /\ IF nothingKnown
           THEN Record(t, Failed(s))
           ELSE Record(t, [EmptyState EXCEPT !.checked = th[t].at,
                             !.validator = s.validator, !.release = s.release])

\* _rate_limit_retry_at: Retry-After and X-RateLimit-Reset can only lengthen
\* the default wait, and no wait is longer than MaxBackoff.
RetryAt(at, wait) ==
  LET asked == IF wait > Backoff THEN wait ELSE Backoff
  IN  at + (IF asked > MaxBackoff THEN MaxBackoff ELSE asked)

\* Mutant: the state of a throttled check starts from nothing.
AnswerThrottledForgetting(t, wait) ==
  /\ th[t].pc = "waiting"
  /\ Record(t, [EmptyState EXCEPT !.retry = RetryAt(th[t].at, wait),
                                  !.error = "rate_limited"])

\* 403 or 429
AnswerThrottled(t, wait) ==
  /\ th[t].pc = "waiting"
  /\ Record(t, [th[t].state EXCEPT !.retry = RetryAt(th[t].at, wait),
                  !.error = "rate_limited", !.invalid = FALSE])

\* Mutant: a missing release keeps the validators of the last one.
AnswerMissingKeepingValidator(t) ==
  /\ th[t].pc = "waiting"
  /\ site.shape = "missing"
  /\ Record(t, [EmptyState EXCEPT !.checked = th[t].at,
                  !.validator = th[t].state.validator,
                  !.error = "no_published_release"])

\* 404
AnswerMissing(t) ==
  /\ th[t].pc = "waiting"
  /\ site.shape = "missing"
  /\ Record(t, [EmptyState EXCEPT !.checked = th[t].at,
                                  !.error = "no_published_release"])

\* Another status, no connection, a timeout, an oversized or unusable body.
AnswerFailed(t) ==
  /\ th[t].pc = "waiting"
  /\ Record(t, Failed(th[t].state))

-----------------------------------------------------------------------------
(* The environment                                                         *)

Publish ==
  /\ site' \in Publications \ {site}
  /\ UNCHANGED <<channel, now, setBack, file, lock, th>>

Tick ==
  /\ now < MaxTime
  /\ now' = now + 1
  /\ UNCHANGED <<channel, setBack, site, file, lock, th>>

SetBack ==
  /\ now > 0
  /\ setBack < MaxSetBack
  /\ now' = now - 1
  /\ setBack' = setBack + 1
  /\ UNCHANGED <<channel, site, file, lock, th>>

\* The server dies or stops and is started again.
Restart ==
  /\ lock' = NoThread
  /\ th' = [t \in Threads |-> IdleThread]
  /\ UNCHANGED <<channel, now, setBack, site, file>>

Answer(t) ==
  \/ AnswerDocument(t)
  \/ AnswerNotModified(t)
  \/ \E wait \in Waits : AnswerThrottled(t, wait)
  \/ AnswerMissing(t)
  \/ AnswerFailed(t)

Step(t) ==
  \/ \E force, blind \in BOOLEAN : Check(t, force, blind)
  \/ \E blind \in BOOLEAN : Acquire(t, blind)
  \/ Ask(t)
  \/ Answer(t)

Next ==
  \/ \E t \in Threads : Step(t)
  \/ Publish \/ Tick \/ SetBack \/ Restart

Spec == Init /\ [][Next]_vars

-----------------------------------------------------------------------------
(* Properties                                                              *)

StateOK(s) ==
  /\ s.checked \in Int
  /\ s.validator \in SUBSET Publications
  /\ s.retry \in Int
  /\ s.error \in Error
  /\ s.invalid \in BOOLEAN

\* Types, and the lock is held by exactly the thread that is past it.
TypeOK ==
  /\ now \in Int
  /\ file.kind \in {"absent", "foreign", "damaged", "record"}
  /\ StateOK(file.state)
  /\ lock \in Threads \union {NoThread}
  /\ \A t \in Threads :
       /\ th[t].pc \in {"idle", "lock", "ask", "waiting"}
       /\ th[t].force \in BOOLEAN
       /\ th[t].blind \in BOOLEAN
       /\ th[t].at \in Int
       /\ StateOK(th[t].state)
       /\ th[t].pc \in {"ask", "waiting"} <=> lock = t

\* Whatever state an answer is made from, the file as it is now or what a
\* thread still holds: an update is announced exactly when the release shown
\* is later than the running version; that release is one the source has
\* published, no acceptable one published with it is later, and the stable
\* channel shows no pre-release.  Later means by the reference order.
OffersOnlyNewer ==
  \A s \in {ReadCache(now)} \union {th[t].state : t \in Threads} :
    /\ StatusOf(s) = "update_available" <=> \E v \in s.release : Earlier(Current, v)
    /\ \A v \in s.release :
         /\ channel = "stable" => ~IsPrerelease(v)
         /\ \E p \in Publications :
              v \in Accepted(p) /\ \A w \in Accepted(p) : ~Earlier(v, w)

\* The thread decided with what the file held then.
Informed(t) == ~th[t].blind /\ ~th[t].state.invalid

\* check() sends no request inside a window that the file records, forced or
\* not, and no unforced one while a success is fresh, whatever other threads
\* have recorded since the thread first looked: unless the file could not be
\* read, or is refused because its check time lies in the future.
GatesHold ==
  [][\A t \in Threads :
       /\ th[t].pc = "ask" /\ th'[t].pc = "waiting"
       /\ Informed(t)
       /\ file.kind = "record"
       => /\ ~Throttled(file.state, th[t].at)
          /\ ~Fresh(file.state, th[t].at) \/ th[t].force]_vars

\* A check that succeeds leaves the release the source serves at that moment,
\* whether the source sent it or said it had not changed.
SuccessIsCurrent ==
  [][file' # file /\ file'.state.error \in {"none", "no_published_release"}
     => file'.state.release = Offered(site)]_vars

\* A check that fails or is throttled loses neither the release known so far
\* nor the time and the validators of the last success.
FailureForgetsNothing ==
  [][\A t \in Threads :
       /\ lock = t /\ Informed(t)
       /\ file.kind = "record" /\ file' # file
       /\ file'.state.error \notin {"none", "no_published_release"}
       => /\ file'.state.release = file.state.release
          /\ file'.state.checked = file.state.checked
          /\ file'.state.validator = file.state.validator]_vars
=============================================================================
