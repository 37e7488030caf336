# A TLA+ model of Short Tracker

Short Tracker downloads short-position disclosures from the FCA, stores them in
SQLite and shows them in a local dashboard. Several threads and several
processes share one data directory: local servers, the command-line sync, an
in-app scheduler, HTTP requests, the thread that watches for a shutdown
request, launchers that start and stop the server, exporters that replace a
directory. This directory models the parts of the program where these actors
meet, checks them with TLC on small instances and proves their central
properties with TLAPS for every instance.

Paths are relative to the repository; `server.py`, `fca.py`, ... are in
`short_tracker/`.

## The modules at a glance

| Module | Models | Checked by | Proved in |
| --- | --- | --- | --- |
| `ExclusiveSync` | what synchronisation promises: one writer | (abstract) | |
| `SyncCoordinator` | `SyncCoordinator` (server.py), `ProcessFileLock` (process_lock.py), several processes | `sync_safety`, `auto_live` | `SyncCoordinator_proofs` |
| `PublishedData` | what a data directory promises its readers | (abstract) | |
| `FcaSync` | `FCADataService.sync`, `_fetch_source`, `_ensure_import` (fca.py), the tables of db.py, the archive | `fca_safety`, `fca_live`, `fca_failed_run` | `FcaSync_proofs` |
| `AutoSyncScheduler` | `AutoSyncScheduler` (scheduler.py), `SettingsStore` (settings.py), settings handler and closing threads, composed with `SyncCoordinator` | `auto_safety`, `auto_live`, `auto_interval` | `AutoSyncScheduler_proofs` |
| `SemanticVersion` | `SemanticVersion` (update.py): the order of versions | `update_safety` | `UpdateChecker_proofs` |
| `UpdateChecker` | `UpdateChecker` (update.py): request threads, cache file, throttling, clock, restarts | `update_safety` | `UpdateChecker_proofs` |
| `DesktopLauncher` | `ShortTrackerLauncher`, `DesktopSession` (desktop_launcher.py) and the shutdown watcher of `serve` (server.py) | `launcher_safety` | `DesktopLauncher_proofs` |
| `PriceService` | price requests (server.py), ticker mappings and cache (cache.py), provider calls (prices.py) | `prices` | `PriceService_proofs` |
| `ShortSeries` | the series derived from the rows: named disclosures by issuer and by ISIN, ANSP chart intervals (fca.py, public_export.py) | `export` | `ShortSeries_proofs` |
| `PublicExport` | imports with the issuer resolver, the readers of the published rows (fca.py), the exporters (public_export.py) | `export`, `export_names` | `PublicExport_proofs` |

`MC*` modules hold what TLC needs beyond a specification: values of constants
as definitions, symmetry sets, in one case an action constraint, and in one the
versions of a test in their order.

How the modules fit together: `SyncCoordinator` admits one writer (refining
`ExclusiveSync`); `FcaSync` is what that writer does (refining `PublishedData`);
`AutoSyncScheduler` instantiates `SyncCoordinator` and is one of its callers;
`PublicExport` takes from `FcaSync` that heads move as a whole to imported files
and models what is computed and read of them, with the pure operators of
`ShortSeries`. `DesktopLauncher` uses of the coordinator only what
`DrainedMeansQuiet` and the refinement of `ExclusiveSync` promise: a server that
has begun to close begins no sync and ends its loop when the running one is over.
`UpdateChecker` and `PriceService` share no state with the others.

## Inventory

For each component: its state, its operations, what makes it hard, and what
makes it correct.

**Sync reservation** (`SyncCoordinator` in server.py:83-225, process_lock.py).
State: `_running`, `_closing`, `_completed_at`, `_last_error`, `_last_result`
under one lock; the handle of the lock file; the operating system's lock on it.
Operations: `start`, `run`, `_reserve`, `_run_reserved`, `begin_closing`,
`wait_for_idle`, `add_completion_listener`, `snapshot`. Called by HTTP handlers,
the scheduler, the command line and the closing threads. Hard: callers of
several threads and processes, a thread that cannot be started, an unlock that
raises, a process that dies, closing that races reserving. Correct when there
is one writer, no reservation is stranded, and draining means quiet.

**FCA synchronisation** (fca.py:406-783, db.py). State: tables `sync_runs`,
`raw_snapshots`, `import_runs`, `dataset_heads` and the dataset tables; files
under `data/raw`. Operations: `sync`, `_fetch_source`, `_ensure_import`. Hard:
a dozen transactions, requests and file writes, any of which may fail or be the
last thing the process does; reuse of what an earlier run left behind. Correct
when readers always have a complete set, replaced as a whole, and no leftover
stops later runs.

**Automatic sync scheduler** (scheduler.py). State: two events, settings, attempt
and success times, a failure count, all under a state lock. Operations: the
loop `_run`, `start`, `stop`, `reconfigure`, `_sync_completed`. Interacts with
the coordinator (starts syncs, listens to completions), the settings store, the
HTTP settings handler (wakes it) and the closing threads (join it without a
timeout). Hard: wakeups, stale reads, decisions on a snapshot. Correct when no
wakeup is lost, stopping ends and is final, and checks go on at their interval.

**Settings store** (settings.py). A JSON file replaced atomically under a lock;
`load`, `update`, validation. Correct when readers see a valid document or an
error, never a mixture.

**Readers of the published data** (fca.py:1294-1719, server.py:378-736).
`get_security`, `get_short_series`, `get_current_rankings`, `_coverage`, the
status page. No state of their own; they read heads, rows and coverage in
several statements while a sync moves the heads. Correct when the points of a
series describe one set.

**Series algorithms** (fca.py:50-148, 298-375, 783-1202): ANSP chart schedule,
issuer resolution, legacy import and aggregate. Pure or inside one transaction;
hard at their boundaries (dates, duplicates, rows below a threshold).

**Update checker** (update.py). State: the release cache file, a non-blocking
lock. Operations: `status`, `check` and below it `_network_check`,
`_select_release`, `_read_cache`, `_write_cache`. Hard: threads that decide
before and after they have the lock, answers of every status, validators that
must belong to the release they are kept with, a clock that is set back,
restarts. Correct when no request is made inside a recorded window, failures
forget nothing, and only a newer release is offered.

**Desktop launcher and shutdown protocol** (launcher/desktop_launcher.py,
server.py:1360-1425). State: a state file and a shutdown request file per
server, a runtime lock, the port, the server process and its watcher thread,
windows. Operations: `start`, `stop`, `status`, the closing of a window; in the
server the watcher and the end of `serve`. Hard: everything a launcher knows it
infers from probes and files; launchers and servers die at any step; other
programs take the port. Correct when a running server stays recorded and what
`stop` reports is so.

**Price providers and ticker mapping** (prices.py, cache.py, server.py:821-1001).
State: the mapping file, cached answers. Operations: `get_prices`,
`price_search`, `save_price_symbol`, the provider calls with their retries. Hard:
a lookup that takes seconds between reading and writing a mapping. Correct when
a reviewed mapping is kept and every request ends.

**Public export** (public_export.py). State: the output directory, a staging
and a backup directory per process. Operations: `export_public_data`,
`_replace_directory`. Hard: several statements on a database that a sync
changes, renames that fail or are the last thing a process does, two exporters.
Correct when it shows what the rows say and never destroys the last export.

**Command line and verification report** (__main__.py): `sync`, a caller of
`SyncCoordinator.run`; `verify`, read-only queries.

**Web front end** (web/app.js, i18n.js, motion.js): loads data and polls the
status of a sync; a newer request aborts the one it replaces.

**Runtime paths and packaging; release and licence tools**: no shared state.

## SyncCoordinator

Each critical section of the state lock is one action. A worker slot stands for
one call of `start()` or `run()`, from its reservation to the end of its
completion listeners:

| pc of a slot | in the code |
| --- | --- |
| `free` | no call, or refused: a refusal changes nothing |
| `reserved` | `_reserve` succeeded, thread not started yet (server.py:112-128) |
| `syncing` | inside `service.sync` (153) |
| `finishing` | outcome recorded, `finally` not entered (155-161) |
| `notifying` | reservation given back, listeners run (164-177) |

Two slots of a process are busy together only because the listeners run after
the reservation was given back. A closer is a thread that calls
`begin_closing()` and then `drain()`. `Vanish` is the end of a process: its
memory is gone and the operating system drops its lock. `held`, `osLock` and
`running` are separate variables because the code updates them in different
calls, and the point of the model is that no path lets them drift apart.

When unlocking raises inside the `finally` block the code has closed the handle
already, so the lock is free, but the snapshot, the notification and the
listeners are skipped; `ReleaseMayRaise` switches this on.

Properties: `MutualExclusion`, `ReservationNotStranded`, `DrainedMeansQuiet`,
`CompletionReportsOwnOutcome`, `DrainEnds`, and the refinement of
`ExclusiveSync` (`writers` are the active slots, `open` the live processes that
do not close).

## FcaSync

One action per transaction, archive write or request. The actions follow
`sync()`: `Start`, then per source `NotModified` or `Download` and
`RecordSnapshot`, then per dataset `ReuseImport` or `BeginImport` and
`CommitImport` (or `ParseError`, `RecordImportFailure`), then `Activate`,
`MarkSuccess`. `StepFails` makes the next statement raise, `Crash` ends the
process between any two of them, `UpstreamChanges` lets the FCA publish, or go
back to, any file at any time. Since `SyncCoordinator` admits one writer, the
local variables of `sync()` are one set.

Abstractions: a file is a payload, and a snapshot is a source with a payload
(`raw_snapshots` is unique on source and hash). What an importer computes is
abstracted to whether it accepts the payload; `CommitImport` is one action
because the rows, the counts and the status are one transaction. Recorded run
ids are reused once no head refers to them: the bound `RunIds`.

`PublishedData` has two variables: what the sync that is going on has collected,
one importable file per dataset, and what is published, which one step replaces
by the whole of that or leaves as it is. Here `Candidate` is what `sync()` has
imported up to its position, and `Published` what the heads give a reader. So
heads that move one by one, or a set mixed from two syncs, conform to no step of
the abstract specification.

Properties: `HeadsServeImportedRows`, `HeadsFromOneSync`, `SnapshotsAreArchived`,
`ImportedRowsStay`, `Converges`, and the refinement of `PublishedData`.

## AutoSyncScheduler

The coordinator's part of the state is moved only by actions of
`SyncCoordinator` (`Sync == INSTANCE SyncCoordinator WITH Procs <- {Self}`), each
conjoined with what the same code does to the scheduler. The loop `_run` has one
action per read of another object's state and per section under the scheduler's
lock:

| spc | in `_run` |
| --- | --- |
| `top` | `while not self._stop.is_set()` and `settings.load()` (229-242) |
| `loaded` | settings read, `_settings` not stored (244-245) |
| `look` | coordinator snapshot (246-258) |
| `decide` | `_due_at` against the clock (260-270) |
| `start`, `starting` | in `coordinator.start()` (272-273) |
| `started`, `raised` | what follows its return or its exception (274-294) |
| `asleep`, `woken` | in `_wait`, before the event is cleared (225-227) |
| `ended`, `died` | the loop was left; an exception ended its thread |

Time is kept as ages: how long ago the last attempt and success were. Ages stop
growing at `Horizon`, the failure count at `FailureCap`, beyond which
`_failure_delay` is constant; both assumptions are stated in
`SchedulerAssumption`. The loop may be woken by a timeout at any time, since
`_wait` never sleeps longer than its reload interval. `Launch` starts from any
history the database may hold (`Persisted`). The module describes one life of
the process; other processes appear as an environment that may hold the lock
and publish data.

`QueryFails`: unless a backoff applies, `_due_at` asks the database whether there
is data, outside of any `try` (scheduler.py:262, server.py:286-288). A query that
raises ends the thread, and nothing starts another one before the next launch.
So it is not true that checks always go on; `ChecksContinue` says that they do
as long as no query has ended the thread, and that no other failure, history or
wakeup stops them. Stopping and draining end with a dead loop as well.

Properties: `SleepsWithCurrentSettings`, `StoppedForGood`, `StopEnds`,
`DrainEnds` (the coordinator's, with the scheduler and its `stop()` in between),
`ChecksContinue`.

## UpdateChecker

A thread calls `check()`: `Check` is the first read of clock and file with its
gates, `Acquire` the lock and the second read with the gates again, `Ask` the
request, and one action per kind of answer writes the file, returns and gives
the lock back (`AnswerDocument`, `AnswerNotModified`, `AnswerThrottled`,
`AnswerMissing`, `AnswerFailed`). A write may fail: the call raises and the lock
is given back all the same. `blind` marks a read that found the file unreadable.
Around the threads the source publishes (`Publish`), the clock moves and is set
back (`Tick`, `SetBack`) and the server dies or restarts (`Restart`).

`OffersOnlyNewer` compares by `Earlier` (SemanticVersion), a second definition of
the order of versions that knows no cases: a version is read place by place,
three numbers, then identifiers and an end of the list, or the mark of a
release; an end comes before a number, a number before text, text before the
mark. `ReferenceOrder` in `MCUpdateChecker` puts the versions of
tests/test_update.py:122-131 to it.

A publication stands for the document and its validators. Versions are sequences
of numbers and identifiers, words being numbered in the order of their strings;
entries whose tag does not parse count as not acceptable, like any other
unusable entry (`VersionsAssumption`: all others have a version); `http_error`,
`invalid_response` and `network_error` are one error `failed`, since they differ
in wording only.

`GatesHold` and `FailureForgetsNothing` are about threads that could read the
file. They do not hold of others, and neither does the code promise it: an
unreadable file counts as none, and one whose check time lies further in the
future than the tolerance counts as invalid, so that a clock set back that far
loses a throttling window although the docstring says that none is bypassed
(update.py:338-339).

## DesktopLauncher

| pc of a launcher | in the code |
| --- | --- |
| `locking` | `_runtime_lock` (waits or gives up) |
| `start`, `probe`, `spawn` | `start()`: health, port, `Popen` |
| `save`, `poll`, `revoke`, `kill` | state file, wait for health, `_terminate_fresh_process` |
| `stop`, `unanswered`, `inspect` | `stop()`: health, port, `_state_process_status` |
| `request`, `waiting`, `confirming` | request written, wait for the port, is the refusal real |
| `started`, `foreign`, `stopped`, `rejected`, `failed` | outcomes |
| `shown`, `closing` | the window and `_close_worker` |

A server is `booting`, `serving`, `draining` (closing, still answering health),
`ended` (the request loop is over), `cleaned` (the request file is removed),
`exiting` (the socket is closed), `dead`. One token stands for process, instance
id and shutdown token, which are made together; a token is used again when the
server is dead and nothing refers to it, which keeps the model finite without a
bound. A health probe may time out at any moment, and so may every wait. A probe
of the port (`Probe`) may find a listening program closed, since any error of
the connection counts as that (677-682), and the state file may be unreadable or
not parsable at any read (`ReadState`), which counts as no state (221-226).
`Damaged` is a file that parses and is not valid.

`forsaken` is a history variable: the servers whose `start()` ended (the
launcher died, or could not end the new process) before it saw them well or
gone. A launcher that dies between `Popen` and the state file leaves a server
nobody can stop. `missed` is one too: the servers that a failed port probe hid
from a `start()` that looked for a free port, or from a `stop()` that waited for
the port to close. The one lets a second server take the record, the other
removes request and record of a server that runs. `Manageable`,
`StoppedIsStopped` and `RequestsReachServers` are about all others, and
`StoppedIsStopped` excludes also a `stop()` that could not read the record that
is there: with both probes failing it answers "already stopped" for a running
server, although it removes nothing. Each of these conditions is needed: without
it TLC finds the case.

What the model shows besides: the watcher removes a refused request by its name
and may remove a newer, forced one unread; an error of that removal ends the
watcher, and the server no longer hears requests. `RequestsReachServers` and
`RefusalIsReal` say what holds all the same: no launcher removes a request of a
running server, and a refusal reported is one by a server that goes on serving.

## PriceService

One action per read and write of the mapping file and per attempt of a provider
call; the two calls of a lookup and of a fetch run at the same time. `missed` is
a history variable: the issuers whose reviewed mapping a request cannot know of,
because it read the file before, or could not read it. An unreadable file counts
as empty, so that the next save of one mapping drops all others, and a slow
lookup that began before a review overwrites it: `ReviewsAreKept` admits exactly
these losses and rules out every other one. Prices, scores and parsing are
abstracted to found or not found, the age of a cache entry to usable or not; an
error while storing a fresh answer discards it. Of two fetches the one that
began first may be stored last; the age of the answer is then too young. No
property covers this.

## ShortSeries and PublicExport

`ShortSeries` has the algorithms as operators on one set of files. A loop over
rows is a recursive function of the number of rows done (`Replayed`,
`SeriesReplayed`), with one operator for what a row does (`Replay`,
`ReplaySeries`) and the order of the SQL queries as a function from places to row
numbers (`InOrder`). The properties compare the results with definitions that
know no order of evaluation (`DisclosedOn`, `InForce`).
`PublicExport` runs the imports through `_IssuerResolver` (`Resolve`, row by
row, with its cache of names) and lets syncs publish, requests read and
exporters replace the directory. Imported rows never change, so a reader's
statement is modelled by the set of heads it saw. A request for a series has one
action per statement: `ReadSecurity` (get_security, on a connection of its own,
with the shares by a join with the heads of that moment), `ReadHeads`,
`ReadHistoric`, `ReadCurrent`. With the last one the chart is made, or raises
(fca.py:108) and the request fails.

`IdentityHolds`: an ISIN never changes its issuer, so rows selected by the
issuer of the import (front end) and by the ISIN (export) are the same, and the
ISINs of an issuer are connected by names they were published under, be these
ambiguous or not. What becomes of ambiguous names depends on the order of rows,
which the docstring of the resolver does not say: see Findings.

`SeriesShowsOneSet`: however many sets are published while a series is read, its
points are those of the set whose heads it read. Every state that has ended is
there, and from the first point of an ISIN on each day shows the state in force,
except that an issuer has one current state in the front end. The shares are
older than the heads when a sync publishes in between: they can only move the
first point, or make the chain raise. What the property does not cover: the
coverage of the series (fca.py:1515-1521) and the latest state that get_security
adds are read at other moments, and may describe another set than the points.
An export has the same gap. It reads the coverage and then the heads
(public_export.py:807-808); when a sync publishes in between, the files name the
hashes of other sources than their rows come from, although a comment calls them
"exact source hashes" (public_export.py:563-564). Nothing true remains to be
checked about the two but that they agree when nothing is published in between.

`LastExportIsKept` holds of the whole disk and not of the output directory:
between the two renames there is none, and a process that dies there leaves the
old export under its backup name (docstring: "atomically install",
public_export.py:791). Three more behaviours the model has: a failed removal of
the backup is reported as a failed export although it is installed; a leftover
backup and a process id used again make later exports fail; and when another
exporter has moved the output in between, such a leftover, perhaps partial, is
put in its place.

Two facts the chart property makes explicit: the front end takes one current
ANSP row per issuer, so that the current state of a second ISIN is exported but
not shown; and a share that leaves the list and comes back with a date of
addition after its old intervals makes the schedule raise (fca.py:108), which
fails its series and the export. The points of such a chain show the state in
force all the same, so `AnspChartShowsStateInForce` makes no exception of them.

## Runs

| Run | Instance | Shows |
| --- | --- | --- |
| `sync_safety` | 2 processes, 2 slots and 2 closers each, unlocking may raise, symmetry; 286 309 states | safety and the refinement of `ExclusiveSync` |
| `fca_safety` | 2 sources with datasets, imported in reverse order, 2 payloads, 2 run ids, unlimited faults; 581 604 states | safety and the refinement of `PublishedData` |
| `fca_live` | 1 source, 4 payloads of which one is malformed and one unparsable; 264 932 states | `Converges` |
| `fca_failed_run` | as `fca_safety` | expected violation, see Findings |
| `auto_safety` | 1 slot, 2 settings requests, 1 closer, ages up to 1; 1 761 364 states | `SleepsWithCurrentSettings`, `StoppedForGood` |
| `auto_live` | 1 slot, 2 closers, no requests, ages and failures up to 2, settings may be unreadable, with fairness; 171 348 states | `StopEnds`, `DrainEnds`, `ChecksContinue` |
| `auto_interval` | 1 slot, 1 request, ages up to 2 | expected violation, see Findings |
| `update_safety` | 2 threads, 4 publications over a ladder of 5 versions, both channels, `TTL` 1, `Backoff` 1, `MaxBackoff` 2, clock to 2 and back by 1; 1 612 248 states | `OffersOnlyNewer`, `GatesHold`, `SuccessIsCurrent`, `FailureForgetsNothing` |
| `launcher_safety` | 2 launchers, 2 servers, symmetry, no other bound; 6 274 754 states | `Manageable`, `StoppedIsStopped`, `RefusalIsReal`, `RequestsReachServers` |
| `prices` | 2 issuers, 1 symbol, 2 requests, 1 retry, with fairness; about 435 000 states | `ReviewsAreKept`, `RequestsEnd` |
| `export` | about 6 000 sets of files, 2 syncs, 1 reader, 2 exporters; 223 889 states | `IdentityHolds`, `LegacySeriesAgree`, `AnspChartShowsStateInForce`, `SeriesShowsOneSet`, `LastExportIsKept` |
| `export_names` | three shares and two names in two files, 1 sync | expected violation, see Findings |

Why the bounds are enough. Two processes with two callers each give every
pair of conflicting callers, inside one process and across two; two closers
are the two threads that close (watcher, main thread). For `FcaSync`, two
datasets are the least for a partial set, two orders for a mix-up of loops, and
two payloads for a change and its return; faults and crashes are not bounded.
For the scheduler two settings requests race each other and the loop; the
interval is above the base delay, and the cap above the base, so that the
branches of `_due_at` differ. The safety results do not depend on these bounds
where a theorem is listed below.

For the update checker two threads are the two sides of the lock, the longest
wait asked for (3) is beyond `MaxBackoff`, a window outlives a fresh success,
and the clock can pass both. The publications have a missing release, a release,
a mislabelled one, and a list with pre-releases, a draft and an ambiguous entry.
Two launchers conflict over the lock and the window, two servers are an old and
a new one; nothing in that model counts. Two price requests for two issuers give
the lost update of the same and of another mapping.

The series are functions of the files, so their runs are over files: named
disclosures of two holders and two share classes with up to two rows on one or
two days, values below, at and above the threshold, and of one holder with up to
three rows (a correction of a correction); ANSP histories of up to two states on
every order of dates around the scope's start, with none, another or an own
current state; three shares under two names in two files of up to two rows.
Requests and exports run only over three full sets, and not both kinds at a time
(`OneKindOnFullSets`), since a request shares nothing with an exporter. Between
these sets a state of x ends, y takes its place on the list of shares and has a
state of its own, and x comes back to the list with a later date, so that every
statement of a request finds something else after a sync. The
theorems about them have no such restriction.

`CHECK_DEADLOCK FALSE` appears where the system may stop: the process of
`AutoSyncScheduler` ends for good once it has drained, each request of
`PriceService` is made once, and syncs of `PublicExport` are counted.

Every property of a passing run is also run against a mutant: an operator that stands for a
plausible bug of the code (marked `Mutant:` in the modules), under which TLC
finds the property violated.

## Fairness

`SyncCoordinator` states no fairness of its own: `DrainEnds` is checked in
`auto_live`, under the fairness of the composition below. Threads are scheduled
by the operating system, and `service.sync` returns because each of its requests
has a timeout and a size limit. Reserving, closing and crashing are never
required. The run has `ReleaseMayRaise = FALSE`: when unlocking raises, the
notification really is skipped and a waiting closer really sleeps until someone
else notifies.

`FcaSync`: weak fairness of the next step of a sync and of starting one (the
scheduler's `ChecksContinue`). `Converges` assumes in the formula itself that
faults cease and the publication is stable.

`PriceService`: weak fairness of each request that has been made: its thread is
scheduled, and every provider call returns since it has a timeout.

`AutoSyncScheduler`: weak fairness of the clock, of the loop and of each worker,
request and closing thread. The loop's fairness includes its timed waits.
`ChecksContinue` assumes in the formula that the service stays open, that the
check stays enabled, that settings become readable and that no failing database
query has ended the thread. The last two are conditions on the machine and not
on the scheduling: the code has no answer to a query that fails.

## Proofs

All are checked by TLAPS for arbitrary constants that satisfy the named
assumptions (`CoordinatorAssumption`, `FcaAssumption`, `SchedulerAssumption`,
`UpdateAssumption`, `VersionsAssumption`, `LauncherAssumption`,
`PriceAssumption`, `NoneAssumption`, `ExportAssumption`, `SeriesAssumption`,
`FilesAssumption`); each says that constants have their types and that marks
like "nobody" are not members of what they mark. `UpdateAssumption` adds that a
404 serves no release, `VersionsAssumption` that the source serves finite lists,
and `FilesAssumption` that a file is a finite sequence of rows whose dates and
values are numbers.

`SyncCoordinator_proofs`. `MutualExclusion` is not inductive: it has to know
that the flag, the handle and the operating-system lock agree, and that a slot
with a reservation has them set. `IInv` adds `Reservation` (the three records
agree and have exactly one owner), `Unstarted` (a dead process holds nothing),
`Drained` (a closer past `begin_closing` is in a closing process, a drained one
in an idle one) and `OwnError` (`_last_error` belongs to the current
reservation until the snapshot is taken). From it: `TypeCorrect`, `OneWriter`,
`NothingStranded`, `DrainIsSafe`, `OwnOutcome`, and `Refinement` (every step is
a step or a stutter of `ExclusiveSync`).
`SleepersAreWaitedFor` is the safety half of `DrainEnds`: a closer sleeps only
while a slot of its process has the reservation, so the end of that reservation
finds it asleep and wakes it. Its hypothesis is `~ReleaseMayRaise`, as in the
run of `DrainEnds`; without it TLC finds the sleeper nobody will wake.

`FcaSync_proofs`. `HeadsServeImportedRows` needs what `sync()` knows at each of
its places: `Position` (the loops stay in their lists), `Recorded` (everything
fetched is recorded, and every source is fetched when imports begin),
`Progress` (the datasets before the current one are imported; all of them when
heads move) and `ImportsHaveRows`. From it: `TypeCorrect`, `HeadsAreServable`,
`HeadsAreOneSync`, `ArchiveIsComplete`, `ImportsAreFinal`, and `Refinement` of
`PublishedData`: every step is one that collects a file, publishes the whole
collection, abandons it, or changes neither.

`AutoSyncScheduler_proofs`. `ComposesCoordinator` shows that every behaviour of
the composition is one of `SyncCoordinator`, so that the coordinator's theorems
carry over (`DrainIsSafe`). `StopIsFinal` follows from `Lifecycle` (closing
precedes stopping, and the loop has ended when `stop()` returned),
`NoLostWakeup` from `Current`: unless an event is set or a request will set
one, the loop has the file's settings from the moment it loaded them. The
latter assumes that the settings file can be read; when it cannot, the loop
sleeps on what it had before, by design of the code.

`UpdateChecker_proofs`. `IInv` is the types with two facts: `Sees` (a thread past
the lock passed the gates with what the file still holds, because nobody else
writes it) and `Named` (the release of every state, in the file or in a thread,
is what the publication named by its validators offers). `AnswerWrites` says
once what each answer writes. From it: `TypeCorrect`, `GatesAreKept`,
`SuccessesAreCurrent`, `FailuresForgetNothing`. The module also proves the order
of versions: `Precedes` is a strict total order (`VersionsAreOrdered`; the first
place at which two lists differ is a least number), it is the reference order
(`ComparesAsReference`), and a finite list has one version that follows all
others (`NewestFollowsAll`, by a least number of versions for which it would
fail). With `Named`, every release of a state is what some publication offers,
so that `OnlyNewerIsOffered` follows.

`DesktopLauncher_proofs`. `IInv` adds to types and `Manageable`: `ServerOK` (a
server that has bound the port keeps it until it closes the socket),
`LauncherOK` (what a launcher relies on at each place: when it spawns, nothing
runs that was not given up or missed; when it waits, its server is recorded and not
booting; when the request is gone, the server is `Quiet`, serving or past
answering) and `BootingIsWatched`. The runtime lock makes one launcher the only
one inside (`HolderAlone`), which reduces every step to the holder's
(`HolderKeeps`), to one outside (`OutsideKeeps`) or to one server's
(`OneServerKeeps`). From it: `TypeCorrect`, `ServersAreManageable`,
`StoppedServersAreGone`, `RefusalsAreReal`, `RequestsAreLeftAlone`.

`PriceService_proofs`. `IInv` adds to types what a request has seen: the mappings
it holds are those of the file except for what it has missed. From it:
`TypeCorrect`, `ReviewedMappingsAreKept`. `RequestsAreBounded` is the safety
half of `RequestsEnd`: `Left`, a natural number made of the phase a request is in
and of what its calls have left to do, falls with every step of the request, and
no step of another request touches it. So no mix of retries, searches and
fetches goes on for ever, for any number of retries; that a step is always
possible stays with TLC.

`ShortSeries_proofs`. No theorem of the library that is stated for an arbitrary
predicate can be used here, so induction over data takes the form of a least
counterexample: a set of natural numbers has a least one (`LeastNumber`), and
the least number of rows, or of summands, at which something fails does not
fail. On this rest the order of rows (`InOrderOrders`: `InOrder`
does enumerate a finite set of row numbers, by date and number), the laws of sums
(`SumTakesAny`, `SumChanges`: changing one value changes the sum by the
difference; `SumOfPairs`: a sum over pairs is a sum of sums), and the three
results. `ChartShowsStateInForce` finds for each date the interval that holds it.
`AggregateShowsDisclosed` and `SeriesShowsDisclosed` carry an invariant through
the replay (`AggregateOK`, `SeriesOK`): after some rows the state of every key is
the last disclosed value among these rows, the totals are its sums and counts,
and the points are complete for all days but the one at hand.
`AggregateAndSeriesAgree` puts the two together.

`PublicExport_proofs`. The import side has the invariant `ImportsOK`: where a
sync is (`SyncProgress`), and that the records of identity fit the imported rows
(`IdentityOK`): every row carries the issuer its ISIN has, and with `Known` the
aliases are the names its rows were published under and no others, issuers are
numbered from 1 without a gap, and the ISINs of an issuer are connected. `Known`
holds after each row of a file as well, together with `Cached`: what the
resolver's cache of names says is an alias. Since no step changes an imported
row, the theorems about files hold in every state: `TypeCorrect`,
`IdentityIsKept`, `SeriesAndAggregateAgree`, `ChartsShowStates`. The readers
have the invariant `ReadersOK` (what a request has read by a snapshot is of the
set whose heads it read), and what they are shown is proved from the definition
of the chart: `CurrentIsShown`, `HistoricStatesAreExported` and
`FrontEndShowsStateInForce` of `ShortSeries_proofs`, for a share list of another
set than the states. The exporters have `IInv`: that what an exporter installs is
its own copy, that it moves the output only to a free name (`FreeName`), and that
while anybody removes a backup there is another whole copy that nobody removes
(`CleaningIsSafe`). From them: `SeriesShowTheirSet`, `ExportIsKept`.

With these every invariant and every action property of the passing runs is
proved. Only model-checked are the liveness properties (`DrainEnds`,
`Converges`, `StopEnds`, `ChecksContinue`, `RequestsEnd`): fairness and enabled
actions are outside the prover's reach. For two of them the part that is safety
is proved (`SleepersAreWaitedFor`, `RequestsAreBounded`).

## Findings

*A failed run may own the heads* (`fca_failed_run`). `sync()` moves the heads in
one transaction and marks its run in the next. When that one fails, the run is
marked `failed` while readers already have its data, against db.py:5-6 and
docs/data-dictionary.md:25; the verification report then counts every head as
inconsistent. What readers see is complete all the same.

*An ambiguous name does not keep issuers apart* (`export_names`). The docstring of
the resolver says that ambiguous exact names are left as separate issuers
(fca.py:287-289). But a row whose ISIN is known puts its issuer into the cache of
names (fca.py:370-372) even when two issuers have the name, and the next new ISIN
under that name in the same file joins this issuer. In another order of the rows
it becomes an issuer of its own.

*A settings error shortens the interval* (`auto_interval`). An unreadable
settings file is counted as a failed sync. When it can be read again, the next
check is due after the backoff for failures instead of the configured interval,
although the last sync succeeded (README.md:38-39).

## Not modelled

Parsing of the FCA's files and of provider answers, scores of ticker
suggestions, search, the rankings, the coverage of series and exports, the
status page, the verification report, rendering, translation, packaging, release
tools and the wording of errors: each reads or computes for one caller and has
no state that several actors share. The web front end is a client: it polls, and
drops answers it no longer wants. The default settings document and `status()`
of the launcher only read or write once. `canonical_name` of an issuer and its
priority are names without a property.

Power failure is not distinguished from a process that dies: SQLite and `fsync`
are trusted to make a finished transaction or replacement durable. The clock of
the scheduler is monotonic in the model; the one of the update checker may be
set back. `UpdateChecker` and `PriceService` describe one server process; two
servers on one data directory would share their files without a lock. Two
listeners on one port, which Windows allows under `SO_REUSEADDR`, are not
modelled.

What would extend the project: several servers on one data directory for these
two models.
