# A verification model of fsPulse

fsPulse scans directory trees and keeps, in one SQLite database, what every item
in them looked like at every completed scan. These modules model the parts of
its Rust source (`src/`) where a mistake would be hard to see in a test: the
rows a scan leaves behind when it is interrupted at any point, the threads of
the file analysis, the queue of tasks, what a page of the web interface is told
of it, the times of schedules, and the upgrades of the database from earlier
versions. TLC checks them on small instances; TLAPS
proves some of the results for all.

Paths below are relative to `src/` of the repository.

- [The system](#the-system)
- [Modules](#modules)
- [Core: scans and the temporal store](#core-scans-and-the-temporal-store)
- [File analysis](#file-analysis)
- [Tasks and schedules](#tasks-and-schedules)
- [What a page is shown](#what-a-page-is-shown)
- [Schedule times](#schedule-times)
- [Folder counts](#folder-counts)
- [Startup and upgrades](#startup-and-upgrades)
- [Rows through the upgrades](#rows-through-the-upgrades)
- [Where the program differs from its documents](#where-the-program-differs-from-its-documents)
- [Proofs](#proofs)
- [What is not modelled](#what-is-not-modelled)
- [Plan](#plan)

## The system

| Component | State it keeps | Operations | Interacts through |
|---|---|---|---|
| Temporal store (`item_version.rs`, `item_identity.rs`, `scans.rs`, `integrity/hash_version.rs`, `db/schema/base.rs`) | `items`, `item_versions`, `hash_versions`, `scans` | insert a version, confirm one, close one and insert its successor, sweep, read as of a scan | SQL transactions of the scanner and the analysis |
| Undo log (`undo_log.rs`) | `scan_undo_log` | log an in-place update, roll a scan back, clear | the transactions of the store |
| Scanner (`scanner.rs`) | the state of a scan, an open batch | walk, sweep, analyze files, count folders, complete | interrupt token, store, undo log |
| File analysis (`integrity/*.rs`) | channel, in-flight set, high water mark, `task_state` | fetch, send, read and hash and validate, persist | worker threads, interrupt token, store |
| Scan task (`task/scan_task.rs`) | the scan it runs, its saved state | initialize or resume, run, roll back | tasks table, scanner |
| Task manager (`task_manager.rs`, `task/*.rs`) | current task, pause, shutdown, status, token | start, stop, pause, resume, shut down, end of a task | a mutex, the thread of the task, the poller, the API |
| Task queue and schedules (`schedules.rs`) | `tasks`, `scan_schedules` | create, edit, enable, delete a schedule; queue, choose, activate and finish a task | transactions |
| Schedule times (`schedules.rs`) | none | validate a schedule, its next time | the local time zone |
| Roots (`roots.rs`) | `roots` | add, delete | transactions, without the manager's mutex |
| Compaction (`task/compact_database_task.rs`) | none | VACUUM | a task that excludes the others |
| Database schema and upgrades (`db/`) | the tables, `meta.schema_version` and the marks of long steps | open, create, upgrade one version after another | startup |
| Server (`server.rs`, `db/migration/`) | ready flag, stream of the maintenance page, the services | start with or without an upgrade, serve, poll, shut down | everything |
| Pages (`api/routes/scans.rs`, `frontend/src/contexts/TaskContext.tsx`) | the task shown, the last one processed, the pause; a socket each | connect, receive, load data, stop a task | the manager's broadcast channel, requests |
| Readers (`items.rs`, `query/`, `integrity/integrity_api.rs`, `api/`, `mcp/`) | review marks | queries, marks | the database |

What is hard in it:

- **Failure.** A scan takes hours and commits in small batches. It may be
  stopped or fail (everything it did is taken back), or be paused, shut down or
  killed (it is resumed, perhaps in another process, with half its work in the
  database).
- **Rows shared by scans.** A version stands for all scans from `first_scan_id`
  to `last_scan_id`. Confirming an item moves the end of the window of an old
  row; changing it in a later phase of the same scan must move the end back.
  Rollback must know which.
- **Concurrency.** A dispatcher and N workers share a channel and a mark; the
  thread of a task, the poller, API calls and the shutdown share the task
  manager, in part without its mutex.
- **Ordering.** Tasks of roots and schedules are created, edited, paused and
  deleted in any order while one of them runs.
- **Upgrades.** A database of any earlier version is brought to the current one
  in 29 steps. Five of them take many transactions and may be killed between any
  two; tables are rebuilt under foreign keys; and what the first recorded by
  mistake, later ones mend.
- **Delivery.** Pages follow the manager through messages that are sent once, to
  whoever is connected and keeps up.
- **Time.** Schedules are in local time.

What makes each correct is stated in the sections below; the hazards, each at
its line, are listed in `PROJECT.json`.

## Modules

| Module | Models | Kind |
|---|---|---|
| `TemporalStore` | rows and statements | operators on data |
| `ScanLifecycle` | one scan after another, all phases, interrupts, crashes | state machine on `TemporalStore` |
| `ScanCatalog` | what scans promise: they happen entirely or not at all | abstract specification |
| `PointInTime` | what `items.rs` reads of an item at a scan | operators on data |
| `ScanProperties` | the properties of scans, the mapping to `ScanCatalog` | |
| `MCScan` | instances | |
| `AnalysisPhase` | threads of the file analysis | state machine |
| `TaskQueue` | tables of tasks and schedules | operators on data |
| `TaskManager` | manager, thread of a task, requests, process | state machine on `TaskQueue` |
| `TaskLife` | the life of one task | abstract specification |
| `TaskProperties` | the properties of tasks, the mapping to `TaskLife`; run directly | |
| `TaskFeed` | broadcasts of the manager, sockets, what a page makes of them | state machine on `TaskManager` |
| `ScheduleTimes`, `MCTimes` | calculation of the next time | pure functions and a small machine |
| `FolderCounts`, `MCFolders` | counts of descendants | state machine |
| `SchemaSteps` | tables, columns, indexes and foreign keys, and what each statement of an upgrade does to them | operators on data |
| `SchemaUpgrade` | the chain of upgrade steps, their transactions and marks | actions |
| `ServerStartup` | start, maintenance page, upgrade, services, signals, kills | state machine on `SchemaUpgrade` |
| `StartupProperties`, `MCStartup` | its properties, instances | |
| `VersionRows` | rows of `item_versions` of all formats, the queries of the upgrades, what earlier programs wrote | operators on data |
| `FolderBackfill` | the steps from 18 to 25 on those rows | state machine |
| `IntegrityUpgrade` | the steps from 27 to 31 on them | extends `FolderBackfill` |
| `IntegrityProperties`, `MCIntegrity` | the properties of both, instances | |
| `WindowProofs`, `LifecycleProofs` | theorems on the statements and the tables, and on scans with `ScanCatalog` | proofs |
| `AnalysisProofs`, `TaskProofs` (with `TaskFeed`), `TimesProofs`, `FolderProofs`, `StartupProofs` (with `SchemaSteps`), `IntegrityProofs` (on `IntegrityProperties`) | theorems on the module each is named for | proofs |

`ScanLifecycle` relies on `TaskManager` for there being one active scan and for
an interrupted one to be taken up again before anything else starts; that is
what `OneRunning` and `LivesOnce` say there. It stands for the analysis of a
file with one step, `Analyze`, which `AnalysisPhase` takes apart into threads;
`AnalysisPhase` in turn keeps of a file only whether it was written. `TaskFeed`
takes the actions of `TaskManager` as they are and adds to each what pages see of
it.
`FolderCounts` takes the first three phases in one step and looks at what
`ScanLifecycle` leaves out: the numbers. `SchemaUpgrade` and `IntegrityUpgrade`
share the steps between them: the first has the schema and every transaction of
the chain, and of the rows only which were done; the second has the rows.

An operator or action with a name like `Unconfirmed_OffByOne` is the definition
that follows it with one mistake in it. It is not part of any specification; it
shows that a property notices that mistake (the `mutants` of `PROJECT.json`).

## Core: scans and the temporal store

**State.** A store is a record of tables, as one connection sees it. `db` is the
committed database, `tx` the one seen by the scan's connection; they differ
while a batch is open, `FlushBatch` makes them equal and `Crash` and `Fail` drop
the difference (`ScanContext::drop`). `active` is the scan of the Running row of
`tasks`, `pc` the place of the task's thread, `intr` the interrupt token with
the reason that the manager would give.

**Actions.** `StartScan`, `GuardUndo` and `ResumeScan` are
`ScanTask::initialize_scan` and the start of `do_scan_machine`; `AddItem`,
`RehydrateItem`, `ModifyItem` and `ConfirmItem` the four handlers of the walk,
with the file system free to show any item in any state, or not;
`SweepUnconfirmed` the tombstones; `Analyze` a file of `fetch_next_batch`
through `persist_analysis`, with any outcome of hashing and validating;
`WalkFolderCounts` and `ApplyFolderWrite` the folder versions; `Complete` the
end. `Interrupted`, `OnStopped`, `OnError` and `CloseTask` are how a run that
does not complete ends. `RequestStop`, `RequestPause` (also for a shutdown),
`Fail` and `Crash` may happen in every state.

**Properties** (`ScanProperties`).

- `AtomicScans`: `ScanLifecycle` implements `ScanCatalog`. There a completed
  scan extends the record of each item of its root by at most one version, and a
  stopped or failed one leaves nothing; batches, resumes, the undo log and the
  fourth phase do not exist. Hash rows are in the mapping; validations are not,
  because they are written in place on versions of earlier scans; the next
  properties look at them. Proved.
- `WindowsOrdered`: the versions of an item have disjoint windows in the order
  of their numbers, also in an open batch, also after Case B moved an end back.
  Proved.
- `NoTraceOfDiscarded`: no row mentions a scan that was stopped or failed. Proved.
- `ReadersAgree`: the readers of `items.rs` (module `PointInTime`) find the version
  of an item at a scan in two ways. The tree, the search and the counts of a
  folder take the newest version that began by then, and leave out a deletion
  of an earlier scan; a link to a version takes the one whose window has the
  scan. At every completed scan of the root they agree, also while a later one is
  open: whatever is alive was confirmed, whatever was not is swept, and the end
  that Case B or a rollback gives back is the right one. Proved.
- `UndoAccountsForUpdates`: while a scan is open, every older row that it
  changed has an undo entry that restores it, and nothing else has one. Proved.
- `CompletedViewsFixed`: the version that a reader is shown for a completed scan,
  and what its hash history says of then, never change again, through all
  in-place updates. The summary of integrity is not part of it: it takes the
  newest digest of the version, and `IntegrityStateFixed` is refuted. Proved.
- `ScanEnds`: a scan that started ends.

**Runs.** `scan_nested`: a file in a directory, validated, hashed when new, and
counted, three scans, one fault; its specification has the fairness below, for
`ScanEnds`. `scan_roots`: a file with two states and two contents in one root
and a path that cannot be read at times in another, everything hashed, three
scans, two faults, for what two roots share: scan ids and the undo log.
`AtomicScans` is checked in both, because Case B of folders is in the first and
hash rows over several scans are in the second.

**Bounds.** Three scans are what a window needs: one that makes a row, one that
confirms and changes it, one that comes after a rollback or rolls the second
back over the first. Two metadata values and two digests (`scan_roots`) suffice
because code and properties only compare them for equality; they are
interchangeable, and declared symmetric there. Two faults allow a crash and then
a stop of the resumed scan, which is what the undo log is for. The sweep, the
rollback and the folder counts relate at most two items to each other (an item
and a folder above it), hence two items.

**Fairness.** `FairSpec` is weak fairness of `System`, the steps of the program
itself including the resumption of a Running task: the thread runs on while the
process does, and the poller comes by every few seconds. Nothing is assumed of
the file system or of the environment, except that there are finitely many
faults (`MaxFaults`).

## File analysis

`AnalysisPhase` has files `1..NumFiles` in the order of their ids, a dispatcher
(`Fetch`, `Send`, `EndLoop`, `LeavePhase`), `Threads` workers (`Receive`,
`Read`, `Persist`, `PersistFails`, `PersistPanics`, `CompleteItem`, `Exit`), a
channel of `Capacity`, the set of files in flight and the high water mark that
is saved in `task_state`.

- `HwmSafe`: the mark never passes a file that was not handled. This is what a
  resumed scan relies on: it starts after the mark. Proved for all sizes.
- `NeverTwice`: no file whose results are stored is analyzed again in the same
  scan, over resumes. Proved.
- `StoppedLeavesNothing`: no worker writes after a stopped scan was rolled back.
  Proved.
- `EveryFileTried`: a phase that ends uninterrupted, with a thread alive to see
  its end, has handed every file to a thread, in this run or an earlier one. A
  file whose thread panicked was handed out and counts as tried. Proved.
- `PhaseEnds`: it ends, with fewer panics than threads.

Run `analysis_workers`: four files, two threads and batches of two give a file
in flight below one that is done, over a fetch in between; a channel of one
blocks the dispatcher; one panic leaves one thread, two faults are a pause and
then a stop. Fairness is weak fairness of the dispatcher and of each worker:
they are OS threads.

## Tasks and schedules

`TaskQueue` has the rows of `tasks` and `scan_schedules` and the statements on
them. `TaskManager` is everything that uses them: requests of the API (manual
scans, compaction, schedules, roots, stop, pause), the poller (`PollQueue`,
`Tick`), the thread of the running task step by step (`Go`, `Initialize`, what
the run ends with, what it asks the manager, `OnStopped`, `OnError`,
`OnTaskComplete`), and the process (`Shutdown`, `Die`, `Exit`, `Crash`,
`StartProcess`). Code under the mutex is one step, except `request_stop`
(`RequestStop`, `AcceptStop`) and `set_pause` (`SetPause`, `MarkPausing`): they
read the status of the task and then set it, each under the status' own lock,
while the thread of the task sets it without the manager's mutex. `holder` says
which of the two has the mutex in between. The scan itself is its state: none,
open, completed, stopped, failed.

- `OneRunning`: at most one row is Running, over crashes and pauses, and it is
  the one that the manager holds. Proved.
- `OnePendingPerSchedule`: one pending task for an enabled schedule, none for
  another, after any sequence of operations. Proved.
- `StoppedOnRequest`: a scan is stopped only if a stop was asked for, and not
  because a pause or shutdown was over when the thread asked for the reason.
  Proved.
- `FinishedScanEnded`: the scan of a finished task has ended, as long as no
  start, rollback or cleanup failed. Proved.
- `RootOutlivesTasks`: tasks not yet finished are of roots that exist. Proved.
- `NoStartInPause`: no task starts while a pause lasts, over restarts. Proved.
- `ManualScanStarts`: a queued manual scan is started.
- `LivesOnce`: the manager implements `TaskLife`, where a task is queued, begun
  once, its scan ends once, and then the task is done; or the task is done
  because its run or rollback failed, and its scan, abandoned, stays open.
  Proved.

`task_queue` has one root, one schedule and three tasks (a running, a next and a
manual one that overtakes it), one pause or shutdown, one crash or failed run,
and one failure to start a scan, to roll it back or to clean up after it.
`task_lives` has two schedules, two tasks, two pauses or shutdowns and a crash,
without those failures, for what takes longer to check: two schedules that wait
for each other, the refinement and liveness. That the refinement holds with
those failures is proved only.

Fairness (`FairSpec`): the thread of a task, the poller, the second steps of a
stop and of a pause, the exit of the process and its restart, the clock and the
end of a pause go on.
Pauses, shutdowns and crashes are finitely many; nobody is assumed to stop,
queue or edit anything.

## What a page is shown

`TaskFeed` is `TaskManager`, each of its actions with what it broadcasts, and one
page. `tickers` are the threads that repeat the state while a task runs: one
sends, then looks whether to go on, under two locks, so the manager may move on
in between. `link` and `wire` are a connection: made, subscribed, greeted with
the state, and then a sequence of messages, which is cut when the receiver lags
by more than `Capacity`, the connection is lost or the process ends. `page` is
`TaskContext.tsx`, whose handler drops repeated ends, and signals an end to the
parts of the page when a terminal state, another task or no task comes after a
task; `data` is what these loaded then. `clicked` is a stop request under way.
`overtaken` remembers the tasks that had ended when the second step of
`set_pause` wrote that they are pausing.

- `TaskShownTrue`: once the manager stays with a task, or without any, a page
  whose connection holds ends up showing that; or a task whose stop was asked
  for; or, while the pause lasts, a task that is `overtaken`.
- `EndSeen`: a page that shows a task which has ended loads its data again, with
  the end in it.
- `StopHitsSeen`: a stop never hits another task than the one that was shown.
  Proved.

These say that best effort is enough: the end of a task is sent once, and what
is sent to a page next makes up for a page that missed it. They except three
cases. No message follows where the last status of a task is not terminal: it was
asked to stop as it ended (`IdleShown`), or it ended between the two steps of
`set_pause` (`PausedTaskGone`). And in a pause a page may be told of the pause in
place of the end of the task.

`feed_page` has two scans of a root, so that one can follow the other before the
page hears of it; one pause, shutdown, crash or error; any number of lost
connections; a stop; and a channel of two messages, so that a page can lag. One
page is enough, since pages share nothing but the channel, which each reads at
its own place. The data that a page loads is what the tables were at the request.

Fairness (`FairFeed`): the manager, the broadcast threads, and the socket with
its page each go on. No task is assumed to end, no pause to be lifted, no
connection to hold.

## Schedule times

`ScheduleTimes` has `Schedule::validate` and the four calculations as functions
of a time zone, a plan and an instant, in hours; `Activate` and `Refuse` are
`activate_task` when the next time can and cannot be computed. A zone puts its
clocks forward or back by one hour at one instant. What `chrono` does is
modelled from how it is used: `with_hour` and `with_ymd_and_hms(..).single()`
give nothing for a local time that is skipped or comes twice, and a duration is
added to the instant.

- `NextIsFirst` (no change of clocks): the next time is the first instant after
  now that the plan asks for, over ends of weeks, months and years. The
  reference is a search over all instants.
- `KeptInEveryZone`: what remains true where clocks change. The next run of a
  daily schedule is at most a day ahead, and behind by less than the clocks are
  put back; a monthly one is always at its time and on its day.
- `RefusedNearChange`: the next time cannot be computed only because of a change
  of clocks: for a daily schedule on that day, a weekly one from a week before,
  a monthly one never.

Days have four hours and years four months, of 6, 4, 6 and 6 days: a calendar
where months lack days, weeks straddle them, and a day that some months lack is
in more than two. Every instant of 22 days is a starting point, clocks change at
any of 17 instants or never (`times_next`). Minutes are left out: they are a
finer hour. An hour's change of a day of four is a larger part of a day than in
life; no property depends on that.

## Folder counts

`FolderCounts` takes the first three phases of a scan as one step that leaves
any consistent set of changes, and then computes and writes the counts of
folders as the fourth phase does: `Walked` is the recursion of
`walk_folder_counts`, `WriteCounts` Case A and Case B, `Resume` and `Discard`
what an interrupt leads to after any folder was written. The history variable
`fates` has what really happened to each item, and the reference counts are sums
over all descendants.

- `TotalsAlive`: added + modified + unchanged of the newest version of a folder
  is the number of living descendants, however old that version is. Proved for
  every tree.
- `CountsExact`: what folders and the scan count as added and deleted is what was
  added and deleted; a living folder, if the scan was not resumed, also counts what
  was modified and what was not changed; and a folder has a version of a scan just
  when something happened to it or below it (`VersionIffChange`). Proved for every
  tree. What a resumed scan counts as modified is not exact: `ModifiedExact`.

A directory in a directory, each with a file, and three scans: made, changed or
deleted, restored.

## Startup and upgrades

**State.** `SchemaSteps` describes a database by its tables (columns), indexes
and foreign keys, and has every statement of `db/schema/` that changes them as
data: `Outcomes` are the shapes that a list of statements can lead to, none when
the tables refuse one (a table that is there already, a column that is not, a
drop of a table that others refer to while foreign keys are enforced).
`FreshShape` is that of `base.rs`. `SchemaUpgrade` adds `version`, the marks in
`meta`, and of the rows what each long step owes: the scans counted, the folders
merged, the items moved, the scan and task under way. `ServerStartup` adds the
program (`proc`, the flag `ready`, the last message of the stream) and the
browser's page.

**Actions.** `UpgradeStep` is one transaction of the chain: `Transact`, the
statements and the new version of a step together; or, of the five standalone
steps, `RunDdl`, `RecountScan` and `MarkScan` (two transactions), `DedupBatch`,
`CloseBackfill`; or one of the phases of the step from 27. `Start`, `Upgrade` or
`UpgradeFails`, `Record`, `Broadcast`, `StartAppServices`, `SetReady`,
`ResumeTask`, `Signal`, `ServerReturns` and `Drained` are `server.rs` in its
order; `Crash` loses all but the database. A page visits, subscribes, reads the
record of messages, receives and reloads.

- `ChainUnbroken`: whatever version it was and however often the program was
  killed, no state it is left in makes the next upgrade fail (`NothingRefused`),
  and the database ends with exactly the tables, columns, indexes and foreign keys
  that a new one has, and no mark in `meta` (`UpgradedEqualsFresh`). This is the
  property that ties 29 steps to `base.rs`: SQLite makes foreign keys follow a
  renamed table, and indexes go with a dropped one.
- `NothingPassedOver`: no mark, and no table of versions set aside, lets an upgrade
  pass over a scan, a folder or an item. Proved.
- `AppOnCurrentSchema`: no page gets the application on a database of another
  version. Proved.
- `UpgradeEnds`: in the end every database is of the current version.
- `EveryPageLearns`: a page that waits learns how the upgrade ended, although it
  may subscribe while the last message is being sent.

`startup_upgrade` starts from every version from 2 on and from no database, with
two completed scans, two folders and two items (a batch holds one, so that a
kill can fall between), one page, and two kills, failures or signals: the second
hits an upgrade that is itself a repetition. The run has 35,408 states.
Fairness: the program goes on, a service manager starts it again, a page goes
on; mishaps are finitely many and nobody is assumed to visit. `Spec` states it.
All 29 steps are there: they are data and cost nothing.

## Rows through the upgrades

`VersionRows` has rows of `item_versions` as the programs before 19 wrote them
(`EarlyRows`: one version per change, and a phantom version for each hash or
validation that was learned), as those up to 27 did (`LiveRows`), and the
queries of the upgrades. `FolderBackfill` counts what changed below each folder
in every scan afterwards (18 to 25): scan by scan, with a mark, and then
collapses folder versions twice by two rules. `IntegrityUpgrade` rolls an open
scan back, folds phantoms, moves hashes to their table, counts all scans again,
chains versions that overlap, prunes and merges (27 to 28), counts new issues
(29), mends folders marked deleted over living files (30) and turns suspect
hashes into baselines (31). `seen` has what every scan found; the properties
compare the rows with it.

- `ItemsAsFound`: for every completed scan the rows say of every file whether it
  was there, and with which metadata; of folders too if none of the backfills
  touched them.
- `VersionsInOrder`: versions are numbered 1, 2, ... in the order of their first
  scans, and each hash belongs to one; those of files, and of folders that no
  backfill touched, do not overlap. Those of other folders may (`NoOverlaps` below).
- `Mended`: no scan is in two versions of an item, whatever the backfills left
  (`OneInForce`); the number of files of a scan is right from 30 on, as far as
  the folders above them have rows (`FilesCounted`); no count of folders of before
  survives, and the counts in force add up to what is there (`FoldersRecounted`).
- `HashesKept`: a file whose hash was known still has one at 30, and no other
  does.

`integrity_history`: a file in a folder in a folder, every history of four scans
(the file away, or in one of two states, with or without a hash and a
validation; folders there or away), of which the first none to four are older
than 19, the last possibly under way at 28; one kill. The run has 998,123
states. Four scans are what a phantom of a phantom over a deletion takes. A
batch of the code holds 500 scans; here it holds one, so that a kill can fall
between. Folders have one state, since nothing but their counts gives them
another version.

## Where the program differs from its documents

Two are among the runs, and TLC finds the property violated; `PROJECT.json`
has the quotations and the lines.

| Run | What the run shows |
|---|---|
| `analysis_error` | After a failed fetch the scan is rolled back while its workers still write. |
| `startup_resumed` | The upgrade to 28 rolls back a scan whose task stays Running; resumed, the task is completed and nothing was scanned. |

The others are stated in the property modules; the configuration that is named
checks them, and its trace shows how each comes about (where it lists several,
keep the one of interest, since TLC stops at the first). The comment of the
property has the line that it quotes.

| Configuration | Property | What its trace shows |
|---|---|---|
| `MCScan_claims` | `ValidationPermanent` | A stopped scan erases a validation that a completed scan recorded on a version it closed. |
| `MCScan_claims` | `HashOnCurrentVersion` | A file that becomes readable is hashed on the version that its access change closes; the current version has no hash. |
| `MCScan_claims` | `IntegrityStateFixed` | A later scan that hashes or validates the same version changes the integrity shown for earlier scans. |
| `MCAnalysis_panics` | `InterruptExits` | A file with a hash that can no longer be read panics its worker; with all workers gone the dispatcher blocks in `send` and a stop is never honoured. |
| `MCTask_claims` | `PendingFollowsSchedule` | Editing the scan options of a schedule does not reach its pending task. |
| `MCTask_claims` | `RootCanBeDeleted` | A root that a schedule has scanned cannot be deleted. |
| `MCTask_orphan` | `OneOpenScanPerRoot` | After a failed rollback a second scan of the root starts while the first is open. |
| `MCTask_cleared` | `TaskIsCleared` | A failed cleanup leaves the finished task current until the process ends. |
| `MCTimes_hour` | `DailyAtItsTime` | A daily schedule moves by an hour when clocks change. |
| `MCTimes_later` | `NextIsLater` | On a day of 25 hours the next run of a midnight schedule is not later than now, and scans follow each other for an hour. |
| `MCTask_claims` | `CompletedSuccessfully` | A stop accepted while the scan fails makes the failed task a completed one. |
| `MCTimes_due` | `DueStarts` | A due task cannot start when the next time falls in an hour that is skipped or comes twice. |
| `MCFolders_resumed` | `ModifiedExact` | Resumed, the fourth phase counts its own folder versions as modified items. |
| `MCStartup_claims` | `MergeNotLost` | Killed after the last recount of the step from 27 and before the merge, the step ends without the merge. |
| `MCStartup_claims` | `QuietAfterSignal` | A signal during the upgrade does not reach the queue processor, which starts after it. |
| `MCIntegrity_claims` | `RecountsAgree` | A scan recounted after a kill gets other counts than before, because the first count wrote versions. |
| `MCIntegrity_claims` | `NoOverlaps` | The newest version of a folder stays inverted (from scan 5 to scan 2): where no range overlaps it by the query's comparison, the cleanup returns before it would remove inverted versions. Needs six scans before 19: the configuration says how to start from `Turns`. |
| `MCIntegrity_claims` | `NoGaps` | The chaining of versions leaves a folder without a row for scans that found it. |
| `MCIntegrity_claims` | `AllFilesCounted` | Below such a folder files are not counted, also after 30. |
| `MCIntegrity_claims` | `PhantomsNotCounted` | A scan that only learned a hash is counted with changes of folders. |
| `MCIntegrity_claims` | `BaselineCountsRows` | The upgrade to 31 deletes the only hash of a file that was suspect and counts the file under baseline. |
| `MCFeed_claims` | `IdleShown` | A stop that comes as a task ends makes its last status Stopping; a broadcast thread between its two locks then ends too, and the page shows the stopping task for as long as nothing else starts. |
| `MCFeed_claims` | `PauseShown` | That a timed pause expired is not broadcast: a page goes on showing it until a task starts or it reconnects. |
| `MCFeed_claims` | `PausedTaskGone` | A task that ends after `set_pause` read its status and before it writes Pausing leaves the manager as Pausing, which no page takes for an end; a broadcast thread between its two locks then ends without sending the pause, and the page shows the task for as long as the pause lasts. |

## Proofs

Proved by TLAPS for every value of the constants that satisfies the named
assumptions of the modules.

**`WindowProofs!TypeCorrect`**, `Spec => []TypeOK` of `ScanLifecycle`, from
`StoreAssumption` and `LifecycleAssumption`. `TypeOK` is not inductive by
itself: `scans[active]` must exist for the scan to write its id, and what the
scan is about to apply must be folders. `TypeInv` adds those. `WindowProofs` has
one lemma for each statement (a sweep, a replay of the undo log, a Case B of
well-formed tables gives well-formed tables), the version numbers among them:
`MAX(item_version) + 1` is a positive natural because the rows of an item are
finitely many (`MaxOfBounded`).

**`LifecycleProofs!ScanInvariant`**, `Spec => [](TypeInv /\ ScanInv)`, for any
roots, items, digests, scans and faults, from one more assumption on the
constants (`AboveAssumption`: the folders above an item are of its root, since
an item's identity has the root in it). It is what the properties of scans
rest on; none of them is inductive. `ScanInv` says, of the database and of the
open batch alike (`StoreInv`):

- at most the newest scan is open; version numbers are keys, and go up with the
  windows; every end of a window is a scan of the item's root that was not
  discarded, and between two windows lies no completed scan (`Gapless`); hash
  rows likewise;
- while a scan is open, an older row that ends with it has exactly one undo
  entry, with the last completed scan of the root as the end before, and nothing
  else has one (`UndoOK`); otherwise the log is empty;
- past the sweep every living newest row of the root ends at the open scan
  (`Swept`);
- rolling the scan back gives the same from the database and from the batch, and
  gives what was there when the scan began (`Settled`): this is why it does not
  matter where a crash cuts a batch;
- what the thread may believe at each place (`ThreadInv`), such as that the
  folders still to write are of the scan's root and have a row.

Every transaction is one of five kinds: it changes nothing (`Quiet`), leaves
alone what a rollback would give (`Steady`), begins a scan, completes or
discards it (`Begins`, `Completes`, `Discards`). `WindowProofs` shows for each
statement which parts it keeps, `LifecycleProofs` composes them into the
transactions. TLC found the invariant to hold on the instances of `scan_nested`
(412,635 states) and `scan_roots` (525,406) before it was proved.

**`WindowsInOrder`**, **`DiscardedGone`**, **`UndoExact`** (all of
`LifecycleProofs`) state `WindowsOrdered`, `NoTraceOfDiscarded` and
`UndoAccountsForUpdates` and follow from `StoreInv`. **`ReadersInAgreement`**,
`Spec => []ReadersAgree`: the window that has a completed scan is unique, and by
`Gapless` it is that of the newest version that began by then. **`HistoryFixed`**,
`Spec => CompletedViewsFixed`: by the five kinds of step; only the rows that a
rollback would give are visible to a completed scan, and `Steady` keeps those.

**`LifecycleProofs!ScansAreAtomic`**, `Spec => AtomicScans`, the refinement of
`ScanCatalog`. While a scan is open the catalog is read from what a rollback would
give (`OpenCatalogIs`), so that its steps map to stuttering, a discard to
`DiscardScan` (`DiscardCatalog`), and a completion to `CompleteScan`: there each
item gains at most the one version that the scan made, since the versions of a scan
are keys (`VersionsExtend`).

**`AnalysisProofs!HighWaterMarkSafe`**, `Spec => []HwmSafe` of `AnalysisPhase`,
from the assumption on its parameters. `HwmSafe` is not inductive: nothing in it
says why the mark may be moved to just below the least file in flight. `HwmInv`
adds that: files are fetched and sent in order; every file below the cursor that
is not handled is in the batch, in the channel, with a worker or in flight; a
file in flight is above the mark; a worker holds a file that is in flight. The
step that matters is `CompleteItem`, where the mark moves (`CompleteItemInv`).

**`AnalysisProofs!NoFileTwice`**, `Spec => []NeverTwice`, from the same
invariant and one more, `TwiceInv`: no file of the batch or of the channel has
results in this scan, and no two threads hold the same file or one that still
waits. It does not depend on the phase being on: after a failed fetch the
workers drain the channel while the scan is rolled back.

**`AnalysisProofs!StoppedIsQuiet`**, `Spec => []StoppedLeavesNothing`, from the
conjunct of `HwmInv` that a dispatcher that left the phase because of the
interrupt leaves no worker with a file (the thread pool joins).

**`AnalysisProofs!NoFileForgotten`**, `Spec => []EveryFileTried`, from `TriedInv`:
the dispatcher leaves the loop only after a fetch that found nothing, with all it
fetched sent, and a phase that nobody interrupted ends when the channel is empty
and no thread holds a file. Where every thread panicked it says nothing.

**`TaskProofs!OneTaskRuns`** and **`TaskProofs!QueueTypeCorrect`**, `Spec =>
[]OneRunning` and `Spec => []TypeOK` of `TaskManager`, for any number of roots,
schedules and tasks and over any number of faults, those of which the thread's
own cleanup fails included. `OneRunning` says nothing of what happens after a
crash; `TaskInv` adds that any two Running rows are the same, whether or not a
manager holds it, that the one it holds is Running, and that nothing ends a task
while a request has the mutex between two steps. The steps that matter: the edits of
schedules and roots touch pending rows, or roots without a Running row
(`EditingInv`); whoever starts a task takes the Running row first, so
`NextTasks` gives a pending one only if there is none (`ActivateRows`); the end
of a task either takes its row off the Running ones or leaves it
(`OnTaskCompleteInv`).

**`TaskProofs!SchedulesQueued`** and **`TaskProofs!RootsOutlive`**, `Spec =>
[]OnePendingPerSchedule` and `Spec => []RootOutlivesTasks`. One does not go
without the other: that a schedule has one pending task survives the deletion of
a root only because the schedules and the pending rows of that root go in the
same transaction, and the row of a running task keeps its root. `QueueInv` is
`TaskInv` with the links between the tables: an enabled schedule has exactly one
pending row, which has its root; a row not yet finished has a root that exists;
row and schedule ids are keys. Every statement that queues a task of a schedule
is in a transaction that deletes or starts the pending one.

**`TaskProofs!NoStopUnasked`** and **`TaskProofs!FinishedHasEnded`**, `Spec =>
[]StoppedOnRequest` and `Spec => []FinishedScanEnded`, from `LifeInv`, which adds
to `QueueInv` what the thread may believe at each place: why its token was set,
which reason it was given, that a pause or a shutdown outlasts the question, that
`set_pause` has stored the pause before its second step sets the token, and which
states of the scan go with where it is. What says that a finished task has
ended its scan (`EndOk`) is in it for as long as nothing failed (`broken = 0`).

**`TaskProofs!PausedIsQuiet`**, `Spec => [][NoStartInPause]_vars`, from
`LoadedOk`: what the manager holds of the pause is what `meta` says.

**`TaskProofs!TasksLiveOnce`**, `Spec => LivesOnce`: the refinement. A step
changes at most one row of `tasks` in a way that `TaskLife` sees (`RowMoves`),
and that change is one of its moves or none (`RowStep`); the other rows, present
or deleted, keep their stage.

**`TaskProofs!FeedIsManager`**, `FeedSpec => Spec`: every step of the composition
is a step of the manager or leaves it alone, so that the theorems above hold
while pages watch.

**`TaskProofs!StopsHitSeen`**, `FeedSpec => StopHitsSeen`. What makes it
inductive is `HeldInv`: between looking at the task and stopping it
`request_stop` has the mutex, and whatever would start or end a task waits for
it.

**`TimesProofs!FirstIsFound`**, **`TimesProofs!KeptEverywhere`** and
**`TimesProofs!RefusalsExplained`**, `Spec => []NextIsFirst`, `Spec =>
[]KeptInEveryZone` and `Spec => []RefusedNearChange` of `ScheduleTimes`, for days of
any length, any calendar, any change of clocks by an hour and any valid schedule.
The assumptions: `CalendarAssumption` (local time is never negative),
`DaysAssumption` (a day that one month has, two others have: then one of them is
always left when a run was just made in the first and clocks change on the day of
the second), `MonthsAssumption` (the bound of the calendar leaves a year after the
bound of the runs). The invariant, `TimesInv`, only says that the pending task
waits for what the calculation gave (TLC: 133,492 states on the instance of
`times_next`); the theorems are about the four calculations. `SingleFacts` and
`HourFacts` say for which hours `single()` fails, `LaterDay` that days do not go back
when clocks do, `DaysAheadFacts` that the search of a weekly schedule meets the day
it steps to unless clocks changed on the way, `YearAndMonth` and `MonthlySlots`
that the months that are tried are consecutive over the end of a year, `SomeSlot`
that one of them will do. Midnights are an operator of the day with four facts
(`Midnights`, `OnDay`, `TheDay`), so that no later step multiplies; the recursion of
`MonthStart` has a solution because there is no first month without one
(`MonthStartExists`).

**`FolderProofs!TotalsTell`** and **`FolderProofs!CountsTell`**, `Spec =>
[]TotalsAlive` and `Spec => []CountsExact` of `FolderCounts`, for every tree of
folders and any number of scans and interrupts, from `FolderAssumption` and
`TreeAssumption`: items are finitely many, and a folder is less deep than what is
in it (its path is a proper prefix). **`FolderProofs!CountTypes`** says that no
count is negative, though one is computed by subtraction.
The invariant is `CountInv` (**`FolderProofs!CountInvariant`**; TLC found it to
hold on the instance of `folders_nested`, 89,332 states). Its parts: the rows of
an item before and of this scan say what was found of it (`Fits`); a folder that
was not, or is not, there has nothing below it that was, or is (`Rooted`); the
version of a folder before this scan has the number of what was alive below it
(`Based`); its version of this scan is counted right (`Good`) or is as the walk left it
(`Plain`); and once the walk of the fourth phase is done, each folder is still to be
written or is right (`Finished`). Only `modified` is not exact in a resumed scan,
and `Good` says so.
What `walk_folder_counts` computes is a recursion, and its meaning is proved without
induction: a place where it differs from the count of all changes below
(`Tally`), and no folder in it does, cannot exist (`Lowest`, `WalkedTally`). That
needs what a sum over a set is (`SumStep`, `SumOfParts`: from the definition of the
fold, with a least set for which it fails), that what is below a folder is what is
directly in it and what is below the folders in it, without overlap (`UnderSplit`,
`UnderApart`), and that the folders that are not entered have no changes below
them (`EntersAll`).

**`StartupProofs!StartupInvariant`**, `Spec => [](MarkInv /\ ServingInv /\ MovingInv)`
of `ServerStartup`, for any scans, folders, items, kills and failures. `MarkInv`: a
mark is there only within its own step, every scan or folder at or below a mark is
done, and past a step all are (`PastOk`); the stages of the step from 27 likewise.
`ServingInv`: from the end of the upgrade on the version is the current one.
`MovingInv`: while items are moved, the table they are moved from is there, and
past that stage all have been; the mark of the step counts scans and does not
tell. TLC found them to hold on the instance of `startup_upgrade` (35,408 states).
**`AppOnCurrent`**, `Spec => []AppOnCurrentSchema`; **`NonePassedOver`**,
`Spec => []NothingPassedOver`; **`MarksRemoved`**, that no mark outlives its step.

`MovingInv` needs what thirty-two statements in a row make of one table, on a shape of which
nothing is known. **`StartupProofs!SplitSetsAside`** says it: where they run at all,
the table of the versions set aside is there in the end, because one of them makes it
(`MakesTable`) and no later one takes it away (`SparesTable`, `TableLasts`). That the
definition of `Outcomes` computes step by step what it says (`RunExists`) is proved
with the least number of statements for which it would not.

**`IntegrityProofs!HistoryKept`**, `Spec => []ItemsAsFound` of `IntegrityUpgrade`, for
any tree of folders, anything a scan may find, any number of scans before version 19
and after it, and any number of kills, from `RowsAssumption` and `TreeAssumption` (no
set of folders is closed under `Parent`). The invariant `IInv` (TLC: it holds on the
instance of `integrity_history` with three scans, 103,415 states) says of the rows of an item
what they say of scans 1 to n (`Told`): they do not overlap, those that are not
deleted cover the scans that found it and no others, with its metadata. Before the
split, rows are also unbroken (`Past`), or a phantom could not be folded into the row
before it; of folders more has to be kept to the end (`Present`): a row that is no
addition goes on from one that is not deleted, or pruning one could fill a gap; and a
deleted one says that the folder was away (`Gone`), so that none is taken for wrong by the step
from 29. That last one rests on the tree: a file is found only with all folders above
it (`FoundAbove`), which is why `NoneContradicted` holds. The steps: scans of both
programs (`EarlyPast`, `LivePast`), rolling the last one back (`RestoredPast`, from what
was logged of the rows it changed), folding (`ClusterSays`, `ClusterOf`: each row is in the cluster
of one that is no phantom, and all of a cluster tell the same), cutting in two and joining
(`CutInTwo`, `Joined`), which is all that counting again, pruning and merging do. An item is moved
whole (`Moved`), so that a kill leaves each on one side. What the steps from 18 to 25
do to folders is only held to be rows of folders (`Proper`): whether those follow each
other is not so before the chains are mended, and not always afterwards.

**`IntegrityProofs!HashesSurvive`**, `Spec => []HashesKept`, from `IInv` and `HashInv`
(TLC: 998,123 states with four scans). `HashInv` says what a row knows of hashes: one
of the old table has a hash exactly if a scan found one since the file last came
(`Known`), up to the end of its range, from a scan within it (`Reads`); one of the new
tables has one row of `hash_versions` exactly then (`Noted`). That the last scan, once
rolled back, leaves no row that says otherwise (`RestoredLearned`) needs that a row it
extended learnt nothing by it (`GoesOn`); that folding keeps the hash, that all of a
cluster is read and that least and greatest are taken of something (`OneHash`); that an
item not yet moved has no hash rows, or it would have two; and that new numbers differ
(`NumbersDiffer`), or a hash could go to another version. It ends where suspect hashes
are removed.

**`IntegrityProofs!VersionsNumbered`**, `Spec => []VersionsInOrder`, from `IInv`,
`HashInv` and `KeyInv` (TLC: it holds on the instance with three scans, 103,415
states). Of folders that the backfills may leave tangled the invariant knows only what
survives there: no two rows of an item have the same first scan (`Keyed`), which those of
files have from `Told`. Counting either changes the row of the scan or writes one where there
was none (`WrittenKeyed`), whatever it does to last scans; collapsing takes rows away
(`CollapsedKeyed`); a scan of the newer program writes a row of its own number
(`LiveKeyed`), and rolling it back gives the keys of before (`RestoredKeyed`); chaining,
cutting in two, pruning and merging each keep it (`ChainedKeyed`, `CountedKeyed`,
`PrunedKeyed`, `MergedKeyed`). From that, counting the rows up to one's own
gives the numbers from 1 to their count, each once (`NumbersFill`, by a bijection),
and the same numbers after any step that rewrites rows and keeps their keys
(`NumberRetold`). That versions do not overlap comes from `Told`, for files and for
folders that none of the backfills counted.

The proof is of less than was first stated. `VersionsInOrder` used to say of all
items that their versions follow each other; it held in every run, the attempt to
prove it asked what chaining makes of a row whose range was already inverted, and
TLC then refuted it from a history of six scans (`Turns`), which is `NoOverlaps`.

Only model-checked: all liveness (which needs fairness and `ENABLED`);
`ChainUnbroken`, which is a computation on given statements, the same whatever the
constants are, so that the run, which begins at every version, goes through all of
it; of the rows through the upgrades `Mended`, which speaks of one version in
force and of sums of counts: that an inverted version is never cut in two at a scan that
another has would have to be part of the invariant. `Mended` and `ItemsAsFound` were also held
against every history of seven scans before version 19 over a folder seen in two states
and a file in it, without kills, and hold there; inverted versions, as in `Turns`, were
only met with a second folder that has a file of its own.

## What is not modelled

- Validators, hashing, `sort.rs`, the query language: text and bytes. Their
  outcomes are free choices where a model needs them.
- The MCP server, the other routes of HTTP and the rest of the web frontend: they
  keep no state that a scan or a task depends on.
- Sizes, progress and messages, the counters of validation and hash states.
- SQLite, r2d2, chrono and the thread pool, beyond: a transaction is atomic, a
  connection sees its own writes, a committed transaction survives a crash.
- Of the upgrades: the rows of versions before 18 (the step from 15 makes
  versions of the old change log; here only its columns), declared types,
  defaults and checks of columns, what the pool does with connections, progress
  lines.
- Review marks, and of `items.rs` the size histories and the lists of versions.

## Plan

Done, in this order: the core; the file analysis; tasks and schedules; schedule
times; folder counts; startup and upgrades; rows through the upgrades; the feed
of a page; the proofs above.

Next, modelling. Ten passing runs check forty properties, none for more than a
few minutes; what is added should replace a shallower one or share a run, so that
the whole stays quick to repeat.

1. Scans that were left open without a task (`OneOpenScanPerRoot` shows that
   they exist), as an extension of `ScanLifecycle`: what the next scan of the
   root makes of their rows, with its undo log cleared.
2. Review marks (`integrity/integrity_api.rs`) against scans that replace, carry
   and roll back the versions they are on.
3. The tree of a scan as a tree: whether a file can be alive in a folder that is
   not, when the folder goes away between a crash in the walk and the resumption
   (files are written before their folder). It needs the walk of each run apart.
4. The rows of the step from 15 (`reconstruct_versions`), in front of
   `VersionRows`.

Next, proofs: `OneInForce`, from an invariant that says where an inverted version of a
folder may stand and that no later step makes its range touch another; then the sums
of counts in `FoldersRecounted`.
