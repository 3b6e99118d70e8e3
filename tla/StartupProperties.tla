------------------------ MODULE StartupProperties ------------------------
(***************************************************************************)
(* What an upgrade and the pages that wait for it must keep, however often *)
(* the program is killed on the way.                                       *)
(***************************************************************************)
EXTENDS ServerStartup

\* Every variable stays within the values the program gives it: marks are
\* those of the step under way, and memory is empty while nothing runs.
TypeOK ==
  /\ version \in 0..CURRENT_SCHEMA_VERSION
  /\ DOMAIN shape = {"tables", "indexes", "fks"}
  /\ DOMAIN meta \subseteq Range(HwmKey) \cup {DDL_DONE, "high_water_mark"}
  /\ rows.counted \in [Recounting -> SUBSET Scans]
  /\ rows.deduped \subseteq Folders /\ rows.moved \subseteq Items
  /\ rows.scan \in ScanStates /\ rows.task \in TaskStates
  /\ stage \in {"step", "opening", "working", "marking", "moving", "dropping", "closing"}
  /\ proc \in Procs /\ history \in Messages /\ sent \in Messages
  /\ page \in [Pages -> Shows] /\ inbox \in [Pages -> Messages]
  /\ mishaps \in 0..MaxMishaps
  /\ proc = "down" => Fresh /\ stage = "step"

\* A database that was brought to the current version, from any version and
\* through any kills, has the tables, columns, indexes and foreign keys of
\* one that was created by the current program, and no mark is left in meta
\* (db/mod.rs run_migrations against schema/base.rs).
UpgradedEqualsFresh ==
  version = CURRENT_SCHEMA_VERSION => shape = FreshShape /\ meta = << >>

\* No upgrade ever runs a statement that the tables refuse: whatever a killed
\* program left behind, the next one can go on from (the resume points of the
\* standalone migrations, and the foreign keys of the rebuilt tables).
NothingRefused ==
  proc \in {"upgrading", "draining"} /\ version < CURRENT_SCHEMA_VERSION => ~Refused

\* No high-water mark lets an upgrade pass a scan, a folder or an item over:
\* past the version that a backfill makes, its work is done on all of them.
NoScanPassedOver == \A v \in Recounting : version > v => rows.counted[v] = Scans
NoFolderPassedOver == version > 24 => rows.deduped = Folders /\ rows.recomputed
NoItemPassedOver == version > 27 => rows.moved = Items
NothingPassedOver == NoScanPassedOver /\ NoFolderPassedOver /\ NoItemPassedOver

\* Whatever a kill leaves behind, the statements of the next upgrade run, and
\* the schema ends up as a new one: the whole chain holds together.
ChainUnbroken == NothingRefused /\ UpgradedEqualsFresh

\* A page is given the application only when the database is the one it was
\* written for (maintenance_middleware and the order of SetReady).
AppOnCurrentSchema ==
  \A p \in Pages : page[p] = "app" => version = CURRENT_SCHEMA_VERSION

\* With mishaps bounded, the program and a new start after each of them bring
\* every database to the current version.
UpgradeEnds == <>(version = CURRENT_SCHEMA_VERSION)

\* A tab with the maintenance page does not wait for ever: the message of the
\* end reaches it, by the channel or from the record, or it finds the server
\* gone (MigrationProgress::subscribe, which subscribes before it reads).
EveryPageLearns ==
  \A p \in Pages : page[p] = "loaded" ~> page[p] \in {"app", "told", "lost", "away"}

\* A scan that was under way when the program was stopped is finished by the
\* task that is resumed for it (docs/src/scanning.md: the state is saved so
\* that the scan can be resumed later).
ResumedTaskFinishesScan == rows.task = "completed" => rows.scan = "completed"

\* The recounts of the step from 27 are followed by its merge
\* (v27_to_v28.rs: phase 3 is safe to call again).
MergeNotLost == version > 27 => rows.merged

\* A program asked to stop starts no background work any more (server.rs: the
\* signal is there to stop background tasks).
QuietAfterSignal == [][signalled /\ signalled' /\ ~services => ~services']_vars
=============================================================================
