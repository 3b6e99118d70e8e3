---------------------------- MODULE SchemaSteps ----------------------------
(***************************************************************************)
(* The shape of the database, and what each schema upgrade does to it.     *)
(*                                                                         *)
(* A shape is the tables with their columns, the indexes with the table    *)
(* and columns they are on, and the foreign keys as (table, referenced     *)
(* table) pairs.  Declared types, defaults, collations and the rows are    *)
(* left out.  A statement is a record; Accepts says when SQLite runs it    *)
(* and Effect what it does to the shape, with the two rules upgrades       *)
(* depend on: ALTER TABLE .. RENAME rewrites the foreign keys of other     *)
(* tables that name the table, and with foreign_keys = ON a table that     *)
(* others refer to cannot be dropped, nor a table written whose parent is  *)
(* missing.                                                                *)
(*                                                                         *)
(* A statement that copies rows appears as the columns it reads and        *)
(* writes, so that a step which runs on the wrong shape fails as it would  *)
(* in SQLite.  V2Shape is what the first upgrades take for granted; every  *)
(* other shape is computed.                                                *)
(***************************************************************************)
EXTENDS Integers, Sequences, SequencesExt, Functions, FiniteSets, TLC

CreateTable(t, cols, parents) ==
  [op |-> "create", table |-> t, cols |-> cols, parents |-> parents]
CreateIndex(i, t, cols) == [op |-> "index", index |-> i, table |-> t, cols |-> cols]
IndexIfMissing(i, t, cols) ==
  [op |-> "index if missing", index |-> i, table |-> t, cols |-> cols]
DropTable(t) == [op |-> "drop", table |-> t]
DropTableIfExists(t) == [op |-> "drop if exists", table |-> t]
DropIndexIfExists(i) == [op |-> "drop index", index |-> i]
RenameTable(t, to) == [op |-> "rename", table |-> t, to |-> to]
AddColumns(t, cols) == [op |-> "add", table |-> t, cols |-> cols]
AddReference(t, col, parent) ==
  [op |-> "add reference", table |-> t, cols |-> {col}, parent |-> parent]
RenameColumn(t, col, to) == [op |-> "rename column", table |-> t, cols |-> {col}, to |-> to]
DropColumn(t, col) == [op |-> "drop column", table |-> t, cols |-> {col}]
Read(t, cols) == [op |-> "read", table |-> t, cols |-> cols]
Write(t, cols) == [op |-> "write", table |-> t, cols |-> cols]

Tables(S) == DOMAIN S.tables
Indexes(S) == DOMAIN S.indexes
IndexesOf(S, t) == {i \in Indexes(S) : S.indexes[i].on = t}
Children(S, t) == {fk[1] : fk \in {g \in S.fks : g[2] = t}} \ {t}
Dangling(S) == {fk \in S.fks : fk[2] \notin Tables(S)}

\* Whether the statement runs on shape S, with foreign keys enforced or not.
Accepts(S, enforced, s) ==
  CASE s.op = "create" -> s.table \notin Tables(S)
    [] s.op = "index" -> /\ s.index \notin Indexes(S)
                         /\ s.table \in Tables(S) /\ s.cols \subseteq S.tables[s.table]
    [] s.op = "index if missing" ->
         s.index \in Indexes(S) \/ (s.table \in Tables(S) /\ s.cols \subseteq S.tables[s.table])
    [] s.op = "drop" -> s.table \in Tables(S) /\ (enforced => Children(S, s.table) = {})
    [] s.op = "drop if exists" -> enforced => Children(S, s.table) = {}
    [] s.op = "drop index" -> TRUE
    [] s.op = "rename" -> s.table \in Tables(S) /\ s.to \notin Tables(S)
    [] s.op \in {"add", "add reference"} ->
         s.table \in Tables(S) /\ s.cols \cap S.tables[s.table] = {}
    [] s.op = "rename column" -> /\ s.table \in Tables(S) /\ s.cols \subseteq S.tables[s.table]
                                 /\ s.to \notin S.tables[s.table]
    [] s.op = "drop column" ->
         /\ s.table \in Tables(S) /\ s.cols \subseteq S.tables[s.table]
         /\ \A i \in IndexesOf(S, s.table) : s.cols \cap S.indexes[i].cols = {}
    [] s.op = "read" -> s.table \in Tables(S) /\ s.cols \subseteq S.tables[s.table]
    [] s.op = "write" -> /\ s.table \in Tables(S) /\ s.cols \subseteq S.tables[s.table]
                         /\ enforced => \A fk \in Dangling(S) : fk[1] # s.table

\* What has x already keeps it.
With(f, x, e) == [y \in DOMAIN f \cup {x} |-> IF y \in DOMAIN f THEN f[y] ELSE e]

WithoutTable(S, t) ==
  [tables |-> Restrict(S.tables, Tables(S) \ {t}),
   indexes |-> Restrict(S.indexes, Indexes(S) \ IndexesOf(S, t)),
   fks |-> {fk \in S.fks : fk[1] # t}]

\* Indexes and foreign keys, its own and those of other tables, follow a
\* renamed table.
Renamed(S, t, to) ==
  LET name(x) == IF x = t THEN to ELSE x
  IN [tables |-> With(Restrict(S.tables, Tables(S) \ {t}), to, S.tables[t]),
      indexes |-> [i \in Indexes(S) |-> [S.indexes[i] EXCEPT !.on = name(@)]],
      fks |-> {<<name(fk[1]), name(fk[2])>> : fk \in S.fks}]

\* The shape after a statement that Accepts lets run.
Effect(S, s) ==
  CASE s.op = "create" ->
         [S EXCEPT !.tables = With(@, s.table, s.cols),
                   !.fks = @ \cup {<<s.table, p>> : p \in s.parents}]
    [] s.op \in {"index", "index if missing"} ->
         [S EXCEPT !.indexes = With(@, s.index, [on |-> s.table, cols |-> s.cols])]
    [] s.op \in {"drop", "drop if exists"} -> WithoutTable(S, s.table)
    [] s.op = "drop index" ->
         [S EXCEPT !.indexes = Restrict(@, Indexes(S) \ {s.index})]
    [] s.op = "rename" -> Renamed(S, s.table, s.to)
    [] s.op = "add" -> [S EXCEPT !.tables[s.table] = @ \cup s.cols]
    [] s.op = "add reference" -> [S EXCEPT !.tables[s.table] = @ \cup s.cols,
                                           !.fks = @ \cup {<<s.table, s.parent>>}]
    [] s.op = "rename column" -> [S EXCEPT !.tables[s.table] = (@ \ s.cols) \cup {s.to}]
    [] s.op = "drop column" -> [S EXCEPT !.tables[s.table] = @ \ s.cols]
    [] s.op \in {"read", "write"} -> S

\* The shapes that statements run in order may leave: one, or none when one
\* of the statements is refused.
Outcomes(S, enforced, stmts) ==
  LET left[n \in 0..Len(stmts)] ==
        IF n = 0 THEN {S}
        ELSE {Effect(T, stmts[n]) : T \in {U \in left[n - 1] : Accepts(U, enforced, stmts[n])}}
  IN left[Len(stmts)]

\* Statements of a step that leaves what it rebuilds under the same name.
RebuildAside(t, cols, parents, read, temp) ==
  << CreateTable(temp, cols, parents), Read(t, read), Write(temp, cols),
     DropTable(t), RenameTable(temp, t) >>
RebuildInPlace(t, cols, parents, read, old) ==
  << RenameTable(t, old), CreateTable(t, cols, parents), Read(old, read),
     Write(t, cols), DropTable(old) >>
-----------------------------------------------------------------------------
\* The database the oldest supported program left, as its upgrades read it.

V2Shape ==
  [tables |->
     "meta" :> {"key", "value"} @@
     "roots" :> {"root_id", "root_path"} @@
     "scans" :> {"scan_id", "root_id", "state", "hashing", "validating", "scan_time",
                 "file_count", "folder_count"} @@
     "items" :> {"item_id", "root_id", "item_path", "item_type", "last_scan", "is_ts",
                 "mod_date", "file_size", "last_hash_scan", "file_hash",
                 "last_val_scan", "val", "val_error"} @@
     "changes" :> {"change_id", "scan_id", "item_id", "change_type", "is_undelete",
                   "meta_change", "mod_date_old", "mod_date_new", "file_size_old",
                   "file_size_new", "hash_change", "last_hash_scan_old", "hash_old",
                   "hash_new", "val_change", "last_val_scan_old", "val_old", "val_new",
                   "val_error_old", "val_error_new"},
   indexes |->
     "idx_roots_path" :> [on |-> "roots", cols |-> {"root_path"}] @@
     "idx_items_path" :> [on |-> "items", cols |-> {"root_id", "item_path", "item_type"}] @@
     "idx_items_scan" :> [on |-> "items", cols |-> {"root_id", "last_scan", "is_ts"}] @@
     "idx_changes_scan_type" :> [on |-> "changes", cols |-> {"scan_id", "change_type"}],
   fks |-> {<<"scans", "roots">>, <<"items", "roots">>, <<"items", "scans">>,
            <<"changes", "scans">>, <<"changes", "items">>}]

ScansV3 == {"scan_id", "root_id", "state", "is_hash", "hash_all", "is_val", "val_all",
            "scan_time", "file_count", "folder_count"}

V2ToV3 == RebuildAside("scans", ScansV3, {"roots"}, V2Shape.tables["scans"], "new_scans")

AlertColumns == {"alert_id", "alert_type", "alert_status", "scan_id", "item_id",
                 "created_at", "updated_at", "prev_hash_scan", "hash_old", "hash_new",
                 "val_error"}

V3ToV4 == << CreateTable("alerts", AlertColumns, {}) >>

V4ToV5 == << AddColumns("scans", {"error"}) >>

V5ToV6 ==
  << AddColumns("scans", {"total_file_size", "alert_count", "add_count", "modify_count",
                          "delete_count"}),
     Read("alerts", {"scan_id"}), Read("changes", {"scan_id", "change_type"}),
     Write("scans", {"alert_count", "add_count", "modify_count", "delete_count",
                     "file_count", "folder_count", "state"}) >>

\* Enums become integers: items and changes and alerts are written anew.
V6ToV7 ==
  RebuildAside("items", V2Shape.tables["items"], {"roots", "scans"},
               V2Shape.tables["items"], "new_items") \o
  << CreateIndex("idx_items_path", "items", {"root_id", "item_path", "item_type"}),
     CreateIndex("idx_items_scan", "items", {"root_id", "last_scan", "is_ts"}) >> \o
  RebuildAside("changes", V2Shape.tables["changes"], {"scans", "items"},
               V2Shape.tables["changes"], "new_changes") \o
  << CreateIndex("idx_changes_scan_type", "changes", {"scan_id", "change_type"}) >> \o
  RebuildAside("alerts", AlertColumns, {}, AlertColumns, "new_alerts")

V7ToV8 ==
  << DropIndexIfExists("idx_roots_path"),
     CreateIndex("idx_roots_path", "roots", {"root_path"}),
     DropIndexIfExists("idx_items_path"), DropIndexIfExists("idx_items_scan"),
     CreateIndex("idx_items_path", "items", {"item_path"}),
     CreateIndex("idx_items_root_path", "items", {"root_id", "item_path", "item_type"}),
     CreateIndex("idx_items_root_scan", "items", {"root_id", "last_scan", "is_ts"}) >>

QueueColumns == {"queue_id", "root_id", "schedule_id", "scan_id", "source", "created_at"}

V8ToV9 ==
  << CreateTable("scan_schedules",
       {"schedule_id", "root_id", "enabled", "schedule_name", "schedule_type",
        "time_of_day", "days_of_week", "day_of_month", "interval_value",
        "interval_unit", "hash_mode", "validate_mode", "created_at", "updated_at"},
       {"roots"}),
     CreateIndex("idx_scan_schedules_enabled", "scan_schedules", {"enabled"}),
     CreateIndex("idx_scan_schedules_root", "scan_schedules", {"root_id"}),
     CreateTable("scan_queue", QueueColumns \cup {"next_scan_time", "hash_mode", "validate_mode"},
                 {"roots", "scan_schedules", "scans"}),
     CreateIndex("idx_scan_queue_source_next", "scan_queue", {"source", "next_scan_time"}),
     CreateIndex("idx_scan_queue_schedule", "scan_queue", {"schedule_id"}),
     CreateIndex("idx_scan_queue_root", "scan_queue", {"root_id"}) >>

V9ToV10 ==
  << RenameColumn("items", "file_size", "size"),
     RenameColumn("changes", "file_size_old", "size_old"),
     RenameColumn("changes", "file_size_new", "size_new"),
     RenameColumn("scans", "total_file_size", "total_size") >>

V10ToV11 ==
  << RenameColumn("scans", "scan_time", "started_at"),
     AddColumns("scans", {"ended_at"}), AddColumns("scans", {"was_restarted"}),
     AddReference("scans", "schedule_id", "scan_schedules"),
     AddColumns("scan_schedules", {"deleted_at"}),
     CreateIndex("idx_scan_schedules_deleted", "scan_schedules", {"deleted_at"}) >>

V11ToV12 ==
  << AddColumns("items", {"access"}), AddColumns("changes", {"access_old", "access_new"}),
     AddColumns("scan_queue", {"analysis_hwm"}) >>

V12ToV13 ==
  << IndexIfMissing("idx_changes_item", "changes", {"item_id"}),
     IndexIfMissing("idx_alerts_item", "alerts", {"item_id"}) >>

TaskQueueColumns == QueueColumns \cup {"task_type", "is_active", "next_run_time",
                                       "task_settings", "analysis_hwm"}

V13ToV14 ==
  << CreateTable("task_queue", TaskQueueColumns, {"scan_schedules", "roots", "scans"}),
     Read("scan_queue", QueueColumns \cup {"next_scan_time", "hash_mode", "validate_mode",
                                           "analysis_hwm"}),
     Write("task_queue", TaskQueueColumns),
     DropTable("scan_queue"),
     CreateIndex("idx_task_queue_type_next", "task_queue", {"task_type", "next_run_time"}),
     CreateIndex("idx_task_queue_source_next", "task_queue", {"source", "next_run_time"}),
     CreateIndex("idx_task_queue_root", "task_queue", {"root_id"}),
     CreateIndex("idx_task_queue_schedule", "task_queue", {"schedule_id"}) >>

TaskColumns == {"task_id", "task_type", "status", "root_id", "schedule_id", "run_at",
                "source", "task_settings", "task_state", "created_at", "started_at",
                "completed_at"}

V14ToV15 ==
  << CreateTable("tasks", TaskColumns, {"scan_schedules", "roots"}),
     Read("task_queue", TaskQueueColumns), Write("tasks", TaskColumns \ {"completed_at"}),
     DropTable("task_queue"),
     CreateIndex("idx_tasks_status_source_runat", "tasks",
                 {"status", "source", "run_at", "task_id"}),
     CreateIndex("idx_tasks_schedule", "tasks", {"schedule_id"}),
     CreateIndex("idx_tasks_root", "tasks", {"root_id"}) >>
-----------------------------------------------------------------------------
\* Versions of an item, and the tables the changes of items gave way to.

VersionKey == {"version_id", "item_id", "first_scan_id", "last_scan_id"}
FileState == {"is_deleted", "access", "mod_date", "size"}
ChangeCounts == {"add_count", "modify_count", "delete_count"}
VersionsV16 == VersionKey \cup FileState \cup
               {"file_hash", "val", "val_error", "last_hash_scan", "last_val_scan"}

\* The two indexes every rebuild of item_versions creates again.
VersionIndexes ==
  << CreateIndex("idx_versions_item_scan", "item_versions", {"item_id", "first_scan_id"}),
     CreateIndex("idx_versions_first_scan", "item_versions", {"first_scan_id"}) >>

V15ToV16 ==
  << RenameTable("items", "items_old"),
     DropIndexIfExists("idx_items_path"), DropIndexIfExists("idx_items_root_path"),
     CreateIndex("idx_items_old_path", "items_old", {"item_path"}),
     CreateIndex("idx_items_old_root_path", "items_old", {"root_id", "item_path", "item_type"}),
     CreateTable("items", {"item_id", "root_id", "item_path", "item_name", "item_type"},
                 {"roots"}),
     CreateIndex("idx_items_path", "items", {"item_path"}),
     CreateIndex("idx_items_root_path", "items", {"root_id", "item_path", "item_type"}),
     CreateIndex("idx_items_root_name", "items", {"root_id", "item_name"}),
     CreateTable("item_versions", VersionsV16, {"items", "scans"}) >> \o
  VersionIndexes \o
  << CreateTable("scan_undo_log", {"undo_id", "version_id", "old_last_scan_id",
                                   "old_last_hash_scan", "old_last_val_scan"}, {}),
     Read("items_old", {"item_id", "root_id", "item_path", "item_type", "last_scan",
                        "is_ts", "access", "mod_date", "size", "file_hash", "val",
                        "val_error", "last_hash_scan", "last_val_scan"}),
     Read("changes", {"item_id", "scan_id", "change_type", "is_undelete", "access_new",
                      "mod_date_new", "size_new", "meta_change", "hash_change", "hash_new",
                      "val_change", "val_new", "val_error_new"}),
     Write("item_versions", VersionsV16 \ {"version_id"}) >>

V16ToV17 ==
  << Read("items_old", {"item_id", "is_ts"}), Read("item_versions", {"item_id", "is_deleted"}),
     DropIndexIfExists("idx_items_old_path"), DropIndexIfExists("idx_items_old_root_path"),
     DropIndexIfExists("idx_items_root_scan"), DropIndexIfExists("idx_changes_scan_type"),
     DropIndexIfExists("idx_changes_item"),
     DropTableIfExists("changes"), DropTableIfExists("items_old") >>

V17ToV18 == << AddColumns("item_versions", ChangeCounts), Read("items", {"item_type"}) >>

V19ToV20 ==
  << AddColumns("item_versions", {"is_added"}), Read("item_versions", VersionKey \cup FileState) >>

V20ToV21 ==
  RebuildAside("item_versions", VersionsV16 \cup ChangeCounts \cup {"is_added"},
               {"items", "scans"}, VersionsV16 \cup ChangeCounts \cup {"is_added"},
               "item_versions_new") \o
  VersionIndexes

V21ToV22 == << AddColumns("item_versions", {"unchanged_count"}) >>

StateCounts == {"val_unknown_count", "val_valid_count", "val_invalid_count",
                "val_no_validator_count", "hash_unknown_count", "hash_valid_count",
                "hash_suspect_count"}
VersionsV24 ==
  VersionKey \cup FileState \cup ChangeCounts \cup StateCounts \cup
  {"is_added", "unchanged_count", "last_val_scan", "val_state", "val_error",
   "last_hash_scan", "file_hash", "hash_state"}

V23ToV24 ==
  RebuildAside("item_versions", VersionsV24, {"items", "scans"},
               VersionsV16 \cup ChangeCounts \cup {"is_added", "unchanged_count"},
               "item_versions_new") \o
  VersionIndexes \o
  << AddColumns("scans", StateCounts) >>

UndoV26 == {"version_id", "old_last_scan_id", "old_last_hash_scan", "old_last_val_scan"}

V25ToV26 == RebuildInPlace("scan_undo_log", UndoV26, {}, UndoV26, "scan_undo_log_old")

V26ToV27 ==
  RebuildInPlace("item_versions", VersionsV24, {"items", "scans"}, VersionsV24,
                 "item_versions_old") \o
  VersionIndexes \o
  RebuildInPlace("alerts", AlertColumns, {}, AlertColumns, "alerts_old") \o
  << CreateIndex("idx_alerts_item", "alerts", {"item_id"}),
     DropIndexIfExists("idx_items_path") >>
-----------------------------------------------------------------------------
\* Version 28 is reached in three transactions: the tables are split with the
\* old versions kept aside, the rows are moved, and keys become composite.

ItemsV28 == {"item_id", "root_id", "item_path", "item_name", "item_type", "has_validator"}
ScansV28 == {"scan_id", "root_id", "schedule_id", "started_at", "ended_at", "was_restarted",
             "state", "is_hash", "hash_all", "is_val", "file_count", "folder_count",
             "total_size", "alert_count", "error", "hash_baseline_count"} \cup
            ChangeCounts \cup (StateCounts \ {"hash_valid_count"})
VersionsV28 == (VersionKey \ {"version_id"}) \cup FileState \cup ChangeCounts \cup
               {"root_id", "is_added", "unchanged_count", "val_scan_id", "val_state",
                "val_error"}
HashesV28 == {"item_id", "first_scan_id", "last_scan_id", "file_hash", "hash_state"}
UndoV28 == {"log_type", "ref_id1", "ref_id2", "old_last_scan_id"}

RollBackOpenScans ==
  << Write("item_versions", {"last_scan_id", "last_hash_scan", "last_val_scan"}),
     Read("scan_undo_log", UndoV26), Write("items", {}), Write("alerts", {"scan_id"}),
     Write("scans", {"state", "total_size", "ended_at"}) >>

P1RebuildItems ==
  RebuildInPlace("items", ItemsV28, {"roots"}, ItemsV28 \ {"has_validator"}, "items_old") \o
  << CreateIndex("idx_items_root_path", "items", {"root_id", "item_path", "item_type"}),
     CreateIndex("idx_items_root_name", "items", {"root_id", "item_name"}) >>

P1RebuildScans ==
  RebuildInPlace("scans", ScansV28, {"roots", "scan_schedules"},
                 (ScansV28 \ {"hash_baseline_count"}) \cup {"hash_valid_count"},
                 "scans_old") \o
  << IndexIfMissing("idx_scans_root", "scans", {"root_id"}) >>

P1SplitVersions ==
  << RenameTable("item_versions", "item_versions_old"),
     DropIndexIfExists("idx_versions_item_scan"), DropIndexIfExists("idx_versions_first_scan"),
     CreateIndex("idx_versions_old_item_scan", "item_versions_old", {"item_id", "first_scan_id"}),
     CreateIndex("idx_versions_old_first_scan", "item_versions_old", {"first_scan_id"}),
     CreateTable("item_versions", VersionsV28 \cup {"version_id"}, {"items", "roots", "scans"}) >>
  \o VersionIndexes \o
  << CreateIndex("idx_versions_root_lastscan", "item_versions", {"root_id", "last_scan_id"}),
     CreateTable("hash_versions", HashesV28 \cup {"item_version_id"},
                 {"items", "item_versions", "scans"}),
     CreateIndex("idx_hash_versions_item_version", "hash_versions", {"item_version_id"}),
     DropTable("scan_undo_log"), CreateTable("scan_undo_log", UndoV28, {}),
     RenameColumn("scan_schedules", "validate_mode", "is_val") >>

V27Phase1 == RollBackOpenScans \o P1RebuildItems \o P1RebuildScans \o P1SplitVersions

\* One batch of items moved from the versions set aside.
V27Phase2 ==
  << Read("item_versions_old", VersionsV24), Read("items", {"item_type", "root_id"}),
     Write("item_versions", VersionsV28), Write("hash_versions", HashesV28 \cup {"item_version_id"}),
     Write("item_versions_old", {"item_id"}) >>

V27TempIndex ==
  << IndexIfMissing("idx_tmp_versions_scan_item", "item_versions",
                    {"first_scan_id", "item_id"}) >>
V27DropTempIndex == << DropIndexIfExists("idx_tmp_versions_scan_item") >>

V27Phase4 ==
  << DropTableIfExists("item_versions_old") >> \o
  RebuildInPlace("item_versions", VersionsV28 \cup {"item_version"}, {"items", "roots", "scans"},
                 VersionsV28 \cup {"version_id"}, "item_versions_mid") \o
  RebuildInPlace("hash_versions", HashesV28 \cup {"item_version"}, {"item_versions", "scans"},
                 HashesV28 \cup {"item_version_id"}, "hash_versions_old") \o
  << DropTable("scan_undo_log"),
     CreateTable("scan_undo_log", UndoV28 \cup {"ref_id3"}, {}),
     CreateIndex("idx_versions_first_scan", "item_versions", {"first_scan_id"}),
     CreateIndex("idx_versions_root_lastscan", "item_versions", {"root_id", "last_scan_id"}) >>

V28ToV29 ==
  << AddColumns("items", {"do_not_validate", "file_extension"}),
     AddColumns("item_versions", {"val_reviewed_at", "hash_reviewed_at"}),
     DropColumn("scans", "alert_count"),
     AddColumns("scans", {"new_hash_suspect_count", "new_val_invalid_count"}),
     DropTableIfExists("alerts"),
     IndexIfMissing("idx_items_root_ext", "items", {"root_id", "file_extension"}),
     IndexIfMissing("idx_hash_versions_first_scan", "hash_versions",
                    {"first_scan_id", "hash_state"}),
     IndexIfMissing("idx_versions_val_scan", "item_versions", {"val_scan_id", "val_state"}),
     Write("items", {"file_extension", "has_validator"}),
     Write("scans", {"new_hash_suspect_count", "new_val_invalid_count"}) >>

\* The last two steps repair rows and leave the shape alone.
V29ToV30 ==
  << Write("item_versions", {"is_deleted"}), Read("items", {"item_path", "root_id"}),
     Write("scans", {"file_count", "folder_count", "val_unknown_count", "val_valid_count",
                     "val_invalid_count", "val_no_validator_count", "hash_unknown_count",
                     "hash_baseline_count", "hash_suspect_count"}) >>

V30ToV31 ==
  << Write("hash_versions", {"hash_state"}), Write("item_versions", {"hash_reviewed_at"}),
     Write("scans", {"hash_baseline_count", "hash_suspect_count", "new_hash_suspect_count"}) >>
-----------------------------------------------------------------------------
\* The database a program of this version creates for itself.

CURRENT_SCHEMA_VERSION == 31

FreshShape ==
  [tables |->
     "meta" :> {"key", "value"} @@
     "roots" :> {"root_id", "root_path"} @@
     "scans" :> {"scan_id", "root_id", "schedule_id", "started_at", "ended_at",
                 "was_restarted", "state", "is_hash", "hash_all", "is_val", "file_count",
                 "folder_count", "total_size", "new_hash_suspect_count",
                 "new_val_invalid_count", "add_count", "modify_count", "delete_count",
                 "val_unknown_count", "val_valid_count", "val_invalid_count",
                 "val_no_validator_count", "hash_unknown_count", "hash_baseline_count",
                 "hash_suspect_count", "error"} @@
     "items" :> {"item_id", "root_id", "item_path", "item_name", "file_extension",
                 "item_type", "has_validator", "do_not_validate"} @@
     "item_versions" :> {"item_id", "item_version", "root_id", "first_scan_id",
                         "last_scan_id", "is_added", "is_deleted", "access", "mod_date",
                         "size", "add_count", "modify_count", "delete_count",
                         "unchanged_count", "val_scan_id", "val_state", "val_error",
                         "val_reviewed_at", "hash_reviewed_at"} @@
     "hash_versions" :> {"item_id", "item_version", "first_scan_id", "last_scan_id",
                         "file_hash", "hash_state"} @@
     "scan_undo_log" :> {"log_type", "ref_id1", "ref_id2", "ref_id3", "old_last_scan_id"} @@
     "scan_schedules" :> {"schedule_id", "root_id", "enabled", "schedule_name",
                          "schedule_type", "time_of_day", "days_of_week", "day_of_month",
                          "interval_value", "interval_unit", "hash_mode", "is_val",
                          "created_at", "updated_at", "deleted_at"} @@
     "tasks" :> TaskColumns,
   indexes |->
     "idx_roots_path" :> [on |-> "roots", cols |-> {"root_path"}] @@
     "idx_scans_root" :> [on |-> "scans", cols |-> {"root_id"}] @@
     "idx_items_root_path" :>
        [on |-> "items", cols |-> {"root_id", "item_path", "item_type"}] @@
     "idx_items_root_name" :> [on |-> "items", cols |-> {"root_id", "item_name"}] @@
     "idx_items_root_ext" :> [on |-> "items", cols |-> {"root_id", "file_extension"}] @@
     "idx_versions_first_scan" :> [on |-> "item_versions", cols |-> {"first_scan_id"}] @@
     "idx_versions_root_lastscan" :>
        [on |-> "item_versions", cols |-> {"root_id", "last_scan_id"}] @@
     "idx_versions_val_scan" :>
        [on |-> "item_versions", cols |-> {"val_scan_id", "val_state"}] @@
     "idx_hash_versions_first_scan" :>
        [on |-> "hash_versions", cols |-> {"first_scan_id", "hash_state"}] @@
     "idx_scan_schedules_enabled" :> [on |-> "scan_schedules", cols |-> {"enabled"}] @@
     "idx_scan_schedules_root" :> [on |-> "scan_schedules", cols |-> {"root_id"}] @@
     "idx_scan_schedules_deleted" :> [on |-> "scan_schedules", cols |-> {"deleted_at"}] @@
     "idx_tasks_status_source_runat" :>
        [on |-> "tasks", cols |-> {"status", "source", "run_at", "task_id"}] @@
     "idx_tasks_schedule" :> [on |-> "tasks", cols |-> {"schedule_id"}] @@
     "idx_tasks_root" :> [on |-> "tasks", cols |-> {"root_id"}],
   fks |-> {<<"scans", "roots">>, <<"scans", "scan_schedules">>, <<"items", "roots">>,
            <<"item_versions", "items">>, <<"item_versions", "roots">>,
            <<"item_versions", "scans">>, <<"hash_versions", "item_versions">>,
            <<"hash_versions", "scans">>, <<"scan_schedules", "roots">>,
            <<"tasks", "scan_schedules">>, <<"tasks", "roots">>}]

\* The statements of the upgrades that are one transaction, by the version
\* they start from.
Transacted ==
  2 :> V2ToV3 @@ 3 :> V3ToV4 @@ 4 :> V4ToV5 @@ 5 :> V5ToV6 @@ 6 :> V6ToV7 @@
  7 :> V7ToV8 @@ 8 :> V8ToV9 @@ 9 :> V9ToV10 @@ 10 :> V10ToV11 @@ 11 :> V11ToV12 @@
  12 :> V12ToV13 @@ 13 :> V13ToV14 @@ 14 :> V14ToV15 @@ 15 :> V15ToV16 @@
  16 :> V16ToV17 @@ 17 :> V17ToV18 @@ 19 :> V19ToV20 @@ 20 :> V20ToV21 @@
  21 :> V21ToV22 @@ 25 :> V25ToV26 @@ 26 :> V26ToV27 @@ 28 :> V28ToV29 @@
  29 :> V29ToV30 @@ 30 :> V30ToV31
=============================================================================
