--------------------------- MODULE SchemaUpgrade ---------------------------
(***************************************************************************)
(* Bringing a database of an earlier version to the current one, a         *)
(* transaction at a time, by a program that may be killed between any two. *)
(*                                                                         *)
(* An upgrade is a chain of steps, one per version.  Most steps are one    *)
(* transaction: their statements and the new version are committed         *)
(* together.  The others (18, 22, 23, 24 and 27) take many transactions    *)
(* and keep in the meta table what a restarted program needs to go on: a   *)
(* high-water mark over the scans, or folders, already done, and for 23 a  *)
(* mark that the tables are rebuilt.  SchemaSteps says what the            *)
(* transactions do to the tables; of the rows only what the steps owe is   *)
(* kept: which scans were recounted, which items moved, and the scan and   *)
(* task that were under way when the database was last used.               *)
(*                                                                         *)
(* The program around the chain is ServerStartup.                          *)
(***************************************************************************)
EXTENDS SchemaSteps, FiniteSetsExt

CONSTANTS
  Scans,     \* scan_ids of the completed scans, all roots together
  Folders,   \* item_ids of folders, one per batch of the step from 24
  Items,     \* item_ids with versions, one per batch of the step from 27
  Starts     \* versions a database may be found at; 0 is no database

ASSUME UpgradeAssumption ==
  /\ Scans \subseteq Nat \ {0} /\ IsFiniteSet(Scans)
  /\ Folders \subseteq Nat \ {0} /\ IsFiniteSet(Folders)
  /\ Items \subseteq Nat \ {0} /\ IsFiniteSet(Items)
  /\ Starts \subseteq {0} \cup 2..CURRENT_SCHEMA_VERSION

VARIABLES
  \* committed
  shape,    \* the tables as SchemaSteps describes them
  version,  \* meta.schema_version, 0 before there is a meta table
  meta,     \* the other keys of meta and their values
  rows,     \* what the steps have done to the rows
  \* in the memory of the program that upgrades
  stage     \* the place in the step from version, "step" before it begins

dbVars == <<shape, version, meta, rows>>
upgradeVars == <<shape, version, meta, rows, stage>>

ScanStates == {"none", "open", "stopped", "completed"}
TaskStates == {"none", "running", "completed"}

\* The steps that take several transactions, with their mark in meta.
Standalone == {18, 22, 23, 24, 27}
HwmKey == [v \in Standalone |-> CASE v = 18 -> "v19_backfill_hwm"
                                  [] v = 22 -> "v23_backfill_hwm"
                                  [] v = 23 -> "v24_backfill_hwm"
                                  [] v = 24 -> "v25_dedup_hwm"
                                  [] v = 27 -> "v28_count_hwm"]
Recounting == {18, 22, 23, 27}
DDL_DONE == "v24_ddl_done"

\* Enforcement is on but for the duration of a transacted step and of 27.
Enforced == version \in Standalone \ {27}

\* The shape an older program left: every step up to v, on the oldest one.
OneTransaction(v) == CASE v \in DOMAIN Transacted -> Transacted[v]
                       [] v = 23 -> V23ToV24
                       [] v = 27 -> V27Phase1 \o V27Phase4
                       [] OTHER -> << >>
Shapes ==
  FoldLeft(LAMBDA done, v : Append(done, CHOOSE S \in Outcomes(Last(done), FALSE, OneTransaction(v)) : TRUE),
           <<V2Shape>>, [i \in 1..(CURRENT_SCHEMA_VERSION - 2) |-> i + 1])
ShapeAt(v) == Shapes[v - 1]

NoShape == [tables |-> << >>, indexes |-> << >>, fks |-> {}]

\* A new database, and the steps behind an older one, owe no rows anything.
DoneBefore(v, all) == IF version # 0 /\ version <= v THEN {} ELSE all

\* A scan may be under way, and from version 9 on the request it runs for.
InitDatabase ==
  /\ version \in Starts
  /\ shape = IF version = 0 THEN NoShape ELSE ShapeAt(version)
  /\ meta \in IF version \in 2..27 THEN {<< >>, [k \in {"high_water_mark"} |-> 7]} ELSE {<< >>}
  /\ \E open \in BOOLEAN :
       rows = [counted |-> [v \in Recounting |-> DoneBefore(v, Scans)],
               deduped |-> DoneBefore(24, Folders),
               recomputed |-> version \notin 2..24,
               moved |-> DoneBefore(27, Items),
               merged |-> version \notin 2..27,
               scan |-> IF open /\ version # 0 THEN "open" ELSE "none",
               task |-> IF open /\ version >= 9 THEN "running" ELSE "none"]

\* The mark of the step, 0 while it is missing.
Hwm == IF HwmKey[version] \in DOMAIN meta THEN meta[HwmKey[version]] ELSE 0
Put(key, n) == [k \in DOMAIN meta \cup {key} |-> IF k = key THEN n ELSE meta[k]]
SetHwm(n) == Put(HwmKey[version], n)
Without(keys) == Restrict(meta, DOMAIN meta \ keys)

ScansLeft_FromNext == {s \in Scans : s > Hwm + 1}
ScansLeft == {s \in Scans : s > Hwm}
FoldersLeft == {f \in Folders : f > Hwm}
Aside == IF "item_versions_old" \in Tables(shape) THEN Items \ rows.moved ELSE {}
-----------------------------------------------------------------------------
\* The statements of the transaction the program is about to run.

Pending ==
  CASE stage = "step" /\ version \notin Standalone -> Transacted[version]
    [] stage = "step" /\ version = 23 /\ DDL_DONE \notin DOMAIN meta -> V23ToV24
    [] stage = "step" /\ version = 27 /\ "item_versions_old" \notin Tables(shape) -> V27Phase1
    [] stage = "moving" /\ Aside # {} -> V27Phase2
    [] stage = "moving" /\ Aside = {} -> V27TempIndex
    [] stage = "dropping" -> V27DropTempIndex
    [] stage = "closing" /\ version = 27 -> V27Phase4
    [] OTHER -> << >>

Performs == shape' \in Outcomes(shape, Enforced, Pending)
Refused == Outcomes(shape, Enforced, Pending) = {}

\* A version's statements and the version itself, in one transaction.
Transact ==
  /\ stage = "step" /\ version \notin Standalone
  /\ Performs
  /\ version' = version + 1
  /\ UNCHANGED <<meta, rows, stage>>

RunDdl_Forgets ==
  /\ stage = "step" /\ version = 23
  /\ Performs
  /\ stage' = "opening"
  /\ UNCHANGED <<version, meta, rows>>

\* The tables of 23 are rebuilt unless meta says they already are.
RunDdl ==
  /\ stage = "step" /\ version = 23
  /\ Performs
  /\ meta' = IF DDL_DONE \in DOMAIN meta THEN meta ELSE Put(DDL_DONE, 1)
  /\ stage' = "opening"
  /\ UNCHANGED <<version, rows>>

\* Read the mark, or put it at 0, and see what is left to do.
OpenBackfill ==
  /\ \/ stage = "step" /\ version \in {18, 22, 24}
     \/ stage = "opening" /\ version \in {23, 27}
  /\ meta' = SetHwm(Hwm)
  /\ stage' = IF version = 27 /\ ScansLeft = {} THEN "dropping" ELSE "working"
  /\ UNCHANGED <<shape, version, rows>>

\* Recount the folders of the next scan, in transactions of their own.
RecountScan ==
  /\ stage = "working" /\ version \in {18, 22, 23} /\ ScansLeft # {}
  /\ rows' = [rows EXCEPT !.counted[version] = @ \cup {Min(ScansLeft)}]
  /\ stage' = "marking"
  /\ UNCHANGED <<shape, version, meta>>

MarkScan_Stays ==
  /\ stage = "marking"
  /\ meta' = SetHwm(Hwm)
  /\ stage' = "working"
  /\ UNCHANGED <<shape, version, rows>>

\* Then move the mark past it.
MarkScan ==
  /\ stage = "marking"
  /\ meta' = SetHwm(Min(ScansLeft))
  /\ stage' = "working"
  /\ UNCHANGED <<shape, version, rows>>

\* The step from 24 removes repeated folder versions, a batch and its mark
\* at a time,
DedupBatch ==
  /\ stage = "working" /\ version = 24 /\ FoldersLeft # {}
  /\ rows' = [rows EXCEPT !.deduped = @ \cup {Min(FoldersLeft)}]
  /\ meta' = SetHwm(Min(FoldersLeft))
  /\ UNCHANGED <<shape, version, stage>>

\* and counts the changes of every scan again when none is left.
RecomputeCounts ==
  /\ stage = "working" /\ version = 24 /\ FoldersLeft = {}
  /\ rows' = [rows EXCEPT !.recomputed = TRUE]
  /\ stage' = "closing"
  /\ UNCHANGED <<shape, version, meta>>

CloseBackfill_LeavesMark ==
  /\ \/ stage = "working" /\ version \in {18, 22, 23} /\ ScansLeft = {}
     \/ stage = "closing" /\ version = 24
  /\ meta' = Without({HwmKey[version]})
  /\ version' = version + 1
  /\ stage' = "step"
  /\ UNCHANGED <<shape, rows>>

\* Nothing left: the marks go and the version is raised, in one transaction.
CloseBackfill ==
  /\ \/ stage = "working" /\ version \in {18, 22, 23} /\ ScansLeft = {}
     \/ stage = "closing" /\ version = 24
  /\ meta' = Without({HwmKey[version]} \cup IF version = 23 THEN {DDL_DONE} ELSE {})
  /\ version' = version + 1
  /\ stage' = "step"
  /\ UNCHANGED <<shape, rows>>
-----------------------------------------------------------------------------
\* The step from 27 in its four phases.

\* Scans under way are rolled back and the tables split; skipped when the
\* versions are already set aside.
SplitTables ==
  /\ stage = "step" /\ version = 27
  /\ Performs
  /\ rows' = IF "item_versions_old" \in Tables(shape) THEN rows
             ELSE [rows EXCEPT !.scan = IF @ = "open" THEN "stopped" ELSE @]
  /\ stage' = "moving"
  /\ UNCHANGED <<version, meta>>

\* One batch: rows inserted in the new tables, removed from the old one.
MoveBatch ==
  /\ stage = "moving" /\ Aside # {}
  /\ Performs
  /\ rows' = [rows EXCEPT !.moved = @ \cup {Min(Aside)}]
  /\ UNCHANGED <<version, meta, stage>>

MakeTempIndex ==
  /\ stage = "moving" /\ Aside = {}
  /\ Performs
  /\ stage' = "opening"
  /\ UNCHANGED <<version, meta, rows>>

\* A scan is recounted and the mark moved in one transaction.
CountScan ==
  /\ stage = "working" /\ version = 27 /\ ScansLeft # {}
  /\ rows' = [rows EXCEPT !.counted[27] = @ \cup {Min(ScansLeft)}]
  /\ meta' = SetHwm(Min(ScansLeft))
  /\ UNCHANGED <<shape, version, stage>>

\* After the last scan of this run, repeated folder versions are merged; a
\* run that finds no scan left returns before it (OpenBackfill).
MergeRepeats ==
  /\ stage = "working" /\ version = 27 /\ ScansLeft = {}
  /\ rows' = [rows EXCEPT !.merged = TRUE]
  /\ stage' = "dropping"
  /\ UNCHANGED <<shape, version, meta>>

DropTempIndex ==
  /\ stage = "dropping"
  /\ Performs
  /\ stage' = "closing"
  /\ UNCHANGED <<version, meta, rows>>

BuildFinalTables ==
  /\ stage = "closing" /\ version = 27
  /\ Performs
  /\ meta' = Without({HwmKey[27], "high_water_mark"})
  /\ version' = 28
  /\ stage' = "step"
  /\ UNCHANGED rows

UpgradeStep ==
  \/ Transact
  \/ RunDdl
  \/ OpenBackfill
  \/ RecountScan
  \/ MarkScan
  \/ DedupBatch
  \/ RecomputeCounts
  \/ CloseBackfill
  \/ SplitTables
  \/ MoveBatch
  \/ MakeTempIndex
  \/ CountScan
  \/ MergeRepeats
  \/ DropTempIndex
  \/ BuildFinalTables

\* ensure_schema_current of a program that finds no meta table: one
\* transaction makes them all.
CreateSchema ==
  /\ version = 0
  /\ shape' = FreshShape
  /\ version' = CURRENT_SCHEMA_VERSION
  /\ UNCHANGED <<meta, rows, stage>>
=============================================================================
