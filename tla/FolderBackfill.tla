--------------------------- MODULE FolderBackfill ---------------------------
(***************************************************************************)
(* The upgrades from version 18 to 25, which count afterwards what changed *)
(* below each folder in every scan there ever was.                         *)
(*                                                                         *)
(* 18 to 19 counts additions, modifications and deletions and gives a      *)
(* folder a version of its own for every scan that changed something below *)
(* it; 22 to 23 counts again, with what did not change; 23 to 24 counts    *)
(* states of hashes and validations; 24 to 25 merges folder versions.      *)
(* Each goes scan by scan (or folder by folder) in transactions and keeps  *)
(* how far it got, the high-water mark, in meta; a kill loses what is      *)
(* between.  19 to 22 rewrite all rows at once.                            *)
(*                                                                         *)
(* Then the program of version 27 scans what is left up to LastScan, and   *)
(* IntegrityUpgrade takes over.                                            *)
(***************************************************************************)
EXTENDS VersionRows, TLC

CONSTANT MaxCrashes  \* bound: kills during the upgrades
ASSUME CrashesAssumption == MaxCrashes \in Nat

VARIABLES
  seen,      \* what each scan found: history, for the properties
  early,     \* how many scans are older than the upgrade from 18
  live,      \* scans so far
  running,   \* the last scan will still be under way when 28 comes
  stage,
  old,       \* rows of item_versions up to version 27
  undo,      \* rows of scan_undo_log
  totals,    \* counts of each scan, in the table scans
  hwm,       \* the mark, 0 while it is missing
  merged,    \* folders below the mark of 24 to 25
  done,      \* transactions so far for the scan being counted
  crashes

backfillVars == <<seen, early, live, running, stage, old, undo, totals, hwm, merged, done, crashes>>

BackfillInit ==
  /\ seen \in [Scans -> Findings]
  /\ early \in 0..LastScan
  /\ running \in {b \in BOOLEAN : b => early < LastScan}
  /\ live = early
  /\ stage = IF early = 0 THEN "live" ELSE "v18"
  /\ old = EarlyRows(seen, early)
  /\ undo = {} /\ totals = [s \in Scans |-> << >>]
  /\ hwm = 0 /\ merged = {} /\ done = 0 /\ crashes = 0

\* Scans the step at hand has not marked.
Uncovered == {s \in 1..early : s > hwm}

\* Two of the steps count changes.
Counting == stage \in {"v18", "v22"}

\* write_single_folder_count: a version of this scan takes the counts; else
\* the newest version of all ends with the scan before, and is copied.
WithCounts(R, d, s, counts) ==
  LET own == StartedBy(R, d, s)
      newest == Newest(R, d)
      copy(v) == [v EXCEPT !.first = s, !.last = s, !.added = FALSE, !.counts = counts]
  IN IF own # {} THEN (Of(R, d) \ own) \cup {[v EXCEPT !.counts = counts] : v \in own}
     ELSE (Of(R, d) \ newest) \cup {copy(v) : v \in newest} \cup
          IF s > 1 THEN {[v EXCEPT !.last = s - 1] : v \in newest} ELSE newest

\* walk_folder_counts, what it has to write for d: nothing when nothing
\* below it changed.
Written(R, d, s, unchanged) ==
  LET c == Changes(R, Walked(R, d, s), s)
      counts == [adds |-> c.adds, mods |-> c.mods, dels |-> c.dels,
                 unchanged |-> IF unchanged THEN PrevAlive(R, d, s) - c.mods - c.dels ELSE 0]
  IN IF d \in Walked(R, Root, s) /\ c.adds + c.mods + c.dels > 0
     THEN WithCounts(R, d, s, counts) ELSE Of(R, d)

FilesOf(R) == {v \in R : v.item \in Files}

\* The walk is over before the first write, and the writes of one scan fit
\* one batch.
CountChanges ==
  /\ Counting /\ done = 0 /\ Uncovered # {}
  /\ old' = FilesOf(old) \cup
            UNION {Written(old, d, Min(Uncovered), stage = "v22") : d \in Folders}
  /\ done' = 1
  /\ UNCHANGED <<seen, early, live, running, stage, undo, totals, hwm, merged, crashes>>

\* The mark is a transaction of its own.
Mark ==
  /\ done = IF stage = "states" THEN 2 ELSE 1
  /\ hwm' = Min(Uncovered) /\ done' = 0
  /\ UNCHANGED <<seen, early, live, running, stage, old, undo, totals, merged, crashes>>

EndOfScans ==
  /\ stage \in {"v18", "v22", "states"} /\ done = 0 /\ Uncovered = {}
  /\ hwm' = 0
  /\ stage' = CASE stage = "v18" -> "v19" [] stage = "v22" -> "v23" [] OTHER -> "v24"
  /\ UNCHANGED <<seen, early, live, running, old, undo, totals, merged, done, crashes>>
-----------------------------------------------------------------------------
\* 19 to 20: a version is an addition when there is none before or a deleted
\* one.
TellAdditions ==
  /\ stage = "v19"
  /\ old' = {[v EXCEPT !.added = \A p \in Before(old, v.item, v.first) : p.deleted] : v \in old}
  /\ stage' = "v20"
  /\ UNCHANGED <<seen, early, live, running, undo, totals, hwm, merged, done, crashes>>

SameItem(v, w) == v.added = w.added /\ v.deleted = w.deleted /\ v.meta = w.meta

\* A repetition; for should_merge_next one in states too, or a version without
\* changes below it that repeats the folder itself.
Mergeable(v, w, dedup) ==
  \/ SameItem(v, w) /\ v.counts = w.counts /\ (dedup => v.states = w.states)
  \/ dedup /\ ~w.added /\ ~w.deleted /\ w.counts.adds = 0 /\ w.counts.mods = 0 /\
     w.counts.dels = 0 /\ v.meta = w.meta

\* Versions of d in the order of their scans, each either taken into the last
\* one kept or kept; dedup for the rule of 24 to 25.
Collapsed(R, d, dedup) ==
  LET kept[s \in 0..LastScan] ==
        IF s = 0 THEN {}
        ELSE LET keeper == Newest(kept[s - 1], d)
                 next == StartedBy(R, d, s)
             IN IF \E v \in keeper, w \in next : Mergeable(v, w, dedup)
                THEN (kept[s - 1] \ keeper) \cup
                     {[v EXCEPT !.last = Max({w.last : w \in next})] : v \in keeper}
                ELSE kept[s - 1] \cup next
  IN kept[LastScan]

\* 20 to 21: collapse_folder_versions; 21 to 22 clears unchanged_count, which
\* nobody counted so far.
CollapseFolders ==
  /\ stage = "v20"
  /\ old' = FilesOf(old) \cup
            UNION {Collapsed(old, d, FALSE) : d \in Folders}
  /\ stage' = "v22"
  /\ UNCHANGED <<seen, early, live, running, undo, totals, hwm, merged, done, crashes>>
-----------------------------------------------------------------------------
\* 23 to 24: a hash that is known is a valid one, whatever came before.
RebuildVersions ==
  /\ stage = "v23"
  /\ old' = {[v EXCEPT !.hashState = IF v.hash = None THEN 0 ELSE 1] : v \in old}
  /\ stage' = "states"
  /\ UNCHANGED <<seen, early, live, running, undo, totals, hwm, merged, done, crashes>>

\* States of the files in D whose rows span the scan.
States(R, D, s) ==
  LET there == {v \in FilesOf(R) : Parent[v.item] \in D /\ ~v.deleted /\ v.first <= s /\ s <= v.last}
      val(n) == Cardinality({v \in there : v.item \in Validated /\ v.val = n})
      hash(n) == Cardinality({v \in there : v.hashState = n})
  IN [valUnknown |-> val(0), valid |-> val(1), invalid |-> val(2),
      noValidator |-> Cardinality({v \in there : v.item \notin Validated}),
      hashUnknown |-> hash(0), baseline |-> hash(1), suspect |-> hash(2)]

\* The scan first, flat over the root; then the folder versions it started,
\* by a walk.
CountScanStates ==
  /\ stage = "states" /\ done = 0 /\ Uncovered # {}
  /\ totals' = [totals EXCEPT ![Min(Uncovered)] = States(old, Everywhere, Min(Uncovered))]
  /\ done' = 1
  /\ UNCHANGED <<seen, early, live, running, stage, old, undo, hwm, merged, crashes>>

CountFolderStates ==
  LET s == Min(Uncovered)
      told(v) == v.first = s /\ v.item \in Walked(old, Root, s) \cap Folders
  IN /\ stage = "states" /\ done = 1
     /\ old' = {IF told(v) THEN [v EXCEPT !.states = States(old, Walked(old, v.item, s), s)] ELSE v :
                  v \in old}
     /\ done' = 2
     /\ UNCHANGED <<seen, early, live, running, stage, undo, totals, hwm, merged, crashes>>
-----------------------------------------------------------------------------
\* 24 to 25: folders in the order of their ids, the mark in the same
\* transaction as the rows.
DedupFolder ==
  LET next == CHOOSE x \in Folders \ merged : TRUE
  IN /\ stage = "v24" /\ merged # Folders
     /\ old' = (old \ Of(old, next)) \cup Collapsed(old, next, TRUE)
     /\ merged' = merged \cup {next}
     /\ UNCHANGED <<seen, early, live, running, stage, undo, totals, hwm, done, crashes>>

\* recompute_scan_change_counts, the versions of each scan counted flat; 26
\* and 27 change no row.
RecountScans ==
  /\ stage = "v24" /\ merged = Folders
  /\ totals' = [s \in Scans |->
       IF s <= early THEN Changes(old, Everywhere, s) @@ totals[s] ELSE totals[s]]
  /\ stage' = IF early = LastScan THEN "split" ELSE "live"
  /\ UNCHANGED <<seen, early, live, running, old, undo, hwm, merged, done, crashes>>
-----------------------------------------------------------------------------
\* A scan by version 27.  What rolling the last one back needs are the rows
\* it extended, as they were.
LiveScan ==
  LET s == live + 1
      after == LiveRows(old, seen[s], s)
  IN /\ stage = "live"
     /\ old' = after
     /\ undo' = IF s = LastScan /\ running
                THEN UNION {{[was |-> v, row |-> w] :
                               w \in {x \in after \ old : x.item = v.item /\ x.first = v.first}} : v \in old}
                ELSE {}
     /\ live' = s
     /\ stage' = IF s = LastScan THEN "split" ELSE "live"
     /\ UNCHANGED <<seen, early, running, totals, hwm, merged, done, crashes>>

\* A kill that loses something: transactions that no mark accounts for.
CrashCounting ==
  /\ done # 0 /\ crashes < MaxCrashes
  /\ done' = 0 /\ crashes' = crashes + 1
  /\ UNCHANGED <<seen, early, live, running, stage, old, undo, totals, hwm, merged>>

BackfillNext ==
  \/ CountChanges
  \/ Mark
  \/ EndOfScans
  \/ TellAdditions
  \/ CollapseFolders
  \/ RebuildVersions
  \/ CountScanStates
  \/ CountFolderStates
  \/ DedupFolder
  \/ RecountScans
  \/ LiveScan
  \/ CrashCounting
=============================================================================
