------------------------ MODULE IntegrityProperties ------------------------
(***************************************************************************)
(* What the history of a root must still say after the upgrades from       *)
(* version 18, held against what the scans found.                          *)
(***************************************************************************)
EXTENDS IntegrityUpgrade

Upgraded == stage \in {"v28", "v29", "v30", "v31"}

There(i, s) == s # 0 /\ seen[s][i] # Absent
LastDone == Cardinality(Completed)

\* A file was hashed by a completed scan since it last came.
HashKnown(f) ==
  /\ There(f, LastDone)
  /\ \E t \in Completed : /\ \A u \in t..LastDone : There(f, u)
                          /\ seen[t][f].hash # None

HasHashRow(f) == \E v \in At(rows, f, LastDone) : HashStateAt(hashes, v, LastDone) # 0

\* Rows stay well formed, and nothing is left over in the old table.
TypeOK ==
  /\ \A v \in old \cup rows : v.item \in Items /\ v.first \in Scans /\ v.last \in Nat
  /\ \A v \in old \cup rows : v.counts \in [{"adds", "mods", "dels", "unchanged"} -> Int]
  /\ \A h \in hashes : h.item \in Files /\ h.state \in {1, 2}
  /\ hwm \in 0..LastScan /\ done \in 0..2 /\ crashes \in 0..MaxCrashes
  /\ Upgraded => old = {} /\ \A s \in Completed : "files" \in DOMAIN totals[s]

\* Folding phantoms, and cutting, chaining, pruning and merging versions of
\* folders, loses nothing: for every completed scan the version in force of
\* each file still says whether it was there, and its metadata (build_groups,
\* migrate_one_item), and so do those of the folders when none was counted
\* afterwards (see NoGaps); and no row speaks of a scan rolled back.
ItemsAsFound ==
  Upgraded =>
    /\ \A f \in Files, s \in Completed :
         IF There(f, s)
         THEN \E v \in At(rows, f, s) : ~v.deleted /\ v.last >= s /\ v.meta = seen[s][f].meta
         ELSE ~Alive(rows, f, s)
    /\ early = 0 => \A d \in Folders, s \in Completed : Alive(rows, d, s) <=> There(d, s)

\* Versions of an item are numbered from 1 in the order of their scans, and
\* every hash row belongs to one of them (phase 4); those of a file, and of a
\* folder that no backfill tangled, follow each other without overlap.
VersionsInOrder ==
  Upgraded =>
    /\ \A i \in Items : {v.version : v \in Of(rows, i)} = 1..Cardinality(Of(rows, i))
    /\ \A v, w \in rows :
         v.item = w.item /\ v.version < w.version =>
           v.first < w.first /\ (v.item \in Files \/ early = 0 => v.last < w.first)
    /\ \A h \in hashes : \E v \in rows : v.item = h.item /\ v.version = h.version

\* Every folder the scan found has a row that spans it.
Spanned(s) ==
  \A d \in Folders : There(d, s) => \E v \in Of(rows, d) : v.first <= s /\ s <= v.last

\* From 30 on the files counted for a scan are those it found, also where the
\* backfills left a row that says the folder above them was deleted
\* (migrate_v29_to_v30).
FilesCounted ==
  stage \in {"v30", "v31"} =>
    \A s \in Completed :
      Spanned(s) => totals[s].files = Cardinality({f \in Files : There(f, s)})

\* No folder version keeps counts of before, and those in force at the last
\* scan add up to what is below the folder.
FoldersRecounted ==
  Upgraded /\ early = 0 =>
    /\ \A v \in rows : v.item \in Folders => v.counts.adds # Null
    /\ \A d \in Folders : There(d, LastDone) =>
         PrevAlive(rows, d, LastDone + 1) = Cardinality({i \in Below(d) : There(i, LastDone)})

\* No scan is in the ranges of two versions of an item, however many the
\* backfills gave a folder (cleanup_overlapping_versions).
OneInForce ==
  Upgraded => \A i \in Items, s \in Scans :
                Cardinality({v \in Of(rows, i) : v.first <= s /\ s <= v.last}) <= 1

\* What the backfills left to be mended is right after all the recounts.
Mended == OneInForce /\ FilesCounted /\ FoldersRecounted

\* A file whose hash was known keeps a row for it.
HashesKept ==
  stage \in {"v28", "v29", "v30"} =>
    \A f \in Files : There(f, LastDone) => (HashKnown(f) <=> HasHashRow(f))
-----------------------------------------------------------------------------
\* The rest is what comments of the upgrades say and the code does not do.

\* "Running it again on an already-processed scan is harmless"
\* (v22_to_v23.rs:24-27): a version once counted keeps its changes.
RecountsAgree ==
  [][\A v \in old, w \in old' :
       (Counting /\ v.item = w.item /\ v.first = w.first /\ v.counts.adds # Null) =>
         /\ w.counts.adds = v.counts.adds /\ w.counts.mods = v.counts.mods
         /\ w.counts.dels = v.counts.dels]_vars

\* "This ensures no overlaps AND no gaps" (v27_to_v28.rs:1206-1208): each
\* version is over before the next one begins.
NoOverlaps ==
  Upgraded => \A v, w \in rows : v.item = w.item /\ v.first < w.first => v.last < w.first

\* The same comment: every scan that found a folder is in one of its versions.
NoGaps == Upgraded => \A s \in Completed : Spanned(s)

\* Undercounted files are counted again on all affected scans
\* (v29_to_v30.rs:12-20), also where the row of the folder is gone.
AllFilesCounted ==
  stage \in {"v30", "v31"} =>
    \A s \in Completed : totals[s].files = Cardinality({f \in Files : There(f, s)})

\* What only taught the program a hash or a validation is a change of no
\* folder: a scan that found everything as the one before it counts nothing
\* (v27_to_v28.rs:22-26).
PhantomsNotCounted ==
  Upgraded =>
    \A s \in Completed \ {1} :
      (\A i \in Items : There(i, s) = There(i, s - 1) /\
                        (There(i, s) => seen[s][i].meta = seen[s - 1][i].meta))
      => totals[s].adds + totals[s].mods + totals[s].dels = 0

\* Suspect hashes become baselines (v30_to_v31.rs:13-16): a file a scan counts
\* under hash_baseline_count has one.
BaselineCountsRows ==
  stage = "v31" =>
    \A s \in Completed :
      totals[s].baseline = Cardinality({f \in Files : Alive(rows, f, s) /\
                             \E v \in At(rows, f, s) : HashStateAt(hashes, v, s) = 1})
=============================================================================
