------------------------- MODULE IntegrityUpgrade -------------------------
(***************************************************************************)
(* What the upgrades from version 27 to 31 do to the rows of one root.     *)
(*                                                                         *)
(* Up to 27 a version of a file also recorded its hash and validation, and *)
(* learning one of them made a new version, a phantom, with the same       *)
(* metadata.  The step from 27 folds phantoms into the version they        *)
(* follow, moves hashes to a table of their own, counts the changes of     *)
(* every scan and folder again, and merges folder versions that have       *)
(* become equal.  28 counts new issues, 29 repairs folders marked deleted  *)
(* over files that are there, 30 removes suspect hashes.                   *)
(*                                                                         *)
(* The rows of version 27 are those FolderBackfill leaves.  SchemaUpgrade  *)
(* has the schema and the transactions around these steps; here the mark   *)
(* is the row of the last recounted scan.                                  *)
(***************************************************************************)
EXTENDS FolderBackfill

VARIABLES
  rows,      \* rows of item_versions after the split; old has those set aside
  hashes,    \* rows of hash_versions
  tangled    \* items found with overlapping versions, yet to be chained

vars == <<backfillVars, rows, hashes, tangled>>

Init == BackfillInit /\ rows = {} /\ hashes = {} /\ tangled = {}

\* The steps of FolderBackfill come first.
Backfill == BackfillNext /\ UNCHANGED <<rows, hashes, tangled>>

\* Not changed by any step from here on.
Settled == UNCHANGED <<seen, early, live, running, merged, done>>

Completed == IF running THEN 1..(LastScan - 1) ELSE Scans
-----------------------------------------------------------------------------
\* 27 to 28: the tables are split, and a scan under way rolled back.

RolledBack ==
  LET undoOf(v) == {u \in undo : u.was.item = v.item /\ u.was.first = v.first}
  IN {v \in old : v.first # LastScan /\ undoOf(v) = {}} \cup
     {[u.row EXCEPT !.last = u.was.last, !.hashScan = u.was.hashScan,
                    !.valScan = u.was.valScan] : u \in undo}

SplitTables ==
  /\ stage = "split"
  /\ old' = IF running THEN RolledBack ELSE old
  /\ undo' = {}
  /\ stage' = "moving"
  /\ Settled /\ UNCHANGED <<rows, hashes, totals, hwm, tangled, crashes>>

\* build_groups: a phantom repeats the metadata of the version before it, and
\* belongs to the last real one.
Phantom(v) ==
  /\ ~v.added /\ ~v.deleted
  /\ \E p \in Before(old, v.item, v.first) : ~p.deleted /\ p.meta = v.meta
Cluster(v) ==
  {w \in Of(old, v.item) :
     /\ w.first >= v.first
     /\ \A x \in Of(old, v.item) : v.first < x.first /\ x.first <= w.first => Phantom(x)}
\* A plausible bug: phantoms go without their range.
EffectiveLast_Own(v) == v.last
EffectiveLast(v) == Max({w.last : w \in Cluster(v)})

\* A plausible bug: only the real version is looked at.
HashesOf_RealOnly(v) ==
  IF v.hash = None THEN {}
  ELSE {[item |-> v.item, version |-> v.first, first |-> v.hashScan, last |-> EffectiveLast(v),
         hash |-> v.hash, state |-> v.hashState]}

\* extract_hash: the earliest hash of the cluster, in the state of the latest.
HashesOf(v) ==
  LET hashed == {w \in Cluster(v) : w.hash # None}
      least == {w \in hashed : \A x \in hashed : w.hashScan <= x.hashScan}
      most == {w \in hashed : \A x \in hashed : w.hashScan >= x.hashScan}
  IN {[item |-> v.item, version |-> v.first, first |-> w.hashScan, last |-> EffectiveLast(v),
       hash |-> w.hash, state |-> x.hashState] :
        w \in {y \in least : \A z \in least : y.first <= z.first},
        x \in {y \in most : \A z \in most : y.first >= z.first}}

\* extract_val: the latest of the cluster that says valid or invalid.
Judged(v) ==
  LET judged == {w \in Cluster(v) : w.val \in {1, 2}}
  IN {w \in judged : \A x \in judged :
        w.valScan > x.valScan \/ (w.valScan = x.valScan /\ w.first >= x.first)}

\* A version of the new table; its key is its first scan until the end.
Row(v, last, counts, val, valScan) ==
  [item |-> v.item, version |-> v.first, first |-> v.first, last |-> last, added |-> v.added,
   deleted |-> v.deleted, meta |-> v.meta, counts |-> counts, val |-> val, valScan |-> valScan]

MovedFile(f) ==
  {Row(v, EffectiveLast(v), v.counts, MapThenSumSet(LAMBDA w : w.val, Judged(v)),
       MapThenSumSet(LAMBDA w : w.valScan, Judged(v))) : v \in {w \in Of(old, f) : ~Phantom(w)}}

\* Phantoms of folders are not told apart: their counts made them.
MovedFolder(d) == {Row(v, v.last, v.counts, 0, 0) : v \in Of(old, d)}

\* A batch, here one item in a fixed order: its rows are inserted in the new
\* tables and leave the old one in the same transaction.
NextItem == CHOOSE i \in Items : Of(old, i) # {}

MoveItem ==
  /\ stage = "moving" /\ old # {}
  /\ rows' = rows \cup IF NextItem \in Folders THEN MovedFolder(NextItem) ELSE MovedFile(NextItem)
  /\ hashes' = hashes \cup UNION {HashesOf(v) : v \in {w \in Of(old, NextItem) : ~Phantom(w)}}
  /\ old' = old \ Of(old, NextItem)
  /\ Settled /\ UNCHANGED <<undo, totals, hwm, stage, tangled, crashes>>
-----------------------------------------------------------------------------
\* Phase 3: overlapping versions of an item are chained, one item at a time.

Overlaps(i) ==
  \E a, b \in Of(rows, i) : a.first # b.first /\ b.first <= a.last /\ a.first <= b.last

\* A plausible bug: a version ends where the next one begins.
Chained_Touching(i) ==
  LET all == Of(rows, i)
      end(v) == IF After(rows, v) = {} THEN Max({w.last : w \in all})
                ELSE Min({w.first : w \in After(rows, v)})
  IN {[v EXCEPT !.last = end(v)] : v \in all}

Chained(i) ==
  LET all == Of(rows, i)
      end(v) == IF After(rows, v) = {} THEN Max({w.last : w \in all})
                ELSE Min({w.first : w \in After(rows, v)}) - 1
  IN {[v EXCEPT !.last = end(v)] : v \in all}

ScansLeft == {s \in Completed : s > hwm}

BeginRecount ==
  /\ stage = "moving" /\ old = {}
  /\ tangled' = {i \in Items : Overlaps(i)}
  /\ stage' = IF tangled' # {} THEN "untangling"
              ELSE IF ScansLeft = {} THEN "numbering" ELSE "recounting"
  /\ Settled /\ UNCHANGED <<old, undo, rows, hashes, totals, hwm, crashes>>

Chain(i) ==
  /\ stage = "untangling" /\ i \in tangled
  /\ rows' = (rows \ Of(rows, i)) \cup Chained(i)
  /\ tangled' = tangled \ {i}
  /\ Settled /\ UNCHANGED <<old, undo, hashes, totals, hwm, stage, crashes>>

\* What is still the wrong way round is removed, folders only.
DropInverted ==
  /\ stage = "untangling" /\ tangled = {}
  /\ rows' = {v \in rows : v.item \in Folders => v.first <= v.last}
  /\ stage' = IF ScansLeft = {} THEN "numbering" ELSE "recounting"
  /\ Settled /\ UNCHANGED <<old, undo, hashes, totals, hwm, tangled, crashes>>
-----------------------------------------------------------------------------
\* The changes of each scan, counted again from the rows.

\* The state of the hash row that is in force for v at scan s, 0 for none.
HashStateAt(H, v, s) ==
  LET mine == {h \in H : h.item = v.item /\ h.version = v.version /\ h.first <= s}
  IN MapThenSumSet(LAMBDA h : h.state, {h \in mine : \A g \in mine : g.first <= h.first})

\* p3_direct_population_counts, summed over the folders in D.
Population(R, H, D, s) ==
  LET there == {v \in R : Parent[v.item] \in D /\ v \in At(R, v.item, s) /\
                          ~v.deleted /\ v.last >= s}
      files == {v \in there : v.item \in Files}
      hash(n) == Cardinality({v \in files : HashStateAt(H, v, s) = n})
      val(n) == Cardinality({v \in files : v.val = n})
  IN [files |-> Cardinality(files), folders |-> Cardinality(there \ files),
      hashUnknown |-> hash(0), baseline |-> hash(1), suspect |-> hash(2),
      valUnknown |-> Cardinality({v \in files : v.item \in Validated /\ v.val = 0}),
      valid |-> val(1), invalid |-> val(2),
      noValidator |-> Cardinality({v \in files : v.item \notin Validated})]

\* p3_update_folder_counts: the version of this scan, or the one that spans
\* it cut in two.
Counted(R, d, s, counts) ==
  LET own == {v \in Of(R, d) : v.first = s}
      cover == {v \in Of(R, d) : v.first < s /\ v.last >= s}
      span == {v \in cover : \A w \in cover : w.first <= v.first}
  IN IF own # {} THEN (Of(R, d) \ own) \cup {[v EXCEPT !.counts = counts] : v \in own}
     ELSE (Of(R, d) \ span) \cup {[v EXCEPT !.last = s - 1] : v \in span} \cup
          {[v EXCEPT !.version = s, !.first = s, !.added = FALSE, !.counts = counts] : v \in span}

\* p3_cleanup_zero_change_folder: a version without changes below it goes
\* when it repeats the one before.
Pruned(R, d, s) ==
  LET own == {v \in Of(R, d) : v.first = s}
      repeats(v) == /\ ~v.added /\ ~v.deleted
                    /\ \E p \in Before(R, d, s) : p.meta = v.meta
      still == [Zero EXCEPT !.unchanged = PrevAlive(R, d, s)]
      rest == Of(R, d) \ own
  IN IF own = {} THEN rest
     ELSE IF \E v \in own : repeats(v)
     THEN {IF p \in Before(R, d, s) THEN [p EXCEPT !.last = Max({v.last : v \in own})] ELSE p : p \in rest}
     ELSE rest \cup {[v EXCEPT !.counts = still] : v \in own}

\* A plausible bug: what was deleted stays counted as unchanged.
Recounted_KeepsDeleted(d, s) ==
  LET c == Changes(rows, Walked(rows, d, s), s)
      changed == d \in Walked(rows, Root, s) /\ c.adds + c.mods + c.dels > 0
  IN IF changed
     THEN Counted(rows, d, s, [adds |-> c.adds, mods |-> c.mods, dels |-> c.dels,
                               unchanged |-> PrevAlive(rows, d, s) - c.mods])
     ELSE Pruned(rows, d, s)

Recounted(d, s) ==
  LET c == Changes(rows, Walked(rows, d, s), s)
      changed == d \in Walked(rows, Root, s) /\ c.adds + c.mods + c.dels > 0
  IN IF changed
     THEN Counted(rows, d, s, [adds |-> c.adds, mods |-> c.mods, dels |-> c.dels,
                               unchanged |-> PrevAlive(rows, d, s) - c.mods - c.dels])
     ELSE Pruned(rows, d, s)

\* One scan: its folders, its totals and the mark in one transaction.
RecountScan ==
  /\ stage = "recounting" /\ ScansLeft # {}
  /\ LET s == Min(ScansLeft)
         D == Walked(rows, Root, s)
     IN /\ rows' = {v \in rows : v.item \in Files} \cup UNION {Recounted(d, s) : d \in Folders}
        /\ totals' = [totals EXCEPT ![s] = Changes(rows, D, s) @@ Population(rows, hashes, D, s)]
        /\ hwm' = s
  /\ stage' = IF ScansLeft = {Min(ScansLeft)} THEN "merging" ELSE stage
  /\ Settled /\ UNCHANGED <<old, undo, hashes, tangled, crashes>>

\* p3_merge_adjacent_duplicates: whatever lies between the two.
Repeats(v, w) ==
  /\ w \in After(rows, v)
  /\ w.added = v.added /\ w.deleted = v.deleted /\ w.meta = v.meta /\ w.counts = v.counts

Merge(d) ==
  /\ stage = "merging"
  /\ \E v, w \in Of(rows, d) :
       /\ Repeats(v, w)
       /\ \A x, y \in Of(rows, d) : Repeats(x, y) => v.first <= x.first
       /\ rows' = (rows \ {v, w}) \cup {[v EXCEPT !.last = w.last]}
  /\ Settled /\ UNCHANGED <<old, undo, hashes, totals, hwm, stage, tangled, crashes>>

EndMerge ==
  /\ stage = "merging"
  /\ \A d \in Folders : \A v, w \in Of(rows, d) : ~Repeats(v, w)
  /\ stage' = "numbering"
  /\ Settled /\ UNCHANGED <<old, undo, rows, hashes, totals, hwm, tangled, crashes>>

\* Phase 4: versions of an item are numbered, hash rows follow theirs.
Number(v) == Cardinality({w \in Of(rows, v.item) : w.first <= v.first})

\* A plausible bug: hash rows keep the number of before.
NumberVersions_RowsOnly ==
  /\ stage = "numbering"
  /\ rows' = {[v EXCEPT !.version = Number(v)] : v \in rows}
  /\ hwm' = 0
  /\ stage' = "v28"
  /\ Settled /\ UNCHANGED <<old, undo, totals, hashes, tangled, crashes>>

NumberVersions ==
  /\ stage = "numbering"
  /\ rows' = {[v EXCEPT !.version = Number(v)] : v \in rows}
  /\ hashes' = UNION {{[h EXCEPT !.version = Number(v)] :
                          v \in {w \in Of(rows, h.item) : w.version = h.version}} : h \in hashes}
  /\ hwm' = 0
  /\ stage' = "v28"
  /\ Settled /\ UNCHANGED <<old, undo, totals, tangled, crashes>>

\* A kill: every transaction so far is kept, and the next program begins by
\* looking for the rows set aside.
Crash ==
  /\ stage \in {"moving", "untangling", "recounting", "merging", "numbering"}
  /\ crashes < MaxCrashes /\ crashes' = crashes + 1
  /\ stage' = "moving" /\ tangled' = {}
  /\ Settled /\ UNCHANGED <<old, undo, rows, hashes, totals, hwm>>
-----------------------------------------------------------------------------
\* 28 to 29: each scan is told the issues it was the first to see.
CountIssues ==
  /\ stage = "v28"
  /\ totals' = [s \in Scans |->
       [newSuspect |-> Cardinality({h \in hashes : h.first = s /\ h.state = 2}),
        newInvalid |-> Cardinality({v \in rows : v.valScan = s /\ v.val = 2})] @@ totals[s]]
  /\ stage' = "v29"
  /\ Settled /\ UNCHANGED <<old, undo, rows, hashes, hwm, tangled, crashes>>

\* 29 to 30: a deleted version of a folder that overlaps a file below it that
\* is there is not deleted, and the scans in its range are counted flat.
Contradicted(v) ==
  /\ v.item \in Folders /\ v.deleted
  /\ \E w \in rows : /\ w.item \in Files \cap Below(v.item) /\ ~w.deleted
                      /\ w.first <= v.last /\ w.last >= v.first
\* A plausible bug: the flags are mended and the counts are not.
RepairFolders_FlagsOnly ==
  /\ stage = "v29"
  /\ rows' = {IF Contradicted(v) THEN [v EXCEPT !.deleted = FALSE] ELSE v : v \in rows}
  /\ stage' = "v30"
  /\ Settled /\ UNCHANGED <<old, undo, totals, hashes, hwm, tangled, crashes>>

RepairFolders ==
  /\ stage = "v29"
  /\ LET R == {IF Contradicted(v) THEN [v EXCEPT !.deleted = FALSE] ELSE v : v \in rows}
         affected == {s \in Completed : \E v \in rows : Contradicted(v) /\ v.first <= s /\ s <= v.last}
         all == Everywhere
     IN /\ rows' = R
        /\ totals' = [s \in Scans |->
             IF s \in affected
             THEN Changes(R, all, s) @@ Population(R, hashes, all, s) @@ totals[s] ELSE totals[s]]
  /\ stage' = "v30"
  /\ Settled /\ UNCHANGED <<old, undo, hashes, hwm, tangled, crashes>>

\* 30 to 31: suspect rows go, and the scans count their files as baseline.
RemoveSuspects ==
  /\ stage = "v30"
  /\ hashes' = {h \in hashes : h.state # 2}
  /\ totals' = [s \in Scans |->
       IF s \in Completed
       THEN [totals[s] EXCEPT !.baseline = @ + totals[s].suspect, !.suspect = 0, !.newSuspect = 0]
       ELSE totals[s]]
  /\ stage' = "v31"
  /\ Settled /\ UNCHANGED <<old, undo, rows, hwm, tangled, crashes>>

Next ==
  \/ Backfill
  \/ SplitTables
  \/ MoveItem
  \/ BeginRecount
  \/ \E i \in Items : Chain(i)
  \/ DropInverted
  \/ RecountScan
  \/ \E d \in Folders : Merge(d)
  \/ EndMerge
  \/ NumberVersions
  \/ Crash
  \/ CountIssues
  \/ RepairFolders
  \/ RemoveSuspects

Spec == Init /\ [][Next]_vars /\ WF_vars(Next)
=============================================================================
