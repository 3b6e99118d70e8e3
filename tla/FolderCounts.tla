---------------------------- MODULE FolderCounts ----------------------------
(***************************************************************************)
(* The descendant counts of folder versions: what the walk and the sweep   *)
(* put there, and what the fourth phase of a scan computes and writes in   *)
(* batches, through interrupts between two batches.                        *)
(*                                                                         *)
(* The first three phases are one step here: they leave, for every item,   *)
(* a new version, or none, or a tombstone (ScanLifecycle has their steps). *)
(* A version is known by the scan that made it; last_scan_id, access and   *)
(* contents play no part in the counts.                                    *)
(***************************************************************************)
EXTENDS Integers, FiniteSetsExt

CONSTANTS
  Items,      \* every path the file system may show
  Dirs,       \* those of type Directory
  Parent,     \* the directory an item is directly in, Top for the root
  Top,
  MaxScans,   \* bound: scans
  MaxFaults   \* bound: interrupts of the fourth phase

ASSUME FolderAssumption ==
  /\ Dirs \subseteq Items /\ Top \notin Items
  /\ Parent \in [Items -> Dirs \cup {Top}]
  /\ MaxScans \in Nat /\ MaxFaults \in Nat

\* The paths of a root are finitely many, and a directory is a shorter one than
\* what is in it.
ASSUME TreeAssumption ==
  /\ IsFiniteSet(Items)
  /\ \E depth \in [Items -> 0 .. Cardinality(Items)] :
       \A i \in Items : Parent[i] # Top => depth[Parent[i]] < depth[i]

Counts == [adds: Nat, mods: Nat, dels: Nat, unchanged: Nat]
NoCounts == [adds |-> 0, mods |-> 0, dels |-> 0, unchanged |-> 0]

VARIABLES
  versions,  \* rows of item_versions: [item, first, alive, counts]
  scan,      \* scan_id of the newest scan
  pc,        \* "idle", "counting" or "writing"
  totals,    \* add_, modify_ and delete_count of the newest completed scan
  writes,    \* FolderCountWrites still to apply: [folder, counts]
  fates,     \* what the scan found of each item: history, for the properties
  resumed,   \* the folder counts of this scan were interrupted: history
  faults     \* interrupts so far

vars == <<versions, scan, pc, totals, writes, fates, resumed, faults>>

\* Nothing was seen before the first scan.
Init ==
  /\ versions = {} /\ scan = 0 /\ pc = "idle" /\ writes = {}
  /\ totals = [scan |-> 0, adds |-> 0, mods |-> 0, dels |-> 0]
  /\ fates = [i \in Items |-> "absent"] /\ resumed = FALSE /\ faults = 0
-----------------------------------------------------------------------------
(* Versions *)

RowsOf(i) == {v \in versions : v.item = i}

\* The version with the greatest first_scan_id among those of scans before s.
Before(i, s) ==
  {v \in RowsOf(i) : v.first < s /\ \A w \in RowsOf(i) : w.first < s => w.first <= v.first}
Current(i) == Before(i, scan + 1)
At(i, s) == {v \in RowsOf(i) : v.first = s}

AliveIn(rows) == \E v \in rows : v.alive
IsAlive(i) == AliveIn(Current(i))

Total(c) == c.adds + c.mods + c.unchanged

\* query_prev_alive; 0 when the folder is new.
PrevAlive(i, s) == SumFunction([v \in Before(i, s) |-> Total(v.counts)])

Version(i, s, alive, counts) == [item |-> i, first |-> s, alive |-> alive, counts |-> counts]

\* insert_initial, the tombstones of do_state_sweeping, insert_with_carry_forward
Fresh(i, s) == Version(i, s, TRUE, NoCounts)
Tombstone(i, s) == Version(i, s, FALSE, NoCounts)

Modified(i, s) ==
  Version(i, s, TRUE, IF i \in Dirs THEN [NoCounts EXCEPT !.unchanged = PrevAlive(i, s)]
                                    ELSE NoCounts)
-----------------------------------------------------------------------------
(* The first three phases *)

\* What a scan may find: an item is there only with the directory it is in.
Findings ==
  {found \in [Items -> {"absent", "same", "changed"}] :
     \A i \in Items : found[i] # "absent" /\ Parent[i] # Top => found[Parent[i]] # "absent"}

\* What that is for an item that was, or was not, there before.
Fate(i, found) ==
  CASE IsAlive(i) /\ found = "same" -> "kept"
    [] IsAlive(i) /\ found = "changed" -> "modified"
    [] IsAlive(i) /\ found = "absent" -> "deleted"
    [] ~IsAlive(i) /\ found = "absent" -> "absent"
    [] OTHER -> "added"

NewVersions(i, fate, s) ==
  CASE fate = "added" -> {Fresh(i, s)}
    [] fate = "modified" -> {Modified(i, s)}
    [] fate = "deleted" -> {Tombstone(i, s)}
    [] OTHER -> {}

ScanItems ==
  /\ pc = "idle" /\ scan < MaxScans
  /\ scan' = scan + 1 /\ pc' = "counting"
  /\ \E found \in Findings :
       /\ \A i \in Items : ~IsAlive(i) => found[i] # "changed"
       /\ fates' = [i \in Items |-> Fate(i, found[i])]
       /\ versions' = versions \cup
                        UNION {NewVersions(i, Fate(i, found[i]), scan + 1) : i \in Items}
  /\ resumed' = FALSE /\ UNCHANGED <<totals, writes, faults>>
-----------------------------------------------------------------------------
(* walk_folder_counts *)

ChildrenOf(d) == {i \in Items : Parent[i] = d}

DirChildren_AliveOnly(d) == {c \in ChildrenOf(d) \cap Dirs : IsAlive(c)}

\* query_immediate_dir_children: alive at this scan, or deleted by it.
DirChildren(d) ==
  {c \in ChildrenOf(d) \cap Dirs : \E v \in Current(c) : v.alive \/ v.first = scan}

\* query_direct_change_counts: the newest version against the one before.
Added(i) == AliveIn(At(i, scan)) /\ ~AliveIn(Before(i, scan))
Changed(i) == AliveIn(At(i, scan)) /\ AliveIn(Before(i, scan))
Deleted(i) ==
  /\ At(i, scan) # {} /\ ~AliveIn(At(i, scan))
  /\ AliveIn(Before(i, scan))

\* The changes below d: direct ones, and what the recursion returns.
Walked[d \in Dirs \cup {Top}] ==
  LET direct == ChildrenOf(d)
      deeper == DirChildren(d)
      all(field) == SumFunction([c \in deeper |-> Walked[c][field]])
  IN [adds |-> Cardinality({i \in direct : Added(i)}) + all("adds"),
      mods |-> Cardinality({i \in direct : Changed(i)}) + all("mods"),
      dels |-> Cardinality({i \in direct : Deleted(i)}) + all("dels")]

\* The folders the recursion gets to.
Reached[d \in Dirs] ==
  LET p == Parent[d] IN d \in DirChildren(p) /\ (p = Top \/ Reached[p])

FolderWrites_AddsOnly ==
  {[folder |-> d,
    counts |-> [adds |-> Walked[d].adds, mods |-> Walked[d].mods, dels |-> Walked[d].dels,
                unchanged |-> PrevAlive(d, scan) - Walked[d].mods - Walked[d].dels]]
     : d \in {c \in Dirs : Reached[c] /\ Walked[c].adds + Walked[c].mods > 0}}

FolderWrites ==
  {[folder |-> d,
    counts |-> [adds |-> Walked[d].adds, mods |-> Walked[d].mods, dels |-> Walked[d].dels,
                unchanged |-> PrevAlive(d, scan) - Walked[d].mods - Walked[d].dels]]
     : d \in {c \in Dirs :
                Reached[c] /\ Walked[c].adds + Walked[c].mods + Walked[c].dels > 0}}

CountFolders ==
  /\ pc = "counting"
  /\ pc' = "writing" /\ writes' = FolderWrites
  /\ UNCHANGED <<versions, scan, totals, fates, resumed, faults>>
-----------------------------------------------------------------------------
(* apply_folder_count_writes *)

\* Case A, a version of this scan; Case B, a new one like the current one.
WriteCounts(w) ==
  LET d == w.folder
      own == At(d, scan)
  IN IF own # {} THEN (versions \ own) \cup {[v EXCEPT !.counts = w.counts] : v \in own}
     ELSE versions \cup {Version(d, scan, v.alive, w.counts) : v \in Current(d)}

\* The writes are in the order of the recursion, a folder after those in it; a batch
\* of any size may end after any of them.
ApplyWrite(w) ==
  /\ pc = "writing"
  /\ \A x \in writes : Parent[x.folder] # w.folder
  /\ versions' = WriteCounts(w) /\ writes' = writes \ {w}
  /\ UNCHANGED <<scan, pc, totals, fates, resumed, faults>>

ScanTotals_Alive ==
  [scan |-> scan,
   adds |-> Cardinality({i \in Items : AliveIn(At(i, scan))}),
   mods |-> Cardinality({i \in Items : Changed(i)}),
   dels |-> Cardinality({i \in Items : Deleted(i)})]

\* What set_state_completed counts: the versions the scan made.
ScanTotals ==
  [scan |-> scan,
   adds |-> Cardinality({i \in Items : Added(i)}),
   mods |-> Cardinality({i \in Items : Changed(i)}),
   dels |-> Cardinality({i \in Items : Deleted(i)})]

Complete ==
  /\ pc = "writing" /\ writes = {}
  /\ pc' = "idle" /\ totals' = ScanTotals
  /\ UNCHANGED <<versions, scan, writes, fates, resumed, faults>>

\* A pause, a shutdown or the end of the process; resumed, the phase starts anew.
Resume ==
  /\ pc = "writing" /\ faults < MaxFaults
  /\ pc' = "counting" /\ writes' = {} /\ resumed' = TRUE /\ faults' = faults + 1
  /\ UNCHANGED <<versions, scan, totals, fates>>

\* A stop or an error: rollback deletes the versions of the scan.
Discard ==
  /\ pc # "idle" /\ faults < MaxFaults
  /\ pc' = "idle" /\ writes' = {} /\ faults' = faults + 1
  /\ versions' = {v \in versions : v.first # scan}
  /\ fates' = [i \in Items |-> IF AliveIn(Before(i, scan)) THEN "kept" ELSE "absent"]
  /\ UNCHANGED <<scan, totals, resumed>>

Next ==
  \/ ScanItems \/ CountFolders \/ Complete \/ Resume \/ Discard
  \/ \E w \in writes : ApplyWrite(w)

Spec == Init /\ [][Next]_vars
-----------------------------------------------------------------------------
\* Every state is well formed; a count is never negative, unchanged included, which is
\* computed by subtraction (walk_folder_counts).
TypeOK ==
  /\ \A v \in versions :
       /\ v.item \in Items /\ v.first \in 1 .. scan /\ v.alive \in BOOLEAN
       /\ v.counts \in Counts
  /\ totals \in [scan: 0 .. scan, adds: Nat, mods: Nat, dels: Nat]
  /\ scan \in 0 .. MaxScans /\ pc \in {"idle", "counting", "writing"}
  /\ \A w \in writes : w.folder \in Dirs /\ w.counts \in Counts
  /\ fates \in [Items -> {"kept", "modified", "deleted", "added", "absent"}]
  /\ resumed \in BOOLEAN /\ faults \in 0 .. MaxFaults

Above[i \in Items] == IF Parent[i] = Top THEN {} ELSE {Parent[i]} \cup Above[Parent[i]]
Below(d) == {i \in Items : d \in Above[i]}
Fated(d, fate) == Cardinality({i \in Below(d) : fates[i] = fate})

Fates(fate) == Cardinality({i \in Items : fates[i] = fate})

Settled == pc = "idle" /\ scan > 0

\* The total of the newest version of a folder is the number of its living descendants,
\* however many scans ago that version was made, and through discarded and resumed
\* scans (base.rs:149, and how items.rs reads it).
TotalsAlive ==
  Settled => \A d \in Dirs : \A v \in Current(d) :
    v.alive => Total(v.counts) = Cardinality({i \in Below(d) : IsAlive(i)})

\* A folder version of the newest scan counts what was added and deleted below it, over
\* any depth and through subtrees that are gone, also when the scan was resumed; and
\* if it was not, what was modified and what was not changed (walk_folder_counts).
FolderCountsExact ==
  Settled => \A d \in Dirs : \A v \in At(d, scan) :
    /\ v.counts.adds = Fated(d, "added") /\ v.counts.dels = Fated(d, "deleted")
    /\ v.alive /\ ~resumed =>
         v.counts.mods = Fated(d, "modified") /\ v.counts.unchanged = Fated(d, "kept")

\* The scan's own counts of added and deleted items, tombstones and folders included,
\* are those found (set_state_completed).
ScanTotalsExact ==
  totals.scan = scan /\ scan > 0 =>
    totals.adds = Fates("added") /\ totals.dels = Fates("deleted")

\* A folder has a version of the newest scan just when it was itself added, modified or
\* deleted, or something below it was.
VersionIffChange ==
  Settled => \A d \in Dirs :
    At(d, scan) # {} <=>
      \E i \in Below(d) \cup {d} : fates[i] \in {"added", "modified", "deleted"}

\* The counts of folders and those of the scan tell the same history, what was found,
\* and the versions of folders tell it where there is something to tell.  What a resumed
\* scan counts as modified is excepted: see ModifiedExact.
CountsExact == FolderCountsExact /\ ScanTotalsExact /\ VersionIffChange
-----------------------------------------------------------------------------
(* What the schema says *)

\* base.rs:146: modify_count is "descendants that were modified (alive before and after)".
ModifiedExact ==
  Settled => \A d \in Dirs : \A v \in At(d, scan) : v.counts.mods = Fated(d, "modified")
=============================================================================
