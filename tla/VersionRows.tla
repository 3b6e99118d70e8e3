---------------------------- MODULE VersionRows ----------------------------
(***************************************************************************)
(* Rows of item_versions as the upgrades find them, and the questions the  *)
(* upgrades ask of them.  Every upgrade step that counts keeps an archived *)
(* copy of these queries; the copies agree.                                *)
(*                                                                         *)
(* A row is a record: item, first and last scan, added, deleted, meta (its *)
(* access, modification date and size), counts of a folder, and of a file  *)
(* hash, validation and the scans that saw them.  Scans are 1..LastScan.   *)
(***************************************************************************)
EXTENDS Integers, FiniteSets, FiniteSetsExt, Functions

CONSTANTS
  Files, Folders,  \* items of the root
  Validated,       \* files with a validator
  Parent,          \* folder an item is in, Root for the root itself
  Root,
  MayFind,         \* what a scan may find of an item: [meta, hash, val]
  Absent, None,    \* nothing there, no hash
  LastScan         \* bound: scans

Items == Files \cup Folders

ASSUME RowsAssumption ==
  /\ Files \cap Folders = {} /\ Root \notin Items /\ Validated \subseteq Files
  /\ Parent \in [Items -> Folders \cup {Root}]
  /\ DOMAIN MayFind = Items
  /\ LastScan \in Nat \ {0}

\* The folders are a tree: none is below itself.
ASSUME TreeAssumption == \A D \in SUBSET Folders : D # {} => \E d \in D : Parent[d] \notin D

Scans == 1..LastScan

\* What is above i and below d in the tree.
Above[i \in Items] ==
  IF Parent[i] = Root THEN {Root} ELSE {Parent[i]} \cup Above[Parent[i]]
Below(d) == {i \in Items : d \in Above[i]}
Everywhere == Folders \cup {Root}

Of(R, i) == {v \in R : v.item = i}

\* The version of i that starts last among those that start by scan s, as a
\* set of at most one row.
At(R, i, s) == {v \in Of(R, i) : v.first <= s /\ \A w \in Of(R, i) : w.first <= s => w.first <= v.first}
Before(R, i, s) == At(R, i, s - 1)
Newest(R, i) == At(R, i, LastScan)
After(R, v) == {w \in Of(R, v.item) : w.first > v.first /\
                  \A x \in Of(R, v.item) : x.first > v.first => w.first <= x.first}
StartedBy(R, i, s) == {v \in Of(R, i) : v.first = s}
Alive(R, i, s) == \E v \in At(R, i, s) : ~v.deleted /\ v.last >= s

\* Counts of changes are NULL until somebody counted.
Null == -1
Uncounted == [adds |-> Null, mods |-> Null, dels |-> Null, unchanged |-> 0]
Zero == [adds |-> 0, mods |-> 0, dels |-> 0, unchanged |-> 0]
Or0(n) == IF n = Null THEN 0 ELSE n
-----------------------------------------------------------------------------
\* query_immediate_dir_children: folders there at the scan, or deleted by it.
Entered(R, c, s) == \E v \in At(R, c, s) : ~v.deleted \/ v.first = s

\* The folders the walk from d gets to, d among them.
Walked(R, d, s) ==
  {d} \cup {e \in Folders : d \in Above[e] /\
             \A x \in {e} \cup (Above[e] \ {Root}) : d \in Above[x] => Entered(R, x, s)}

\* query_direct_change_counts, summed over the folders in D: the versions a
\* scan started, told apart by the version before.
Changes(R, D, s) ==
  LET new == {v \in R : v.first = s /\ Parent[v.item] \in D}
      was(v) == \E p \in Before(R, v.item, s) : ~p.deleted
  IN [adds |-> Cardinality({v \in new : ~v.deleted /\ ~was(v)}),
      mods |-> Cardinality({v \in new : ~v.deleted /\ was(v)}),
      dels |-> Cardinality({v \in new : v.deleted /\ was(v)})]

\* query_prev_alive: what was below d before the scan, by its own counts.
PrevAlive(R, d, s) ==
  MapThenSumSet(LAMBDA p : Or0(p.counts.adds) + Or0(p.counts.mods) + p.counts.unchanged,
                Before(R, d, s))
-----------------------------------------------------------------------------
\* The programs that wrote the rows, as far as the upgrades rely on them.

Fresh(i, s, meta) ==
  [item |-> i, first |-> s, last |-> s, added |-> TRUE, deleted |-> FALSE, meta |-> meta,
   counts |-> Uncounted, states |-> None,
   hash |-> None, hashScan |-> 0, hashState |-> 0, val |-> 0, valScan |-> 0]

Started(v, s) ==
  [v EXCEPT !.first = s, !.last = s, !.added = FALSE, !.counts = Uncounted, !.states = None]

\* What finding and analysing an item in scan s makes of version v.  A hash
\* that differs although the metadata do not is suspect, state 2.
Analysed(v, o, s) ==
  LET state == IF o.hash = v.hash THEN v.hashState
               ELSE IF v.hash # None /\ v.meta = o.meta THEN 2 ELSE 1
      hashed == IF o.hash = None THEN v
                ELSE [v EXCEPT !.hash = o.hash, !.hashScan = s, !.hashState = state]
  IN IF o.val = 0 THEN [hashed EXCEPT !.meta = o.meta]
     ELSE [hashed EXCEPT !.meta = o.meta, !.val = o.val, !.valScan = s]

Learns(v, o) == (o.hash # None /\ o.hash # v.hash) \/ (o.val # 0 /\ o.val # v.val)

\* The rows of item i when scan s finds o of it.
Observed(R, i, o, s) ==
  LET cur == Newest(R, i)
      alive == {v \in cur : ~v.deleted}
  IN CASE o = Absent -> Of(R, i) \cup {[Started(v, s) EXCEPT !.deleted = TRUE] : v \in alive}
       [] o # Absent /\ alive = {} -> Of(R, i) \cup {Analysed(Fresh(i, s, o.meta), o, s)}
       [] o # Absent /\ \E v \in alive : v.meta # o.meta \/ Learns(v, o) ->
            Of(R, i) \cup {Analysed(Started(v, s), o, s) : v \in alive}
       [] OTHER -> (Of(R, i) \ cur) \cup {[Analysed(v, o, s) EXCEPT !.last = s] : v \in alive}

\* A scan finds an item only with the folder it is in.
Findings ==
  {f \in [Items -> UNION Range(MayFind) \cup {Absent}] :
     \A i \in Items : f[i] # Absent => /\ f[i] \in MayFind[i]
                                       /\ Parent[i] = Root \/ f[Parent[i]] # Absent}

\* The rows that scans 1..s of the program of version 18 leave: folders had
\* no counts, and a version was not told to be an addition.
EarlyRows(found, s) ==
  LET rows[t \in 0..s] ==
        IF t = 0 THEN {} ELSE UNION {Observed(rows[t - 1], i, found[t][i], t) : i \in Items}
  IN {[v EXCEPT !.added = FALSE] : v \in rows[s]}

\* A scan of the program of version 27: a folder also gets a version when a
\* row below it is new, and the one before ends with the scan before.
LiveRows(R, found, s) ==
  LET own == UNION {Observed(R, i, found[i], s) : i \in Items}
      changed(d) == \E v \in own : v.first = s /\ d \in Above[v.item]
      split(d) == d \in Folders /\ found[d] # Absent /\ StartedBy(own, d, s) = {} /\ changed(d)
      cut(v) == [v EXCEPT !.last = s - 1]
  IN {IF split(v.item) /\ v \in Newest(own, v.item) THEN cut(v) ELSE v : v \in own} \cup
     {Started(v, s) : v \in {w \in own : split(w.item) /\ w \in Newest(own, w.item)}}
=============================================================================
