--------------------------- MODULE TemporalStore ---------------------------
(***************************************************************************)
(* The tables a scan reads and writes, and the statements it runs on them. *)
(*                                                                         *)
(* A store is one consistent view of the SQLite database: a set of rows    *)
(* for items, item_versions, hash_versions and scan_undo_log, and the      *)
(* scans table as a sequence, because scan_id is AUTOINCREMENT and a row   *)
(* is never removed by a scan.  Each operator below is one SQL statement,  *)
(* or one function of the source made of a few, as a function from rows to *)
(* rows; ScanLifecycle says when they run and in which transaction.        *)
(*                                                                         *)
(* Data that no property tells apart is left out: paths and names, times,  *)
(* sizes, error texts, the folder and scan counters (FolderCounts models   *)
(* those).  (mod_date, size) is one value of Metas, a file hash one value  *)
(* of Hashes, and val_state/val_error are present iff val_scan_id is: the  *)
(* field val is val_scan_id, 0 standing for NULL.                          *)
(*                                                                         *)
(* An operator X_Fault just before X is X with a mistake one could make in *)
(* that code, used only to see that a property notices.                    *)
(***************************************************************************)
EXTENDS Integers, Sequences, FiniteSets

CONSTANTS
  Roots,         \* monitored directories
  Items,         \* every identity (root, path, type) the file system may show
  RootOf,        \* the root an item lies under
  Above,         \* the directory items an item lies below, at any depth
  Dirs,          \* items of type Directory
  Files,         \* items of type File; the others are symlinks and unknowns
  HasValidator,  \* files whose extension has a validator
  Metas,         \* observable (mod_date, size) pairs
  NoMeta,        \* the pair of an item that could not be stat'ed
  Hashes         \* digests

ASSUME StoreAssumption ==
  /\ RootOf \in [Items -> Roots]
  /\ Dirs \subseteq Items /\ Files \subseteq Items /\ Dirs \cap Files = {}
  /\ HasValidator \subseteq Files
  /\ Above \in [Items -> SUBSET Dirs]
  /\ NoMeta \notin Metas

\* Nested roots have rows of their own for the same path (root_id is part of an
\* item's identity): the directory items above an item are of its root.
ASSUME AboveAssumption == \A i \in Items : \A a \in Above[i] : RootOf[a] = RootOf[i]

Accesses == {"Ok", "MetaError", "ReadError"}
InProgress == {"Scanning", "Sweeping", "AnalyzingFiles", "AnalyzingScan"}
Discarded == {"Stopped", "Error"}
ScanStates == InProgress \cup Discarded \cup {"Completed"}
HashModes == {"None", "New", "All"}

VersionRow == [item: Items, ver: Nat, first: Nat, last: Nat, del: BOOLEAN,
               access: Accesses, meta: Metas \cup {NoMeta}, val: Nat]
HashRow == [item: Items, ver: Nat, first: Nat, last: Nat, hash: Hashes]
\* first is ref_id3: the hash row's first_scan_id, 0 in an entry for a version.
UndoRow == [table: {"item", "hash"}, item: Items, ver: Nat, first: Nat, old: Nat]
ScanRow == [root: Roots, state: ScanStates, hash: HashModes, val: BOOLEAN]

Stores == [items: SUBSET Items, versions: SUBSET VersionRow,
           hashes: SUBSET HashRow, undo: SUBSET UndoRow, scans: Seq(ScanRow)]

EmptyStore == [items |-> {}, versions |-> {}, hashes |-> {}, undo |-> {},
               scans |-> << >>]
-----------------------------------------------------------------------------
(* Choosing rows *)

MaxOf(S) == CHOOSE m \in S : \A n \in S : n <= m

RowsOf(rows, i) == {r \in rows : r.item = i}

\* ORDER BY item_version DESC LIMIT 1.
Latest(vs, i) == {r \in RowsOf(vs, i) : \A q \in RowsOf(vs, i) : q.ver <= r.ver}

\* first_scan_id = (SELECT MAX(first_scan_id) ...), how sweep finds it.
NewestFirst(vs, i) ==
  {r \in RowsOf(vs, i) : \A q \in RowsOf(vs, i) : q.first <= r.first}

\* The version a reader is shown for the state of item i as of scan s.
AsOf(vs, i, s) == NewestFirst({r \in vs : r.first <= s}, i)

HashesOf(hs, i, v) == {h \in hs : h.item = i /\ h.ver = v}

CurrentHash(hs, i, v) ==
  {h \in HashesOf(hs, i, v) : \A g \in HashesOf(hs, i, v) : g.first <= h.first}

PrevCompleted_AnyRoot(scans, r, s) ==
  MaxOf({0} \cup {p \in 1 .. Len(scans) : p < s /\ scans[p].state = "Completed"})

\* The last scan of root r before s that completed; 0 when there is none.
PrevCompleted(scans, r, s) ==
  MaxOf({0} \cup {p \in 1 .. Len(scans) :
                    p < s /\ scans[p].root = r /\ scans[p].state = "Completed"})
-----------------------------------------------------------------------------
(* Writing rows *)

NextVer(vs, i) == MaxOf({0} \cup {r.ver : r \in RowsOf(vs, i)}) + 1

NewVersion(vs, i, s, del, access, meta) ==
  [item |-> i, ver |-> NextVer(vs, i), first |-> s, last |-> s, del |-> del,
   access |-> access, meta |-> meta, val |-> 0]

\* UPDATE item_versions SET last_scan_id = s WHERE item_id = i AND item_version = v
SetLast(vs, i, v, s) ==
  {IF r.item = i /\ r.ver = v THEN [r EXCEPT !.last = s] ELSE r : r \in vs}

SetAccess(vs, i, v, a) ==
  {IF r.item = i /\ r.ver = v THEN [r EXCEPT !.access = a] ELSE r : r \in vs}

SetVal(vs, i, v, s) ==
  {IF r.item = i /\ r.ver = v THEN [r EXCEPT !.val = s] ELSE r : r \in vs}

LogVersion(r) ==
  [table |-> "item", item |-> r.item, ver |-> r.ver, first |-> 0, old |-> r.last]

LogHash(h) ==
  [table |-> "hash", item |-> h.item, ver |-> h.ver, first |-> h.first, old |-> h.last]

SetState(d, s, st) == [d EXCEPT !.scans[s].state = st]

CloseAndSucceed_LeftOpen(vs, r, prev, new) == vs \cup {new}

\* "Case B": close a version that predates the scan by giving it back the last
\* scan that completed, and insert a successor.  Without such a scan the UPDATE
\* is skipped.
CloseAndSucceed(vs, r, prev, new) ==
  (IF prev = 0 THEN vs ELSE SetLast(vs, r.item, r.ver, prev)) \cup {new}
-----------------------------------------------------------------------------
(* Sweeping: a deletion version for every live item of the root that the   *)
(* walk did not confirm.                                                   *)

Unconfirmed_OffByOne(d, r, s) ==
  {q \in d.versions : /\ RootOf[q.item] = r
                      /\ q \in NewestFirst(d.versions, q.item)
                      /\ ~q.del
                      /\ q.last < s - 1}

Unconfirmed(d, r, s) ==
  {q \in d.versions : /\ RootOf[q.item] = r
                      /\ q \in NewestFirst(d.versions, q.item)
                      /\ ~q.del
                      /\ q.last < s}

Sweep(d, r, s) ==
  [d EXCEPT !.versions = @ \cup
     {NewVersion(d.versions, q.item, s, TRUE, q.access, q.meta) :
        q \in Unconfirmed(d, r, s)}]
-----------------------------------------------------------------------------
(* Folder counts: which folders get a version of their own.                *)

\* Item i counts as added, modified or deleted by scan s.
ChangedAt(vs, i, s) ==
  \E c \in RowsOf(vs, i) :
    /\ c.first = s
    /\ \/ ~c.del
       \/ \E p \in AsOf(vs, i, s - 1) : ~p.del

\* The recursive walk enters a directory that is alive at s or died at s.
Entered(vs, a, s) == \E c \in AsOf(vs, a, s) : ~c.del \/ c.first = s

FoldersToWrite(vs, r, s) ==
  {f \in Dirs : /\ RootOf[f] = r
                /\ \E i \in Items : /\ f \in Above[i]
                                    /\ \A a \in Above[i] : Entered(vs, a, s)
                                    /\ ChangedAt(vs, i, s)}
-----------------------------------------------------------------------------
(* Rolling a scan back                                                     *)

UndoFor(undo, r) ==
  {u \in undo : u.table = "item" /\ u.item = r.item /\ u.ver = r.ver}

UndoForHash(undo, h) ==
  {u \in undo : /\ u.table = "hash"
                /\ u.item = h.item /\ u.ver = h.ver /\ u.first = h.first}

Replay(undo, row) ==
  IF undo = {} THEN row ELSE [row EXCEPT !.last = (CHOOSE u \in undo : TRUE).old]

RolledVersions(d, s) ==
  {r \in {Replay(UndoFor(d.undo, q), q) : q \in d.versions} : r.first # s}

RolledHashes_Kept(d, s) == {Replay(UndoForHash(d.undo, g), g) : g \in d.hashes}

RolledHashes(d, s) ==
  {h \in {Replay(UndoForHash(d.undo, g), g) : g \in d.hashes} : h.first # s}

\* The columns val_* of every version, of any root, whose validation is now
\* later than its last confirmation.
ClearVal(vs) == {IF r.val > r.last THEN [r EXCEPT !.val = 0] ELSE r : r \in vs}

Rollback(d, s) ==
  LET vs == ClearVal(RolledVersions(d, s))
  IN [d EXCEPT !.versions = vs,
               !.hashes = RolledHashes(d, s),
               !.items = {i \in d.items : RowsOf(vs, i) # {}},
               !.undo = {}]
=============================================================================
