--------------------------- MODULE ScanProperties ---------------------------
(***************************************************************************)
(* What must be true of ScanLifecycle.                                     *)
(***************************************************************************)
EXTENDS ScanLifecycle, PointInTime

\* Every variable holds what its table columns or the thread's locals can hold.
TypeOK ==
  /\ db \in Stores /\ tx \in Stores
  /\ active \in 0 .. Len(db.scans)
  /\ pc \in Threads
  /\ intr \in {"no", "stop", "pause"}
  /\ writes \subseteq Dirs
  /\ analyzed \subseteq Items
  /\ faults \in 0 .. MaxFaults

Scanning == active # 0 /\ state \in InProgress
-----------------------------------------------------------------------------
(* The catalog a reader can rely on: what is there when the scan in        *)
(* progress, if any, is taken back out.  Validation results are left out:  *)
(* see ValidationPermanent.                                                *)

Unvalidated(vs) ==
  {[item |-> r.item, ver |-> r.ver, first |-> r.first, last |-> r.last,
    del |-> r.del, access |-> r.access, meta |-> r.meta] : r \in vs}

CatalogOf(d) ==
  LET settled == IF Scanning THEN Rollback(d, active) ELSE d
  IN [items |-> settled.items,
      versions |-> Unvalidated(settled.versions),
      hashes |-> settled.hashes]

StatusOf(st) ==
  CASE st \in InProgress -> "open"
    [] st = "Completed" -> "done"
    [] st \in Discarded -> "void"

Catalog ==
  INSTANCE ScanCatalog WITH
    catalog <- CatalogOf(db),
    history <- [s \in DOMAIN db.scans |->
                  [root |-> db.scans[s].root, status |-> StatusOf(db.scans[s].state)]]

\* Scanning implements the catalog: whatever batches, workers, stops, pauses,
\* errors and crashes do, rolling the open scan back at any committed moment gives
\* exactly the catalog from before it, completing it is the one step that changes
\* the catalog, and that step only extends or adds rows of the scanned root
\* (scanner.rs, analysis.rs and undo_log.rs together).
AtomicScans == Catalog!Spec
-----------------------------------------------------------------------------
(* The temporal tables *)

\* The versions of an item follow each other: numbers and windows of scans go up
\* together and never overlap, whether a successor was inserted by the walk, by
\* sweep, by an access change or by the folder counts, and also inside the open
\* batch.  The windows of the hash rows of one version do not overlap either.
WindowsOrdered ==
  /\ \A r, q \in tx.versions :
       r.item = q.item /\ r # q =>
         \/ r.ver < q.ver /\ r.first <= r.last /\ r.last < q.first
         \/ q.ver < r.ver /\ q.first <= q.last /\ q.last < r.first
  /\ \A h, g \in tx.hashes :
       h.item = g.item /\ h.ver = g.ver /\ h # g =>
         \/ h.last < g.first
         \/ g.last < h.first

\* No row mentions a scan that was stopped or failed: its rollback removed every
\* version, hash and validation it made and every confirmation it gave, those
\* written before a crash or a pause included (undo_log.rs rollback).
NoTraceOfDiscarded ==
  LET Gone(s) == s # 0 /\ db.scans[s].state \in Discarded
  IN /\ \A r \in db.versions : ~Gone(r.first) /\ ~Gone(r.last) /\ ~Gone(r.val)
     /\ \A h \in db.hashes : ~Gone(h.first) /\ ~Gone(h.last)

\* At every scan of its root that completed, whatever came later and is under way,
\* an item has at most one version whose window has that scan, and it is the one
\* that the tree and the search show there; a folder counts below it the items
\* that have such a version and are not deleted.  So the sweep missed nothing, a
\* discarded scan took back its confirmations and tombstones, and Case B gave each
\* window its right end: windows and beginnings tell one history (items.rs).
ReadersAgree ==
  \A i \in Items : \A s \in DOMAIN db.scans :
    db.scans[s].root = RootOf[i] /\ db.scans[s].state = "Completed" =>
      /\ VersionAtScan(db, i, s) = ShownAt(db, i, s)
      /\ Cardinality(VersionAtScan(db, i, s)) <= 1
      /\ i \in Dirs => \A type \in {Dirs, Files} :
           ChildrenCount(db, i, s, type) =
             Cardinality({j \in type : i \in Above[j] /\
                            \E r \in VersionAtScan(db, j, s) : ~r.del})

\* The undo log is exactly what rollback needs.  Outside a scan it is empty.
\* During one it has one entry for each older version or hash row the scan
\* confirmed, its old value is from before the scan, and it names a row that is
\* there; so no INSERT into it meets its primary key, across pauses and resumes.
UndoAccountsForUpdates ==
  LET Names(u, r) == UndoFor({u}, r) # {}
      NamesHash(u, h) == UndoForHash({u}, h) # {}
      Older(row) == row.first < active
      Touched(row) == Older(row) /\ row.last = active
  IN /\ ~Scanning => tx.undo = {}
     /\ \A u \in tx.undo :
          /\ u.old < active
          /\ \/ \E r \in tx.versions : Names(u, r) /\ Older(r)
             \/ \E h \in tx.hashes : NamesHash(u, h) /\ Older(h) /\ h.last = active
     /\ \A u, w \in tx.undo : [u EXCEPT !.old = 0] = [w EXCEPT !.old = 0] => u = w
     /\ Scanning =>
          /\ \A r \in tx.versions : Touched(r) => \E u \in tx.undo : Names(u, r)
          /\ \A h \in tx.hashes : Touched(h) => \E u \in tx.undo : NamesHash(u, h)
-----------------------------------------------------------------------------
(* What a step may never do *)

\* The digest of version r as scan s left it: in its hash history the last row
\* that began by then.
HashAt(hs, r, s) ==
  {h.hash : h \in CurrentHash({g \in hs : g.first <= s}, r.item, r.ver)}

View(d, i, s) ==
  {<<r.ver, r.first, r.del, r.access, r.meta, HashAt(d.hashes, r, s)>> :
     r \in AsOf(d.versions, i, s)}

\* The state of a root as of a completed scan is history: nothing that happens
\* later, committed halfway, rolled back or completed, changes which version a
\* reader is shown for that scan, or what its hash history says of then.
CompletedViewsFixed ==
  [][\A s \in DOMAIN db.scans :
       db.scans[s].state = "Completed" =>
         \A i \in Items : RootOf[i] = db.scans[s].root =>
           View(db', i, s) = View(db, i, s)]_vars
-----------------------------------------------------------------------------
(* What must happen *)

\* A scan that was started ends: it completes, is stopped or fails, whatever
\* interrupts, resumes and crashes come first, and its task row is closed.
ScanEnds == active # 0 ~> active = 0
-----------------------------------------------------------------------------
(* What the documents say and the code does not do *)

\* docs/src/scanning.md:83: "Once a version has been validated, it is not
\* re-validated - the result is permanently associated with that version."  Taken
\* for validations by scans that completed.
ValidationPermanent ==
  [][\A r \in db.versions :
       r.val # 0 /\ db.scans[r.val].state = "Completed" =>
         \E q \in db'.versions : q.item = r.item /\ q.ver = r.ver /\ q.val = r.val]_vars

\* docs/src/scanning.md:154: "Hash results are stored in a separate hash_versions
\* table, bound to the current item version."
HashOnCurrentVersion ==
  \A h \in db.hashes : db.scans[h.first].state = "Completed" =>
    \E r \in AsOf(db.versions, h.item, h.first) : r.ver = h.ver

\* items.rs:645: "Get the integrity state (hash + validation) for an item at a
\* specific scan point."  Taken as: for a scan that completed it stays what it was.
IntegrityStateFixed ==
  [][\A s \in DOMAIN db.scans :
       db.scans[s].state = "Completed" =>
         \A i \in Items : RootOf[i] = db.scans[s].root =>
           IntegrityAt(db', i, s) = IntegrityAt(db, i, s)]_vars
=============================================================================
