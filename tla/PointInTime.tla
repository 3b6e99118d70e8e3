---------------------------- MODULE PointInTime ----------------------------
(***************************************************************************)
(* The readers of items.rs: what a page shows of an item at a scan.        *)
(*                                                                         *)
(* The tree, the search and the counts of a folder choose the newest       *)
(* version that began by the scan; a link to the version of an item goes   *)
(* by the window of the version.  Both are SELECTs on the committed store. *)
(* Paths, names, the order of rows and paging are left out: i below f is   *)
(* f \in Above[i].                                                         *)
(***************************************************************************)
EXTENDS TemporalStore

\* A row of the tree or of the search at scan s: a deletion is shown only at
\* the scan that found it.
ShownAt(d, i, s) == {r \in AsOf(d.versions, i, s) : ~r.del \/ r.first = s}

\* get_version_at_scan; the LIMIT 1 takes any of several.
VersionAtScan(d, i, s) == {r \in RowsOf(d.versions, i) : r.first <= s /\ s <= r.last}

\* get_children_counts, for the items of one type: those below folder f, at any
\* depth, that exist at scan s.
ChildrenCount(d, f, s, type) ==
  Cardinality({i \in type : /\ RootOf[i] = RootOf[f] /\ f \in Above[i]
                            /\ \E r \in AsOf(d.versions, i, s) : ~r.del})

\* get_integrity_state: of the version at scan s the newest digest, by whichever
\* scan, and the validation.
IntegrityAt(d, i, s) ==
  {<<r.val # 0, {h.hash : h \in CurrentHash(d.hashes, i, r.ver)}>> :
     r \in AsOf(d.versions, i, s)}
=============================================================================
