---------------------------- MODULE ScanCatalog ----------------------------
(***************************************************************************)
(* What scanning promises its readers, without phases, batches, undo log,  *)
(* interrupts or crashes: a scan changes the catalog once, when it         *)
(* completes, and a scan that is discarded never happened.                 *)
(***************************************************************************)
EXTENDS Integers, Sequences

CONSTANTS Roots, Items, RootOf

VARIABLES
  history,  \* the scans: whose root, and "open", "done" or "void"
  catalog   \* items, and the versions and hashes recorded for them

vars == <<history, catalog>>

Init ==
  /\ history = << >>
  /\ catalog = [items |-> {}, versions |-> {}, hashes |-> {}]

NoneOpen == \A s \in DOMAIN history : history[s].status # "open"

Begin(r) ==
  /\ NoneOpen
  /\ history' = Append(history, [root |-> r, status |-> "open"])
  /\ UNCHANGED catalog

\* A reader of what was already there sees, at most, its last confirmation move.
Extends(new, old, s) ==
  /\ \A q \in old : q \in new \/ [q EXCEPT !.last = s] \in new
  /\ \A q \in new : \/ q.first = s /\ q.last = s
                    \/ q \in old
                    \/ q.last = s /\ \E p \in old : q = [p EXCEPT !.last = s]

OfRoot(rows, r) == {q \in rows : RootOf[q.item] = r}
NotOfRoot(rows, r) == {q \in rows : RootOf[q.item] # r}

\* Only rows of the scanned root, and no item without a version.
CompleteScan(s) ==
  /\ history[s].status = "open"
  /\ history' = [history EXCEPT ![s].status = "done"]
  /\ LET r == history[s].root
     IN /\ Extends(OfRoot(catalog'.versions, r), OfRoot(catalog.versions, r), s)
        /\ Extends(OfRoot(catalog'.hashes, r), OfRoot(catalog.hashes, r), s)
        /\ NotOfRoot(catalog'.versions, r) = NotOfRoot(catalog.versions, r)
        /\ NotOfRoot(catalog'.hashes, r) = NotOfRoot(catalog.hashes, r)
        /\ catalog'.items = {q.item : q \in catalog'.versions}

DiscardScan(s) ==
  /\ history[s].status = "open"
  /\ history' = [history EXCEPT ![s].status = "void"]
  /\ UNCHANGED catalog

Next ==
  \/ \E r \in Roots : Begin(r)
  \/ \E s \in DOMAIN history : CompleteScan(s) \/ DiscardScan(s)

Spec == Init /\ [][Next]_vars
=============================================================================
