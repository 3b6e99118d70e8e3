--------------------------- MODULE ScanLifecycle ---------------------------
(***************************************************************************)
(* One scan after another: the task that runs it, the state machine of     *)
(* scanner.rs, the transactions it writes in, and everything that can      *)
(* happen to it: stop, pause, shutdown, an error, the end of the process.  *)
(*                                                                         *)
(* What the model relies on:                                               *)
(*  - TaskManager runs one task at a time and picks the Running row of the *)
(*    tasks table before any pending one, so there is one active scan.     *)
(*  - The file system is free: at each visit the walk may find any item in *)
(*    any state, in any order, or not find it at all.                      *)
(*  - The walk commits every SCAN_BATCH_SIZE writes and the folder counts  *)
(*    every BATCH_SIZE folders; the model may commit after any write, so   *)
(*    it covers every batch size.                                          *)
(*  - A file the analysis does not get to write (the file guard, a failed  *)
(*    write, a lost worker, a high water mark that passed it) is a file    *)
(*    whose Analyze action is not taken.                                   *)
(*  - The transaction that rolls a scan back does not itself fail.         *)
(***************************************************************************)
EXTENDS TemporalStore

CONSTANTS
  AnalysisSpecs,  \* the [hash, val] settings a scan may be started with
  MaxScans,       \* bound: rows of the scans table
  MaxFaults       \* bound: stops, pauses, errors and crashes

ASSUME LifecycleAssumption ==
  /\ AnalysisSpecs \subseteq [hash: HashModes, val: BOOLEAN]
  /\ MaxScans \in Nat
  /\ MaxFaults \in Nat
  /\ Hashes \cap {"denied", "missing", "failed", "skipped"} = {}

VARIABLES
  db,        \* the committed database
  tx,        \* the database as the scan's connection sees it
  active,    \* the scan named by the Running row of tasks, 0 when there is none
  pc,        \* where the task's thread is
  intr,      \* the interrupt token, and who set it
  writes,    \* FolderCountWrites the analysis worker still has to apply
  analyzed,  \* files the analysis of this run has already fetched
  faults     \* stops, pauses, errors and crashes so far

vars == <<db, tx, active, pc, intr, writes, analyzed, faults>>

(***************************************************************************)
(* pc    "none"      no thread; the task row may be waiting for a resume   *)
(*       "guard"     scan row created, undo log not yet inspected          *)
(*       "run"       inside the loop over the scan's states                *)
(*       "apply"     writing the folder counts it computed                 *)
(*       "stopping"  run() was interrupted; on_stopped is next             *)
(*       "failing"   run() returned an error; on_error is next             *)
(*       "closing"   on_task_complete is next                              *)
(* intr  "pause" stands for a pause and for a shutdown: both leave the     *)
(*       task row Running, and both take precedence over a stop.           *)
(***************************************************************************)
Threads == {"none", "guard", "run", "apply", "stopping", "failing", "closing"}

Init ==
  /\ db = EmptyStore /\ tx = EmptyStore
  /\ active = 0 /\ pc = "none" /\ intr = "no"
  /\ writes = {} /\ analyzed = {} /\ faults = 0

root == db.scans[active].root
state == db.scans[active].state

In(st) == pc = "run" /\ state = st
Uninterrupted == intr = "no"
Committed == tx = db

Commit(d) == db' = d /\ tx' = d
-----------------------------------------------------------------------------
(* Starting and resuming *)

StartScan_OffByOne(r, spec) ==
  /\ pc = "none" /\ active = 0
  /\ Len(db.scans) < MaxScans
  /\ Commit([db EXCEPT !.scans = Append(@, [root |-> r, state |-> "Scanning",
                                           hash |-> spec.hash, val |-> spec.val])])
  /\ active' = Len(db.scans) + 2
  /\ pc' = "guard"
  /\ UNCHANGED <<intr, writes, analyzed, faults>>

\* ScanTask::initialize_scan, new scan: row and task_state in one transaction.
StartScan(r, spec) ==
  /\ pc = "none" /\ active = 0
  /\ Len(db.scans) < MaxScans
  /\ Commit([db EXCEPT !.scans = Append(@, [root |-> r, state |-> "Scanning",
                                           hash |-> spec.hash, val |-> spec.val])])
  /\ active' = Len(db.scans) + 1
  /\ pc' = "guard"
  /\ UNCHANGED <<intr, writes, analyzed, faults>>

\* Only a scan that was not restarted clears what it finds in the undo log.
GuardUndo ==
  /\ pc = "guard"
  /\ Commit([db EXCEPT !.undo = {}])
  /\ pc' = "run"
  /\ UNCHANGED <<active, intr, writes, analyzed, faults>>

ResumeScan_ClearsUndo ==
  /\ pc = "none" /\ active # 0
  /\ Commit([db EXCEPT !.undo = {}])
  /\ pc' = "run"
  /\ UNCHANGED <<active, intr, writes, analyzed, faults>>

ResumeScan ==
  /\ pc = "none" /\ active # 0
  /\ pc' = "run"
  /\ UNCHANGED <<db, tx, active, intr, writes, analyzed, faults>>
-----------------------------------------------------------------------------
(* Scanning: the walk.  Writes go to the open batch.                       *)

\* A path that cannot be stat'ed is handled as an item of type Unknown.
Observations(i) ==
  CASE i \in Dirs -> [meta: Metas, err: {"none", "list"}]
    [] i \in Files -> [meta: Metas, err: {"none"}]
    [] OTHER -> [meta: Metas, err: {"none"}] \cup {[meta |-> NoMeta, err |-> "stat"]}

\* calculate_new_access; old = "Ok" gives the access of a new item.
NewAccess(i, old, err) ==
  CASE err = "stat" -> "MetaError"
    [] err = "list" -> "ReadError"
    [] err = "none" -> IF i \notin Dirs /\ old = "ReadError" THEN "ReadError" ELSE "Ok"

\* Interrupts are checked before a file and on entering a directory; a
\* directory is handled after its children, without another check.
Visit(i) ==
  /\ In("Scanning")
  /\ RootOf[i] = root
  /\ i \in Dirs \/ Uninterrupted
  /\ UNCHANGED <<db, active, pc, intr, writes, analyzed, faults>>

\* The rows handle_existing_item gets: not yet confirmed by this scan.
Existing(i) == {r \in Latest(tx.versions, i) : r.last # active}

AddItem(i, o) ==
  /\ Visit(i)
  /\ i \notin tx.items
  /\ tx' = [tx EXCEPT
       !.items = @ \cup {i},
       !.versions = @ \cup {NewVersion(@, i, active, FALSE, NewAccess(i, "Ok", o.err), o.meta)}]

RehydrateItem(i, o) ==
  /\ Visit(i)
  /\ \E r \in Existing(i) :
       /\ r.del
       /\ tx' = [tx EXCEPT !.versions =
            @ \cup {NewVersion(@, i, active, FALSE, NewAccess(i, r.access, o.err), o.meta)}]

Changed(r, o) == r.meta # o.meta \/ r.access # NewAccess(r.item, r.access, o.err)

ModifyItem(i, o) ==
  /\ Visit(i)
  /\ \E r \in Existing(i) :
       /\ ~r.del /\ Changed(r, o)
       /\ tx' = [tx EXCEPT !.versions =
            @ \cup {NewVersion(@, i, active, FALSE, NewAccess(i, r.access, o.err), o.meta)}]

ConfirmItem(i, o) ==
  /\ Visit(i)
  /\ \E r \in Existing(i) :
       /\ ~r.del /\ ~Changed(r, o)
       /\ tx' = [tx EXCEPT !.undo = @ \cup {LogVersion(r)},
                           !.versions = SetLast(@, i, r.ver, active)]

\* COMMIT of a batch: when it is full, and at the end of its phase.
FlushBatch ==
  /\ ~Committed
  /\ db' = tx
  /\ UNCHANGED <<tx, active, pc, intr, writes, analyzed, faults>>

FinishWalk ==
  /\ In("Scanning") /\ Committed
  /\ Commit(SetState(db, active, "Sweeping"))
  /\ UNCHANGED <<active, pc, intr, writes, analyzed, faults>>
-----------------------------------------------------------------------------
(* Sweeping: tombstones and the change of state in one transaction.        *)

SweepUnconfirmed ==
  /\ In("Sweeping") /\ Uninterrupted
  /\ Commit(SetState(Sweep(db, root, active), active, "AnalyzingFiles"))
  /\ UNCHANGED <<active, pc, intr, writes, analyzed, faults>>
-----------------------------------------------------------------------------
(* AnalyzingFiles: each file is read, then written in its own transaction. *)

NeedsHash(r) ==
  LET h == CurrentHash(db.hashes, r.item, r.ver)
      mode == db.scans[active].hash
  IN \/ mode # "None" /\ h = {}
     \/ mode = "All" /\ \E g \in h : g.last < active

NeedsVal(r) == db.scans[active].val /\ r.item \in HasValidator /\ r.val = 0

\* fetch_next_batch
Candidates ==
  {r \in db.versions : /\ RootOf[r.item] = root
                       /\ r.last = active
                       /\ r.item \in Files /\ ~r.del /\ r.access # "MetaError"
                       /\ r.item \notin analyzed
                       /\ NeedsHash(r) \/ NeedsVal(r)}

HashReads(r) ==
  IF NeedsHash(r) THEN Hashes \cup {"denied", "missing", "failed"} ELSE {"skipped"}

\* "done": a verdict; "failed": the validator gave up, recorded as invalid.
ValReads(r, hr) ==
  IF NeedsVal(r) /\ hr \notin {"denied", "missing"}
  THEN {"done", "failed", "denied", "missing"} ELSE {"skipped"}

AccessAfter(old, hr, vr) ==
  CASE "missing" \in {hr, vr} -> "MetaError"
    [] "missing" \notin {hr, vr} /\ "denied" \in {hr, vr} -> "ReadError"
    [] {"missing", "denied"} \cap {hr, vr} = {} ->
         IF hr \in Hashes \/ vr = "done" THEN "Ok" ELSE old

PersistHash_Unlogged(d, r, hr, s) ==
  LET h == CurrentHash(d.hashes, r.item, r.ver)
      same == {g \in h : g.hash = hr}
      row == [item |-> r.item, ver |-> r.ver, first |-> s, last |-> s, hash |-> hr]
  IN IF hr \notin Hashes THEN d
     ELSE IF same = {} THEN [d EXCEPT !.hashes = @ \cup {row}]
     ELSE [d EXCEPT !.hashes = (@ \ same) \cup {[g EXCEPT !.last = s] : g \in same}]

\* persist_hash for the version r.  A row whose hash could not be read although
\* one is stored makes new_hash.unwrap() panic, and the transaction with it.
PersistHash(d, r, hr, s) ==
  LET h == CurrentHash(d.hashes, r.item, r.ver)
      same == {g \in h : g.hash = hr}
      row == [item |-> r.item, ver |-> r.ver, first |-> s, last |-> s, hash |-> hr]
  IN IF hr \notin Hashes THEN d
     ELSE IF same = {} THEN [d EXCEPT !.hashes = @ \cup {row}]
     ELSE [d EXCEPT !.undo = @ \cup {LogHash(g) : g \in same},
                    !.hashes = (@ \ same) \cup {[g EXCEPT !.last = s] : g \in same}]

Panics(r, hr) ==
  /\ hr \in {"denied", "failed"}
  /\ CurrentHash(db.hashes, r.item, r.ver) # {}

PersistVal(vs, r, vr, s) ==
  IF vr \in {"done", "failed"} THEN SetVal(vs, r.item, r.ver, s) ELSE vs

PersistAccess_InPlace(vs, r, access, s, prev) == SetAccess(vs, r.item, r.ver, access)

\* Case A: the version is this scan's own.  Case B: it is older.
PersistAccess(vs, r, access, s, prev) ==
  IF access = r.access THEN vs
  ELSE IF r.first = s THEN SetAccess(vs, r.item, r.ver, access)
  ELSE CloseAndSucceed(vs, r, prev, NewVersion(vs, r.item, s, FALSE, access, r.meta))

Analyze(r) ==
  /\ In("AnalyzingFiles") /\ Uninterrupted
  /\ r \in Candidates
  /\ \E hr \in HashReads(r) : \E vr \in ValReads(r, hr) :
       LET missing == "missing" \in {hr, vr}
           hashed == IF missing THEN db ELSE PersistHash(db, r, hr, active)
           valued == IF missing THEN db.versions ELSE PersistVal(db.versions, r, vr, active)
           prev == PrevCompleted(db.scans, root, active)
       IN /\ missing \/ ~Panics(r, hr)
          /\ Commit([hashed EXCEPT !.versions =
               PersistAccess(valued, r, AccessAfter(r.access, hr, vr), active, prev)])
  /\ analyzed' = analyzed \cup {r.item}
  /\ UNCHANGED <<active, pc, intr, writes, faults>>

FinishAnalysis ==
  /\ In("AnalyzingFiles") /\ Uninterrupted
  /\ Commit(SetState(db, active, "AnalyzingScan"))
  /\ UNCHANGED <<active, pc, intr, writes, analyzed, faults>>
-----------------------------------------------------------------------------
(* AnalyzingScan: a version for every folder with changes below it.        *)

WalkFolderCounts ==
  /\ In("AnalyzingScan") /\ Uninterrupted
  /\ writes' = FoldersToWrite(db.versions, root, active)
  /\ pc' = "apply"
  /\ UNCHANGED <<db, tx, active, intr, analyzed, faults>>

\* write_single_folder_count.  Case A rewrites counts only.
WriteFolder(vs, f, s, prev) ==
  IF \E r \in RowsOf(vs, f) : r.first = s THEN vs
  ELSE UNION {CloseAndSucceed(vs, r, prev, NewVersion(vs, f, s, r.del, r.access, r.meta)) :
                r \in Latest(vs, f)}

\* Writes are in the order of the walk: children before their parent.
ApplyFolderWrite(f) ==
  /\ pc = "apply"
  /\ f \in writes
  /\ \A g \in writes : f \notin Above[g]
  /\ tx' = [tx EXCEPT !.versions =
       WriteFolder(@, f, active, PrevCompleted(db.scans, root, active))]
  /\ writes' = writes \ {f}
  /\ UNCHANGED <<db, active, pc, intr, analyzed, faults>>

Complete_Checked ==
  /\ pc = "apply" /\ writes = {} /\ Committed /\ Uninterrupted
  /\ Commit([SetState(db, active, "Completed") EXCEPT !.undo = {}])
  /\ pc' = "closing"
  /\ UNCHANGED <<active, intr, writes, analyzed, faults>>

\* set_state_completed; an interrupt that came after the last check is ignored.
Complete ==
  /\ pc = "apply" /\ writes = {} /\ Committed
  /\ Commit([SetState(db, active, "Completed") EXCEPT !.undo = {}])
  /\ pc' = "closing"
  /\ UNCHANGED <<active, intr, writes, analyzed, faults>>

\* A resumed task whose scan already ended passes through the loop untouched.
FallThrough ==
  /\ pc = "run" /\ state \notin InProgress /\ Uninterrupted
  /\ pc' = "closing"
  /\ UNCHANGED <<db, tx, active, intr, writes, analyzed, faults>>
-----------------------------------------------------------------------------
(* Leaving early *)

\* TaskInterrupted: the open batch is dropped.
Interrupted ==
  /\ ~Uninterrupted
  /\ \/ pc = "run"
     \/ pc = "apply" /\ writes # {} /\ Committed
  /\ tx' = db
  /\ writes' = {}
  /\ pc' = IF intr = "pause" THEN "closing" ELSE "stopping"
  /\ UNCHANGED <<db, active, intr, analyzed, faults>>

\* Scan::stop_scan, the same for a stop and for an error.
RollBackTo(st) == Commit(SetState(Rollback(db, active), active, st))

OnStopped ==
  /\ pc = "stopping"
  /\ IF state \in InProgress THEN RollBackTo("Stopped") ELSE UNCHANGED <<db, tx>>
  /\ pc' = "closing"
  /\ UNCHANGED <<active, intr, writes, analyzed, faults>>

OnError ==
  /\ pc = "failing"
  /\ RollBackTo("Error")
  /\ pc' = "closing"
  /\ UNCHANGED <<active, intr, writes, analyzed, faults>>

\* on_task_complete: the row stays Running when pausing or shutting down.
CloseTask ==
  /\ pc = "closing"
  /\ active' = IF intr = "pause" THEN active ELSE 0
  /\ pc' = "none" /\ intr' = "no"
  /\ writes' = {} /\ analyzed' = {}
  /\ UNCHANGED <<db, tx, faults>>
-----------------------------------------------------------------------------
(* What happens to a scan *)

Fault == faults < MaxFaults /\ faults' = faults + 1

\* Any `?` on the way: the open batch is dropped.
Fail ==
  /\ Fault
  /\ pc \in {"guard", "run", "apply"} /\ state \in InProgress
  /\ tx' = db
  /\ writes' = {}
  /\ pc' = "failing"
  /\ UNCHANGED <<db, active, intr, analyzed>>

RequestStop ==
  /\ Fault
  /\ pc \in {"guard", "run", "apply"} /\ Uninterrupted
  /\ intr' = "stop"
  /\ UNCHANGED <<db, tx, active, pc, writes, analyzed>>

\* set_pause and do_shutdown, at any moment of a task's life.
RequestPause ==
  /\ Fault
  /\ pc # "none" /\ intr # "pause"
  /\ intr' = "pause"
  /\ UNCHANGED <<db, tx, active, pc, writes, analyzed>>

\* The process ends; what was not committed is lost.
Crash ==
  /\ Fault
  /\ pc # "none"
  /\ tx' = db
  /\ pc' = "none" /\ intr' = "no"
  /\ writes' = {} /\ analyzed' = {}
  /\ UNCHANGED <<db, active>>
-----------------------------------------------------------------------------
Walk ==
  \E i \in Items : \E o \in Observations(i) :
    \/ AddItem(i, o)
    \/ RehydrateItem(i, o)
    \/ ModifyItem(i, o)
    \/ ConfirmItem(i, o)

\* Steps the program takes by itself once a scan has been started.
System ==
  \/ GuardUndo \/ ResumeScan
  \/ Walk \/ FlushBatch \/ FinishWalk
  \/ SweepUnconfirmed
  \/ (\E r \in db.versions : Analyze(r)) \/ FinishAnalysis
  \/ WalkFolderCounts \/ (\E f \in Dirs : ApplyFolderWrite(f)) \/ Complete
  \/ FallThrough \/ Interrupted \/ OnStopped \/ OnError \/ CloseTask

Environment ==
  \/ \E r \in Roots, spec \in AnalysisSpecs : StartScan(r, spec)
  \/ Fail \/ RequestStop \/ RequestPause \/ Crash

Next == System \/ Environment

Spec == Init /\ [][Next]_vars

\* The task's thread is scheduled; the process is restarted after a crash; a
\* pause ends.
FairSpec == Spec /\ WF_vars(System)
=============================================================================
