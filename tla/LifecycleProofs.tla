-------------------------- MODULE LifecycleProofs --------------------------
(***************************************************************************)
(* What the steps of ScanLifecycle keep, for every number of roots, items, *)
(* scans and faults.                                                       *)
(***************************************************************************)
EXTENDS WindowProofs, FiniteSetTheorems

ThreadInv ==
  /\ pc = "closing" /\ state \in InProgress => intr = "pause"
  /\ pc = "failing" => state \in InProgress
  /\ pc = "guard" => db.undo = {} /\ state = "Scanning"
  /\ pc = "apply" => state = "AnalyzingScan" /\ ToWrite(tx, active, writes)
  /\ pc = "none" => writes = {}
  /\ tx # db => pc = "apply" \/ In("Scanning")

(***************************************************************************)
(* The open batch is as good as the database, and rolling the scan back    *)
(* from either gives the same.                                             *)
(***************************************************************************)
ScanInv ==
  /\ StoreInv(db, active) /\ StoreInv(tx, active)
  /\ Swept(db, active) /\ Swept(tx, active)
  /\ IsOpen(db, active) => Settled(tx, active) = Settled(db, active)
  /\ ThreadInv

LEMMA ActiveStore ==
  ASSUME TypeInv, pc # "none"
  PROVE  /\ StoreOK(db) /\ StoreOK(tx) /\ tx.scans = db.scans
         /\ active \in 1 .. Len(db.scans) /\ active \in Nat \ {0}
         /\ db.scans \in Seq(ScanRow) /\ db.scans[active] \in ScanRow
         /\ state \in ScanStates /\ root = db.scans[active].root /\ root \in Roots
<1>1. active # 0
  BY DEF TypeInv
<1>2. db.scans \in Seq(ScanRow)
  BY DEF TypeInv, TypeOK, Stores
<1>3. db.scans[active].state \in ScanStates
  BY <1>1, ActiveRow DEF ScanRow
<1> QED
  BY <1>1, <1>2, <1>3, ActiveRow DEF TypeInv, TypeOK, StoreOK, state, root
-----------------------------------------------------------------------------
(* Walking *)

\* One statement of the walk, on the open batch.
LEMMA WalkStep ==
  ASSUME TypeInv, ScanInv, NEW i, Visit(i),
         StoreInv(tx', active), Settled(tx', active) = Settled(tx, active),
         tx'.scans = tx.scans
  PROVE  ScanInv'
<1>1. /\ db' = db /\ active' = active /\ pc' = pc /\ intr' = intr /\ writes' = writes
      /\ pc = "run" /\ state = "Scanning"
  BY DEF Visit, In
<1>2. tx.scans = db.scans
  BY DEF TypeInv
<1>3. state' = state
  BY <1>1 DEF state
<1>4. Swept(tx', active)
  BY <1>1, <1>2 DEF Swept, state
<1>5. ThreadInv'
  BY <1>1, <1>3 DEF ThreadInv, In
<1> QED
  BY <1>1, <1>4, <1>5 DEF ScanInv

LEMMA LatestOld ==
  ASSUME NEW d, StoreOK(d), NEW s \in 1 .. Len(d.scans), StoreInv(d, s),
         NEW r \in d.versions, IsLatest(d.versions, r), r.last # s,
         NEW q \in d.versions, q.item = r.item
  PROVE  q.last < s
<1>1. /\ q.ver \in Nat /\ q.first \in Nat /\ q.last \in Nat
      /\ r.ver \in Nat /\ r.first \in Nat /\ r.last \in Nat /\ s \in Nat
  BY RowTypes
<1>2. r.last < s /\ r.first <= r.last
  BY OldRow
<1>3. CASE q.ver = r.ver
  BY <1>2, <1>3 DEF StoreInv, Keyed
<1>4. CASE q.ver # r.ver
  <2>1. q.ver < r.ver
    BY <1>1, <1>4 DEF IsLatest
  <2>2. q.last < r.first
    BY <2>1 DEF StoreInv, Ordered
  <2> QED
    BY <1>1, <1>2, <2>2
<1> QED
  BY <1>3, <1>4

LEMMA InsertOneInv ==
  ASSUME NEW d, StoreOK(d), NEW s \in 1 .. Len(d.scans), IsOpen(d, s), StoreInv(d, s),
         NEW e, StoreOK(e), e.scans = d.scans, e.hashes = d.hashes, e.undo = d.undo,
         NEW n, e.versions = d.versions \cup {n},
         \A i \in Items : i \in e.items <=> i \in d.items \/ i = n.item,
         RootOf[n.item] = d.scans[s].root,
         n.first = s, n.last = s, n.val = 0,
         \A r \in d.versions : r.item = n.item => r.ver < n.ver /\ r.last < s
  PROVE  StoreInv(e, s) /\ Settled(e, s) = Settled(d, s)
<1> DEFINE N == {n}
<1>1. \A i \in Items : i \in e.items <=> i \in d.items \/ \E m \in N : m.item = i
  OBVIOUS
<1>2. \A m \in N : /\ RootOf[m.item] = d.scans[s].root
                   /\ m.first = s /\ m.last = s /\ m.val = 0
                   /\ \A q \in d.versions : q.item = m.item => q.ver < m.ver /\ q.last < s
  OBVIOUS
<1>3. \A m, k \in N : m.item = k.item => m = k
  OBVIOUS
<1>4. e.versions = d.versions \cup N
  OBVIOUS
<1> HIDE DEF N
<1>5. StoreInv(e, s)
  BY <1>1, <1>2, <1>3, <1>4, InsertInv
<1>6. s \in Nat
  BY RowTypes
<1>7. d.versions \subseteq e.versions /\ \A w \in e.versions : w \in d.versions \/ w.first = s
  BY <1>2, <1>4
<1>8. Settled(e, s) = Settled(d, s)
  BY <1>6, <1>7, InsertSettled
<1> QED
  BY <1>5, <1>8

\* The statement that AddItem, RehydrateItem and ModifyItem share.
LEMMA InsertStep ==
  ASSUME TypeInv, TypeInv', ScanInv, NEW i \in Items, Visit(i),
         \A r \in tx.versions : r.item = i => r.last < active,
         NEW n, n.item = i, n.first = active, n.last = active, n.val = 0,
         \A r \in tx.versions : r.item = i => r.ver < n.ver,
         tx'.versions = tx.versions \cup {n},
         tx'.items = tx.items \cup {i},
         tx'.hashes = tx.hashes, tx'.undo = tx.undo, tx'.scans = tx.scans
  PROVE  ScanInv'
<1>1. /\ StoreOK(tx) /\ tx.scans = db.scans /\ active \in 1 .. Len(tx.scans)
      /\ root = tx.scans[active].root /\ RootOf[i] = root /\ state = "Scanning"
      /\ state = tx.scans[active].state /\ active # 0
  BY ActiveStore DEF Visit, In, state
<1>2. StoreOK(tx')
  BY DEF TypeInv, TypeOK, StoreOK
<1>3. IsOpen(tx, active) /\ StoreInv(tx, active)
  BY <1>1 DEF IsOpen, InProgress, ScanInv
<1>4. StoreInv(tx', active) /\ Settled(tx', active) = Settled(tx, active)
  BY <1>1, <1>2, <1>3, InsertOneInv
<1> QED
  BY <1>4, WalkStep

LEMMA AddItemInv ==
  ASSUME TypeInv, TypeInv', ScanInv, NEW i \in Items, NEW o \in Observations(i), AddItem(i, o)
  PROVE  ScanInv'
<1>1. Visit(i) /\ i \notin tx.items /\ StoreOK(tx)
  BY DEF AddItem, TypeInv, TypeOK, StoreOK
<1>2. PICK n : n = NewVersion(tx.versions, i, active, FALSE, NewAccess(i, "Ok", o.err), o.meta)
  OBVIOUS
<1>3. /\ tx'.versions = tx.versions \cup {n}
      /\ tx'.items = tx.items \cup {i}
      /\ tx'.hashes = tx.hashes /\ tx'.undo = tx.undo /\ tx'.scans = tx.scans
  BY <1>1, <1>2 DEF AddItem, StoreOK, Stores
<1>4. \A r \in tx.versions : r.item # i
  BY <1>1 DEF ScanInv, StoreInv, Named
<1>5. n.item = i /\ n.first = active /\ n.last = active /\ n.val = 0
  BY <1>2 DEF NewVersion
<1> HIDE DEF NewVersion
<1> QED
  BY <1>1, <1>3, <1>4, <1>5, InsertStep

LEMMA ReplaceItemInv ==
  ASSUME TypeInv, TypeInv', ScanInv, NEW i \in Items, NEW o \in Observations(i),
         RehydrateItem(i, o) \/ ModifyItem(i, o)
  PROVE  ScanInv'
<1>1. Visit(i)
  BY DEF RehydrateItem, ModifyItem
<1>2. tx \in Stores
  BY DEF TypeInv, TypeOK
<1>3. PICK r \in Existing(i) :
        tx' = [tx EXCEPT !.versions = tx.versions \cup
                 {NewVersion(tx.versions, i, active, FALSE, NewAccess(i, r.access, o.err), o.meta)}]
  BY <1>2 DEF RehydrateItem, ModifyItem, Stores
<1>4. r \in tx.versions /\ r.item = i /\ r.last # active /\ IsLatest(tx.versions, r)
  BY DEF Existing, Latest, RowsOf, IsLatest
<1>5. tx.items \cup {i} = tx.items
  BY <1>4 DEF ScanInv, StoreInv, Named
<1>6. PICK n : n = NewVersion(tx.versions, i, active, FALSE, NewAccess(i, r.access, o.err), o.meta)
  OBVIOUS
<1>7. /\ tx'.versions = tx.versions \cup {n}
      /\ tx'.items = tx.items \cup {i}
      /\ tx'.hashes = tx.hashes /\ tx'.undo = tx.undo /\ tx'.scans = tx.scans
  BY <1>2, <1>3, <1>5, <1>6 DEF Stores
<1>8. StoreOK(tx) /\ StoreInv(tx, active) /\ active \in 1 .. Len(tx.scans)
  BY <1>1, ActiveStore DEF Visit, In, ScanInv
<1>9. \A q \in tx.versions : q.item = i => q.last < active
  BY <1>4, <1>8, LatestOld
<1>10. /\ n.item = i /\ n.first = active /\ n.last = active /\ n.val = 0
       /\ \A q \in tx.versions : q.item = i => q.ver < n.ver
  BY <1>6, <1>8, NextVerFresh DEF NewVersion
<1> QED
  BY <1>1, <1>7, <1>9, <1>10, InsertStep

LEMMA ConfirmItemInv ==
  ASSUME TypeInv, TypeInv', ScanInv, NEW i \in Items, NEW o \in Observations(i),
         ConfirmItem(i, o)
  PROVE  ScanInv'
<1>1. Visit(i)
  BY DEF ConfirmItem
<1>2. tx \in Stores
  BY DEF TypeInv, TypeOK
<1>3. PICK r \in Existing(i) :
        /\ ~r.del
        /\ tx' = [tx EXCEPT !.undo = tx.undo \cup {LogVersion(r)},
                            !.versions = SetLast(tx.versions, i, r.ver, active)]
  BY <1>2 DEF ConfirmItem, Stores
<1>4. r \in tx.versions /\ r.item = i /\ r.last # active /\ IsLatest(tx.versions, r)
  BY DEF Existing, Latest, RowsOf, IsLatest
<1>5. /\ tx'.versions = SetLast(tx.versions, r.item, r.ver, active)
      /\ tx'.items = tx.items
      /\ tx'.undo = tx.undo \cup {LogVersion(r)}
      /\ tx'.hashes = tx.hashes /\ tx'.scans = tx.scans
  BY <1>2, <1>3, <1>4 DEF Stores
<1>6. /\ StoreOK(tx) /\ StoreInv(tx, active) /\ active \in 1 .. Len(tx.scans)
      /\ tx.scans[active].state = "Scanning" /\ RootOf[r.item] = tx.scans[active].root
      /\ active # 0
  BY <1>1, <1>4, ActiveStore DEF Visit, In, ScanInv, state
<1>7. StoreOK(tx')
  BY DEF TypeInv, TypeOK, StoreOK
<1>8. \A q \in tx.versions : q.item = r.item => q.ver <= r.ver
  BY <1>4 DEF IsLatest
<1>9. /\ StoreInv(tx', active)
      /\ r.first < active /\ r.last = PrevCompleted(tx.scans, tx.scans[active].root, active)
      /\ Confirmed(tx, tx', r, active)
  BY <1>3, <1>4, <1>5, <1>6, <1>7, <1>8, ConfirmInv
<1>10. IsOpen(tx, active)
  BY <1>6 DEF IsOpen, InProgress
<1>11. Settled(tx', active) = Settled(tx, active)
  BY <1>4, <1>5, <1>6, <1>9, <1>10, ConfirmSettled
<1> QED
  BY <1>1, <1>5, <1>9, <1>11, WalkStep
-----------------------------------------------------------------------------
(* Committing *)

(***************************************************************************)
(* What a step can do to the database: leave it, write for the open scan   *)
(* without touching what was there before it, begin a scan, complete it,   *)
(* or take it back.                                                        *)
(***************************************************************************)
Quiet ==
  /\ db' = db
  /\ \/ active' = active
     \/ active' = 0 /\ ~IsOpen(db, active)

Steady ==
  /\ active' = active /\ active # 0
  /\ IsOpen(db, active) /\ IsOpen(db', active)
  /\ Settled(db', active) = Settled(db, active)
  /\ Moved(db.scans, db'.scans, active, state')

SameTables(d, e) ==
  e.versions = d.versions /\ e.hashes = d.hashes /\ e.items = d.items

Begins ==
  /\ active = 0
  /\ \E row \in ScanRow : row.state = "Scanning" /\ db'.scans = Append(db.scans, row)
  /\ active' = Len(db.scans) + 1
  /\ SameTables(db, db') /\ db'.undo = {}

Completes ==
  /\ active' = active /\ active # 0
  /\ db.scans[active].state = "AnalyzingScan"
  /\ Moved(db.scans, db'.scans, active, "Completed")
  /\ SameTables(db, db')

Discards ==
  /\ active' = active /\ active # 0 /\ IsOpen(db, active)
  /\ \E st \in Discarded : Moved(db.scans, db'.scans, active, st)
  /\ db'.versions = ClearVal(RolledVersions(db, active))
  /\ db'.hashes = RolledHashes(db, active)
  /\ db'.items = {i \in db.items : RowsOf(db'.versions, i) # {}}

LEMMA StayMoved ==
  ASSUME NEW scans \in Seq(ScanRow), NEW s
  PROVE  Moved(scans, scans, s, scans[s].state)
BY DEF Moved

\* A transaction of the open scan: the batch and the database become one.
LEMMA CommitStep ==
  ASSUME TypeInv', NEW d, Commit(d), StoreInv(d, active'), Swept(d, active'), ThreadInv'
  PROVE  ScanInv'
BY DEF Commit, ScanInv

LEMMA StateFields ==
  ASSUME NEW d, StoreOK(d), NEW s \in 1 .. Len(d.scans), NEW st \in ScanStates,
         NEW e, e = SetState(d, s, st)
  PROVE  /\ Moved(d.scans, e.scans, s, st)
         /\ e.versions = d.versions /\ e.hashes = d.hashes /\ e.items = d.items /\ e.undo = d.undo
<1>1. Moved(d.scans, [d.scans EXCEPT ![s].state = st], s, st)
  BY StateChange DEF StoreOK, Stores
<1>2. e.scans = [d.scans EXCEPT ![s].state = st]
  BY DEF SetState, StoreOK, Stores
<1> QED
  BY <1>1, <1>2 DEF SetState, StoreOK, Stores

LEMMA FlushInv ==
  ASSUME TypeInv, TypeInv', ScanInv, FlushBatch
  PROVE  ScanInv' /\ Steady
<1>1. tx.scans = db.scans
  BY DEF TypeInv
<1>2. /\ db' = tx /\ tx' = tx /\ active' = active /\ pc' = pc /\ intr' = intr /\ writes' = writes
      /\ tx # db
  BY DEF FlushBatch, Committed
<1>3. state' = state
  BY <1>1, <1>2 DEF state
<1>4. pc # "guard"
  BY <1>2 DEF ScanInv, ThreadInv, In
<1>5. ThreadInv'
  BY <1>2, <1>3, <1>4 DEF ScanInv, ThreadInv, In
<1>6. pc # "none" /\ state \in InProgress
  BY <1>2 DEF ScanInv, ThreadInv, In, InProgress
<1>7. /\ active # 0 /\ db.scans \in Seq(ScanRow)
      /\ IsOpen(db, active) /\ IsOpen(tx, active)
  BY <1>1, <1>6, ActiveStore DEF IsOpen, state
<1>8. Steady
  BY <1>1, <1>2, <1>3, <1>7, StayMoved DEF Steady, ScanInv, state
<1> QED
  BY <1>2, <1>5, <1>8 DEF ScanInv

\* The steps that only move the open scan to its next state.
LEMMA AdvanceStep ==
  ASSUME TypeInv, TypeInv', ScanInv, pc = "run", state \in InProgress,
         NEW st \in InProgress, st # "Scanning",
         Commit(SetState(db, active, st)), Swept(db', active),
         UNCHANGED <<active, pc, intr, writes>>
  PROVE  ScanInv' /\ Steady
<1>1. StoreOK(db) /\ active \in 1 .. Len(db.scans) /\ active # 0 /\ StoreInv(db, active)
  BY ActiveStore DEF ScanInv
<1>2. PICK e : e = SetState(db, active, st) /\ db' = e /\ tx' = e
  BY DEF Commit
<1>3. st \in ScanStates
  BY DEF InProgress, ScanStates
<1>4. /\ Moved(db.scans, e.scans, active, st)
      /\ e.versions = db.versions /\ e.hashes = db.hashes /\ e.items = db.items /\ e.undo = db.undo
  BY <1>1, <1>2, <1>3, StateFields
<1>5. StoreOK(e)
  BY <1>2 DEF TypeInv, TypeOK, StoreOK
<1>6. IsOpen(db, active)
  BY <1>1 DEF IsOpen, state
<1>7. StoreInv(e, active)
  BY <1>1, <1>4, <1>5, <1>6, AdvanceInv
<1>8. state' = st
  BY <1>2, <1>4 DEF Moved, state
<1>9. Settled(e, active) = Settled(db, active)
  BY <1>1, <1>4, AdvanceSettled
<1>10. ThreadInv'
  BY <1>2, <1>8 DEF ThreadInv, In
<1>11. IsOpen(e, active)
  BY <1>1, <1>4 DEF IsOpen, Moved
<1>12. Steady
  BY <1>1, <1>2, <1>4, <1>6, <1>8, <1>9, <1>11 DEF Steady
<1> QED
  BY <1>2, <1>7, <1>10, <1>12, CommitStep DEF Commit

LEMMA FinishWalkInv ==
  ASSUME TypeInv, TypeInv', ScanInv, FinishWalk
  PROVE  ScanInv' /\ Steady
<1>1. /\ pc = "run" /\ state = "Scanning" /\ Commit(SetState(db, active, "Sweeping"))
      /\ UNCHANGED <<active, pc, intr, writes>>
  BY DEF FinishWalk, In
<1>2. "Sweeping" \in InProgress /\ state \in InProgress
  BY <1>1 DEF InProgress
<1>3. "Sweeping" \in ScanStates
  BY DEF ScanStates, InProgress
<1>4. StoreOK(db) /\ active \in 1 .. Len(db.scans)
  BY <1>1, ActiveStore
<1>5. db'.scans[active].state = "Sweeping"
  BY <1>1, <1>3, <1>4, StateFields DEF Commit, Moved
<1>6. Swept(db', active)
  BY <1>5 DEF Swept
<1> QED
  BY <1>1, <1>2, <1>6, AdvanceStep

LEMMA FinishAnalysisInv ==
  ASSUME TypeInv, TypeInv', ScanInv, FinishAnalysis
  PROVE  ScanInv' /\ Steady
<1>1. /\ pc = "run" /\ state = "AnalyzingFiles" /\ Commit(SetState(db, active, "AnalyzingScan"))
      /\ UNCHANGED <<active, pc, intr, writes>>
  BY DEF FinishAnalysis, In
<1>2. "AnalyzingScan" \in InProgress /\ state \in InProgress
  BY <1>1 DEF InProgress
<1>3. "AnalyzingScan" \in ScanStates
  BY DEF ScanStates, InProgress
<1>4. StoreOK(db) /\ active \in 1 .. Len(db.scans)
  BY <1>1, ActiveStore
<1>5. /\ db'.versions = db.versions /\ db'.scans[active].root = db.scans[active].root
  BY <1>1, <1>3, <1>4, StateFields DEF Commit, Moved
<1>6. Swept(db', active)
  BY <1>1, <1>5 DEF Swept, ScanInv, state
<1> QED
  BY <1>1, <1>2, <1>6, AdvanceStep
-----------------------------------------------------------------------------
(* Sweeping *)

LEMMA SweepUnconfirmedInv ==
  ASSUME TypeInv, TypeInv', ScanInv, SweepUnconfirmed
  PROVE  ScanInv' /\ Steady
<1>1. /\ pc = "run" /\ state = "Sweeping"
      /\ Commit(SetState(Sweep(db, root, active), active, "AnalyzingFiles"))
      /\ UNCHANGED <<active, pc, intr, writes>>
  BY DEF SweepUnconfirmed, In
<1>2. /\ StoreOK(db) /\ active \in 1 .. Len(db.scans) /\ active \in Nat /\ active # 0
      /\ StoreInv(db, active) /\ root = db.scans[active].root
  BY <1>1, ActiveStore DEF ScanInv
<1>3. IsOpen(db, active)
  BY <1>1, <1>2 DEF IsOpen, state, InProgress
<1>4. PICK m : m = Sweep(db, root, active)
  OBVIOUS
<1>5. StoreOK(m) /\ m.scans = db.scans
  BY <1>2, <1>4, SweepOK
<1>6. /\ m.versions = db.versions \cup Tombstones(db, Unconfirmed(db, root, active), active)
      /\ m.hashes = db.hashes /\ m.items = db.items /\ m.undo = db.undo
  BY <1>2, <1>4 DEF Sweep, Tombstones, StoreOK, Stores
<1>7. /\ StoreInv(m, active)
      /\ \A r \in m.versions :
           RootOf[r.item] = root /\ ~r.del =>
             r.last = active \/ \E q \in m.versions : q.item = r.item /\ r.ver < q.ver
  BY <1>2, <1>3, <1>5, <1>6, SweepInv
<1>8. Settled(m, active) = Settled(db, active)
  <2>1. \A w \in Tombstones(db, Unconfirmed(db, root, active), active) : w.first = active
    BY DEF Tombstones, NewVersion
  <2>2. /\ db.versions \subseteq m.versions
        /\ \A w \in m.versions : w \in db.versions \/ w.first = active
    BY <1>6, <2>1
  <2> QED
    BY <1>2, <1>5, <1>6, <2>2, InsertSettled
<1>9. PICK e : e = SetState(m, active, "AnalyzingFiles") /\ db' = e /\ tx' = e
  BY <1>1, <1>4 DEF Commit
<1>10. "AnalyzingFiles" \in InProgress /\ "AnalyzingFiles" \in ScanStates
  BY DEF InProgress, ScanStates
<1>11. active \in 1 .. Len(m.scans) /\ IsOpen(m, active)
  BY <1>2, <1>3, <1>5 DEF IsOpen
<1>12. /\ Moved(m.scans, e.scans, active, "AnalyzingFiles")
       /\ e.versions = m.versions /\ e.hashes = m.hashes /\ e.items = m.items /\ e.undo = m.undo
  BY <1>5, <1>9, <1>10, <1>11, StateFields
<1>13. StoreOK(e)
  BY <1>9 DEF TypeInv, TypeOK, StoreOK
<1>14. StoreInv(e, active)
  BY <1>5, <1>7, <1>10, <1>11, <1>12, <1>13, AdvanceInv
<1>15. Settled(e, active) = Settled(m, active)
  BY <1>5, <1>11, <1>12, AdvanceSettled
<1>16. e.scans[active].root = root /\ state' = "AnalyzingFiles"
  BY <1>1, <1>2, <1>5, <1>9, <1>11, <1>12 DEF Moved, state
<1>17. Swept(e, active)
  BY <1>7, <1>12, <1>16 DEF Swept
<1>18. ThreadInv'
  BY <1>1, <1>9, <1>16 DEF ThreadInv, In
<1>19. IsOpen(e, active)
  BY <1>2, <1>10, <1>11, <1>12 DEF IsOpen, Moved
<1>20. Moved(db.scans, e.scans, active, "AnalyzingFiles")
  BY <1>5, <1>12
<1>21. Steady
  BY <1>1, <1>2, <1>3, <1>8, <1>9, <1>15, <1>16, <1>19, <1>20 DEF Steady
<1> QED
  BY <1>1, <1>9, <1>14, <1>17, <1>18, <1>21, CommitStep DEF Commit
-----------------------------------------------------------------------------
(* Analyzing files *)

\* The rows persist_access gets wrong or right depend on no column it did not read.
LEMMA SamePersistAccess ==
  ASSUME NEW vs, NEW r, NEW n, NEW access, NEW s, NEW p,
         n.item = r.item, n.ver = r.ver, n.first = r.first, n.access = r.access,
         n.meta = r.meta
  PROVE  PersistAccess(vs, r, access, s, p) = PersistAccess(vs, n, access, s, p)
<1>1. NewVersion(vs, r.item, s, FALSE, access, r.meta) =
        NewVersion(vs, n.item, s, FALSE, access, n.meta)
  OBVIOUS
<1>2. SetAccess(vs, r.item, r.ver, access) = SetAccess(vs, n.item, n.ver, access)
  OBVIOUS
<1>3. SetLast(vs, r.item, r.ver, p) = SetLast(vs, n.item, n.ver, p)
  OBVIOUS
<1> HIDE DEF NewVersion, SetAccess, SetLast
<1> QED
  BY <1>1, <1>2, <1>3 DEF PersistAccess, CloseAndSucceed

\* persist_analysis: e is d with the hash of h, a validation or none, and an access.
Persisted(d, h, e, r, s) ==
  /\ e.scans = h.scans /\ e.hashes = h.hashes /\ e.items = h.items /\ e.undo = h.undo
  /\ \E vs, access :
       /\ vs = h.versions \/ vs = SetVal(h.versions, r.item, r.ver, s)
       /\ access \in Accesses
       /\ e.versions = PersistAccess(vs, r, access, s,
                         PrevCompleted(d.scans, d.scans[s].root, s))

LEMMA PersistInv ==
  ASSUME NEW d, StoreOK(d), NEW s \in 1 .. Len(d.scans), StoreInv(d, s), Swept(d, s),
         d.scans[s].state = "AnalyzingFiles",
         NEW r \in d.versions, RootOf[r.item] = d.scans[s].root, ~r.del, r.last = s,
         NEW h, StoreOK(h), StoreInv(h, s), HashStep(d, h, s),
         h.scans = d.scans, h.versions = d.versions, h.items = d.items,
         NEW e, StoreOK(e), Persisted(d, h, e, r, s)
  PROVE  StoreInv(e, s) /\ Swept(e, s) /\ Settled(e, s) = Settled(d, s)
<1>1. s \in Nat /\ IsOpen(d, s) /\ IsOpen(h, s)
  BY RowTypes DEF IsOpen, InProgress
<1>2. Swept(h, s) /\ s \in 1 .. Len(h.scans) /\ r \in h.versions
  BY DEF Swept
<1>3. PICK p : p = PrevCompleted(d.scans, d.scans[s].root, s)
  OBVIOUS
<1>4. PICK vs, access :
        /\ vs = h.versions \/ vs = SetVal(h.versions, r.item, r.ver, s)
        /\ access \in Accesses
        /\ e.versions = PersistAccess(vs, r, access, s, p)
  BY <1>3 DEF Persisted
<1>5. Table(vs)
  BY <1>1, <1>4, SetValTable DEF StoreOK, Stores, Table
<1>6. \E m : StoreOK(m) /\ m.versions = vs /\ Validated(h, m, r, s)
  <2>1. PICK m : m = [h EXCEPT !.versions = vs]
    OBVIOUS
  <2>2. StoreOK(m)
    BY <1>5, <2>1 DEF StoreOK, Stores, Table
  <2> QED
    BY <1>4, <2>1, <2>2 DEF StoreOK, Stores, Validated
<1>7. PICK m : StoreOK(m) /\ m.versions = vs /\ Validated(h, m, r, s)
  BY <1>6
<1>8. /\ StoreInv(m, s) /\ Swept(m, s) /\ SameBefore(h, m, s)
      /\ \E n \in m.versions : SameColumns(n, r)
  BY <1>1, <1>2, <1>7, PersistValInv
<1>9. PICK n \in m.versions :
        /\ n.item = r.item /\ n.ver = r.ver /\ n.first = r.first /\ n.last = r.last
        /\ n.del = r.del /\ n.access = r.access /\ n.meta = r.meta
  BY <1>8 DEF SameColumns
<1>10. PersistAccess(vs, r, access, s, p) = PersistAccess(vs, n, access, s, p)
  BY <1>9, SamePersistAccess
<1>11. /\ m.hashes = h.hashes /\ m.items = h.items /\ m.undo = h.undo /\ m.scans = h.scans
       /\ e.hashes = h.hashes /\ e.items = h.items /\ e.undo = h.undo /\ e.scans = h.scans
  BY <1>7 DEF Validated, Persisted
<1>12. /\ s \in 1 .. Len(m.scans) /\ m.scans[s].state = "AnalyzingFiles"
       /\ RootOf[n.item] = m.scans[s].root /\ ~n.del /\ n.last = s
       /\ p = PrevCompleted(m.scans, m.scans[s].root, s)
  BY <1>3, <1>9, <1>11
<1>13. e.versions = PersistAccess(m.versions, n, access, s, p)
  BY <1>4, <1>7, <1>10
<1>14. /\ StoreInv(e, s) /\ Swept(e, s)
       /\ Before(e.versions, s, p) = Before(m.versions, s, p)
  BY <1>4, <1>7, <1>8, <1>11, <1>12, <1>13, PersistAccessInv
<1>15. HashStep(d, e, s)
  BY <1>11 DEF HashStep, HashAdded, HashConfirmed
<1>16. RolledHashes(e, s) = RolledHashes(d, s)
  BY <1>1, <1>15, HashStepSettled
<1>17. Before(e.versions, s, p) = Before(d.versions, s, p)
  BY <1>8, <1>14 DEF SameBefore
<1>18. e.scans = d.scans
  BY <1>11
<1> QED
  BY <1>3, <1>14, <1>16, <1>17, <1>18 DEF Settled

LEMMA AnalyzeInv ==
  ASSUME TypeInv, TypeInv', ScanInv, NEW r \in db.versions, Analyze(r)
  PROVE  ScanInv' /\ Steady
<1>1. /\ pc = "run" /\ state = "AnalyzingFiles" /\ r \in Candidates
      /\ UNCHANGED <<active, pc, intr, writes>>
  BY DEF Analyze, In
<1>2. /\ StoreOK(db) /\ active \in 1 .. Len(db.scans) /\ active \in Nat /\ active # 0
      /\ StoreInv(db, active) /\ Swept(db, active) /\ root = db.scans[active].root
      /\ db.scans[active].state = "AnalyzingFiles"
  BY <1>1, ActiveStore DEF ScanInv, state
<1>3. IsOpen(db, active)
  BY <1>2 DEF IsOpen, InProgress
<1>4. RootOf[r.item] = db.scans[active].root /\ r.last = active /\ ~r.del
  BY <1>1, <1>2 DEF Candidates
<1>5. r.access \in Accesses
  BY <1>2, RowTypes DEF VersionRow
<1>6. PICK p : p = PrevCompleted(db.scans, db.scans[active].root, active)
  OBVIOUS
<1>7. PICK hr \in HashReads(r) : \E vr \in ValReads(r, hr) :
        LET missing == "missing" \in {hr, vr}
            hashed == IF missing THEN db ELSE PersistHash(db, r, hr, active)
            valued == IF missing THEN db.versions ELSE PersistVal(db.versions, r, vr, active)
        IN Commit([hashed EXCEPT !.versions =
             PersistAccess(valued, r, AccessAfter(r.access, hr, vr), active, p)])
  BY <1>2, <1>6 DEF Analyze
<1>8. PICK vr \in ValReads(r, hr) :
        LET missing == "missing" \in {hr, vr}
            hashed == IF missing THEN db ELSE PersistHash(db, r, hr, active)
            valued == IF missing THEN db.versions ELSE PersistVal(db.versions, r, vr, active)
        IN Commit([hashed EXCEPT !.versions =
             PersistAccess(valued, r, AccessAfter(r.access, hr, vr), active, p)])
  BY <1>7
<1>9. PICK access : access = AccessAfter(r.access, hr, vr)
  OBVIOUS
<1>10. access \in Accesses
  BY <1>5, <1>9 DEF AccessAfter, Accesses
<1>11. \/ hr \notin Hashes
       \/ CurrentHash(db.hashes, r.item, r.ver) = {}
       \/ \E g \in CurrentHash(db.hashes, r.item, r.ver) : g.last < active
  <2>1. CASE NeedsHash(r)
    BY <2>1 DEF NeedsHash
  <2>2. CASE ~NeedsHash(r)
    <3>1. hr = "skipped"
      BY <2>2 DEF HashReads
    <3> QED
      BY <3>1, LifecycleAssumption
  <2> QED
    BY <2>1, <2>2
<1>12. PICK ph : ph = PersistHash(db, r, hr, active)
  OBVIOUS
<1>13. /\ StoreInv(ph, active) /\ StoreOK(ph) /\ HashStep(db, ph, active)
       /\ ph.scans = db.scans /\ ph.versions = db.versions /\ ph.items = db.items
  BY <1>2, <1>3, <1>4, <1>11, <1>12, PersistHashInv
<1>14. HashStep(db, db, active)
  BY DEF HashStep
<1>15. PICK h : /\ h = db \/ h = ph
                /\ \E vs : /\ vs = db.versions \/ vs = SetVal(db.versions, r.item, r.ver, active)
                           /\ Commit([h EXCEPT !.versions =
                                PersistAccess(vs, r, access, active, p)])
  <2>1. CASE "missing" \in {hr, vr}
    BY <1>8, <1>9, <2>1
  <2>2. CASE "missing" \notin {hr, vr}
    BY <1>8, <1>9, <1>12, <2>2 DEF PersistVal
  <2> QED
    BY <2>1, <2>2
<1>16. PICK vs : /\ vs = db.versions \/ vs = SetVal(db.versions, r.item, r.ver, active)
                 /\ Commit([h EXCEPT !.versions = PersistAccess(vs, r, access, active, p)])
  BY <1>15
<1>17. /\ StoreInv(h, active) /\ StoreOK(h) /\ HashStep(db, h, active)
       /\ h.scans = db.scans /\ h.versions = db.versions /\ h.items = db.items
  BY <1>2, <1>13, <1>14, <1>15
<1>18. PICK e : /\ e = [h EXCEPT !.versions = PersistAccess(vs, r, access, active, p)]
                /\ db' = e /\ tx' = e
  BY <1>16 DEF Commit
<1>19. StoreOK(e)
  BY <1>18 DEF TypeInv, TypeOK, StoreOK
<1>20. StoreInv(e, active) /\ Swept(e, active) /\ Settled(e, active) = Settled(db, active)
  <2>1. /\ e.versions = PersistAccess(vs, r, access, active, p)
        /\ e.hashes = h.hashes /\ e.items = h.items /\ e.undo = h.undo /\ e.scans = h.scans
    BY <1>17, <1>18 DEF StoreOK, Stores
  <2>2. Persisted(db, h, e, r, active)
    BY <1>6, <1>10, <1>16, <1>17, <2>1 DEF Persisted
  <2> QED
    BY <1>2, <1>4, <1>17, <1>19, <2>2, PersistInv
<1>21. state' = "AnalyzingFiles"
  BY <1>1, <1>2, <1>17, <1>18 DEF state, StoreOK, Stores
<1>22. ThreadInv'
  BY <1>1, <1>18, <1>21 DEF ThreadInv, In
<1>23. e.scans = db.scans /\ db.scans \in Seq(ScanRow)
  BY <1>2, <1>17, <1>18, RowTypes DEF StoreOK, Stores
<1>24. IsOpen(e, active)
  BY <1>3, <1>23 DEF IsOpen
<1>25. Moved(db.scans, e.scans, active, "AnalyzingFiles")
  BY <1>2, <1>23, StayMoved
<1>26. Steady
  BY <1>1, <1>2, <1>3, <1>18, <1>20, <1>21, <1>24, <1>25 DEF Steady
<1> QED
  BY <1>1, <1>18, <1>20, <1>22, <1>26, CommitStep DEF Commit
-----------------------------------------------------------------------------
(* Folder counts *)

LEMMA WalkFolderCountsInv ==
  ASSUME TypeInv, TypeInv', ScanInv, WalkFolderCounts
  PROVE  ScanInv'
<1>1. /\ pc = "run" /\ state = "AnalyzingScan" /\ pc' = "apply"
      /\ UNCHANGED <<db, tx, active, intr>>
      /\ writes' = FoldersToWrite(db.versions, root, active)
  BY DEF WalkFolderCounts, In
<1>2. /\ StoreOK(db) /\ active \in 1 .. Len(db.scans) /\ StoreInv(db, active)
      /\ root = db.scans[active].root
  BY <1>1, ActiveStore DEF ScanInv
<1>3. tx = db
  BY <1>1 DEF ScanInv, ThreadInv, In
<1>4. ToWrite(db, active, FoldersToWrite(db.versions, root, active))
  BY <1>2, ToWriteFound
<1>5. state' = state
  BY <1>1 DEF state
<1>6. ThreadInv'
  BY <1>1, <1>3, <1>4, <1>5 DEF ThreadInv, In
<1> QED
  BY <1>1, <1>6 DEF ScanInv

LEMMA ApplyFolderWriteInv ==
  ASSUME TypeInv, TypeInv', ScanInv, NEW f \in Dirs, ApplyFolderWrite(f)
  PROVE  ScanInv'
<1>1. /\ pc = "apply" /\ f \in writes /\ writes' = writes \ {f}
      /\ UNCHANGED <<db, active, pc, intr>>
  BY DEF ApplyFolderWrite
<1>2. /\ StoreOK(tx) /\ tx.scans = db.scans /\ active \in 1 .. Len(tx.scans)
      /\ root = tx.scans[active].root /\ active \in Nat \ {0}
  BY <1>1, ActiveStore
<1>3. state = "AnalyzingScan" /\ tx.scans[active].state = "AnalyzingScan"
  BY <1>1, <1>2 DEF ScanInv, ThreadInv, state
<1>4. StoreInv(tx, active) /\ Swept(tx, active) /\ ToWrite(tx, active, writes)
  BY <1>1 DEF ScanInv, ThreadInv
<1>5. PICK p : p = PrevCompleted(tx.scans, tx.scans[active].root, active)
  OBVIOUS
<1>6. /\ tx'.versions = WriteFolder(tx.versions, f, active, p)
      /\ tx'.hashes = tx.hashes /\ tx'.items = tx.items /\ tx'.undo = tx.undo
      /\ tx'.scans = tx.scans
  BY <1>2, <1>5 DEF ApplyFolderWrite, StoreOK, Stores
<1>7. StoreOK(tx')
  BY DEF TypeInv, TypeOK, StoreOK
<1>8. f \in Items /\ RootOf[f] = tx.scans[active].root
      /\ \E r \in Latest(tx.versions, f) : r.first = active \/ ~r.del
  BY <1>1, <1>4, StoreAssumption DEF ToWrite
<1>9. /\ StoreInv(tx', active) /\ Swept(tx', active)
      /\ tx'.versions = tx.versions \/ Succeeded(tx, tx', active, p, f)
      /\ \A g : g # f => RowsOf(tx'.versions, g) = RowsOf(tx.versions, g)
  BY <1>2, <1>3, <1>4, <1>5, <1>6, <1>7, <1>8, WriteFolderInv
<1>10. p \in Nat /\ p < active
  BY <1>2, <1>5, RowTypes, PrevCompletedEarlier
<1>11. Before(tx'.versions, active, p) = Before(tx.versions, active, p)
  <2>1. CASE tx'.versions = tx.versions
    BY <2>1
  <2>2. CASE Succeeded(tx, tx', active, p, f)
    BY <1>2, <1>10, <2>2, BeforeSucceeded
  <2> QED
    BY <1>9, <2>1, <2>2
<1>12. RolledHashes(tx', active) = RolledHashes(tx, active)
  BY <1>6, RolledSame
<1>13. Settled(tx', active) = Settled(tx, active)
  BY <1>5, <1>6, <1>11, <1>12 DEF Settled
<1>14. ToWrite(tx', active, writes \ {f})
  BY <1>4, <1>6, <1>9, ToWriteKept
<1>15. state' = state
  BY <1>1 DEF state
<1>16. ThreadInv'
  BY <1>1, <1>3, <1>14, <1>15 DEF ThreadInv, In
<1> QED
  BY <1>1, <1>9, <1>13, <1>16 DEF ScanInv
-----------------------------------------------------------------------------
(* The end of a scan *)

LEMMA CompleteStep ==
  ASSUME TypeInv, TypeInv', ScanInv, Complete
  PROVE  ScanInv' /\ Completes
<1>1. /\ pc = "apply" /\ tx = db /\ pc' = "closing"
      /\ Commit([SetState(db, active, "Completed") EXCEPT !.undo = {}])
      /\ UNCHANGED <<active, intr, writes>>
  BY DEF Complete, Committed
<1>2. /\ StoreOK(db) /\ active \in 1 .. Len(db.scans) /\ active # 0
      /\ StoreInv(db, active) /\ Swept(db, active)
  BY <1>1, ActiveStore DEF ScanInv
<1>3. db.scans[active].state = "AnalyzingScan"
  BY <1>1 DEF ScanInv, ThreadInv, state
<1>4. PICK m : m = SetState(db, active, "Completed")
  OBVIOUS
<1>5. /\ Moved(db.scans, m.scans, active, "Completed")
      /\ m.versions = db.versions /\ m.hashes = db.hashes /\ m.items = db.items
  BY <1>2, <1>4, StateFields DEF ScanStates
<1>6. PICK e : e = [m EXCEPT !.undo = {}] /\ db' = e /\ tx' = e
  BY <1>1, <1>4 DEF Commit
<1>7. StoreOK(e)
  BY <1>6 DEF TypeInv, TypeOK, StoreOK
<1>8. m \in Stores
  BY <1>2, <1>4, SetStateOK DEF StoreOK, ScanStates
<1>9. /\ Moved(db.scans, e.scans, active, "Completed")
      /\ e.versions = db.versions /\ e.hashes = db.hashes /\ e.items = db.items /\ e.undo = {}
  BY <1>5, <1>6, <1>8 DEF Stores
<1>10. StoreInv(e, active) /\ ~IsOpen(e, active)
  BY <1>2, <1>3, <1>7, <1>9, CompleteInv
<1>11. e.scans[active].state = "Completed" /\ state' = "Completed"
  BY <1>1, <1>6, <1>9 DEF Moved, state
<1>12. Swept(e, active)
  BY <1>11 DEF Swept
<1>13. ThreadInv'
  BY <1>1, <1>6, <1>11 DEF ThreadInv, In, InProgress
<1>14. Completes
  BY <1>1, <1>2, <1>3, <1>6, <1>9 DEF Completes, SameTables
<1> QED
  BY <1>1, <1>6, <1>10, <1>12, <1>13, <1>14, CommitStep DEF Commit

LEMMA RollBackStep ==
  ASSUME TypeInv, TypeInv', ScanInv, pc # "none", state \in InProgress,
         NEW st \in Discarded, RollBackTo(st),
         active' = active, pc' = "closing"
  PROVE  ScanInv' /\ Discards
<1>1. Commit(SetState(Rollback(db, active), active, st))
  BY DEF RollBackTo
<1>2. /\ StoreOK(db) /\ active \in 1 .. Len(db.scans) /\ active # 0
      /\ StoreInv(db, active)
  BY ActiveStore DEF ScanInv
<1>3. IsOpen(db, active)
  BY <1>2 DEF IsOpen, state
<1>4. PICK m : m = Rollback(db, active)
  OBVIOUS
<1>5. StoreOK(m) /\ m.scans = db.scans
  BY <1>2, <1>4, RollbackOK
<1>6. /\ m.versions = ClearVal(RolledVersions(db, active))
      /\ m.hashes = RolledHashes(db, active)
      /\ m.items = {i \in db.items : RowsOf(m.versions, i) # {}}
      /\ m.undo = {}
  BY <1>2, <1>4 DEF Rollback, StoreOK, Stores
<1>7. PICK e : e = SetState(m, active, st) /\ db' = e /\ tx' = e
  BY <1>1, <1>4 DEF Commit
<1>8. st \in ScanStates /\ active \in 1 .. Len(m.scans)
  BY <1>2, <1>5 DEF ScanStates
<1>9. /\ Moved(m.scans, e.scans, active, st)
      /\ e.versions = m.versions /\ e.hashes = m.hashes /\ e.items = m.items /\ e.undo = m.undo
  BY <1>5, <1>7, <1>8, StateFields
<1>10. StoreOK(e)
  BY <1>7 DEF TypeInv, TypeOK, StoreOK
<1>11. Moved(db.scans, e.scans, active, st)
  BY <1>5, <1>9
<1>12. /\ e.versions = ClearVal(RolledVersions(db, active))
       /\ e.hashes = RolledHashes(db, active)
       /\ e.items = {i \in db.items : RowsOf(e.versions, i) # {}}
       /\ e.undo = {}
  BY <1>6, <1>9
<1>13. StoreInv(e, active) /\ ~IsOpen(e, active)
  BY <1>2, <1>3, <1>10, <1>11, <1>12, RollbackInv
<1>14. e.scans[active].state = st /\ state' = st
  BY <1>7, <1>9 DEF Moved, state
<1>15. Swept(e, active) /\ st \notin InProgress
  BY <1>14 DEF Swept, Discarded, InProgress
<1>16. ThreadInv'
  BY <1>7, <1>14, <1>15 DEF ThreadInv, In
<1>17. Discards
  BY <1>2, <1>3, <1>7, <1>11, <1>12 DEF Discards
<1> QED
  BY <1>7, <1>13, <1>15, <1>16, <1>17, CommitStep DEF Commit

LEMMA RollBackToInv ==
  ASSUME TypeInv, TypeInv', ScanInv, OnStopped \/ OnError
  PROVE  ScanInv' /\ (Quiet \/ Discards)
<1>1. CASE OnError
  <2>1. pc = "failing" /\ RollBackTo("Error") /\ active' = active /\ pc' = "closing"
    BY <1>1 DEF OnError
  <2>2. state \in InProgress
    BY <2>1 DEF ScanInv, ThreadInv
  <2> QED
    BY <2>1, <2>2, RollBackStep DEF Discarded
<1>2. CASE OnStopped /\ state \in InProgress
  <2>1. pc = "stopping" /\ RollBackTo("Stopped") /\ active' = active /\ pc' = "closing"
    BY <1>2 DEF OnStopped
  <2> QED
    BY <1>2, <2>1, RollBackStep DEF Discarded
<1>3. CASE OnStopped /\ state \notin InProgress
  <2>1. pc = "stopping" /\ UNCHANGED <<db, tx, active, intr>> /\ pc' = "closing"
    BY <1>3 DEF OnStopped
  <2>2. state' = state
    BY <2>1 DEF state
  <2>3. tx = db
    BY <2>1 DEF ScanInv, ThreadInv, In
  <2>4. ThreadInv'
    BY <1>3, <2>1, <2>2, <2>3 DEF ThreadInv, In
  <2> QED
    BY <2>1, <2>4 DEF ScanInv, Quiet
<1> QED
  BY <1>1, <1>2, <1>3
-----------------------------------------------------------------------------
(* The beginning of a scan, and of a run of its task *)

LEMMA StartScanInv ==
  ASSUME TypeInv, TypeInv', ScanInv, NEW r \in Roots, NEW spec \in AnalysisSpecs,
         StartScan(r, spec)
  PROVE  ScanInv' /\ Begins
<1>1. /\ pc = "none" /\ active = 0 /\ active' = Len(db.scans) + 1 /\ pc' = "guard"
      /\ UNCHANGED <<intr, writes>>
  BY DEF StartScan
<1>2. StoreOK(db) /\ StoreInv(db, 0)
  BY <1>1 DEF ScanInv, TypeInv, TypeOK, StoreOK
<1>3. PICK row : row = [root |-> r, state |-> "Scanning", hash |-> spec.hash, val |-> spec.val]
  OBVIOUS
<1>4. spec.hash \in HashModes /\ spec.val \in BOOLEAN
  BY LifecycleAssumption
<1>5. row \in ScanRow /\ row.state = "Scanning"
  BY <1>3, <1>4 DEF ScanRow, ScanStates, InProgress
<1>6. PICK e : e = [db EXCEPT !.scans = Append(db.scans, row)] /\ db' = e /\ tx' = e
  <2>1. Commit([db EXCEPT !.scans = Append(db.scans, row)])
    BY <1>2, <1>3 DEF StartScan, StoreOK, Stores
  <2> QED
    BY <2>1 DEF Commit
<1>7. /\ e.scans = Append(db.scans, row) /\ e.versions = db.versions /\ e.hashes = db.hashes
      /\ e.items = db.items /\ e.undo = db.undo
  BY <1>2, <1>6 DEF StoreOK, Stores
<1>8. StoreOK(e)
  BY <1>6 DEF TypeInv, TypeOK, StoreOK
<1>9. StoreInv(e, Len(db.scans) + 1)
  BY <1>2, <1>5, <1>7, <1>8, StartInv
<1>10. db.scans \in Seq(ScanRow)
  BY <1>2, RowTypes
<1>11. e.scans[Len(db.scans) + 1] = row
  BY <1>5, <1>7, <1>10
<1>12. state' = "Scanning"
  BY <1>1, <1>5, <1>6, <1>11 DEF state
<1>13. Swept(e, active')
  BY <1>1, <1>5, <1>11 DEF Swept
<1>14. e.undo = {}
  BY <1>2, <1>7 DEF StoreInv, IsOpen
<1>15. ThreadInv'
  BY <1>1, <1>6, <1>12, <1>14 DEF ThreadInv, In
<1>16. Begins
  BY <1>1, <1>5, <1>6, <1>7, <1>14 DEF Begins, SameTables
<1> QED
  BY <1>1, <1>6, <1>9, <1>13, <1>15, <1>16, CommitStep DEF Commit

LEMMA GuardUndoInv ==
  ASSUME TypeInv, TypeInv', ScanInv, GuardUndo
  PROVE  ScanInv' /\ Quiet
<1>1. /\ pc = "guard" /\ pc' = "run" /\ UNCHANGED <<active, intr, writes>>
      /\ db' = [db EXCEPT !.undo = {}] /\ tx' = [db EXCEPT !.undo = {}]
  BY DEF GuardUndo, Commit
<1>2. db.undo = {} /\ state = "Scanning" /\ tx = db
  BY <1>1 DEF ScanInv, ThreadInv, In
<1>3. db' = db /\ tx' = tx
  BY <1>1, <1>2 DEF TypeInv, TypeOK, Stores
<1>4. state' = state
  BY <1>1, <1>3 DEF state
<1>5. ThreadInv'
  BY <1>1, <1>2, <1>3, <1>4 DEF ThreadInv, In
<1> QED
  BY <1>1, <1>3, <1>5 DEF ScanInv, Quiet

LEMMA DroppedInv ==
  ASSUME TypeInv, TypeInv', ScanInv, db' = db, tx' \in {tx, db}, active' = active, ThreadInv'
  PROVE  ScanInv' /\ Quiet
BY DEF ScanInv, Quiet

LEMMA CloseTaskInv ==
  ASSUME TypeInv, TypeInv', ScanInv, CloseTask
  PROVE  ScanInv' /\ Quiet
<1>1. /\ pc = "closing" /\ pc' = "none" /\ writes' = {} /\ UNCHANGED <<db, tx>>
      /\ active' = IF intr = "pause" THEN active ELSE 0
  BY DEF CloseTask
<1>2. tx = db
  BY <1>1 DEF ScanInv, ThreadInv, In
<1>3. ThreadInv'
  BY <1>1, <1>2 DEF ThreadInv
<1>4. CASE intr = "pause"
  BY <1>1, <1>3, <1>4, DroppedInv
<1>5. CASE intr # "pause"
  <2>1. state \notin InProgress
    BY <1>1, <1>5 DEF ScanInv, ThreadInv
  <2>2. ~IsOpen(db, active)
    BY <2>1 DEF IsOpen, state
  <2>3. StoreOK(db) /\ StoreInv(db, active)
    BY DEF TypeInv, TypeOK, StoreOK, ScanInv
  <2>4. StoreInv(db, 0)
    BY <2>2, <2>3, EndInv
  <2>5. Swept(db, 0)
    BY DEF Swept
  <2> QED
    BY <1>1, <1>2, <1>3, <1>5, <2>2, <2>4, <2>5 DEF ScanInv, Quiet
<1> QED
  BY <1>4, <1>5

\* The steps of the thread, and what happens to it, that write nothing.
LEMMA ThreadStepInv ==
  ASSUME TypeInv, TypeInv', ScanInv,
         ResumeScan \/ FallThrough \/ Interrupted \/ Fail \/ RequestStop \/ RequestPause \/ Crash
  PROVE  ScanInv' /\ Quiet
<1>1. db' = db /\ tx' \in {tx, db} /\ active' = active
  BY DEF ResumeScan, FallThrough, Interrupted, Fail, RequestStop, RequestPause, Crash
<1>2. state' = state
  BY <1>1 DEF state
<1>3. ThreadInv
  BY DEF ScanInv
<1>4. ThreadInv'
  <2>1. CASE ResumeScan
    BY <1>2, <1>3, <2>1 DEF ResumeScan, ThreadInv, In
  <2>2. CASE FallThrough
    BY <1>2, <1>3, <2>2 DEF FallThrough, ThreadInv, In, InProgress
  <2>3. CASE Interrupted
    BY <1>1, <1>2, <1>3, <2>3 DEF Interrupted, ThreadInv, In, Committed
  <2>4. CASE Fail
    BY <1>1, <1>2, <1>3, <2>4 DEF Fail, ThreadInv, In
  <2>5. CASE RequestStop
    BY <1>1, <1>2, <1>3, <2>5 DEF RequestStop, ThreadInv, In
  <2>6. CASE RequestPause
    BY <1>1, <1>2, <1>3, <2>6 DEF RequestPause, ThreadInv, In
  <2>7. CASE Crash
    BY <1>1, <1>2, <1>3, <2>7 DEF Crash, ThreadInv, In
  <2> QED
    BY <2>1, <2>2, <2>3, <2>4, <2>5, <2>6, <2>7
<1> QED
  BY <1>1, <1>4, DroppedInv
-----------------------------------------------------------------------------
(* Every step keeps the invariant. *)

LEMMA InitScanInv == Init => ScanInv
<1> SUFFICES ASSUME Init
             PROVE  ScanInv
  OBVIOUS
<1>1. db = EmptyStore /\ tx = EmptyStore /\ active = 0 /\ pc = "none" /\ writes = {}
  BY DEF Init
<1>2. /\ EmptyStore.items = {} /\ EmptyStore.versions = {} /\ EmptyStore.hashes = {}
      /\ EmptyStore.undo = {} /\ EmptyStore.scans = << >>
  BY DEF EmptyStore
<1>3. OnlyOpen(EmptyStore.scans, 0)
  BY <1>2 DEF OnlyOpen
<1>4. /\ Keyed(EmptyStore.versions) /\ Ordered(EmptyStore.versions)
      /\ Within(EmptyStore.versions, EmptyStore.scans)
      /\ Gapless(EmptyStore.versions, EmptyStore.scans)
  BY <1>2 DEF Keyed, Ordered, Within, Gapless
<1>5. Named(EmptyStore)
  BY <1>2 DEF Named
<1>6. /\ HashKeyed(EmptyStore.hashes) /\ HashOrdered(EmptyStore.hashes)
      /\ HashWithin(EmptyStore.hashes, EmptyStore.scans)
  BY <1>2 DEF HashKeyed, HashOrdered, HashWithin
<1>7. ~IsOpen(EmptyStore, 0)
  BY DEF IsOpen
<1>8. StoreInv(EmptyStore, 0)
  BY <1>2, <1>3, <1>4, <1>5, <1>6, <1>7 DEF StoreInv
<1>9. Swept(EmptyStore, 0)
  BY DEF Swept
<1>10. ThreadInv
  BY <1>1 DEF ThreadInv
<1> QED
  BY <1>1, <1>8, <1>9, <1>10 DEF ScanInv

LEMMA NextScanInv ==
  ASSUME TypeInv, TypeInv', ScanInv, [Next]_vars
  PROVE  ScanInv' /\ (Quiet \/ Steady \/ Begins \/ Completes \/ Discards)
<1>1. CASE Walk
  <2>1. ScanInv'
    BY <1>1, AddItemInv, ReplaceItemInv, ConfirmItemInv DEF Walk
  <2>2. Quiet
    BY <1>1 DEF Walk, AddItem, RehydrateItem, ModifyItem, ConfirmItem, Visit, Quiet
  <2> QED
    BY <2>1, <2>2
<1>2. CASE FlushBatch \/ FinishWalk \/ SweepUnconfirmed \/ FinishAnalysis
  BY <1>2, FlushInv, FinishWalkInv, SweepUnconfirmedInv, FinishAnalysisInv
<1>3. CASE \E r \in db.versions : Analyze(r)
  BY <1>3, AnalyzeInv
<1>4. CASE WalkFolderCounts \/ \E f \in Dirs : ApplyFolderWrite(f)
  <2>1. Quiet
    BY <1>4 DEF WalkFolderCounts, ApplyFolderWrite, Quiet
  <2> QED
    BY <1>4, <2>1, WalkFolderCountsInv, ApplyFolderWriteInv
<1>5. CASE Complete \/ OnStopped \/ OnError
  BY <1>5, CompleteStep, RollBackToInv
<1>6. CASE \E r \in Roots, spec \in AnalysisSpecs : StartScan(r, spec)
  BY <1>6, StartScanInv
<1>7. CASE GuardUndo \/ CloseTask
  BY <1>7, GuardUndoInv, CloseTaskInv
<1>8. CASE \/ ResumeScan \/ FallThrough \/ Interrupted
           \/ Fail \/ RequestStop \/ RequestPause \/ Crash
  BY <1>8, ThreadStepInv
<1>9. CASE UNCHANGED vars
  BY <1>9 DEF vars, ScanInv, ThreadInv, In, state, Quiet
<1> QED
  BY <1>1, <1>2, <1>3, <1>4, <1>5, <1>6, <1>7, <1>8, <1>9 DEF Next, System, Environment

\* The inductive invariant: both views of the database keep the order of windows
\* and what rollback and sweep need, in every state of every run.
THEOREM ScanInvariant == Spec => [](TypeInv /\ ScanInv)
<1>1. Init => TypeInv /\ ScanInv
  BY InitTypeInv, InitScanInv
<1>2. TypeInv /\ ScanInv /\ [Next]_vars => (TypeInv /\ ScanInv)'
  BY NextTypeInv, NextScanInv
<1> QED
  BY <1>1, <1>2, PTL DEF Spec
-----------------------------------------------------------------------------
(* The properties of the tables *)

\* Windows and version numbers of an item go up together and never overlap, in the
\* database and in the open batch, whoever inserted the successor: walk, sweep,
\* access change or folder counts.
THEOREM WindowsInOrder == Spec => []WindowsOrdered
<1>1. TypeInv /\ ScanInv => WindowsOrdered
  <2> SUFFICES ASSUME TypeInv, ScanInv
               PROVE  WindowsOrdered
    OBVIOUS
  <2>1. StoreOK(tx) /\ StoreInv(tx, active)
    BY DEF TypeInv, TypeOK, StoreOK, ScanInv
  <2>2. ASSUME NEW r \in tx.versions, NEW q \in tx.versions, r.item = q.item, r # q
        PROVE  \/ r.ver < q.ver /\ r.first <= r.last /\ r.last < q.first
               \/ q.ver < r.ver /\ q.first <= q.last /\ q.last < r.first
    <3>1. r.ver \in Nat /\ q.ver \in Nat
      BY <2>1, RowTypes
    <3>2. r.ver # q.ver
      BY <2>1, <2>2 DEF StoreInv, Keyed
    <3>3. r.first <= r.last /\ q.first <= q.last
      BY <2>1 DEF StoreInv, Within
    <3>4. (r.ver < q.ver => r.last < q.first) /\ (q.ver < r.ver => q.last < r.first)
      BY <2>1, <2>2 DEF StoreInv, Ordered
    <3> QED
      BY <3>1, <3>2, <3>3, <3>4
  <2>3. ASSUME NEW h \in tx.hashes, NEW g \in tx.hashes,
               h.item = g.item, h.ver = g.ver, h # g
        PROVE  h.last < g.first \/ g.last < h.first
    <3>1. h.first \in Nat /\ g.first \in Nat
      BY <2>1, RowTypes
    <3>2. h.first # g.first
      BY <2>1, <2>3 DEF StoreInv, HashKeyed
    <3>3. (h.first < g.first => h.last < g.first) /\ (g.first < h.first => g.last < h.first)
      BY <2>1, <2>3 DEF StoreInv, HashOrdered
    <3> QED
      BY <3>1, <3>2, <3>3
  <2> QED
    BY <2>2, <2>3 DEF WindowsOrdered
<1> QED
  BY <1>1, ScanInvariant, PTL

\* A scan that was stopped or failed has left no row, no confirmation and no
\* validation, whatever crashed or was resumed in between.
THEOREM DiscardedGone == Spec => []NoTraceOfDiscarded
<1>1. TypeInv /\ ScanInv => NoTraceOfDiscarded
  <2> SUFFICES ASSUME TypeInv, ScanInv
               PROVE  NoTraceOfDiscarded
    OBVIOUS
  <2>1. Within(db.versions, db.scans) /\ HashWithin(db.hashes, db.scans)
    BY DEF ScanInv, StoreInv
  <2>2. \A r \in db.versions :
          /\ db.scans[r.first].state \notin Discarded /\ db.scans[r.last].state \notin Discarded
          /\ r.val # 0 => db.scans[r.val].state \notin Discarded
    BY <2>1 DEF Within, Kept
  <2>3. \A h \in db.hashes :
          db.scans[h.first].state \notin Discarded /\ db.scans[h.last].state \notin Discarded
    BY <2>1 DEF HashWithin, Kept
  <2> QED
    BY <2>2, <2>3 DEF NoTraceOfDiscarded
<1> QED
  BY <1>1, ScanInvariant, PTL

\* The undo log is exactly what rollback needs: an entry with an older value for
\* each older row the open scan confirmed, none for anything else, none outside a
\* scan, across pauses, crashes and resumes.
THEOREM UndoExact == Spec => []UndoAccountsForUpdates
<1>1. TypeInv /\ ScanInv => UndoAccountsForUpdates
  <2> SUFFICES ASSUME TypeInv, ScanInv
               PROVE  UndoAccountsForUpdates
    OBVIOUS
  <2>1. StoreOK(tx) /\ StoreInv(tx, active) /\ tx.scans = db.scans
    BY DEF TypeInv, TypeOK, StoreOK, ScanInv
  <2>2. Scanning <=> IsOpen(tx, active)
    BY <2>1 DEF Scanning, IsOpen, state
  <2>3. ~Scanning => tx.undo = {}
    BY <2>1, <2>2 DEF StoreInv
  <2>4. Scanning => UndoOK(tx, active)
    BY <2>1, <2>2 DEF StoreInv
  <2>5. ASSUME NEW u \in tx.undo
        PROVE  /\ u.old < active
               /\ \/ \E r \in tx.versions : UndoFor({u}, r) # {} /\ r.first < active
                  \/ \E h \in tx.hashes :
                       UndoForHash({u}, h) # {} /\ h.first < active /\ h.last = active
    <3>1. Scanning /\ UndoOK(tx, active)
      BY <2>3, <2>4
    <3>2. active \in Nat \ {0} /\ tx.scans \in Seq(ScanRow)
      BY <2>1, <3>1, ActiveRow, RowTypes DEF Scanning
    <3>3. CASE u.table = "item"
      <4>1. PICK r \in tx.versions :
              /\ u.item = r.item /\ u.ver = r.ver /\ r.first < active
              /\ u.old = PrevCompleted(tx.scans, tx.scans[active].root, active)
        BY <3>1, <3>3 DEF UndoOK, VersionUndone
      <4>2. u.old < active
        BY <3>2, <4>1, PrevCompletedEarlier
      <4>3. u \in UndoFor({u}, r)
        BY <3>3, <4>1 DEF UndoFor
      <4> QED
        BY <4>1, <4>2, <4>3
    <3>4. CASE u.table = "hash"
      <4>1. PICK h \in tx.hashes :
              /\ u.item = h.item /\ u.ver = h.ver /\ u.first = h.first
              /\ h.first < active /\ h.last = active /\ u.old < active
        BY <3>1, <3>4 DEF UndoOK, HashUndone
      <4>2. u \in UndoForHash({u}, h)
        BY <3>4, <4>1 DEF UndoForHash
      <4> QED
        BY <4>1, <4>2
    <3>5. u.table \in {"item", "hash"}
      BY <2>1, RowTypes
    <3> QED
      BY <3>3, <3>4, <3>5
  <2>6. ASSUME NEW u \in tx.undo, NEW w \in tx.undo, [u EXCEPT !.old = 0] = [w EXCEPT !.old = 0]
        PROVE  u = w
    <3>1. u \in UndoRow /\ w \in UndoRow
      BY <2>1, RowTypes
    <3>2. u.table = w.table /\ u.item = w.item /\ u.ver = w.ver /\ u.first = w.first
      BY <2>6, <3>1 DEF UndoRow
    <3>3. UndoOK(tx, active)
      BY <2>3, <2>4
    <3> QED
      BY <3>2, <3>3 DEF UndoOK
  <2>7. ASSUME Scanning, NEW r \in tx.versions, r.first < active, r.last = active
        PROVE  \E u \in tx.undo : UndoFor({u}, r) # {}
    <3>1. PICK u \in UndoFor(tx.undo, r) : TRUE
      BY <2>4, <2>7 DEF UndoOK
    <3>2. u \in tx.undo /\ u \in UndoFor({u}, r)
      BY <3>1 DEF UndoFor
    <3> QED
      BY <3>2
  <2>8. ASSUME Scanning, NEW h \in tx.hashes, h.first < active, h.last = active
        PROVE  \E u \in tx.undo : UndoForHash({u}, h) # {}
    <3>1. PICK u \in UndoForHash(tx.undo, h) : TRUE
      BY <2>4, <2>8 DEF UndoOK
    <3>2. u \in tx.undo /\ u \in UndoForHash({u}, h)
      BY <3>1 DEF UndoForHash
    <3> QED
      BY <3>2
  <2> QED
    BY <2>3, <2>5, <2>6, <2>7, <2>8 DEF UndoAccountsForUpdates
<1> QED
  BY <1>1, ScanInvariant, PTL
-----------------------------------------------------------------------------
(* The readers *)

\* At a completed scan of its root the window of at most one version of an item
\* has that scan, and it is the one shown there.
LEMMA ReadersOfItem ==
  ASSUME NEW d, StoreOK(d), NEW a, StoreInv(d, a), NEW i \in Items,
         NEW s \in 1 .. Len(d.scans), Done(d.scans, s, RootOf[i])
  PROVE  /\ \A r : r \in VersionAtScan(d, i, s) <=> r \in ShownAt(d, i, s)
         /\ \A r, q : r \in VersionAtScan(d, i, s) /\ q \in VersionAtScan(d, i, s) => r = q
<1>1. s \in Nat
  OBVIOUS
<1>2. \A r \in d.versions : /\ r.ver \in Nat /\ r.first \in Nat /\ r.last \in Nat
                            /\ r.del \in BOOLEAN
                            /\ r.first <= r.last /\ (r.del => r.last = r.first)
  BY RowTypes DEF StoreInv, Within
<1>3. \A r, q \in d.versions :
        r.item = q.item /\ r # q => r.last < q.first \/ q.last < r.first
  BY <1>2 DEF StoreInv, Keyed, Ordered
<1>4. \A r \in d.versions : r.item = i /\ r.first <= s /\ ~r.del =>
        \/ s <= r.last
        \/ \E q \in d.versions : q.item = i /\ r.first < q.first /\ q.first <= s
  BY DEF StoreInv, Gapless
<1>5. \A r : r \in VersionAtScan(d, i, s) <=>
               r \in d.versions /\ r.item = i /\ r.first <= s /\ s <= r.last
  BY DEF VersionAtScan, RowsOf
<1>6. \A r : r \in ShownAt(d, i, s) <=>
               /\ r \in d.versions /\ r.item = i /\ r.first <= s
               /\ ~r.del \/ r.first = s
               /\ \A q \in d.versions : q.item = i /\ q.first <= s => q.first <= r.first
  BY DEF ShownAt, AsOf, NewestFirst, RowsOf
<1>7. ASSUME NEW r \in VersionAtScan(d, i, s), NEW q \in VersionAtScan(d, i, s)
      PROVE  r = q
  BY <1>1, <1>2, <1>3, <1>5
<1>8. ASSUME NEW r \in VersionAtScan(d, i, s)
      PROVE  r \in ShownAt(d, i, s)
  BY <1>1, <1>2, <1>3, <1>5, <1>6
<1>9. ASSUME NEW r \in ShownAt(d, i, s)
      PROVE  r \in VersionAtScan(d, i, s)
  BY <1>1, <1>2, <1>4, <1>5, <1>6
<1> QED
  BY <1>7, <1>8, <1>9

LEMMA AtMostOne ==
  ASSUME NEW S, \A x, y \in S : x = y
  PROVE  Cardinality(S) <= 1
<1>1. CASE S = {}
  BY <1>1, FS_EmptySet
<1>2. CASE S # {}
  <2>1. PICK x \in S : TRUE
    BY <1>2
  <2>2. S = {x}
    BY <2>1
  <2> QED
    BY <2>2, FS_Singleton
<1> QED
  BY <1>1, <1>2

\* Windows and beginnings tell one history: at every completed scan of its root the
\* version whose window has the scan is the one the tree shows, there is at most
\* one, and a folder counts exactly the items that have one and are not deleted.
THEOREM ReadersInAgreement == Spec => []ReadersAgree
<1>1. TypeInv /\ ScanInv => ReadersAgree
  <2> SUFFICES ASSUME TypeInv, ScanInv, NEW i \in Items, NEW s \in DOMAIN db.scans,
                      db.scans[s].root = RootOf[i], db.scans[s].state = "Completed"
               PROVE  /\ VersionAtScan(db, i, s) = ShownAt(db, i, s)
                      /\ Cardinality(VersionAtScan(db, i, s)) <= 1
                      /\ i \in Dirs => \A type \in {Dirs, Files} :
                           ChildrenCount(db, i, s, type) =
                             Cardinality({j \in type : i \in Above[j] /\
                                            \E r \in VersionAtScan(db, j, s) : ~r.del})
    BY DEF ReadersAgree
  <2>1. StoreOK(db) /\ StoreInv(db, active)
    BY DEF TypeInv, TypeOK, StoreOK, ScanInv
  <2>2. s \in 1 .. Len(db.scans)
    BY <2>1, RowTypes
  <2>3. \A j \in Items : RootOf[j] = RootOf[i] => Done(db.scans, s, RootOf[j])
    BY <2>2 DEF Done
  <2>4. /\ \A r : r \in VersionAtScan(db, i, s) <=> r \in ShownAt(db, i, s)
        /\ \A r, q : r \in VersionAtScan(db, i, s) /\ q \in VersionAtScan(db, i, s) => r = q
    BY <2>1, <2>2, <2>3, ReadersOfItem
  <2>5. VersionAtScan(db, i, s) = ShownAt(db, i, s)
    BY <2>4
  <2>6. Cardinality(VersionAtScan(db, i, s)) <= 1
    BY <2>4, AtMostOne
  <2>7. ASSUME NEW type \in {Dirs, Files}
        PROVE  ChildrenCount(db, i, s, type) =
                 Cardinality({j \in type : i \in Above[j] /\
                                \E r \in VersionAtScan(db, j, s) : ~r.del})
    <3>1. type \subseteq Items
      BY StoreAssumption
    <3>2. ASSUME NEW j \in type
          PROVE  /\ RootOf[j] = RootOf[i] /\ i \in Above[j]
                 /\ \E r \in AsOf(db.versions, j, s) : ~r.del
                 <=> i \in Above[j] /\ \E r \in VersionAtScan(db, j, s) : ~r.del
      <4>1. i \in Above[j] => RootOf[j] = RootOf[i]
        BY <3>1, AboveAssumption
      <4>2. ASSUME RootOf[j] = RootOf[i]
            PROVE  (\E r \in AsOf(db.versions, j, s) : ~r.del)
                     <=> \E r \in VersionAtScan(db, j, s) : ~r.del
        <5>1. \A r : r \in VersionAtScan(db, j, s) <=> r \in ShownAt(db, j, s)
          BY <2>1, <2>2, <2>3, <3>1, <4>2, ReadersOfItem
        <5> QED
          BY <5>1 DEF ShownAt
      <4> QED
        BY <4>1, <4>2
    <3>3. {j \in type : /\ RootOf[j] = RootOf[i] /\ i \in Above[j]
                        /\ \E r \in AsOf(db.versions, j, s) : ~r.del}
            = {j \in type : i \in Above[j] /\ \E r \in VersionAtScan(db, j, s) : ~r.del}
      BY <3>2
    <3> QED
      BY <3>3 DEF ChildrenCount
  <2> QED
    BY <2>5, <2>6, <2>7
<1> QED
  BY <1>1, ScanInvariant, PTL
-----------------------------------------------------------------------------
(* History *)

SameState(w, r) ==
  /\ w.item = r.item /\ w.ver = r.ver /\ w.first = r.first
  /\ w.del = r.del /\ w.access = r.access /\ w.meta = r.meta

SameDigest(g, h) ==
  g.item = h.item /\ g.ver = h.ver /\ g.first = h.first /\ g.hash = h.hash

\* Up to scan t, store e says of every version and digest what d says.
Covers(d, e, t) ==
  /\ \A r \in d.versions : r.first <= t => \E w \in e.versions : SameState(w, r)
  /\ \A h \in d.hashes : h.first <= t => \E g \in e.hashes : SameDigest(g, h)

Agree(d, e, t) == Covers(d, e, t) /\ Covers(e, d, t)

LEMMA AgreeHash ==
  ASSUME NEW d, NEW e, NEW t, Agree(d, e, t), NEW r, NEW w, w.item = r.item, w.ver = r.ver
  PROVE  HashAt(d.hashes, r, t) \subseteq HashAt(e.hashes, w, t)
<1> SUFFICES ASSUME NEW x \in HashAt(d.hashes, r, t)
             PROVE  x \in HashAt(e.hashes, w, t)
  OBVIOUS
<1>1. PICK h \in CurrentHash({g \in d.hashes : g.first <= t}, r.item, r.ver) : x = h.hash
  BY DEF HashAt
<1>2. /\ h \in d.hashes /\ h.first <= t /\ h.item = r.item /\ h.ver = r.ver
      /\ \A g \in d.hashes :
           g.first <= t /\ g.item = r.item /\ g.ver = r.ver => g.first <= h.first
  BY <1>1 DEF CurrentHash, HashesOf
<1>3. PICK k \in e.hashes : /\ k.item = h.item /\ k.ver = h.ver
                            /\ k.first = h.first /\ k.hash = h.hash
  BY <1>2 DEF Agree, Covers, SameDigest
<1>4. ASSUME NEW g \in e.hashes, g.first <= t, g.item = w.item, g.ver = w.ver
      PROVE  g.first <= k.first
  <2>1. PICK b \in d.hashes : b.item = g.item /\ b.ver = g.ver /\ b.first = g.first
    BY <1>4 DEF Agree, Covers, SameDigest
  <2> QED
    BY <1>2, <1>3, <1>4, <2>1
<1>5. k \in CurrentHash({g \in e.hashes : g.first <= t}, w.item, w.ver)
  BY <1>2, <1>3, <1>4 DEF CurrentHash, HashesOf
<1> QED
  BY <1>1, <1>3, <1>5 DEF HashAt

LEMMA AgreeViewHalf ==
  ASSUME NEW d, NEW e, NEW t, Agree(d, e, t), NEW i
  PROVE  View(d, i, t) \subseteq View(e, i, t)
<1> SUFFICES ASSUME NEW x \in View(d, i, t)
             PROVE  x \in View(e, i, t)
  OBVIOUS
<1>1. PICK r \in AsOf(d.versions, i, t) :
        x = <<r.ver, r.first, r.del, r.access, r.meta, HashAt(d.hashes, r, t)>>
  BY DEF View
<1>2. /\ r \in d.versions /\ r.first <= t /\ r.item = i
      /\ \A q \in d.versions : q.first <= t /\ q.item = i => q.first <= r.first
  BY <1>1 DEF AsOf, NewestFirst, RowsOf
<1>3. PICK w \in e.versions :
        /\ w.item = r.item /\ w.ver = r.ver /\ w.first = r.first
        /\ w.del = r.del /\ w.access = r.access /\ w.meta = r.meta
  BY <1>2 DEF Agree, Covers, SameState
<1>4. ASSUME NEW q \in e.versions, q.first <= t, q.item = i
      PROVE  q.first <= w.first
  <2>1. PICK b \in d.versions : b.item = q.item /\ b.first = q.first
    BY <1>4 DEF Agree, Covers, SameState
  <2> QED
    BY <1>2, <1>3, <1>4, <2>1
<1>5. w \in AsOf(e.versions, i, t)
  BY <1>2, <1>3, <1>4 DEF AsOf, NewestFirst, RowsOf
<1>6. Agree(e, d, t)
  BY DEF Agree
<1>7. HashAt(d.hashes, r, t) = HashAt(e.hashes, w, t)
  <2>1. w.item = r.item /\ w.ver = r.ver /\ r.item = w.item /\ r.ver = w.ver
    BY <1>3
  <2>2. HashAt(d.hashes, r, t) \subseteq HashAt(e.hashes, w, t)
    BY ONLY <2>1, AgreeHash, Agree(d, e, t)
  <2>3. HashAt(e.hashes, w, t) \subseteq HashAt(d.hashes, r, t)
    BY ONLY <2>1, <1>6, AgreeHash
  <2> QED
    BY <2>2, <2>3
<1>8. x = <<w.ver, w.first, w.del, w.access, w.meta, HashAt(e.hashes, w, t)>>
  BY <1>1, <1>3, <1>7
<1> QED
  BY <1>5, <1>8 DEF View

LEMMA AgreeView ==
  ASSUME NEW d, NEW e, NEW t, Agree(d, e, t), NEW i
  PROVE  View(e, i, t) = View(d, i, t)
<1>1. Agree(e, d, t)
  BY DEF Agree
<1> QED
  BY <1>1, AgreeViewHalf

\* What rolling the open scan back leaves is what both stores say of every scan
\* before it.
LEMMA SettledCovers ==
  ASSUME NEW d, StoreOK(d), NEW s \in 1 .. Len(d.scans), StoreInv(d, s), IsOpen(d, s),
         NEW e, StoreOK(e), s \in 1 .. Len(e.scans), StoreInv(e, s), IsOpen(e, s),
         Settled(e, s) = Settled(d, s), NEW t \in Nat, t < s
  PROVE  Covers(d, e, t)
<1>1. PICK p, k : /\ Before(e.versions, s, k) = Before(d.versions, s, p)
                  /\ RolledHashes(e, s) = RolledHashes(d, s)
  BY DEF Settled
<1>2. s \in Nat
  BY RowTypes
<1>3. ASSUME NEW r \in d.versions, r.first <= t
      PROVE  \E w \in e.versions : SameState(w, r)
  <2>1. r.first < s
    BY <1>2, <1>3, RowTypes
  <2>2. Past(r, s, p) \in Before(e.versions, s, k)
    BY <1>1, <2>1 DEF Before
  <2>3. PICK w \in e.versions : Past(w, s, k) = Past(r, s, p)
    BY <2>2 DEF Before
  <2>4. SameState(w, r)
    BY <2>3 DEF Past, SameState
  <2> QED
    BY <2>4
<1>4. ASSUME NEW h \in d.hashes, h.first <= t
      PROVE  \E g \in e.hashes : SameDigest(g, h)
  <2>1. h.first < s
    BY <1>2, <1>4, RowTypes
  <2>2. PICK b : b = Replay(UndoForHash(d.undo, h), h)
    OBVIOUS
  <2>3. b.item = h.item /\ b.ver = h.ver /\ b.first = h.first /\ b.hash = h.hash
    BY <2>2, ReplayHash
  <2>4. b.first # s
    BY <1>2, <2>1, <2>3, RowTypes
  <2>5. b \in RolledHashes(e, s)
    BY <1>1, <2>2, <2>4 DEF RolledHashes
  <2>6. PICK g \in e.hashes : b = Replay(UndoForHash(e.undo, g), g)
    BY <2>5 DEF RolledHashes
  <2>7. b.item = g.item /\ b.ver = g.ver /\ b.first = g.first /\ b.hash = g.hash
    BY <2>6, ReplayHash
  <2> QED
    BY <2>3, <2>7 DEF SameDigest
<1> QED
  BY <1>3, <1>4 DEF Covers

LEMMA RolledAgree ==
  ASSUME NEW d, StoreOK(d), NEW s \in 1 .. Len(d.scans), StoreInv(d, s), IsOpen(d, s),
         NEW e, e.versions = ClearVal(RolledVersions(d, s)), e.hashes = RolledHashes(d, s),
         NEW t \in Nat, t < s
  PROVE  Agree(d, e, t)
<1>1. PICK p : e.versions = {Back(r, s, p) : r \in {q \in d.versions : q.first < s}}
  BY RolledRows
<1>2. s \in Nat
  BY RowTypes
<1>3. \A r \in d.versions : SameState(Back(r, s, p), r)
  BY RowTypes, BackFields DEF SameState
<1>4. ASSUME NEW r \in d.versions, r.first <= t
      PROVE  \E w \in e.versions : SameState(w, r)
  <2>1. r.first < s
    BY <1>2, <1>4, RowTypes
  <2>2. Back(r, s, p) \in e.versions
    BY <1>1, <2>1
  <2> QED
    BY <1>3, <2>2
<1>5. ASSUME NEW w \in e.versions
      PROVE  \E r \in d.versions : SameState(r, w)
  <2>1. PICK r \in d.versions : w = Back(r, s, p)
    BY <1>1
  <2> QED
    BY <1>3, <2>1 DEF SameState
<1>6. ASSUME NEW h \in d.hashes, h.first <= t
      PROVE  \E g \in e.hashes : SameDigest(g, h)
  <2>1. h.first < s
    BY <1>2, <1>6, RowTypes
  <2>2. PICK b : b = Replay(UndoForHash(d.undo, h), h)
    OBVIOUS
  <2>3. b.item = h.item /\ b.ver = h.ver /\ b.first = h.first /\ b.hash = h.hash
    BY <2>2, ReplayHash
  <2>4. b.first # s
    BY <1>2, <2>1, <2>3, RowTypes
  <2>5. b \in e.hashes
    BY <2>2, <2>4 DEF RolledHashes
  <2> QED
    BY <2>3, <2>5 DEF SameDigest
<1>7. ASSUME NEW g \in e.hashes
      PROVE  \E h \in d.hashes : SameDigest(h, g)
  <2>1. PICK h \in d.hashes : g = Replay(UndoForHash(d.undo, h), h)
    BY DEF RolledHashes
  <2>2. g.item = h.item /\ g.ver = h.ver /\ g.first = h.first /\ g.hash = h.hash
    BY <2>1, ReplayHash
  <2> QED
    BY <2>2 DEF SameDigest
<1> QED
  BY <1>4, <1>5, <1>6, <1>7 DEF Agree, Covers

LEMMA SameTablesView ==
  ASSUME NEW d, NEW e, SameTables(d, e), NEW i, NEW t
  PROVE  View(e, i, t) = View(d, i, t)
BY DEF SameTables, View

\* The state of a root at a completed scan is history: no later step, committed
\* halfway, rolled back or completed, changes what is shown for that scan.
THEOREM HistoryFixed == Spec => CompletedViewsFixed
<1> DEFINE Fixed ==
      \A s \in DOMAIN db.scans :
        db.scans[s].state = "Completed" =>
          \A i \in Items : RootOf[i] = db.scans[s].root => View(db', i, s) = View(db, i, s)
<1>1. TypeInv /\ TypeInv' /\ ScanInv /\ ScanInv' /\ [Next]_vars => Fixed
  <2> SUFFICES ASSUME TypeInv, TypeInv', ScanInv, ScanInv', [Next]_vars,
                      NEW s \in DOMAIN db.scans, db.scans[s].state = "Completed", NEW i
               PROVE  View(db', i, s) = View(db, i, s)
    OBVIOUS
  <2>1. Quiet \/ Steady \/ Begins \/ Completes \/ Discards
    BY NextScanInv
  <2>2. CASE Quiet
    BY <2>2 DEF Quiet
  <2>3. CASE Begins \/ Completes
    BY <2>3, SameTablesView DEF Begins, Completes
  <2>4. ASSUME active # 0, IsOpen(db, active)
        PROVE  /\ StoreOK(db) /\ StoreInv(db, active) /\ active \in 1 .. Len(db.scans)
               /\ s \in Nat /\ s < active
    <3>1. StoreOK(db) /\ StoreInv(db, active) /\ active \in 1 .. Len(db.scans)
      BY <2>4, ActiveRow DEF TypeInv, TypeOK, StoreOK, ScanInv
    <3>2. s \in 1 .. Len(db.scans)
      BY <3>1, RowTypes
    <3>3. active = Len(db.scans)
      BY <2>4, <3>1 DEF StoreInv, OnlyOpen
    <3>4. s # active
      BY <2>4 DEF IsOpen, InProgress
    <3> QED
      BY <3>1, <3>2, <3>3, <3>4
  <2>5. CASE Discards
    <3>1. Agree(db, db', s)
      BY <2>4, <2>5, RolledAgree DEF Discards
    <3> QED
      BY <3>1, AgreeView
  <2>6. CASE Steady
    <3>1. active # 0 /\ IsOpen(db, active) /\ IsOpen(db', active) /\ active' = active
          /\ Settled(db', active) = Settled(db, active)
      BY <2>6 DEF Steady
    <3>2. /\ StoreOK(db) /\ StoreInv(db, active) /\ active \in 1 .. Len(db.scans)
          /\ s \in Nat /\ s < active
      BY <2>4, <3>1
    <3>3. StoreOK(db') /\ StoreInv(db', active)
      BY <3>1 DEF TypeInv, TypeOK, StoreOK, ScanInv
    <3>4. active \in 1 .. Len(db'.scans)
      BY <2>6, <3>2 DEF Steady, Moved
    <3>5. Covers(db, db', s) /\ Covers(db', db, s)
      BY <3>1, <3>2, <3>3, <3>4, SettledCovers
    <3> QED
      BY <3>5, AgreeView DEF Agree
  <2> QED
    BY <2>1, <2>2, <2>3, <2>5, <2>6
<1>2. TypeInv /\ TypeInv' /\ ScanInv /\ ScanInv' /\ [Next]_vars => [Fixed]_vars
  BY <1>1
<1> HIDE DEF Fixed
<1>3. Spec => [][Fixed]_vars
  BY <1>2, ScanInvariant, PTL DEF Spec
<1> QED
  BY <1>3 DEF CompletedViewsFixed, Fixed
-----------------------------------------------------------------------------
(* The catalog *)

CatalogFor(d, s) ==
  LET settled == IF IsOpen(d, s) THEN Rollback(d, s) ELSE d
  IN [items |-> settled.items,
      versions |-> Unvalidated(settled.versions),
      hashes |-> settled.hashes]

OpenCatalog(x) ==
  [items |-> {w.item : w \in x.versions}, versions |-> x.versions, hashes |-> x.hashes]

\* Row r as the catalog has it.
Told(r) ==
  [item |-> r.item, ver |-> r.ver, first |-> r.first, last |-> r.last,
   del |-> r.del, access |-> r.access, meta |-> r.meta]

LEMMA UnvalidatedRows ==
  ASSUME NEW vs
  PROVE  Unvalidated(vs) = {Told(r) : r \in vs}
BY DEF Unvalidated, Told

LEMMA IdleCatalog ==
  ASSUME NEW d, NEW s, ~IsOpen(d, s)
  PROVE  CatalogFor(d, s) =
           [items |-> d.items, versions |-> Unvalidated(d.versions), hashes |-> d.hashes]
BY DEF CatalogFor

LEMMA BackTold ==
  ASSUME NEW r \in VersionRow, NEW s, NEW p
  PROVE  Told(Back(r, s, p)) = Past(r, s, p)
BY BackFields DEF Told, Past

\* While a scan is open the catalog is what its rollback would leave.
LEMMA OpenCatalogIs ==
  ASSUME NEW d, StoreOK(d), NEW s \in 1 .. Len(d.scans), StoreInv(d, s), IsOpen(d, s)
  PROVE  CatalogFor(d, s) = OpenCatalog(Settled(d, s))
<1>1. PICK p : p = PrevCompleted(d.scans, d.scans[s].root, s)
  OBVIOUS
<1>2. PICK m : m = Rollback(d, s)
  OBVIOUS
<1>3. /\ m.versions = ClearVal(RolledVersions(d, s))
      /\ m.hashes = RolledHashes(d, s)
      /\ m.items = {i \in d.items : RowsOf(m.versions, i) # {}}
  BY <1>2 DEF Rollback, StoreOK, Stores
<1>4. m.versions = {Back(r, s, p) : r \in {q \in d.versions : q.first < s}}
  BY <1>1, <1>3, RolledRows
<1>5. Unvalidated(m.versions) = Before(d.versions, s, p)
  <2>1. \A r \in d.versions : Told(Back(r, s, p)) = Past(r, s, p)
    BY RowTypes, BackTold
  <2> QED
    BY <1>4, <2>1, UnvalidatedRows DEF Before
<1>6. m.items = {w.item : w \in Unvalidated(m.versions)}
  <2>1. \A r \in m.versions : Told(r).item = r.item
    BY DEF Told
  <2>2. ASSUME NEW r \in m.versions
        PROVE  r.item \in d.items
    <3>1. PICK q \in d.versions : r = Back(q, s, p)
      BY <1>4
    <3>2. r.item = q.item /\ q.item \in Items
      BY <3>1, RowTypes, BackFields
    <3> QED
      BY <3>2 DEF StoreInv, Named
  <2>3. \A i : i \in m.items <=> \E r \in m.versions : r.item = i
    BY <1>3, <2>2 DEF RowsOf
  <2> QED
    BY <2>1, <2>3, UnvalidatedRows
<1>7. Settled(d, s) = [versions |-> Unvalidated(m.versions), hashes |-> m.hashes]
  BY <1>1, <1>3, <1>5 DEF Settled
<1>8. CatalogFor(d, s) = [items |-> m.items, versions |-> Unvalidated(m.versions),
                          hashes |-> m.hashes]
  BY <1>2 DEF CatalogFor
<1> QED
  BY <1>6, <1>7, <1>8 DEF OpenCatalog

LEMMA DiscardCatalog ==
  ASSUME NEW d, StoreOK(d), NEW s, IsOpen(d, s),
         NEW e, ~IsOpen(e, s),
         e.versions = ClearVal(RolledVersions(d, s)), e.hashes = RolledHashes(d, s),
         e.items = {i \in d.items : RowsOf(e.versions, i) # {}}
  PROVE  CatalogFor(e, s) = CatalogFor(d, s)
<1>1. PICK m : m = Rollback(d, s)
  OBVIOUS
<1>2. m.items = e.items /\ m.versions = e.versions /\ m.hashes = e.hashes
  BY <1>1 DEF Rollback, StoreOK, Stores
<1>3. CatalogFor(d, s) = [items |-> m.items, versions |-> Unvalidated(m.versions),
                          hashes |-> m.hashes]
  BY <1>1 DEF CatalogFor
<1> QED
  BY <1>2, <1>3, IdleCatalog

LEMMA NamedItems ==
  ASSUME NEW d, StoreOK(d), Named(d)
  PROVE  d.items = {w.item : w \in Unvalidated(d.versions)}
<1>1. \A r : Told(r).item = r.item
  BY DEF Told
<1>2. d.items \subseteq Items /\ \A r \in d.versions : r.item \in Items
  BY RowTypes
<1>3. \A i : i \in d.items <=> \E r \in d.versions : r.item = i
  BY <1>2 DEF Named
<1> QED
  BY <1>1, <1>3, UnvalidatedRows

\* A new scan has touched nothing yet.
LEMMA BeginCatalog ==
  ASSUME NEW d, StoreOK(d), StoreInv(d, 0), NEW row \in ScanRow,
         NEW e, StoreOK(e), e.scans = Append(d.scans, row), row.state \in InProgress,
         SameTables(d, e), NEW s, s = Len(d.scans) + 1, StoreInv(e, s), e.undo = {}
  PROVE  CatalogFor(e, s) = CatalogFor(d, 0)
<1>1. /\ d.scans \in Seq(ScanRow) /\ Len(d.scans) \in Nat
      /\ Len(e.scans) = Len(d.scans) + 1 /\ e.scans[s] = row
  BY RowTypes
<1>2. s \in 1 .. Len(e.scans) /\ s \in Nat /\ IsOpen(e, s)
  BY <1>1 DEF IsOpen
<1>3. /\ e.versions = d.versions /\ e.hashes = d.hashes /\ e.items = d.items
  BY DEF SameTables
<1>4. PICK p : p = PrevCompleted(e.scans, e.scans[s].root, s)
  OBVIOUS
<1>5. \A r \in d.versions : r.first < s /\ r.last # s
  BY <1>1 DEF StoreInv, Within, Kept
<1>6. \A h \in d.hashes : h.first # s
  BY <1>1 DEF StoreInv, HashWithin, Kept
<1>7. Before(e.versions, s, p) = Unvalidated(d.versions)
  <2>1. \A r \in d.versions : Past(r, s, p) = Told(r)
    BY <1>5 DEF Past, Told
  <2> QED
    BY <1>3, <1>5, <2>1, UnvalidatedRows DEF Before
<1>8. RolledHashes(e, s) = d.hashes
  <2>1. \A h \in d.hashes : Replay(UndoForHash(e.undo, h), h) = h
    BY DEF UndoForHash, Replay
  <2> QED
    BY <1>3, <1>6, <2>1 DEF RolledHashes
<1>9. Settled(e, s) = [versions |-> Unvalidated(d.versions), hashes |-> d.hashes]
  BY <1>4, <1>7, <1>8 DEF Settled
<1>10. CatalogFor(e, s) = OpenCatalog(Settled(e, s))
  BY <1>2, OpenCatalogIs
<1>11. d.items = {w.item : w \in Unvalidated(d.versions)}
  BY NamedItems DEF StoreInv
<1>12. ~IsOpen(d, 0)
  BY DEF IsOpen
<1>13. CatalogFor(d, 0) =
         [items |-> d.items, versions |-> Unvalidated(d.versions), hashes |-> d.hashes]
  BY ONLY <1>12, IdleCatalog
<1>14. PICK x : x = Settled(e, s)
  OBVIOUS
<1>15. x.versions = Unvalidated(d.versions) /\ x.hashes = d.hashes
  BY <1>9, <1>14
<1>16. CatalogFor(e, s) = [items |-> {w.item : w \in x.versions}, versions |-> x.versions,
                           hashes |-> x.hashes]
  BY ONLY <1>10, <1>14 DEF OpenCatalog
<1> QED
  BY ONLY <1>11, <1>13, <1>15, <1>16

\* Completing a scan only adds rows of its root, or moves their last confirmation.
LEMMA VersionsExtend ==
  ASSUME NEW d, StoreOK(d), NEW s \in 1 .. Len(d.scans), StoreInv(d, s), IsOpen(d, s),
         NEW ro, ro = d.scans[s].root,
         NEW p, NEW new, new = Unvalidated(d.versions), NEW old, old = Before(d.versions, s, p)
  PROVE  /\ Catalog!Extends(Catalog!OfRoot(new, ro), Catalog!OfRoot(old, ro), s)
         /\ Catalog!NotOfRoot(new, ro) = Catalog!NotOfRoot(old, ro)
<1>1. \A r \in d.versions :
        /\ r.first <= r.last /\ r.last <= s /\ r.first \in Nat /\ r.last \in Nat /\ s \in Nat
        /\ RootOf[r.item] # ro => r.first # s /\ r.last # s
        /\ r.first # s => r.first < s
  <2>1. \A r \in d.versions : r.first \in Nat /\ r.last \in Nat /\ s \in Nat
    BY RowTypes
  <2>2. \A r \in d.versions : /\ r.first <= r.last /\ r.last <= s
                              /\ r.first # s => r.first < s
    BY OldRow
  <2>3. \A r \in d.versions : RootOf[r.item] # ro => r.first # s /\ r.last # s
    BY DEF StoreInv, Within, Kept
  <2> QED
    BY <2>1, <2>2, <2>3
<1>2. \A x : x \in new <=> \E r \in d.versions : x = Told(r)
  BY UnvalidatedRows
<1>3. \A x : x \in old <=> \E r \in d.versions : r.first < s /\ x = Past(r, s, p)
  BY DEF Before
<1>4. \A r : /\ Told(r).item = r.item /\ Told(r).first = r.first /\ Told(r).last = r.last
             /\ Past(r, s, p).item = r.item
  BY DEF Told, Past
<1>5. \A r : r.last # s => Past(r, s, p) = Told(r)
  BY DEF Told, Past
<1>6. \A r : r.last = s => [Past(r, s, p) EXCEPT !.last = s] = Told(r)
  BY DEF Told, Past
<1>7. ASSUME NEW q \in Catalog!OfRoot(old, ro)
      PROVE  q \in Catalog!OfRoot(new, ro) \/ [q EXCEPT !.last = s] \in Catalog!OfRoot(new, ro)
  <2>1. PICK r \in d.versions : r.first < s /\ q = Past(r, s, p)
    BY <1>3 DEF Catalog!OfRoot
  <2>2. Told(r) \in Catalog!OfRoot(new, ro)
    BY <1>2, <1>4, <2>1 DEF Catalog!OfRoot
  <2> QED
    BY <1>5, <1>6, <2>1, <2>2
<1>8. ASSUME NEW q \in Catalog!OfRoot(new, ro)
      PROVE  \/ q.first = s /\ q.last = s
             \/ q \in Catalog!OfRoot(old, ro)
             \/ q.last = s /\ \E b \in Catalog!OfRoot(old, ro) : q = [b EXCEPT !.last = s]
  <2>1. PICK r \in d.versions : q = Told(r)
    BY <1>2 DEF Catalog!OfRoot
  <2>2. CASE r.first = s
    BY <1>1, <1>4, <2>1, <2>2
  <2>3. CASE r.first # s
    <3>1. Past(r, s, p) \in Catalog!OfRoot(old, ro)
      BY <1>1, <1>3, <1>4, <2>1, <2>3 DEF Catalog!OfRoot
    <3> QED
      BY <1>4, <1>5, <1>6, <2>1, <3>1
  <2> QED
    BY <2>2, <2>3
<1>9. ASSUME NEW q
      PROVE  q \in Catalog!NotOfRoot(new, ro) <=> q \in Catalog!NotOfRoot(old, ro)
  <2>1. q \in Catalog!NotOfRoot(new, ro) <=>
          \E r \in d.versions : RootOf[r.item] # ro /\ q = Told(r)
    BY <1>2, <1>4 DEF Catalog!NotOfRoot
  <2>2. q \in Catalog!NotOfRoot(old, ro) <=>
          \E r \in d.versions : RootOf[r.item] # ro /\ r.first < s /\ q = Past(r, s, p)
    BY <1>3, <1>4 DEF Catalog!NotOfRoot
  <2> QED
    BY <1>1, <1>5, <2>1, <2>2
<1>10. Catalog!NotOfRoot(new, ro) = Catalog!NotOfRoot(old, ro)
  BY <1>9
<1> QED
  BY <1>7, <1>8, <1>10 DEF Catalog!Extends

LEMMA HashesExtend ==
  ASSUME NEW d, StoreOK(d), NEW s \in 1 .. Len(d.scans), StoreInv(d, s), IsOpen(d, s),
         NEW ro, ro = d.scans[s].root,
         NEW new, new = d.hashes, NEW old, old = RolledHashes(d, s)
  PROVE  /\ Catalog!Extends(Catalog!OfRoot(new, ro), Catalog!OfRoot(old, ro), s)
         /\ Catalog!NotOfRoot(new, ro) = Catalog!NotOfRoot(old, ro)
<1> DEFINE Undone(h) == Replay(UndoForHash(d.undo, h), h)
<1>1. \A h \in d.hashes :
        /\ h.first <= h.last /\ h.last <= s /\ h.first \in Nat /\ h.last \in Nat /\ s \in Nat
        /\ RootOf[h.item] # ro => h.first # s /\ h.last # s
        /\ h.first # s => h.first < s
  <2>1. \A h \in d.hashes : h.first \in Nat /\ h.last \in Nat /\ s \in Nat
    BY RowTypes
  <2>2. \A h \in d.hashes : /\ h.first <= h.last /\ h.last <= s
                            /\ h.first # s => h.first < s
    BY OldHash
  <2>3. \A h \in d.hashes : RootOf[h.item] # ro => h.first # s /\ h.last # s
    BY DEF StoreInv, HashWithin, Kept
  <2> QED
    BY <2>1, <2>2, <2>3
<1>2. \A h \in d.hashes :
        /\ Undone(h) \in HashRow /\ h \in HashRow
        /\ Undone(h).item = h.item /\ Undone(h).ver = h.ver /\ Undone(h).first = h.first
        /\ Undone(h).hash = h.hash
        /\ h.last # s => Undone(h) = h
  BY RowTypes, ReplayHash
<1>3. \A x : x \in old <=> \E h \in d.hashes : h.first # s /\ x = Undone(h)
  <2>1. \A x : x \in old <=> \E h \in d.hashes : x = Undone(h) /\ x.first # s
    BY DEF RolledHashes
  <2> QED
    BY <1>2, <2>1
<1> HIDE DEF Undone
<1>4. \A h \in d.hashes : h.last = s => [Undone(h) EXCEPT !.last = s] = h
  BY <1>2 DEF HashRow
<1>5. ASSUME NEW q \in Catalog!OfRoot(old, ro)
      PROVE  q \in Catalog!OfRoot(new, ro) \/ [q EXCEPT !.last = s] \in Catalog!OfRoot(new, ro)
  <2>1. PICK h \in d.hashes : h.first # s /\ q = Undone(h)
    BY <1>3 DEF Catalog!OfRoot
  <2>2. RootOf[q.item] = ro /\ q.item = h.item
    BY <1>2, <2>1 DEF Catalog!OfRoot
  <2>3. h \in Catalog!OfRoot(new, ro)
    BY <2>2 DEF Catalog!OfRoot
  <2> QED
    BY <1>2, <1>4, <2>1, <2>3
<1>6. ASSUME NEW q \in Catalog!OfRoot(new, ro)
      PROVE  \/ q.first = s /\ q.last = s
             \/ q \in Catalog!OfRoot(old, ro)
             \/ q.last = s /\ \E b \in Catalog!OfRoot(old, ro) : q = [b EXCEPT !.last = s]
  <2>1. q \in d.hashes /\ RootOf[q.item] = ro
    BY DEF Catalog!OfRoot
  <2>2. CASE q.first = s
    BY <1>1, <2>1, <2>2
  <2>3. CASE q.first # s
    <3>1. Undone(q) \in Catalog!OfRoot(old, ro)
      BY <1>2, <1>3, <2>1, <2>3 DEF Catalog!OfRoot
    <3> QED
      BY <1>2, <1>4, <2>1, <3>1
  <2> QED
    BY <2>2, <2>3
<1>7. ASSUME NEW q
      PROVE  q \in Catalog!NotOfRoot(new, ro) <=> q \in Catalog!NotOfRoot(old, ro)
  <2>1. q \in Catalog!NotOfRoot(new, ro) <=> q \in d.hashes /\ RootOf[q.item] # ro
    BY DEF Catalog!NotOfRoot
  <2>2. q \in Catalog!NotOfRoot(old, ro) <=>
          \E h \in d.hashes : RootOf[h.item] # ro /\ h.first # s /\ q = Undone(h)
    BY <1>2, <1>3 DEF Catalog!NotOfRoot
  <2> QED
    BY <1>1, <1>2, <2>1, <2>2
<1>8. Catalog!NotOfRoot(new, ro) = Catalog!NotOfRoot(old, ro)
  BY <1>7
<1> QED
  BY <1>5, <1>6, <1>8 DEF Catalog!Extends
-----------------------------------------------------------------------------
(* The history of scans *)

HistoryOf(scans) ==
  [s \in DOMAIN scans |-> [root |-> scans[s].root, status |-> StatusOf(scans[s].state)]]

LEMMA Statuses ==
  ASSUME NEW st \in ScanStates
  PROVE  /\ st \in InProgress => StatusOf(st) = "open"
         /\ st = "Completed" => StatusOf(st) = "done"
         /\ st \in Discarded => StatusOf(st) = "void"
         /\ StatusOf(st) = "open" => st \in InProgress
BY DEF StatusOf, ScanStates, InProgress, Discarded

\* The history with scan s marked v.
Marked(a, s, v) == [HistoryOf(a) EXCEPT ![s].status = v]

LEMMA HistoryMoved ==
  ASSUME NEW a \in Seq(ScanRow), NEW b, NEW s \in 1 .. Len(a), NEW st, Moved(a, b, s, st),
         NEW v, v = StatusOf(st)
  PROVE  HistoryOf(b) = Marked(a, s, v)
<1>1. /\ b \in Seq(ScanRow) /\ Len(b) = Len(a) /\ b[s].state = st
      /\ \A t \in 1 .. Len(a) : b[t].root = a[t].root /\ (t # s => b[t] = a[t])
  BY DEF Moved
<1>2. DOMAIN b = DOMAIN a /\ DOMAIN a = 1 .. Len(a)
  BY <1>1
<1>3. \A t \in DOMAIN a : HistoryOf(b)[t] =
        IF t = s THEN [root |-> a[t].root, status |-> v]
        ELSE [root |-> a[t].root, status |-> StatusOf(a[t].state)]
  BY <1>1, <1>2 DEF HistoryOf
<1>4. \A t \in DOMAIN a : [HistoryOf(a) EXCEPT ![s].status = v][t] =
        IF t = s THEN [root |-> a[t].root, status |-> v]
        ELSE [root |-> a[t].root, status |-> StatusOf(a[t].state)]
  BY <1>2 DEF HistoryOf
<1>5. /\ HistoryOf(b) = [t \in DOMAIN a |-> HistoryOf(b)[t]]
      /\ [HistoryOf(a) EXCEPT ![s].status = v]
           = [t \in DOMAIN a |-> [HistoryOf(a) EXCEPT ![s].status = v][t]]
  BY <1>2 DEF HistoryOf
<1> QED
  BY <1>3, <1>4, <1>5 DEF Marked

LEMMA HistoryAppend ==
  ASSUME NEW a \in Seq(ScanRow), NEW row \in ScanRow, row.state = "Scanning"
  PROVE  HistoryOf(Append(a, row)) = Append(HistoryOf(a), [root |-> row.root, status |-> "open"])
<1>1. PICK b : b = Append(a, row)
  OBVIOUS
<1>2. /\ b \in Seq(ScanRow) /\ Len(b) = Len(a) + 1 /\ b[Len(a) + 1] = row
      /\ \A t \in 1 .. Len(a) : b[t] = a[t]
      /\ DOMAIN b = 1 .. Len(a) + 1 /\ DOMAIN a = 1 .. Len(a) /\ Len(a) \in Nat
  BY <1>1
<1>3. StatusOf("Scanning") = "open"
  <2>1. "Scanning" \in ScanStates /\ "Scanning" \in InProgress
    BY DEF ScanStates, InProgress
  <2> QED
    BY <2>1, Statuses
<1> DEFINE H == HistoryOf(a)
           n == [root |-> row.root, status |-> "open"]
<1>4. H \in Seq({H[t] : t \in DOMAIN a}) /\ Len(H) = Len(a)
  <2>1. H = [t \in 1 .. Len(a) |-> H[t]]
    BY <1>2 DEF HistoryOf
  <2> QED
    BY <1>2, <2>1
<1> QED
  BY <1>1, <1>2, <1>3, <1>4 DEF HistoryOf

\* Between two states of the open scan nothing of the history moves.
LEMMA HistoryStays ==
  ASSUME NEW a \in Seq(ScanRow), NEW b, NEW s \in 1 .. Len(a), NEW st, Moved(a, b, s, st),
         a[s].state \in InProgress, st \in InProgress
  PROVE  HistoryOf(b) = HistoryOf(a)
<1>1. StatusOf(st) = "open" /\ StatusOf(a[s].state) = "open"
  BY Statuses DEF ScanStates
<1>2. /\ Len(b) = Len(a) /\ b[s].state = st /\ b \in Seq(ScanRow)
      /\ \A t \in 1 .. Len(a) : b[t].root = a[t].root /\ (t # s => b[t] = a[t])
  BY DEF Moved
<1>3. DOMAIN b = DOMAIN a /\ DOMAIN a = 1 .. Len(a)
  BY <1>2
<1>4. \A t \in DOMAIN a :
        b[t].root = a[t].root /\ StatusOf(b[t].state) = StatusOf(a[t].state)
  BY <1>1, <1>2, <1>3
<1> QED
  BY <1>3, <1>4 DEF HistoryOf

\* The catalog and its history, in the two states of a step.
LEMMA CatalogNow ==
  /\ CatalogOf(db) = CatalogFor(db, active)
  /\ CatalogOf(db)' = CatalogFor(db', active')
BY DEF CatalogOf, CatalogFor, Scanning, IsOpen, state

LEMMA QuietCatalog ==
  ASSUME Quiet
  PROVE  CatalogFor(db', active') = CatalogFor(db, active) /\ HistoryOf(db'.scans) = HistoryOf(db.scans)
<1>1. db' = db
  BY DEF Quiet
<1>2. CASE active' = active
  BY <1>1, <1>2
<1>3. CASE active' = 0 /\ ~IsOpen(db, active)
  <2>1. ~IsOpen(db, 0)
    BY DEF IsOpen
  <2> QED
    BY <1>1, <1>3, <2>1, IdleCatalog
<1> QED
  BY <1>2, <1>3 DEF Quiet

\* What every outcome but Begins knows of the two stores.
LEMMA OpenStores ==
  ASSUME TypeInv, TypeInv', ScanInv, ScanInv', active # 0, active' = active
  PROVE  /\ StoreOK(db) /\ StoreOK(db') /\ StoreInv(db, active) /\ StoreInv(db', active)
         /\ db.scans \in Seq(ScanRow) /\ active \in 1 .. Len(db.scans)
<1>1. StoreOK(db) /\ StoreOK(db') /\ StoreInv(db, active) /\ StoreInv(db', active)
  BY DEF TypeInv, TypeOK, StoreOK, ScanInv
<1>2. db.scans \in Seq(ScanRow)
  BY <1>1, RowTypes
<1> QED
  BY <1>1, <1>2, ActiveRow DEF TypeInv, TypeOK

LEMMA SteadyCatalog ==
  ASSUME TypeInv, TypeInv', ScanInv, ScanInv', Steady
  PROVE  CatalogFor(db', active') = CatalogFor(db, active) /\ HistoryOf(db'.scans) = HistoryOf(db.scans)
<1>1. /\ active' = active /\ active # 0
      /\ IsOpen(db, active) /\ IsOpen(db', active)
      /\ Settled(db', active) = Settled(db, active)
      /\ Moved(db.scans, db'.scans, active, state')
  BY DEF Steady
<1>2. /\ StoreOK(db) /\ StoreOK(db') /\ StoreInv(db, active) /\ StoreInv(db', active)
      /\ db.scans \in Seq(ScanRow) /\ active \in 1 .. Len(db.scans)
  BY <1>1, OpenStores
<1>3. Len(db'.scans) = Len(db.scans)
  BY <1>1 DEF Moved
<1>4. CatalogFor(db, active) = OpenCatalog(Settled(db, active))
  BY <1>1, <1>2, OpenCatalogIs
<1>5. CatalogFor(db', active) = OpenCatalog(Settled(db', active))
  BY <1>1, <1>2, <1>3, OpenCatalogIs
<1>6. db.scans[active].state \in InProgress /\ state' \in InProgress
  BY <1>1 DEF IsOpen, state
<1>7. HistoryOf(db'.scans) = HistoryOf(db.scans)
  BY <1>1, <1>2, <1>6, HistoryStays
<1> QED
  BY <1>1, <1>4, <1>5, <1>7

LEMMA BeginsCatalog ==
  ASSUME TypeInv, TypeInv', ScanInv, ScanInv', Begins
  PROVE  \E r \in Roots :
           /\ \A t \in DOMAIN HistoryOf(db.scans) : HistoryOf(db.scans)[t].status # "open"
           /\ HistoryOf(db'.scans) = Append(HistoryOf(db.scans), [root |-> r, status |-> "open"])
           /\ CatalogFor(db', active') = CatalogFor(db, active)
<1>1. PICK row \in ScanRow : row.state = "Scanning" /\ db'.scans = Append(db.scans, row)
  BY DEF Begins
<1>2. /\ active = 0 /\ active' = Len(db.scans) + 1 /\ SameTables(db, db') /\ db'.undo = {}
  BY DEF Begins
<1>3. /\ StoreOK(db) /\ StoreOK(db') /\ StoreInv(db, 0) /\ StoreInv(db', active')
  BY <1>2 DEF TypeInv, TypeOK, StoreOK, ScanInv
<1>4. row.state \in InProgress /\ row.root \in Roots
  BY <1>1 DEF InProgress, ScanRow
<1>5. CatalogFor(db', active') = CatalogFor(db, active)
  BY <1>1, <1>2, <1>3, <1>4, BeginCatalog
<1>6. db.scans \in Seq(ScanRow) /\ DOMAIN db.scans = 1 .. Len(db.scans)
  BY <1>3, RowTypes
<1>7. HistoryOf(db'.scans) = Append(HistoryOf(db.scans), [root |-> row.root, status |-> "open"])
  BY <1>1, <1>6, HistoryAppend
<1>8. ASSUME NEW t \in DOMAIN HistoryOf(db.scans)
      PROVE  HistoryOf(db.scans)[t].status # "open"
  <2>1. t \in 1 .. Len(db.scans) /\ HistoryOf(db.scans)[t].status = StatusOf(db.scans[t].state)
    BY <1>6 DEF HistoryOf
  <2>2. db.scans[t].state \in ScanStates
    <3>1. db.scans[t] \in ScanRow
      BY <1>6, <2>1
    <3> QED
      BY <3>1 DEF ScanRow
  <2>3. db.scans[t].state \notin InProgress
    BY <1>3, <2>1 DEF StoreInv, OnlyOpen
  <2> QED
    BY <2>1, <2>2, <2>3, Statuses
<1> QED
  BY <1>4, <1>5, <1>7, <1>8

LEMMA CompletesCatalog ==
  ASSUME TypeInv, TypeInv', ScanInv, ScanInv', Completes,
         NEW old, old = CatalogFor(db, active), NEW new, new = CatalogFor(db', active'),
         NEW ro, ro = db.scans[active].root
  PROVE  /\ active \in DOMAIN HistoryOf(db.scans)
         /\ HistoryOf(db.scans)[active].status = "open"
         /\ HistoryOf(db.scans)[active].root = ro
         /\ HistoryOf(db'.scans) = [HistoryOf(db.scans) EXCEPT ![active].status = "done"]
         /\ Catalog!Extends(Catalog!OfRoot(new.versions, ro), Catalog!OfRoot(old.versions, ro), active)
         /\ Catalog!Extends(Catalog!OfRoot(new.hashes, ro), Catalog!OfRoot(old.hashes, ro), active)
         /\ Catalog!NotOfRoot(new.versions, ro) = Catalog!NotOfRoot(old.versions, ro)
         /\ Catalog!NotOfRoot(new.hashes, ro) = Catalog!NotOfRoot(old.hashes, ro)
         /\ new.items = {q.item : q \in new.versions}
<1>1. /\ active' = active /\ active # 0
      /\ db.scans[active].state = "AnalyzingScan"
      /\ Moved(db.scans, db'.scans, active, "Completed")
      /\ db'.versions = db.versions /\ db'.hashes = db.hashes /\ db'.items = db.items
  BY DEF Completes, SameTables
<1>2. /\ StoreOK(db) /\ StoreOK(db') /\ StoreInv(db, active) /\ StoreInv(db', active)
      /\ db.scans \in Seq(ScanRow) /\ active \in 1 .. Len(db.scans)
  BY <1>1, OpenStores
<1>3. db.scans[active].state \in InProgress /\ IsOpen(db, active)
  BY <1>1 DEF InProgress, IsOpen
<1>4. db'.scans[active].state = "Completed"
  BY <1>1 DEF Moved
<1>5. ~IsOpen(db', active)
  BY <1>4 DEF IsOpen, InProgress
<1>6. /\ StatusOf("AnalyzingScan") = "open" /\ StatusOf("Completed") = "done"
  <2>1. /\ "AnalyzingScan" \in ScanStates /\ "AnalyzingScan" \in InProgress
        /\ "Completed" \in ScanStates
    BY DEF ScanStates, InProgress
  <2> QED
    BY <2>1, Statuses
<1>7. /\ active \in DOMAIN HistoryOf(db.scans)
      /\ HistoryOf(db.scans)[active].status = "open"
      /\ HistoryOf(db.scans)[active].root = ro
  BY <1>1, <1>2, <1>6 DEF HistoryOf
<1>8. HistoryOf(db'.scans) = [HistoryOf(db.scans) EXCEPT ![active].status = "done"]
  <2>1. PICK a, b, s, v : a = db.scans /\ b = db'.scans /\ s = active /\ v = "done"
    OBVIOUS
  <2>2. a \in Seq(ScanRow) /\ s \in 1 .. Len(a) /\ Moved(a, b, s, "Completed") /\ v = StatusOf("Completed")
    BY <1>1, <1>2, <1>6, <2>1
  <2>3. HistoryOf(b) = Marked(a, s, v)
    BY ONLY <2>2, HistoryMoved
  <2> QED
    BY ONLY <2>1, <2>3 DEF Marked
<1>9. PICK x : x = Settled(db, active)
  OBVIOUS
<1>10. PICK p : p = PrevCompleted(db.scans, ro, active)
  OBVIOUS
<1>11. x.versions = Before(db.versions, active, p) /\ x.hashes = RolledHashes(db, active)
  BY <1>9, <1>10 DEF Settled
<1>12. CatalogFor(db, active) = OpenCatalog(x)
  BY <1>2, <1>3, <1>9, OpenCatalogIs
<1>13. old.versions = Before(db.versions, active, p) /\ old.hashes = RolledHashes(db, active)
  BY <1>11, <1>12 DEF OpenCatalog
<1>14. new = [items |-> db'.items, versions |-> Unvalidated(db'.versions), hashes |-> db'.hashes]
  BY <1>1, <1>5, IdleCatalog
<1>15. new.versions = Unvalidated(db.versions) /\ new.hashes = db.hashes
  BY <1>1, <1>14
<1>16. /\ Catalog!Extends(Catalog!OfRoot(new.versions, ro), Catalog!OfRoot(old.versions, ro), active)
       /\ Catalog!NotOfRoot(new.versions, ro) = Catalog!NotOfRoot(old.versions, ro)
  BY <1>2, <1>3, <1>13, <1>15, VersionsExtend
<1>17. /\ Catalog!Extends(Catalog!OfRoot(new.hashes, ro), Catalog!OfRoot(old.hashes, ro), active)
       /\ Catalog!NotOfRoot(new.hashes, ro) = Catalog!NotOfRoot(old.hashes, ro)
  BY <1>2, <1>3, <1>13, <1>15, HashesExtend
<1>18. new.items = {q.item : q \in new.versions}
  <2>1. db'.items = {w.item : w \in Unvalidated(db'.versions)}
    BY <1>2, NamedItems DEF StoreInv
  <2> QED
    BY <1>14, <2>1
<1> QED
  BY <1>7, <1>8, <1>16, <1>17, <1>18

LEMMA DiscardsCatalog ==
  ASSUME TypeInv, TypeInv', ScanInv, ScanInv', Discards
  PROVE  /\ active \in DOMAIN HistoryOf(db.scans)
         /\ HistoryOf(db.scans)[active].status = "open"
         /\ HistoryOf(db'.scans) = [HistoryOf(db.scans) EXCEPT ![active].status = "void"]
         /\ CatalogFor(db', active') = CatalogFor(db, active)
<1>1. /\ active' = active /\ active # 0 /\ IsOpen(db, active)
      /\ db'.versions = ClearVal(RolledVersions(db, active))
      /\ db'.hashes = RolledHashes(db, active)
      /\ db'.items = {i \in db.items : RowsOf(db'.versions, i) # {}}
  BY DEF Discards
<1>2. PICK st \in Discarded : Moved(db.scans, db'.scans, active, st)
  BY DEF Discards
<1>3. /\ StoreOK(db) /\ StoreOK(db') /\ StoreInv(db, active) /\ StoreInv(db', active)
      /\ db.scans \in Seq(ScanRow) /\ active \in 1 .. Len(db.scans)
  BY <1>1, OpenStores
<1>4. db'.scans[active].state = st
  BY <1>2 DEF Moved
<1>5. ~IsOpen(db', active)
  BY <1>4 DEF IsOpen, InProgress, Discarded
<1>6. CatalogFor(db', active) = CatalogFor(db, active)
  BY <1>1, <1>3, <1>5, DiscardCatalog
<1>7. db.scans[active].state \in InProgress
  BY <1>1 DEF IsOpen
<1>8. StatusOf(db.scans[active].state) = "open" /\ StatusOf(st) = "void"
  BY <1>7, Statuses DEF ScanStates
<1>9. /\ active \in DOMAIN HistoryOf(db.scans)
      /\ HistoryOf(db.scans)[active].status = "open"
  BY <1>3, <1>8 DEF HistoryOf
<1>10. HistoryOf(db'.scans) = [HistoryOf(db.scans) EXCEPT ![active].status = "void"]
  <2>1. PICK a, b, s, v : a = db.scans /\ b = db'.scans /\ s = active /\ v = "void"
    OBVIOUS
  <2>2. a \in Seq(ScanRow) /\ s \in 1 .. Len(a) /\ Moved(a, b, s, st) /\ v = StatusOf(st)
    BY <1>2, <1>3, <1>8, <2>1
  <2>3. HistoryOf(b) = Marked(a, s, v)
    BY ONLY <2>2, HistoryMoved
  <2> QED
    BY ONLY <2>1, <2>3 DEF Marked
<1> QED
  BY <1>1, <1>6, <1>9, <1>10

\* Each outcome of a step is a step of the catalog, or none.
LEMMA NextCatalog ==
  ASSUME TypeInv, TypeInv', ScanInv, ScanInv', [Next]_vars
  PROVE  [Catalog!Next]_(Catalog!vars)
<1> DEFINE history == [s \in DOMAIN db.scans |->
                         [root |-> db.scans[s].root, status |-> StatusOf(db.scans[s].state)]]
<1>1. /\ history = HistoryOf(db.scans) /\ history' = HistoryOf(db'.scans)
      /\ CatalogOf(db) = CatalogFor(db, active) /\ CatalogOf(db)' = CatalogFor(db', active')
  BY CatalogNow DEF HistoryOf
<1> HIDE DEF history
<1>2. Quiet \/ Steady \/ Begins \/ Completes \/ Discards
  BY NextScanInv
<1>3. CASE Quiet \/ Steady
  <2>1. history' = history /\ CatalogOf(db)' = CatalogOf(db)
    BY <1>1, <1>3, QuietCatalog, SteadyCatalog
  <2> QED
    BY <2>1 DEF Catalog!vars, history
<1>4. CASE Begins
  <2>1. PICK r \in Roots :
          /\ \A t \in DOMAIN history : history[t].status # "open"
          /\ history' = Append(history, [root |-> r, status |-> "open"])
          /\ CatalogOf(db)' = CatalogOf(db)
    BY <1>1, <1>4, BeginsCatalog
  <2>2. Catalog!Begin(r)
    BY <2>1 DEF Catalog!Begin, Catalog!NoneOpen, history
  <2> QED
    BY <2>2 DEF Catalog!Next
<1>5. CASE Completes
  <2> DEFINE ro == db.scans[active].root
  <2>1. /\ active \in DOMAIN history
        /\ history[active].status = "open" /\ history[active].root = ro
        /\ history' = [history EXCEPT ![active].status = "done"]
        /\ Catalog!Extends(Catalog!OfRoot(CatalogOf(db)'.versions, ro),
                           Catalog!OfRoot(CatalogOf(db).versions, ro), active)
        /\ Catalog!Extends(Catalog!OfRoot(CatalogOf(db)'.hashes, ro),
                           Catalog!OfRoot(CatalogOf(db).hashes, ro), active)
        /\ Catalog!NotOfRoot(CatalogOf(db)'.versions, ro) = Catalog!NotOfRoot(CatalogOf(db).versions, ro)
        /\ Catalog!NotOfRoot(CatalogOf(db)'.hashes, ro) = Catalog!NotOfRoot(CatalogOf(db).hashes, ro)
        /\ CatalogOf(db)'.items = {q.item : q \in CatalogOf(db)'.versions}
    BY <1>1, <1>5, CompletesCatalog
  <2> HIDE DEF ro
  <2>2. PICK t : t = active
    OBVIOUS
  <2>3. t \in DOMAIN history /\ Catalog!CompleteScan(t)
    BY <2>1, <2>2 DEF Catalog!CompleteScan, history
  <2>4. Catalog!Next
    BY <2>3 DEF Catalog!Next, history
  <2> QED
    BY <2>4
<1>6. CASE Discards
  <2>1. /\ active \in DOMAIN history
        /\ history[active].status = "open"
        /\ history' = [history EXCEPT ![active].status = "void"]
        /\ CatalogOf(db)' = CatalogOf(db)
    BY <1>1, <1>6, DiscardsCatalog
  <2>2. PICK t : t = active
    OBVIOUS
  <2>3. t \in DOMAIN history /\ Catalog!DiscardScan(t)
    BY <2>1, <2>2 DEF Catalog!DiscardScan, history
  <2>4. Catalog!Next
    BY <2>3 DEF Catalog!Next, history
  <2> QED
    BY <2>4
<1> QED
  BY <1>2, <1>3, <1>4, <1>5, <1>6

LEMMA InitCatalog ==
  ASSUME Init
  PROVE  Catalog!Init
<1>1. db = EmptyStore /\ active = 0
  BY DEF Init
<1>2. /\ db.items = {} /\ db.versions = {} /\ db.hashes = {} /\ db.scans = << >>
  BY <1>1 DEF EmptyStore
<1>3. ~Scanning
  BY <1>1 DEF Scanning
<1>4. Unvalidated({}) = {}
  BY DEF Unvalidated
<1>5. CatalogOf(db) = [items |-> {}, versions |-> {}, hashes |-> {}]
  BY <1>2, <1>3, <1>4 DEF CatalogOf
<1>6. [s \in DOMAIN db.scans |->
         [root |-> db.scans[s].root, status |-> StatusOf(db.scans[s].state)]] = << >>
  BY <1>2
<1> QED
  BY <1>5, <1>6 DEF Catalog!Init

\* Scanning implements the catalog: batches, workers, stops, pauses, errors and crashes
\* included, a scan changes what is recorded once, when it completes, and then only of
\* its own root, and one that is discarded never happened.
THEOREM ScansAreAtomic == Spec => AtomicScans
<1>1. Init => Catalog!Init
  BY InitCatalog
<1>2. TypeInv /\ TypeInv' /\ ScanInv /\ ScanInv' /\ [Next]_vars => [Catalog!Next]_(Catalog!vars)
  BY NextCatalog
<1> QED
  BY ScanInvariant, <1>1, <1>2, PTL DEF Spec, AtomicScans, Catalog!Spec
=============================================================================
