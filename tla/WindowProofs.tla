---------------------------- MODULE WindowProofs ----------------------------
(***************************************************************************)
(* Theorems about ScanLifecycle, for every number of roots, items, scans   *)
(* and faults: the statements of the store, types, and the windows of      *)
(* versions.                                                               *)
(***************************************************************************)
EXTENDS ScanProperties, WellFoundedInduction, SequenceTheorems, TLAPS

(* The statements of TemporalStore *)

(***************************************************************************)
(* A set of rows has a bound on its version numbers.  Bounds, unlike       *)
(* finiteness, survive every statement by simple arithmetic, and a bounded *)
(* set of naturals has a maximum.                                          *)
(***************************************************************************)
Bounds(vs, n) == n \in Nat /\ \A r \in vs : r.ver <= n

Bounded(vs) == \E n \in Nat : Bounds(vs, n)

LEMMA LessIsWellFounded ==
  \E R : IsWellFoundedOn(R, Nat) /\ \A n, k \in Nat : n < k => <<n, k>> \in R
<1>1. \A n, k \in Nat : n < k => <<n, k>> \in OpToRel(<, Nat)
  BY Zenon DEF OpToRel
<1> QED
  BY <1>1, NatLessThanWellFounded, Zenon

\* MaxOf finds the maximum of every bounded, non-empty set of naturals.
LEMMA MaxOfBounded ==
  ASSUME NEW S \in SUBSET Nat, S # {}, NEW b \in Nat, \A m \in S : m <= b
  PROVE  MaxOf(S) \in S /\ \A m \in S : m <= MaxOf(S)
<1> DEFINE U == {n \in Nat : \A m \in S : m <= n}
<1>1. U \subseteq Nat /\ U # {}
  OBVIOUS
<1>2. PICK R : IsWellFoundedOn(R, Nat) /\ \A n, k \in Nat : n < k => <<n, k>> \in R
  BY LessIsWellFounded
<1>3. PICK k \in U : \A n \in U : ~ (<<n, k>> \in R)
  <2>1. IsWellFoundedOn(R, Nat)
    BY <1>2
  <2> HIDE DEF U
  <2> QED
    BY <1>1, <2>1, WFMin, Zenon
<1>4. ASSUME NEW n \in U PROVE k <= n
  <2>1. n \in Nat /\ k \in Nat /\ ~ (n < k)
    BY <1>2, <1>3
  <2> QED
    BY <2>1
<1>5. k \in S
  <2> SUFFICES ASSUME k \notin S PROVE FALSE
    OBVIOUS
  <2>1. k # 0
    <3>1. ASSUME k = 0 PROVE \A m \in S : m = k
      BY <3>1
    <3> QED
      BY <3>1
  <2>2. k - 1 \in U
    BY <1>1, <2>1
  <2> QED
    BY <1>1, <1>4, <2>2
<1> QED
  BY <1>5 DEF MaxOf

\* A new version's number is past every number its item has, and one more than
\* the table's bound at most.
LEMMA NextVerNew ==
  ASSUME NEW vs \in SUBSET VersionRow, NEW n \in Nat, Bounds(vs, n), NEW i
  PROVE  /\ NextVer(vs, i) \in Nat
         /\ NextVer(vs, i) <= n + 1
         /\ \A r \in RowsOf(vs, i) : r.ver < NextVer(vs, i)
<1> DEFINE S == {0} \cup {r.ver : r \in RowsOf(vs, i)}
<1>1. S \in SUBSET Nat /\ S # {} /\ \A m \in S : m <= n
  BY DEF RowsOf, VersionRow, Bounds
<1>2. \A r \in RowsOf(vs, i) : r.ver \in S
  OBVIOUS
<1>3. NextVer(vs, i) = MaxOf(S) + 1
  BY DEF NextVer
<1> HIDE DEF S
<1>4. MaxOf(S) \in S /\ \A m \in S : m <= MaxOf(S)
  BY <1>1, MaxOfBounded
<1>5. MaxOf(S) \in Nat /\ MaxOf(S) <= n
  BY <1>1, <1>4
<1>6. ASSUME NEW r \in RowsOf(vs, i) PROVE r.ver < NextVer(vs, i)
  <2>1. r.ver \in Nat /\ r.ver <= MaxOf(S)
    BY <1>1, <1>2, <1>4
  <2> QED
    BY <1>3, <1>5, <2>1
<1>7. NextVer(vs, i) \in Nat /\ NextVer(vs, i) <= n + 1
  BY <1>3, <1>5
<1> QED
  BY <1>6, <1>7

\* The last completed scan before s is a scan before s, or 0.
LEMMA PrevCompletedEarlier ==
  ASSUME NEW scans \in Seq(ScanRow), NEW r, NEW s \in Nat \ {0}
  PROVE  /\ PrevCompleted(scans, r, s) \in Nat
         /\ PrevCompleted(scans, r, s) < s
<1> DEFINE P == {0} \cup {p \in 1 .. Len(scans) :
                    p < s /\ scans[p].root = r /\ scans[p].state = "Completed"}
<1>1. P \in SUBSET Nat /\ P # {} /\ \A m \in P : m < s /\ m <= s
  OBVIOUS
<1>2. MaxOf(P) \in P
  <2> HIDE DEF P
  <2> QED
    BY <1>1, MaxOfBounded
<1>3. PrevCompleted(scans, r, s) = MaxOf(P)
  BY DEF PrevCompleted
<1> QED
  BY <1>1, <1>2, <1>3
-----------------------------------------------------------------------------
(* Every statement keeps the columns' types and a bound on the numbers.    *)

Table(vs) == vs \in SUBSET VersionRow /\ Bounded(vs)

LEMMA NewVersionTable ==
  ASSUME NEW vs, Table(vs), NEW i \in Items, NEW s \in Nat, NEW del \in BOOLEAN,
         NEW access \in Accesses, NEW meta \in Metas \cup {NoMeta}
  PROVE  /\ NewVersion(vs, i, s, del, access, meta) \in VersionRow
         /\ Table(vs \cup {NewVersion(vs, i, s, del, access, meta)})
<1>1. PICK n \in Nat : Bounds(vs, n)
  BY DEF Table, Bounded, Bounds
<1>2. NextVer(vs, i) \in Nat /\ NextVer(vs, i) <= n + 1
  BY <1>1, NextVerNew DEF Table
<1>3. NewVersion(vs, i, s, del, access, meta) \in VersionRow
  BY <1>2 DEF NewVersion, VersionRow
<1>4. Bounds(vs \cup {NewVersion(vs, i, s, del, access, meta)}, n + 1)
  BY <1>1, <1>2 DEF NewVersion, Bounds, Table, VersionRow
<1> QED
  BY <1>3, <1>4 DEF Table, Bounded, Bounds

LEMMA SetLastTable ==
  ASSUME NEW vs, Table(vs), NEW i, NEW v, NEW s \in Nat
  PROVE  Table(SetLast(vs, i, v, s))
<1>1. PICK n \in Nat : Bounds(vs, n)
  BY DEF Table, Bounded, Bounds
<1>2. SetLast(vs, i, v, s) \in SUBSET VersionRow
  BY DEF SetLast, VersionRow, Table
<1>3. Bounds(SetLast(vs, i, v, s), n)
  BY <1>1 DEF SetLast, VersionRow, Table, Bounds
<1> QED
  BY <1>2, <1>3 DEF Table, Bounded, Bounds

LEMMA SetAccessTable ==
  ASSUME NEW vs, Table(vs), NEW i, NEW v, NEW a \in Accesses
  PROVE  Table(SetAccess(vs, i, v, a))
<1>1. PICK n \in Nat : Bounds(vs, n)
  BY DEF Table, Bounded, Bounds
<1>2. SetAccess(vs, i, v, a) \in SUBSET VersionRow
  BY DEF SetAccess, VersionRow, Table
<1>3. Bounds(SetAccess(vs, i, v, a), n)
  BY <1>1 DEF SetAccess, VersionRow, Table, Bounds
<1> QED
  BY <1>2, <1>3 DEF Table, Bounded, Bounds

LEMMA SetValTable ==
  ASSUME NEW vs, Table(vs), NEW i, NEW v, NEW s \in Nat
  PROVE  Table(SetVal(vs, i, v, s))
<1>1. PICK n \in Nat : Bounds(vs, n)
  BY DEF Table, Bounded, Bounds
<1>2. SetVal(vs, i, v, s) \in SUBSET VersionRow
  BY DEF SetVal, VersionRow, Table
<1>3. Bounds(SetVal(vs, i, v, s), n)
  BY <1>1 DEF SetVal, VersionRow, Table, Bounds
<1> QED
  BY <1>2, <1>3 DEF Table, Bounded, Bounds

\* Closing a version and inserting its successor, numbered before the close.
LEMMA CloseAndSucceedTable ==
  ASSUME NEW vs, Table(vs), NEW n \in Nat, Bounds(vs, n),
         NEW r \in VersionRow, NEW prev \in Nat, NEW s \in Nat,
         NEW del \in BOOLEAN, NEW access \in Accesses
  PROVE  LET c == CloseAndSucceed(vs, r, prev, NewVersion(vs, r.item, s, del, access, r.meta))
         IN c \in SUBSET VersionRow /\ Bounds(c, n + 1)
<1> DEFINE new == NewVersion(vs, r.item, s, del, access, r.meta)
           closed == IF prev = 0 THEN vs ELSE SetLast(vs, r.item, r.ver, prev)
<1>1. r.item \in Items /\ r.meta \in Metas \cup {NoMeta}
  BY DEF VersionRow
<1>2. new \in VersionRow
  BY <1>1, NewVersionTable
<1>3. new.ver <= n + 1
  <2>1. NextVer(vs, r.item) <= n + 1
    BY NextVerNew DEF Table
  <2> QED
    BY <2>1 DEF NewVersion
<1>4. Table(closed)
  BY SetLastTable
<1>5. \A q \in closed : q.ver <= n
  BY DEF SetLast, Bounds, Table, VersionRow
<1> HIDE DEF closed, new
<1>6. closed \cup {new} \in SUBSET VersionRow
  BY <1>2, <1>4 DEF Table
<1>7. Bounds(closed \cup {new}, n + 1)
  <2>1. \A q \in closed : q.ver \in Nat
    BY <1>4 DEF Table, VersionRow
  <2> QED
    BY <1>3, <1>5, <2>1 DEF Bounds
<1> QED
  BY <1>6, <1>7 DEF CloseAndSucceed, closed, new

\* Sweep's tombstones: several versions inserted by one statement, each for an
\* item of its own row.
LEMMA TombstonesTable ==
  ASSUME NEW vs, Table(vs), NEW Q \in SUBSET vs, NEW s \in Nat
  PROVE  Table(vs \cup {NewVersion(vs, q.item, s, TRUE, q.access, q.meta) : q \in Q})
<1> DEFINE new(q) == NewVersion(vs, q.item, s, TRUE, q.access, q.meta)
<1>1. PICK n \in Nat : Bounds(vs, n)
  BY DEF Table, Bounded, Bounds
<1>2. ASSUME NEW q \in Q
      PROVE  new(q) \in VersionRow /\ new(q).ver <= n + 1
  <2>1. q.item \in Items /\ q.access \in Accesses /\ q.meta \in Metas \cup {NoMeta}
    BY DEF Table, VersionRow
  <2>2. new(q) \in VersionRow
    BY <2>1, NewVersionTable
  <2>3. NextVer(vs, q.item) <= n + 1
    BY <1>1, NextVerNew DEF Table
  <2> QED
    BY <2>2, <2>3 DEF NewVersion
<1>3. vs \cup {new(q) : q \in Q} \in SUBSET VersionRow
  BY <1>2 DEF Table
<1>4. Bounds(vs \cup {new(q) : q \in Q}, n + 1)
  <2>1. \A r \in vs : r.ver <= n + 1
    BY <1>1 DEF Bounds, Table, VersionRow
  <2>2. \A q \in Q : new(q).ver <= n + 1
    BY <1>2
  <2> HIDE DEF new
  <2> QED
    BY <2>1, <2>2 DEF Bounds
<1> QED
  BY <1>3, <1>4 DEF Table, Bounded, Bounds

LEMMA ReplayedTable ==
  ASSUME NEW d \in Stores, Bounded(d.versions), NEW s
  PROVE  Table(ClearVal(RolledVersions(d, s)))
<1> DEFINE vs == RolledVersions(d, s)
<1>1. PICK n \in Nat : Bounds(d.versions, n)
  BY DEF Bounded, Bounds
<1>2. ASSUME NEW q \in d.versions
      PROVE  /\ Replay(UndoFor(d.undo, q), q) \in VersionRow
             /\ Replay(UndoFor(d.undo, q), q).ver <= n
  <2>1. q \in VersionRow /\ q.ver <= n
    BY <1>1 DEF Stores, Bounds
  <2>2. UndoFor(d.undo, q) \subseteq UndoRow
    BY DEF UndoFor, Stores
  <2>3. CASE UndoFor(d.undo, q) = {}
    BY <2>1, <2>3 DEF Replay
  <2>4. CASE UndoFor(d.undo, q) # {}
    <3>1. (CHOOSE u \in UndoFor(d.undo, q) : TRUE) \in UndoRow
      BY <2>2, <2>4
    <3> QED
      BY <2>1, <2>4, <3>1 DEF Replay, VersionRow, UndoRow
  <2> QED
    BY <2>3, <2>4
<1>3. vs \in SUBSET VersionRow /\ \A r \in vs : r.ver <= n
  BY <1>2 DEF RolledVersions
<1> HIDE DEF vs
<1>4. ClearVal(vs) \in SUBSET VersionRow /\ \A r \in ClearVal(vs) : r.ver <= n
  BY <1>3 DEF ClearVal, VersionRow
<1> QED
  BY <1>4 DEF Table, Bounded, Bounds, vs

LEMMA RolledHashesType ==
  ASSUME NEW d \in Stores, NEW s
  PROVE  RolledHashes(d, s) \in SUBSET HashRow
<1>1. ASSUME NEW h \in d.hashes
      PROVE  Replay(UndoForHash(d.undo, h), h) \in HashRow
  <2>1. h \in HashRow /\ UndoForHash(d.undo, h) \subseteq UndoRow
    BY DEF UndoForHash, Stores
  <2>2. CASE UndoForHash(d.undo, h) = {}
    BY <2>1, <2>2 DEF Replay
  <2>3. CASE UndoForHash(d.undo, h) # {}
    <3>1. (CHOOSE u \in UndoForHash(d.undo, h) : TRUE) \in UndoRow
      BY <2>1, <2>3
    <3> QED
      BY <2>1, <2>3, <3>1 DEF Replay, HashRow, UndoRow
  <2> QED
    BY <2>2, <2>3
<1> QED
  BY <1>1 DEF RolledHashes
-----------------------------------------------------------------------------
(* A well-formed store: every table typed, version numbers bounded.        *)

StoreOK(d) == d \in Stores /\ Bounded(d.versions)

LEMMA RollbackOK ==
  ASSUME NEW d, StoreOK(d), NEW s
  PROVE  StoreOK(Rollback(d, s)) /\ Rollback(d, s).scans = d.scans
<1> DEFINE vs == ClearVal(RolledVersions(d, s))
           items == {i \in d.items : RowsOf(vs, i) # {}}
           hs == RolledHashes(d, s)
<1>1. vs \in SUBSET VersionRow /\ Bounded(vs)
  BY ReplayedTable DEF Table, StoreOK
<1>2. hs \in SUBSET HashRow
  BY RolledHashesType DEF StoreOK
<1>3. items \in SUBSET Items
  BY DEF StoreOK, Stores
<1>4. Rollback(d, s) = [d EXCEPT !.versions = vs, !.hashes = hs, !.items = items, !.undo = {}]
  BY DEF Rollback
<1> HIDE DEF vs, items, hs
<1> QED
  BY <1>1, <1>2, <1>3, <1>4 DEF StoreOK, Stores

LEMMA SetStateOK ==
  ASSUME NEW d, StoreOK(d), NEW s \in 1 .. Len(d.scans), NEW st \in ScanStates
  PROVE  /\ StoreOK(SetState(d, s, st))
         /\ Len(SetState(d, s, st).scans) = Len(d.scans)
<1>1. [d.scans EXCEPT ![s] = [d.scans[s] EXCEPT !.state = st]] \in Seq(ScanRow)
  <2>1. d.scans \in Seq(ScanRow) /\ d.scans[s] \in ScanRow
    BY DEF StoreOK, Stores
  <2>2. [d.scans[s] EXCEPT !.state = st] \in ScanRow
    BY <2>1 DEF ScanRow
  <2> QED
    BY <2>1, <2>2, ExceptSeq
<1>2. SetState(d, s, st) =
        [d EXCEPT !.scans = [d.scans EXCEPT ![s] = [d.scans[s] EXCEPT !.state = st]]]
  BY DEF SetState, StoreOK, Stores
<1>3. Len([d.scans EXCEPT ![s] = [d.scans[s] EXCEPT !.state = st]]) = Len(d.scans)
  BY DEF StoreOK, Stores
<1> QED
  BY <1>1, <1>2, <1>3 DEF StoreOK, Stores

LEMMA SweepOK ==
  ASSUME NEW d, StoreOK(d), NEW r, NEW s \in Nat
  PROVE  StoreOK(Sweep(d, r, s)) /\ Sweep(d, r, s).scans = d.scans
<1> DEFINE vs == d.versions \cup
     {NewVersion(d.versions, q.item, s, TRUE, q.access, q.meta) :
        q \in Unconfirmed(d, r, s)}
<1>1. Table(d.versions) /\ Unconfirmed(d, r, s) \in SUBSET d.versions
  BY DEF Table, StoreOK, Stores, Unconfirmed
<1>2. Table(vs)
  BY <1>1, TombstonesTable
<1>3. Sweep(d, r, s) = [d EXCEPT !.versions = vs]
  BY DEF Sweep
<1> HIDE DEF vs
<1> QED
  BY <1>2, <1>3 DEF StoreOK, Stores, Table
-----------------------------------------------------------------------------

(* Types *)

(***************************************************************************)
(* TypeOK is not inductive by itself: a version number is one more than a  *)
(* maximum, so the tables must be bounded; a batch is committed by copying *)
(* tx to db, so both must hold the same scans; and the actions of a task   *)
(* look up the row of the active scan, so there must be one.               *)
(***************************************************************************)
TypeInv ==
  /\ TypeOK
  /\ Bounded(db.versions) /\ Bounded(tx.versions)
  /\ tx.scans = db.scans
  /\ pc # "none" => active # 0

LEMMA ActiveRow ==
  ASSUME TypeInv, active # 0
  PROVE  /\ active \in 1 .. Len(db.scans) /\ active \in Nat \ {0}
         /\ db.scans[active] \in ScanRow
         /\ root \in Roots
         /\ PrevCompleted(db.scans, root, active) \in Nat
<1>1. active \in 1 .. Len(db.scans) /\ active \in Nat \ {0} /\ db.scans \in Seq(ScanRow)
  BY DEF TypeInv, TypeOK, Stores
<1>2. db.scans[active] \in ScanRow
  BY <1>1
<1> QED
  BY <1>1, <1>2, PrevCompletedEarlier DEF root, ScanRow

\* A transaction that leaves a well-formed store with the same scans, or the
\* same with other states, keeps TypeInv's conjuncts about the tables.
LEMMA CommitTypeInv ==
  ASSUME TypeInv, NEW d, StoreOK(d), Len(d.scans) = Len(db.scans), Commit(d),
         active' \in {0, active}, pc' \in Threads, intr' \in {"no", "stop", "pause"},
         writes' \subseteq Dirs, analyzed' \subseteq Items, faults' \in 0 .. MaxFaults,
         pc' # "none" => active' # 0
  PROVE  TypeInv'
<1>1. active' \in 0 .. Len(db.scans)
  BY DEF TypeInv, TypeOK, Stores
<1> QED
  BY <1>1 DEF TypeInv, TypeOK, Commit, StoreOK

LEMMA ObservationType ==
  ASSUME NEW i \in Items, NEW o \in Observations(i), NEW old
  PROVE  /\ o.meta \in Metas \cup {NoMeta}
         /\ NewAccess(i, old, o.err) \in Accesses
<1>1. o.meta \in Metas \cup {NoMeta} /\ o.err \in {"none", "list", "stat"}
  <2>1. CASE i \in Dirs
    BY <2>1 DEF Observations
  <2>2. CASE i \notin Dirs /\ i \in Files
    BY <2>2 DEF Observations
  <2>3. CASE i \notin Dirs /\ i \notin Files
    BY <2>3 DEF Observations
  <2> QED
    BY <2>1, <2>2, <2>3
<1> QED
  BY <1>1 DEF NewAccess, Accesses

\* One new version written to the open batch.
LEMMA InsertTypeInv ==
  ASSUME TypeInv, NEW i \in Items, Visit(i), NEW o \in Observations(i), NEW old,
         NEW items \in SUBSET Items,
         tx' = [tx EXCEPT !.items = items,
                  !.versions = tx.versions \cup
                    {NewVersion(tx.versions, i, active, FALSE, NewAccess(i, old, o.err), o.meta)}]
  PROVE  TypeInv'
<1> DEFINE vs == tx.versions \cup
       {NewVersion(tx.versions, i, active, FALSE, NewAccess(i, old, o.err), o.meta)}
<1>1. Table(tx.versions) /\ active \in Nat
  BY DEF Table, TypeInv, TypeOK, Stores
<1>2. Table(vs)
  BY <1>1, ObservationType, NewVersionTable
<1> HIDE DEF vs
<1>3. tx' \in Stores /\ tx'.versions = vs /\ tx'.scans = tx.scans
  BY <1>2 DEF TypeInv, TypeOK, Stores, Table, vs
<1> QED
  BY <1>2, <1>3 DEF TypeInv, TypeOK, Visit, Table

LEMMA AddItemTypeInv ==
  ASSUME TypeInv, NEW i \in Items, NEW o \in Observations(i), AddItem(i, o)
  PROVE  TypeInv'
<1>1. tx.items \cup {i} \in SUBSET Items
  BY DEF TypeInv, TypeOK, Stores
<1>2. tx' = [tx EXCEPT !.items = tx.items \cup {i},
                  !.versions = tx.versions \cup
                    {NewVersion(tx.versions, i, active, FALSE, NewAccess(i, "Ok", o.err), o.meta)}]
  BY DEF AddItem, TypeInv, TypeOK, Stores
<1> QED
  BY <1>1, <1>2, InsertTypeInv DEF AddItem

LEMMA ReplaceItemTypeInv ==
  ASSUME TypeInv, NEW i \in Items, NEW o \in Observations(i),
         RehydrateItem(i, o) \/ ModifyItem(i, o)
  PROVE  TypeInv'
<1>1. PICK r \in Existing(i) :
        tx' = [tx EXCEPT !.versions = tx.versions \cup
                 {NewVersion(tx.versions, i, active, FALSE, NewAccess(i, r.access, o.err), o.meta)}]
  BY DEF RehydrateItem, ModifyItem, TypeInv, TypeOK, Stores
<1>2. tx' = [tx EXCEPT !.items = tx.items, !.versions = tx.versions \cup
                 {NewVersion(tx.versions, i, active, FALSE, NewAccess(i, r.access, o.err), o.meta)}]
  BY <1>1 DEF TypeInv, TypeOK, Stores
<1>3. Visit(i) /\ tx.items \in SUBSET Items
  BY DEF RehydrateItem, ModifyItem, TypeInv, TypeOK, Stores
<1> QED
  BY <1>2, <1>3, InsertTypeInv

LEMMA ConfirmItemTypeInv ==
  ASSUME TypeInv, NEW i \in Items, NEW o \in Observations(i), ConfirmItem(i, o)
  PROVE  TypeInv'
<1>1. PICK r \in Existing(i) :
        tx' = [tx EXCEPT !.undo = tx.undo \cup {LogVersion(r)},
                         !.versions = SetLast(tx.versions, i, r.ver, active)]
  BY DEF ConfirmItem, TypeInv, TypeOK, Stores
<1>2. Table(tx.versions) /\ active \in Nat
  BY DEF Table, TypeInv, TypeOK, Stores
<1>3. Table(SetLast(tx.versions, i, r.ver, active))
  BY <1>2, SetLastTable
<1>4. r \in VersionRow
  BY DEF Existing, Latest, RowsOf, TypeInv, TypeOK, Stores
<1>5. LogVersion(r) \in UndoRow
  BY <1>4 DEF LogVersion, UndoRow, VersionRow
<1>6. tx' \in Stores /\ Bounded(tx'.versions) /\ tx'.scans = tx.scans
  BY <1>1, <1>3, <1>5 DEF TypeInv, TypeOK, Stores, Table
<1> QED
  BY <1>6 DEF TypeInv, TypeOK, ConfirmItem, Visit

LEMMA StartScanTypeInv ==
  ASSUME TypeInv, NEW r \in Roots, NEW spec \in AnalysisSpecs, StartScan(r, spec)
  PROVE  TypeInv'
<1> DEFINE row == [root |-> r, state |-> "Scanning", hash |-> spec.hash, val |-> spec.val]
           d == [db EXCEPT !.scans = Append(db.scans, row)]
<1>1. row \in ScanRow
  BY LifecycleAssumption DEF ScanRow, ScanStates, InProgress
<1>2. db.scans \in Seq(ScanRow) /\ db \in Stores
  BY DEF TypeInv, TypeOK, Stores
<1> HIDE DEF row
<1>3. /\ Append(db.scans, row) \in Seq(ScanRow)
      /\ Len(Append(db.scans, row)) = Len(db.scans) + 1
      /\ Len(db.scans) + 1 \in Nat \ {0}
  BY <1>1, <1>2
<1>4. d \in Stores /\ d.versions = db.versions /\ d.scans = Append(db.scans, row)
  BY <1>2, <1>3 DEF Stores
<1>5. db' = d /\ tx' = d
  BY <1>2 DEF StartScan, Commit, row, Stores
<1> HIDE DEF d
<1> QED
  BY <1>3, <1>4, <1>5 DEF TypeInv, TypeOK, StartScan, Threads

LEMMA GuardUndoTypeInv ==
  ASSUME TypeInv, GuardUndo
  PROVE  TypeInv'
<1> DEFINE d == [db EXCEPT !.undo = {}]
<1>1. StoreOK(d) /\ d.scans = db.scans
  BY DEF TypeInv, TypeOK, Stores, StoreOK
<1>2. Commit(d)
  BY DEF GuardUndo
<1> HIDE DEF d
<1> QED
  BY <1>1, <1>2, CommitTypeInv DEF GuardUndo, Threads, TypeInv, TypeOK

LEMMA FlushBatchTypeInv ==
  ASSUME TypeInv, FlushBatch
  PROVE  TypeInv'
BY DEF TypeInv, TypeOK, FlushBatch

\* The steps that only move the active scan to its next state.
LEMMA SetStateTypeInv ==
  ASSUME TypeInv, pc # "none", NEW d, StoreOK(d), d.scans = db.scans,
         NEW st \in ScanStates, Commit(SetState(d, active, st)),
         active' = active, pc' \in Threads, UNCHANGED <<intr, writes, analyzed, faults>>
  PROVE  TypeInv'
<1>1. active \in 1 .. Len(d.scans)
  BY ActiveRow DEF TypeInv
<1>2. StoreOK(SetState(d, active, st)) /\ Len(SetState(d, active, st).scans) = Len(db.scans)
  BY <1>1, SetStateOK
<1> QED
  BY <1>2, CommitTypeInv DEF TypeInv, TypeOK

LEMMA WalkEndTypeInv ==
  ASSUME TypeInv, FinishWalk \/ SweepUnconfirmed \/ FinishAnalysis
  PROVE  TypeInv'
<1>1. pc = "run" /\ active # 0
  BY DEF TypeInv, FinishWalk, SweepUnconfirmed, FinishAnalysis, In
<1>2. StoreOK(db) /\ active \in Nat
  BY DEF TypeInv, TypeOK, StoreOK, Stores
<1>3. CASE FinishWalk
  BY <1>1, <1>2, <1>3, SetStateTypeInv DEF FinishWalk, ScanStates, InProgress, Threads
<1>4. CASE SweepUnconfirmed
  <2>1. StoreOK(Sweep(db, root, active)) /\ Sweep(db, root, active).scans = db.scans
    BY <1>2, SweepOK
  <2> QED
    BY <1>1, <1>4, <2>1, SetStateTypeInv
       DEF SweepUnconfirmed, ScanStates, InProgress, Threads
<1>5. CASE FinishAnalysis
  BY <1>1, <1>2, <1>5, SetStateTypeInv DEF FinishAnalysis, ScanStates, InProgress, Threads
<1> QED
  BY <1>3, <1>4, <1>5

LEMMA CompleteTypeInv ==
  ASSUME TypeInv, Complete
  PROVE  TypeInv'
<1> DEFINE c == SetState(db, active, "Completed")
           d == [c EXCEPT !.undo = {}]
<1>1. active \in 1 .. Len(db.scans) /\ StoreOK(db)
  BY ActiveRow DEF TypeInv, TypeOK, StoreOK, Complete
<1>2. StoreOK(c) /\ Len(c.scans) = Len(db.scans)
  BY <1>1, SetStateOK DEF ScanStates
<1>3. Commit(d)
  BY DEF Complete
<1> HIDE DEF c
<1>4. StoreOK(d) /\ Len(d.scans) = Len(db.scans)
  BY <1>2 DEF StoreOK, Stores
<1> HIDE DEF d
<1> QED
  BY <1>3, <1>4, CommitTypeInv DEF Complete, TypeInv, TypeOK, Threads

LEMMA RollBackToTypeInv ==
  ASSUME TypeInv, OnStopped \/ OnError
  PROVE  TypeInv'
<1>1. StoreOK(db) /\ active # 0 /\ pc # "none"
  BY DEF TypeInv, TypeOK, StoreOK, OnStopped, OnError
<1>2. StoreOK(Rollback(db, active)) /\ Rollback(db, active).scans = db.scans
  BY <1>1, RollbackOK
<1>3. ASSUME NEW st \in Discarded, RollBackTo(st), active' = active, pc' \in Threads,
             UNCHANGED <<intr, writes, analyzed, faults>>
      PROVE  TypeInv'
  BY <1>1, <1>2, <1>3, SetStateTypeInv DEF RollBackTo, ScanStates
<1>4. CASE OnStopped /\ state \in InProgress
  BY <1>3, <1>4 DEF OnStopped, Discarded, Threads
<1>5. CASE OnStopped /\ state \notin InProgress
  BY <1>1, <1>5 DEF OnStopped, TypeInv, TypeOK, Threads
<1>6. CASE OnError
  BY <1>3, <1>6 DEF OnError, Discarded, Threads
<1> QED
  BY <1>4, <1>5, <1>6

\* The three writes of persist_analysis, one after the other.
LEMMA PersistHashOK ==
  ASSUME NEW d, StoreOK(d), NEW r \in VersionRow, NEW hr, NEW s \in Nat
  PROVE  /\ StoreOK(PersistHash(d, r, hr, s))
         /\ PersistHash(d, r, hr, s).versions = d.versions
         /\ PersistHash(d, r, hr, s).scans = d.scans
<1> DEFINE same == {g \in CurrentHash(d.hashes, r.item, r.ver) : g.hash = hr}
           row == [item |-> r.item, ver |-> r.ver, first |-> s, last |-> s, hash |-> hr]
           inserted == d.hashes \cup {row}
           extended == (d.hashes \ same) \cup {[g EXCEPT !.last = s] : g \in same}
           logged == d.undo \cup {LogHash(g) : g \in same}
<1>1. same \in SUBSET HashRow /\ d.hashes \in SUBSET HashRow /\ d.undo \in SUBSET UndoRow
  BY DEF CurrentHash, HashesOf, StoreOK, Stores
<1>2. ASSUME hr \in Hashes PROVE inserted \in SUBSET HashRow
  BY <1>1, <1>2 DEF HashRow, VersionRow
<1>3. extended \in SUBSET HashRow
  BY <1>1 DEF HashRow
<1>4. logged \in SUBSET UndoRow
  BY <1>1 DEF LogHash, HashRow, UndoRow
<1>5. PersistHash(d, r, hr, s) =
        IF hr \notin Hashes THEN d
        ELSE IF same = {} THEN [d EXCEPT !.hashes = inserted]
        ELSE [d EXCEPT !.undo = logged, !.hashes = extended]
  BY DEF PersistHash, StoreOK, Stores
<1> HIDE DEF same, inserted, extended, logged
<1>6. CASE hr \notin Hashes
  BY <1>5, <1>6
<1>7. CASE hr \in Hashes /\ same = {}
  BY <1>2, <1>5, <1>7 DEF StoreOK, Stores
<1>8. CASE hr \in Hashes /\ same # {}
  BY <1>3, <1>4, <1>5, <1>8 DEF StoreOK, Stores
<1> QED
  BY <1>6, <1>7, <1>8

LEMMA PersistAccessTable ==
  ASSUME NEW vs, Table(vs), NEW r \in VersionRow, NEW access \in Accesses,
         NEW s \in Nat, NEW prev \in Nat
  PROVE  Table(PersistAccess(vs, r, access, s, prev))
<1> DEFINE new == NewVersion(vs, r.item, s, FALSE, access, r.meta)
<1>1. CASE access = r.access
  BY <1>1 DEF PersistAccess
<1>2. CASE access # r.access /\ r.first = s
  BY <1>2, SetAccessTable DEF PersistAccess
<1>3. CASE access # r.access /\ r.first # s
  <2>1. PICK n \in Nat : Bounds(vs, n)
    BY DEF Table, Bounded, Bounds
  <2>2. Table(CloseAndSucceed(vs, r, prev, new))
    BY <2>1, CloseAndSucceedTable DEF Table, Bounded, Bounds
  <2> QED
    BY <1>3, <2>2 DEF PersistAccess
<1> QED
  BY <1>1, <1>2, <1>3

LEMMA AnalyzeTypeInv ==
  ASSUME TypeInv, NEW r \in db.versions, Analyze(r)
  PROVE  TypeInv'
<1>1. /\ StoreOK(db) /\ Table(db.versions) /\ active # 0 /\ active \in Nat
      /\ r \in VersionRow
  BY DEF TypeInv, TypeOK, StoreOK, Stores, Table, Analyze, In
<1>0. PICK hr \in HashReads(r) : \E vr \in ValReads(r, hr) :
        LET missing == "missing" \in {hr, vr}
            hashed == IF missing THEN db ELSE PersistHash(db, r, hr, active)
            valued == IF missing THEN db.versions ELSE PersistVal(db.versions, r, vr, active)
            prev == PrevCompleted(db.scans, root, active)
        IN Commit([hashed EXCEPT !.versions =
             PersistAccess(valued, r, AccessAfter(r.access, hr, vr), active, prev)])
  BY DEF Analyze
<1>2. PICK vr \in ValReads(r, hr) :
        LET missing == "missing" \in {hr, vr}
            hashed == IF missing THEN db ELSE PersistHash(db, r, hr, active)
            valued == IF missing THEN db.versions ELSE PersistVal(db.versions, r, vr, active)
            prev == PrevCompleted(db.scans, root, active)
        IN Commit([hashed EXCEPT !.versions =
             PersistAccess(valued, r, AccessAfter(r.access, hr, vr), active, prev)])
  BY <1>0
<1> DEFINE missing == "missing" \in {hr, vr}
           hashed == IF missing THEN db ELSE PersistHash(db, r, hr, active)
           valued == IF missing THEN db.versions ELSE PersistVal(db.versions, r, vr, active)
           prev == PrevCompleted(db.scans, root, active)
           access == AccessAfter(r.access, hr, vr)
           vs == PersistAccess(valued, r, access, active, prev)
           d == [hashed EXCEPT !.versions = vs]
<1>3. StoreOK(hashed) /\ hashed.scans = db.scans
  BY <1>1, PersistHashOK
<1>4. Table(valued)
  BY <1>1, SetValTable DEF PersistVal
<1>5. access \in Accesses
  <2>1. r.access \in Accesses
    BY <1>1 DEF VersionRow
  <2>2. CASE "missing" \in {hr, vr}
    BY <2>2 DEF AccessAfter, Accesses
  <2>3. CASE "missing" \notin {hr, vr} /\ "denied" \in {hr, vr}
    BY <2>3 DEF AccessAfter, Accesses
  <2>4. CASE "missing" \notin {hr, vr} /\ "denied" \notin {hr, vr}
    BY <2>1, <2>4 DEF AccessAfter, Accesses
  <2> QED
    BY <2>2, <2>3, <2>4
<1>6. prev \in Nat
  BY <1>1, ActiveRow
<1> HIDE DEF hashed, valued, prev, access
<1>7. Table(vs)
  BY <1>1, <1>4, <1>5, <1>6, PersistAccessTable
<1>8. Commit(d)
  BY <1>2 DEF hashed, valued, prev, access
<1> HIDE DEF vs
<1>9. StoreOK(d) /\ d.scans = db.scans
  BY <1>3, <1>7 DEF StoreOK, Stores, Table
<1> HIDE DEF d
<1>10. analyzed \cup {r.item} \subseteq Items
  BY <1>1 DEF TypeInv, TypeOK, VersionRow
<1> QED
  BY <1>1, <1>8, <1>9, <1>10, CommitTypeInv DEF Analyze, TypeInv, TypeOK, In, Threads

LEMMA FolderTypeInv ==
  ASSUME TypeInv, WalkFolderCounts \/ \E f \in Dirs : ApplyFolderWrite(f)
  PROVE  TypeInv'
<1>1. CASE WalkFolderCounts
  <2>1. FoldersToWrite(db.versions, root, active) \subseteq Dirs
    BY DEF FoldersToWrite
  <2> QED
    BY <1>1, <2>1 DEF WalkFolderCounts, TypeInv, TypeOK, In, Threads
<1>2. ASSUME NEW f \in Dirs, ApplyFolderWrite(f) PROVE TypeInv'
  <2> DEFINE prev == PrevCompleted(db.scans, root, active)
             vs == WriteFolder(tx.versions, f, active, prev)
  <2>1. Table(tx.versions) /\ active # 0 /\ active \in Nat
    BY <1>2 DEF TypeInv, TypeOK, Table, Stores, ApplyFolderWrite
  <2>2. prev \in Nat
    BY <2>1, ActiveRow
  <2>3. Table(vs)
    <3>1. CASE \E r \in RowsOf(tx.versions, f) : r.first = active
      BY <2>1, <3>1 DEF WriteFolder
    <3>2. CASE ~ \E r \in RowsOf(tx.versions, f) : r.first = active
      <4> DEFINE closed(r) == CloseAndSucceed(tx.versions, r, prev,
                     NewVersion(tx.versions, f, active, r.del, r.access, r.meta))
      <4>1. PICK n \in Nat : Bounds(tx.versions, n)
        BY <2>1 DEF Table, Bounded, Bounds
      <4>2. ASSUME NEW r \in Latest(tx.versions, f)
            PROVE  closed(r) \in SUBSET VersionRow /\ \A q \in closed(r) : q.ver <= n + 1
        <5>1. r \in VersionRow /\ r.item = f /\ r.del \in BOOLEAN /\ r.access \in Accesses
          BY <2>1 DEF Latest, RowsOf, Table, VersionRow
        <5> QED
          BY <2>1, <2>2, <4>1, <5>1, CloseAndSucceedTable DEF Bounds
      <4>3. vs = UNION {closed(r) : r \in Latest(tx.versions, f)}
        BY <3>2 DEF WriteFolder
      <4> HIDE DEF closed, vs
      <4>4. vs \in SUBSET VersionRow /\ \A q \in vs : q.ver <= n + 1
        BY <4>2, <4>3
      <4> QED
        BY <4>4 DEF Table, Bounded, Bounds, vs
    <3> QED
      BY <3>1, <3>2
  <2>4. tx' = [tx EXCEPT !.versions = vs]
    BY <1>2 DEF ApplyFolderWrite, TypeInv, TypeOK, Stores
  <2> HIDE DEF vs
  <2>5. tx' \in Stores /\ tx'.versions = vs /\ tx'.scans = tx.scans
    BY <2>3, <2>4 DEF TypeInv, TypeOK, Stores, Table
  <2> QED
    BY <1>2, <2>3, <2>5 DEF TypeInv, TypeOK, ApplyFolderWrite, Table
<1> QED
  BY <1>1, <1>2

LEMMA ThreadTypeInv ==
  ASSUME TypeInv,
         \/ ResumeScan \/ FallThrough \/ Interrupted \/ CloseTask
         \/ Fail \/ RequestStop \/ RequestPause \/ Crash
  PROVE  TypeInv'
<1> USE DEF TypeInv, TypeOK, Threads
<1>1. CASE ResumeScan
  BY <1>1 DEF ResumeScan
<1>2. CASE FallThrough
  BY <1>2 DEF FallThrough
<1>3. CASE Interrupted
  BY <1>3 DEF Interrupted
<1>4. CASE CloseTask
  <2>1. 0 \in 0 .. Len(db.scans)
    BY DEF Stores
  <2> QED
    BY <1>4, <2>1 DEF CloseTask
<1>5. CASE Fail
  BY <1>5, LifecycleAssumption DEF Fail, Fault
<1>6. CASE RequestStop
  BY <1>6, LifecycleAssumption DEF RequestStop, Fault
<1>7. CASE RequestPause
  BY <1>7, LifecycleAssumption DEF RequestPause, Fault
<1>8. CASE Crash
  BY <1>8, LifecycleAssumption DEF Crash, Fault
<1> QED
  BY <1>1, <1>2, <1>3, <1>4, <1>5, <1>6, <1>7, <1>8

LEMMA InitTypeInv == Init => TypeInv
<1> SUFFICES ASSUME Init PROVE TypeInv
  OBVIOUS
<1>1. EmptyStore \in Stores
  BY DEF EmptyStore, Stores
<1>2. Bounded(EmptyStore.versions)
  <2>1. Bounds(EmptyStore.versions, 0)
    BY DEF EmptyStore, Bounds
  <2> QED
    BY <2>1 DEF Bounded
<1>3. 0 \in 0 .. Len(EmptyStore.scans) /\ 0 \in 0 .. MaxFaults
  BY LifecycleAssumption DEF EmptyStore
<1> QED
  BY <1>1, <1>2, <1>3 DEF Init, TypeInv, TypeOK, Threads

LEMMA NextTypeInv == TypeInv /\ [Next]_vars => TypeInv'
<1> SUFFICES ASSUME TypeInv, [Next]_vars PROVE TypeInv'
  OBVIOUS
<1>1. CASE UNCHANGED vars
  BY <1>1 DEF vars, TypeInv, TypeOK
<1>2. CASE Walk
  BY <1>2, AddItemTypeInv, ReplaceItemTypeInv, ConfirmItemTypeInv DEF Walk
<1>3. CASE GuardUndo \/ FlushBatch
  BY <1>3, GuardUndoTypeInv, FlushBatchTypeInv
<1>4. CASE FinishWalk \/ SweepUnconfirmed \/ FinishAnalysis
  BY <1>4, WalkEndTypeInv
<1>5. CASE \E r \in db.versions : Analyze(r)
  BY <1>5, AnalyzeTypeInv
<1>6. CASE WalkFolderCounts \/ \E f \in Dirs : ApplyFolderWrite(f)
  BY <1>6, FolderTypeInv
<1>7. CASE Complete
  BY <1>7, CompleteTypeInv
<1>8. CASE OnStopped \/ OnError
  BY <1>8, RollBackToTypeInv
<1>9. CASE \E r \in Roots, spec \in AnalysisSpecs : StartScan(r, spec)
  BY <1>9, StartScanTypeInv
<1>10. CASE \/ ResumeScan \/ FallThrough \/ Interrupted \/ CloseTask
            \/ Fail \/ RequestStop \/ RequestPause \/ Crash
  BY <1>10, ThreadTypeInv
<1> QED
  BY <1>1, <1>2, <1>3, <1>4, <1>5, <1>6, <1>7, <1>8, <1>9, <1>10
     DEF Next, System, Environment

\* Every state of every run is well typed, whatever the number of items, scans and
\* interruptions; in particular the next version number always exists and the
\* Running task always names a row of scans.
THEOREM TypeCorrect == Spec => []TypeOK
<1>1. TypeInv => TypeOK
  BY DEF TypeInv
<1> QED
  BY InitTypeInv, NextTypeInv, <1>1, PTL DEF Spec
-----------------------------------------------------------------------------
(* Windows *)

\* Scan t is one of root ro that was not discarded, or one that completed.
Kept(scans, t, ro) ==
  t \in 1 .. Len(scans) /\ scans[t].root = ro /\ scans[t].state \notin Discarded

Done(scans, t, ro) ==
  t \in 1 .. Len(scans) /\ scans[t].root = ro /\ scans[t].state = "Completed"

IsOpen(d, s) == s # 0 /\ d.scans[s].state \in InProgress

OnlyOpen(scans, s) ==
  /\ s # 0 => s = Len(scans)
  /\ \A t \in 1 .. Len(scans) : scans[t].state \in InProgress => t = s

Keyed(vs) == \A r, q \in vs : r.item = q.item /\ r.ver = q.ver => r = q

Ordered(vs) == \A r, q \in vs : r.item = q.item /\ r.ver < q.ver => r.last < q.first

Within(vs, scans) ==
  \A r \in vs : /\ r.first <= r.last
                /\ Kept(scans, r.first, RootOf[r.item])
                /\ Kept(scans, r.last, RootOf[r.item])
                /\ r.del => r.last = r.first
                /\ r.val # 0 =>
                     r.val \in 1 .. Len(scans) /\ scans[r.val].state \notin Discarded

Gapless(vs, scans) ==
  \A r \in vs : \A t \in 1 .. Len(scans) :
    Done(scans, t, RootOf[r.item]) /\ r.first <= t /\ ~r.del =>
      \/ t <= r.last
      \/ \E q \in vs : q.item = r.item /\ r.first < q.first /\ q.first <= t

Named(d) == \A i \in Items : i \in d.items <=> \E r \in d.versions : r.item = i

HashKeyed(hs) ==
  \A h, g \in hs : h.item = g.item /\ h.ver = g.ver /\ h.first = g.first => h = g

HashOrdered(hs) ==
  \A h, g \in hs : h.item = g.item /\ h.ver = g.ver /\ h.first < g.first => h.last < g.first

HashWithin(hs, scans) ==
  \A h \in hs : /\ h.first <= h.last
                /\ Kept(scans, h.first, RootOf[h.item])
                /\ Kept(scans, h.last, RootOf[h.item])

VersionUndone(d, s, u) ==
  \E r \in d.versions :
    /\ u.item = r.item /\ u.ver = r.ver
    /\ RootOf[r.item] = d.scans[s].root
    /\ r.first < s /\ ~r.del
    /\ u.old = PrevCompleted(d.scans, d.scans[s].root, s)
    /\ r.last = s \/ r.last = u.old
    /\ d.scans[s].state = "Scanning" => r.last = s

HashUndone(d, s, u) ==
  \E h \in d.hashes :
    /\ u.item = h.item /\ u.ver = h.ver /\ u.first = h.first
    /\ RootOf[h.item] = d.scans[s].root
    /\ h.first < s /\ h.last = s
    /\ h.first <= u.old /\ u.old < s
    /\ Kept(d.scans, u.old, RootOf[h.item])

UndoOK(d, s) ==
  /\ \A u \in d.undo : u.table = "item" => u.first = 0 /\ VersionUndone(d, s, u)
  /\ \A u \in d.undo : u.table = "hash" => HashUndone(d, s, u)
  /\ \A u, w \in d.undo :
       u.table = w.table /\ u.item = w.item /\ u.ver = w.ver /\ u.first = w.first => u = w
  /\ \A r \in d.versions : r.first < s /\ r.last = s => UndoFor(d.undo, r) # {}
  /\ \A h \in d.hashes : h.first < s /\ h.last = s => UndoForHash(d.undo, h) # {}

StoreInv(d, s) ==
  /\ OnlyOpen(d.scans, s)
  /\ Keyed(d.versions) /\ Ordered(d.versions)
  /\ Within(d.versions, d.scans) /\ Gapless(d.versions, d.scans)
  /\ Named(d)
  /\ HashKeyed(d.hashes) /\ HashOrdered(d.hashes) /\ HashWithin(d.hashes, d.scans)
  /\ IF IsOpen(d, s) THEN UndoOK(d, s) ELSE d.undo = {}

Swept(d, s) ==
  s # 0 /\ d.scans[s].state \in {"AnalyzingFiles", "AnalyzingScan"} =>
    \A r \in d.versions :
      RootOf[r.item] = d.scans[s].root /\ ~r.del =>
        r.last = s \/ \E q \in d.versions : q.item = r.item /\ r.ver < q.ver

ToWrite(d, s, fs) ==
  \A f \in fs : /\ RootOf[f] = d.scans[s].root
                /\ \E r \in Latest(d.versions, f) : r.first = s \/ ~r.del
-----------------------------------------------------------------------------
(* Scans *)

LEMMA RowTypes ==
  ASSUME NEW d, StoreOK(d)
  PROVE  /\ \A r \in d.versions :
              /\ r \in VersionRow
              /\ r.item \in Items /\ r.ver \in Nat /\ r.first \in Nat /\ r.last \in Nat
              /\ r.del \in BOOLEAN /\ r.val \in Nat /\ RootOf[r.item] \in Roots
         /\ \A h \in d.hashes :
              /\ h \in HashRow
              /\ h.item \in Items /\ h.ver \in Nat /\ h.first \in Nat /\ h.last \in Nat
              /\ h.hash \in Hashes
         /\ \A u \in d.undo :
              /\ u \in UndoRow
              /\ u.table \in {"item", "hash"}
              /\ u.item \in Items /\ u.ver \in Nat /\ u.first \in Nat /\ u.old \in Nat
         /\ d.scans \in Seq(ScanRow) /\ d.items \subseteq Items
BY StoreAssumption DEF StoreOK, Stores, VersionRow, HashRow, UndoRow

\* A scan that was not discarded is the open one or completed.
LEMMA KeptDone ==
  ASSUME NEW scans \in Seq(ScanRow), NEW s \in Nat, OnlyOpen(scans, s),
         NEW t, NEW ro, Kept(scans, t, ro), t # s
  PROVE  t \in Nat /\ Done(scans, t, ro) /\ (s # 0 => t < s)
<1>1. t \in 1 .. Len(scans) /\ scans[t].state \in ScanStates
  <2>1. t \in 1 .. Len(scans)
    BY DEF Kept
  <2>2. scans[t] \in ScanRow
    BY <2>1
  <2> QED
    BY <2>1, <2>2 DEF ScanRow
<1>2. scans[t].state \notin InProgress
  BY <1>1 DEF OnlyOpen
<1> QED
  BY <1>1, <1>2 DEF OnlyOpen, Kept, Done, ScanStates

LEMMA PrevCompletedMax ==
  ASSUME NEW scans \in Seq(ScanRow), NEW ro, NEW s \in Nat \ {0}
  PROVE  LET p == PrevCompleted(scans, ro, s)
         IN /\ p \in Nat /\ p < s
            /\ p = 0 \/ Done(scans, p, ro)
            /\ \A t \in 1 .. Len(scans) : Done(scans, t, ro) /\ t < s => t <= p
<1> DEFINE P == {0} \cup {p \in 1 .. Len(scans) :
                    p < s /\ scans[p].root = ro /\ scans[p].state = "Completed"}
<1>1. P \in SUBSET Nat /\ P # {} /\ \A m \in P : m < s /\ m <= s
  OBVIOUS
<1>2. MaxOf(P) \in P /\ \A m \in P : m <= MaxOf(P)
  <2> HIDE DEF P
  <2> QED
    BY <1>1, MaxOfBounded
<1>3. PrevCompleted(scans, ro, s) = MaxOf(P)
  BY DEF PrevCompleted
<1>4. \A t \in 1 .. Len(scans) : Done(scans, t, ro) /\ t < s => t \in P
  BY DEF Done
<1>5. \A p \in P : p = 0 \/ Done(scans, p, ro)
  BY DEF Done
<1> HIDE DEF P
<1> QED
  BY <1>1, <1>2, <1>3, <1>4, <1>5

\* A row of the store of an open scan: its own, or of completed scans.
LEMMA OldRow ==
  ASSUME NEW d, StoreOK(d), NEW s \in 1 .. Len(d.scans), StoreInv(d, s),
         NEW r \in d.versions
  PROVE  /\ r.first <= r.last /\ r.last <= s
         /\ r.first # s => r.first < s /\ Done(d.scans, r.first, RootOf[r.item])
         /\ r.last # s => r.last < s /\ Done(d.scans, r.last, RootOf[r.item])
<1>1. d.scans \in Seq(ScanRow) /\ s \in Nat /\ s # 0
  BY RowTypes
<1>2. Kept(d.scans, r.first, RootOf[r.item]) /\ Kept(d.scans, r.last, RootOf[r.item])
      /\ r.first <= r.last
  BY DEF StoreInv, Within
<1>3. OnlyOpen(d.scans, s)
  BY DEF StoreInv
<1> QED
  BY <1>1, <1>2, <1>3, KeptDone
-----------------------------------------------------------------------------
(* Statements *)

\* New versions of this scan, at most one for an item, after all it has.
LEMMA InsertInv ==
  ASSUME NEW d, StoreOK(d), NEW s \in 1 .. Len(d.scans), IsOpen(d, s), StoreInv(d, s),
         NEW e, StoreOK(e), e.scans = d.scans, e.hashes = d.hashes, e.undo = d.undo,
         NEW N, e.versions = d.versions \cup N,
         \A i \in Items : i \in e.items <=> i \in d.items \/ \E n \in N : n.item = i,
         \A n \in N : /\ RootOf[n.item] = d.scans[s].root
                      /\ n.first = s /\ n.last = s /\ n.val = 0
                      /\ \A r \in d.versions : r.item = n.item => r.ver < n.ver /\ r.last < s,
         \A n, m \in N : n.item = m.item => n = m
  PROVE  StoreInv(e, s)
<1>1. /\ \A r \in d.versions : r.ver \in Nat /\ r.first \in Nat /\ r.last \in Nat
      /\ \A n \in N : n.ver \in Nat /\ n.first \in Nat /\ n.last \in Nat
      /\ s \in Nat
  BY RowTypes
<1>2. OnlyOpen(d.scans, s) /\ Keyed(d.versions) /\ Ordered(d.versions)
      /\ Within(d.versions, d.scans) /\ Gapless(d.versions, d.scans) /\ Named(d)
  BY DEF StoreInv
<1>3. Keyed(e.versions)
  BY <1>1, <1>2 DEF Keyed
<1>4. Ordered(e.versions)
  BY <1>1, <1>2 DEF Ordered
<1>5. Kept(d.scans, s, d.scans[s].root)
  BY DEF Kept, IsOpen, InProgress, Discarded
<1>6. Within(e.versions, e.scans)
  BY <1>1, <1>2, <1>5 DEF Within
<1>7. Gapless(e.versions, e.scans)
  <2> SUFFICES ASSUME NEW r \in e.versions, NEW t \in 1 .. Len(e.scans),
                      Done(e.scans, t, RootOf[r.item]), r.first <= t, ~r.del
               PROVE  \/ t <= r.last
                      \/ \E q \in e.versions : q.item = r.item /\ r.first < q.first /\ q.first <= t
    BY DEF Gapless
  <2>1. CASE r \in d.versions
    BY <1>2, <2>1 DEF Gapless
  <2>2. CASE r \in N
    BY <1>1, <1>2, <2>2 DEF Done, IsOpen, InProgress, OnlyOpen
  <2> QED
    BY <2>1, <2>2
<1>8. Named(e)
  BY <1>2 DEF Named
<1>9. UndoOK(d, s)
  BY DEF StoreInv
<1>10. UndoOK(e, s)
  <2>1. \A u \in d.undo : VersionUndone(d, s, u) => VersionUndone(e, s, u)
    BY DEF VersionUndone
  <2>2. \A u \in d.undo : HashUndone(d, s, u) => HashUndone(e, s, u)
    BY DEF HashUndone
  <2>3. \A r \in e.versions : r.first < s => r \in d.versions
    BY <1>1
  <2> QED
    BY <1>9, <2>1, <2>2, <2>3 DEF UndoOK
<1> QED
  BY <1>2, <1>3, <1>4, <1>6, <1>7, <1>8, <1>10 DEF StoreInv, IsOpen

\* The walk finds an item again: the undo log gets what its row said before.
Confirmed(d, e, r, s) == e.versions = (d.versions \ {r}) \cup {[r EXCEPT !.last = s]}

LEMMA ConfirmInv ==
  ASSUME NEW d, StoreOK(d), NEW s \in 1 .. Len(d.scans), StoreInv(d, s),
         d.scans[s].state = "Scanning",
         NEW r \in d.versions, RootOf[r.item] = d.scans[s].root, ~r.del, r.last # s,
         \A q \in d.versions : q.item = r.item => q.ver <= r.ver,
         NEW e, StoreOK(e), e.scans = d.scans, e.hashes = d.hashes, e.items = d.items,
         e.undo = d.undo \cup {LogVersion(r)},
         e.versions = SetLast(d.versions, r.item, r.ver, s)
  PROVE  /\ StoreInv(e, s)
         /\ r.first < s /\ r.last = PrevCompleted(d.scans, d.scans[s].root, s)
         /\ Confirmed(d, e, r, s)
<1> DEFINE n == [r EXCEPT !.last = s]
           p == PrevCompleted(d.scans, d.scans[s].root, s)
<1>1. /\ \A q \in d.versions : q.ver \in Nat /\ q.first \in Nat /\ q.last \in Nat
      /\ r \in VersionRow /\ s \in Nat \ {0} /\ d.scans \in Seq(ScanRow)
  BY RowTypes
<1>2. /\ n.item = r.item /\ n.ver = r.ver /\ n.first = r.first /\ n.last = s
      /\ n.del = r.del /\ n.val = r.val
  BY <1>1 DEF VersionRow
<1>3. OnlyOpen(d.scans, s) /\ Keyed(d.versions) /\ Ordered(d.versions)
      /\ Within(d.versions, d.scans) /\ Gapless(d.versions, d.scans) /\ Named(d)
      /\ UndoOK(d, s)
  BY <1>1 DEF StoreInv, IsOpen, InProgress
<1>4. e.versions = (d.versions \ {r}) \cup {n}
  <2>1. \A q \in d.versions : q.item = r.item /\ q.ver = r.ver <=> q = r
    BY <1>3 DEF Keyed
  <2> QED
    BY <2>1 DEF SetLast
<1>5. r.first < s /\ r.first <= r.last /\ r.last < s
      /\ Done(d.scans, r.first, RootOf[r.item]) /\ Done(d.scans, r.last, RootOf[r.item])
  BY <1>1, OldRow
<1> HIDE DEF n
<1>6. Keyed(e.versions)
  BY <1>2, <1>3, <1>4 DEF Keyed
<1>7. Ordered(e.versions)
  BY <1>1, <1>2, <1>3, <1>4 DEF Ordered
<1>8. Kept(d.scans, s, d.scans[s].root)
  BY DEF Kept, Discarded
<1>9. Within(e.versions, e.scans)
  BY <1>1, <1>2, <1>3, <1>4, <1>5, <1>8 DEF Within
<1>10. Gapless(e.versions, e.scans)
  <2> SUFFICES ASSUME NEW q \in e.versions, NEW t \in 1 .. Len(e.scans),
                      Done(e.scans, t, RootOf[q.item]), q.first <= t, ~q.del
               PROVE  \/ t <= q.last
                      \/ \E w \in e.versions : w.item = q.item /\ q.first < w.first /\ w.first <= t
    BY DEF Gapless
  <2>1. ASSUME NEW w \in d.versions
        PROVE  \E v \in e.versions : v.item = w.item /\ v.first = w.first
    BY <1>2, <1>4
  <2>2. CASE q = n
    BY <1>1, <1>2, <1>3, <2>2 DEF OnlyOpen
  <2>3. CASE q \in d.versions
    <3>1. \/ t <= q.last
          \/ \E w \in d.versions : w.item = q.item /\ q.first < w.first /\ w.first <= t
      BY <1>3, <2>3 DEF Gapless
    <3> QED
      BY <2>1, <3>1
  <2> QED
    BY <1>4, <2>2, <2>3
<1>11. Named(e)
  BY <1>2, <1>3, <1>4 DEF Named
<1>12. /\ p \in Nat /\ p < s
       /\ \A t \in 1 .. Len(d.scans) : Done(d.scans, t, d.scans[s].root) /\ t < s => t <= p
       /\ p = 0 \/ Done(d.scans, p, d.scans[s].root)
  BY <1>1, PrevCompletedMax
<1>13. r.last = p
  <2>1. r.first <= p /\ r.last <= p
    BY <1>1, <1>5, <1>12 DEF Done
  <2>2. p # 0 /\ Done(d.scans, p, RootOf[r.item]) /\ p \in 1 .. Len(d.scans)
    BY <1>1, <1>5, <1>12, <2>1 DEF Done
  <2>3. \/ p <= r.last
        \/ \E q \in d.versions : q.item = r.item /\ r.first < q.first /\ q.first <= p
    BY <1>3, <2>1, <2>2 DEF Gapless
  <2>4. ASSUME NEW q \in d.versions, q.item = r.item, r.first < q.first
        PROVE  FALSE
    <3>1. q.ver <= r.ver /\ q.first <= q.last
      BY <1>3, <2>4 DEF Within
    <3>2. q.ver # r.ver
      BY <1>3, <2>4, <1>1 DEF Keyed
    <3>3. q.last < r.first
      BY <1>1, <1>3, <2>4, <3>1, <3>2 DEF Ordered
    <3> QED
      BY <1>1, <2>4, <3>1, <3>3
  <2> QED
    BY <1>1, <1>12, <2>1, <2>3, <2>4
<1>14. LogVersion(r) = [table |-> "item", item |-> r.item, ver |-> r.ver, first |-> 0, old |-> r.last]
  BY DEF LogVersion
<1> HIDE DEF p
<1>15. ASSUME NEW u \in d.undo, u.table = "item"
       PROVE  u.item # r.item \/ u.ver # r.ver
  <2>1. PICK q \in d.versions : u.item = q.item /\ u.ver = q.ver /\ q.last = s
    BY <1>3, <1>15 DEF UndoOK, VersionUndone
  <2> QED
    BY <1>3, <2>1 DEF Keyed
<1>16. UndoOK(e, s)
  <2>1. ASSUME NEW u \in e.undo, u.table = "item"
        PROVE  u.first = 0 /\ VersionUndone(e, s, u)
    <3>1. CASE u = LogVersion(r)
      <4>1. u.item = r.item /\ u.ver = r.ver /\ u.first = 0 /\ u.old = r.last
        BY <1>14, <3>1
      <4>2. n \in e.versions
        BY <1>4
      <4> QED
        BY <1>2, <1>5, <1>13, <4>1, <4>2 DEF VersionUndone, p
    <3>2. CASE u \in d.undo
      <4>1. u.first = 0 /\ VersionUndone(d, s, u)
        BY <1>3, <2>1, <3>2 DEF UndoOK
      <4>2. PICK q \in d.versions :
              /\ u.item = q.item /\ u.ver = q.ver /\ RootOf[q.item] = d.scans[s].root
              /\ q.first < s /\ ~q.del
              /\ u.old = PrevCompleted(d.scans, d.scans[s].root, s)
              /\ q.last = s
        BY <4>1 DEF VersionUndone
      <4>3. q \in e.versions
        BY <1>4, <4>2
      <4> QED
        BY <4>1, <4>2, <4>3 DEF VersionUndone
    <3> QED
      BY <3>1, <3>2
  <2>2. ASSUME NEW u \in e.undo, u.table = "hash"
        PROVE  HashUndone(e, s, u)
    <3>1. u \in d.undo
      BY <1>14, <2>2
    <3> QED
      BY <1>3, <2>2, <3>1 DEF UndoOK, HashUndone
  <2>3. ASSUME NEW u \in e.undo, NEW w \in e.undo,
               u.table = w.table, u.item = w.item, u.ver = w.ver, u.first = w.first
        PROVE  u = w
    <3>1. LogVersion(r).table = "item" /\ LogVersion(r).item = r.item /\ LogVersion(r).ver = r.ver
      BY <1>14
    <3> QED
      BY <1>3, <1>15, <2>3, <3>1 DEF UndoOK
  <2>4. ASSUME NEW q \in e.versions, q.first < s, q.last = s
        PROVE  UndoFor(e.undo, q) # {}
    <3>1. CASE q = n
      <4>1. LogVersion(r) \in UndoFor(e.undo, q)
        BY <1>2, <1>14, <3>1 DEF UndoFor
      <4> QED
        BY <4>1
    <3>2. CASE q \in d.versions
      <4>1. UndoFor(d.undo, q) # {}
        BY <1>3, <2>4, <3>2 DEF UndoOK
      <4> QED
        BY <4>1 DEF UndoFor
    <3> QED
      BY <1>4, <3>1, <3>2
  <2>5. ASSUME NEW h \in e.hashes, h.first < s, h.last = s
        PROVE  UndoForHash(e.undo, h) # {}
    <3>1. UndoForHash(d.undo, h) # {}
      BY <1>3, <2>5 DEF UndoOK
    <3> QED
      BY <3>1 DEF UndoForHash
  <2> QED
    BY <2>1, <2>2, <2>3, <2>4, <2>5 DEF UndoOK
<1>17. IsOpen(e, s)
  BY <1>1 DEF IsOpen, InProgress
<1> QED
  BY <1>3, <1>4, <1>5, <1>6, <1>7, <1>9, <1>10, <1>11, <1>13, <1>16, <1>17 DEF StoreInv, p, n, Confirmed

\* Case B, first half: a version that the walk had confirmed ends where the last
\* completed scan saw it; its undo entry says the same.
LEMMA CloseInv ==
  ASSUME NEW d, StoreOK(d), NEW s \in 1 .. Len(d.scans), StoreInv(d, s),
         d.scans[s].state \in {"AnalyzingFiles", "AnalyzingScan"},
         NEW r \in d.versions, RootOf[r.item] = d.scans[s].root, ~r.del,
         r.first < s, r.last = s,
         NEW p, p = PrevCompleted(d.scans, d.scans[s].root, s),
         NEW e, StoreOK(e), e.scans = d.scans, e.hashes = d.hashes, e.items = d.items,
         e.undo = d.undo,
         e.versions = SetLast(d.versions, r.item, r.ver, p)
  PROVE  StoreInv(e, s) /\ p # 0 /\ e.versions = (d.versions \ {r}) \cup {[r EXCEPT !.last = p]}
<1> DEFINE n == [r EXCEPT !.last = p]
<1>1. /\ \A q \in d.versions : q.ver \in Nat /\ q.first \in Nat /\ q.last \in Nat
      /\ r \in VersionRow /\ s \in Nat \ {0} /\ d.scans \in Seq(ScanRow)
      /\ d.scans[s].root \in Roots
  BY RowTypes
<1>2. /\ n.item = r.item /\ n.ver = r.ver /\ n.first = r.first /\ n.last = p
      /\ n.del = r.del /\ n.val = r.val
  BY <1>1 DEF VersionRow
<1>3. OnlyOpen(d.scans, s) /\ Keyed(d.versions) /\ Ordered(d.versions)
      /\ Within(d.versions, d.scans) /\ Gapless(d.versions, d.scans) /\ Named(d)
      /\ UndoOK(d, s)
  BY <1>1 DEF StoreInv, IsOpen, InProgress
<1>4. e.versions = (d.versions \ {r}) \cup {n}
  <2>1. \A q \in d.versions : q.item = r.item /\ q.ver = r.ver <=> q = r
    BY <1>3 DEF Keyed
  <2> QED
    BY <2>1 DEF SetLast
<1> HIDE DEF n
<1>5. /\ p \in Nat /\ p < s
      /\ \A t \in 1 .. Len(d.scans) : Done(d.scans, t, d.scans[s].root) /\ t < s => t <= p
      /\ p = 0 \/ Done(d.scans, p, d.scans[s].root)
  BY <1>1, PrevCompletedMax
<1>6. r.first # s
  BY <1>1
<1>7. Done(d.scans, r.first, d.scans[s].root)
  BY <1>6, OldRow
<1>8. r.first <= p /\ p # 0 /\ Kept(d.scans, p, d.scans[s].root)
  <2>1. r.first <= p /\ p # 0
    BY <1>1, <1>5, <1>7 DEF Done
  <2> QED
    BY <1>5, <2>1 DEF Done, Kept, Discarded
<1>9. Keyed(e.versions)
  BY <1>2, <1>3, <1>4 DEF Keyed
<1>10. Ordered(e.versions)
  BY <1>1, <1>2, <1>3, <1>4, <1>5 DEF Ordered
<1>11. Within(e.versions, e.scans)
  BY <1>1, <1>2, <1>3, <1>4, <1>8 DEF Within
<1>12. Gapless(e.versions, e.scans)
  <2> SUFFICES ASSUME NEW q \in e.versions, NEW t \in 1 .. Len(e.scans),
                      Done(e.scans, t, RootOf[q.item]), q.first <= t, ~q.del
               PROVE  \/ t <= q.last
                      \/ \E w \in e.versions : w.item = q.item /\ q.first < w.first /\ w.first <= t
    BY DEF Gapless
  <2>1. ASSUME NEW w \in d.versions
        PROVE  \E v \in e.versions : v.item = w.item /\ v.first = w.first
    BY <1>2, <1>4
  <2>2. CASE q = n
    <3>1. t # s /\ t < s
      BY <1>1, <1>3 DEF OnlyOpen, Done
    <3> QED
      BY <1>2, <1>5, <2>2, <3>1
  <2>3. CASE q \in d.versions
    <3>1. \/ t <= q.last
          \/ \E w \in d.versions : w.item = q.item /\ q.first < w.first /\ w.first <= t
      BY <1>3, <2>3 DEF Gapless
    <3> QED
      BY <2>1, <3>1
  <2> QED
    BY <1>4, <2>2, <2>3
<1>13. Named(e)
  BY <1>2, <1>3, <1>4 DEF Named
<1>14. UndoOK(e, s)
  <2>1. ASSUME NEW u \in e.undo, u.table = "item"
        PROVE  u.first = 0 /\ VersionUndone(e, s, u)
    <3>1. u.first = 0 /\ VersionUndone(d, s, u)
      BY <1>3, <2>1 DEF UndoOK
    <3>2. PICK q \in d.versions :
            /\ u.item = q.item /\ u.ver = q.ver /\ RootOf[q.item] = d.scans[s].root
            /\ q.first < s /\ ~q.del
            /\ u.old = p
            /\ q.last = s \/ q.last = u.old
      BY <3>1 DEF VersionUndone
    <3>3. CASE q = r
      <4>1. n \in e.versions
        BY <1>4
      <4> QED
        BY <1>2, <3>1, <3>2, <3>3, <4>1 DEF VersionUndone
    <3>4. CASE q # r
      <4>1. q \in e.versions
        BY <1>4, <3>4
      <4> QED
        BY <3>1, <3>2, <4>1 DEF VersionUndone
    <3> QED
      BY <3>3, <3>4
  <2>2. ASSUME NEW u \in e.undo, u.table = "hash"
        PROVE  HashUndone(e, s, u)
    BY <1>3, <2>2 DEF UndoOK, HashUndone
  <2>3. ASSUME NEW q \in e.versions, q.first < s, q.last = s
        PROVE  UndoFor(e.undo, q) # {}
    <3>1. q \in d.versions
      BY <1>1, <1>2, <1>4, <1>5, <2>3
    <3> QED
      BY <1>3, <2>3, <3>1 DEF UndoOK
  <2> QED
    BY <1>3, <2>1, <2>2, <2>3 DEF UndoOK
<1>15. IsOpen(e, s)
  BY <1>1 DEF IsOpen, InProgress
<1> QED
  BY <1>3, <1>4, <1>8, <1>9, <1>10, <1>11, <1>12, <1>13, <1>14, <1>15 DEF StoreInv, n

\* A version gets other values of columns that no window depends on.
LEMMA ColumnsInv ==
  ASSUME NEW d, StoreOK(d), NEW s \in 1 .. Len(d.scans), IsOpen(d, s), StoreInv(d, s),
         NEW r \in d.versions,
         NEW n, n.item = r.item, n.ver = r.ver, n.first = r.first, n.last = r.last,
         n.del = r.del, n.val \in {r.val, s},
         NEW e, StoreOK(e), e.scans = d.scans, e.hashes = d.hashes, e.items = d.items,
         e.undo = d.undo, e.versions = (d.versions \ {r}) \cup {n}
  PROVE  StoreInv(e, s)
<1>1. /\ \A q \in d.versions : q.ver \in Nat /\ q.first \in Nat /\ q.last \in Nat
      /\ s \in Nat \ {0}
  BY RowTypes
<1>2. OnlyOpen(d.scans, s) /\ Keyed(d.versions) /\ Ordered(d.versions)
      /\ Within(d.versions, d.scans) /\ Gapless(d.versions, d.scans) /\ Named(d)
      /\ UndoOK(d, s)
  BY DEF StoreInv
<1>3. \A q \in d.versions : \E w \in e.versions :
         /\ w.item = q.item /\ w.ver = q.ver /\ w.first = q.first /\ w.last = q.last
         /\ w.del = q.del
  OBVIOUS
<1>4. \A w \in e.versions : \E q \in d.versions :
         /\ w.item = q.item /\ w.ver = q.ver /\ w.first = q.first /\ w.last = q.last
         /\ w.del = q.del
  OBVIOUS
<1>5. Keyed(e.versions)
  BY <1>2 DEF Keyed
<1>6. Ordered(e.versions)
  BY <1>2 DEF Ordered
<1>7. s \in 1 .. Len(d.scans) /\ d.scans[s].state \notin Discarded
  BY DEF IsOpen, InProgress, Discarded
<1>8. Within(e.versions, e.scans)
  BY <1>2, <1>7 DEF Within
<1>9. Gapless(e.versions, e.scans)
  <2> SUFFICES ASSUME NEW q \in e.versions, NEW t \in 1 .. Len(e.scans),
                      Done(e.scans, t, RootOf[q.item]), q.first <= t, ~q.del
               PROVE  \/ t <= q.last
                      \/ \E w \in e.versions : w.item = q.item /\ q.first < w.first /\ w.first <= t
    BY DEF Gapless
  <2>1. PICK v \in d.versions : v.item = q.item /\ v.first = q.first /\ v.last = q.last /\ v.del = q.del
    BY <1>4
  <2>2. \/ t <= v.last
        \/ \E w \in d.versions : w.item = v.item /\ v.first < w.first /\ w.first <= t
    BY <1>2, <2>1 DEF Gapless
  <2> QED
    BY <1>3, <2>1, <2>2
<1>10. Named(e)
  BY <1>2, <1>3, <1>4 DEF Named
<1>11. UndoOK(e, s)
  <2>1. \A u \in d.undo : VersionUndone(d, s, u) => VersionUndone(e, s, u)
    BY <1>3 DEF VersionUndone
  <2>2. \A u \in d.undo : HashUndone(d, s, u) => HashUndone(e, s, u)
    BY DEF HashUndone
  <2>3. ASSUME NEW w \in e.versions, w.first < s, w.last = s
        PROVE  UndoFor(e.undo, w) # {}
    <3>1. PICK q \in d.versions :
            w.item = q.item /\ w.ver = q.ver /\ w.first = q.first /\ w.last = q.last
      BY <1>4
    <3>2. UndoFor(d.undo, q) # {}
      BY <1>2, <2>3, <3>1 DEF UndoOK
    <3> QED
      BY <3>1, <3>2 DEF UndoFor
  <2> QED
    BY <1>2, <2>1, <2>2, <2>3 DEF UndoOK
<1> QED
  BY <1>2, <1>5, <1>6, <1>8, <1>9, <1>10, <1>11 DEF StoreInv, IsOpen

LEMMA OldHash ==
  ASSUME NEW d, StoreOK(d), NEW s \in 1 .. Len(d.scans), StoreInv(d, s),
         NEW h \in d.hashes
  PROVE  /\ h.first <= h.last /\ h.last <= s
         /\ h.first # s => h.first < s /\ Done(d.scans, h.first, RootOf[h.item])
         /\ h.last # s => h.last < s /\ Done(d.scans, h.last, RootOf[h.item])
<1>1. d.scans \in Seq(ScanRow) /\ s \in Nat /\ s # 0
  BY RowTypes
<1>2. Kept(d.scans, h.first, RootOf[h.item]) /\ Kept(d.scans, h.last, RootOf[h.item])
      /\ h.first <= h.last
  BY DEF StoreInv, HashWithin
<1>3. OnlyOpen(d.scans, s)
  BY DEF StoreInv
<1> QED
  BY <1>1, <1>2, <1>3, KeptDone

\* A digest that is new for its version.
LEMMA HashInsertInv ==
  ASSUME NEW d, StoreOK(d), NEW s \in 1 .. Len(d.scans), IsOpen(d, s), StoreInv(d, s),
         NEW g, RootOf[g.item] = d.scans[s].root, g.first = s, g.last = s,
         \A h \in d.hashes : h.item = g.item /\ h.ver = g.ver => h.last < s,
         NEW e, StoreOK(e), e.scans = d.scans, e.versions = d.versions, e.items = d.items,
         e.undo = d.undo, e.hashes = d.hashes \cup {g}
  PROVE  StoreInv(e, s)
<1>1. /\ \A h \in d.hashes : h.ver \in Nat /\ h.first \in Nat /\ h.last \in Nat
      /\ s \in Nat \ {0}
  BY RowTypes
<1>2. HashKeyed(d.hashes) /\ HashOrdered(d.hashes) /\ HashWithin(d.hashes, d.scans)
      /\ UndoOK(d, s)
  BY DEF StoreInv
<1>3. \A h \in d.hashes : h.first <= h.last
  BY <1>2 DEF HashWithin
<1>4. HashKeyed(e.hashes)
  BY <1>1, <1>2, <1>3 DEF HashKeyed
<1>5. \A h \in d.hashes : h.last <= s
  BY OldHash
<1>6. HashOrdered(e.hashes)
  BY <1>1, <1>2, <1>3, <1>5 DEF HashOrdered
<1>7. Kept(d.scans, s, d.scans[s].root)
  BY DEF Kept, IsOpen, InProgress, Discarded
<1>8. HashWithin(e.hashes, e.scans)
  BY <1>1, <1>2, <1>7 DEF HashWithin
<1>9. UndoOK(e, s)
  <2>1. \A u \in d.undo : VersionUndone(d, s, u) => VersionUndone(e, s, u)
    BY DEF VersionUndone
  <2>2. \A u \in d.undo : HashUndone(d, s, u) => HashUndone(e, s, u)
    BY DEF HashUndone
  <2> QED
    BY <1>1, <1>2, <2>1, <2>2 DEF UndoOK
<1>10. /\ OnlyOpen(e.scans, s)
       /\ Keyed(e.versions) /\ Ordered(e.versions)
       /\ Within(e.versions, e.scans) /\ Gapless(e.versions, e.scans) /\ Named(e)
  BY DEF StoreInv, Named
<1> QED
  BY <1>4, <1>6, <1>8, <1>9, <1>10 DEF StoreInv, IsOpen

\* The newest digest of a version is found again.
LEMMA HashExtendInv ==
  ASSUME NEW d, StoreOK(d), NEW s \in 1 .. Len(d.scans), IsOpen(d, s), StoreInv(d, s),
         NEW g \in d.hashes, RootOf[g.item] = d.scans[s].root, g.last # s,
         \A h \in d.hashes : h.item = g.item /\ h.ver = g.ver => h.first <= g.first,
         NEW e, StoreOK(e), e.scans = d.scans, e.versions = d.versions, e.items = d.items,
         e.undo = d.undo \cup {LogHash(g)},
         e.hashes = (d.hashes \ {g}) \cup {[g EXCEPT !.last = s]}
  PROVE  StoreInv(e, s)
<1> DEFINE n == [g EXCEPT !.last = s]
<1>1. /\ \A h \in d.hashes : h.ver \in Nat /\ h.first \in Nat /\ h.last \in Nat
      /\ g \in HashRow /\ s \in Nat \ {0} /\ d.scans \in Seq(ScanRow)
  BY RowTypes
<1>2. n.item = g.item /\ n.ver = g.ver /\ n.first = g.first /\ n.last = s
  BY <1>1 DEF HashRow
<1>14. e.hashes = (d.hashes \ {g}) \cup {n}
  OBVIOUS
<1> HIDE DEF n
<1>3. HashKeyed(d.hashes) /\ HashOrdered(d.hashes) /\ HashWithin(d.hashes, d.scans)
      /\ UndoOK(d, s)
  BY DEF StoreInv
<1>4. g.first < s /\ g.first <= g.last /\ g.last < s
  BY <1>1, OldHash
<1>5. HashKeyed(e.hashes)
  BY <1>2, <1>3, <1>14 DEF HashKeyed
<1>6. HashOrdered(e.hashes)
  <2> SUFFICES ASSUME NEW h \in e.hashes, NEW w \in e.hashes,
                      h.item = w.item, h.ver = w.ver, h.first < w.first
               PROVE  h.last < w.first
    BY DEF HashOrdered
  <2>1. CASE h = n
    BY <1>1, <1>2, <1>14, <2>1
  <2>2. CASE h \in d.hashes
    BY <1>1, <1>2, <1>3, <1>14, <2>2 DEF HashOrdered
  <2> QED
    BY <1>14, <2>1, <2>2
<1>7. Kept(d.scans, s, d.scans[s].root)
  BY DEF Kept, IsOpen, InProgress, Discarded
<1>8. HashWithin(e.hashes, e.scans)
  BY <1>1, <1>2, <1>3, <1>4, <1>7, <1>14 DEF HashWithin
<1>9. LogHash(g) = [table |-> "hash", item |-> g.item, ver |-> g.ver, first |-> g.first,
                    old |-> g.last]
  BY DEF LogHash
<1>10. ASSUME NEW u \in d.undo, u.table = "hash"
       PROVE  u.item # g.item \/ u.ver # g.ver \/ u.first # g.first
  <2>1. PICK h \in d.hashes : u.item = h.item /\ u.ver = h.ver /\ u.first = h.first /\ h.last = s
    BY <1>3, <1>10 DEF UndoOK, HashUndone
  <2> QED
    BY <1>3, <2>1 DEF HashKeyed
<1>11. Kept(d.scans, g.last, RootOf[g.item])
  BY <1>3 DEF HashWithin
<1>12. UndoOK(e, s)
  <2>1. ASSUME NEW u \in e.undo, u.table = "item"
        PROVE  u.first = 0 /\ VersionUndone(e, s, u)
    <3>1. u \in d.undo
      BY <1>9, <2>1
    <3> QED
      BY <1>3, <2>1, <3>1 DEF UndoOK, VersionUndone
  <2>2. ASSUME NEW u \in e.undo, u.table = "hash"
        PROVE  HashUndone(e, s, u)
    <3>1. CASE u = LogHash(g)
      <4>1. u.item = g.item /\ u.ver = g.ver /\ u.first = g.first /\ u.old = g.last
        BY <1>9, <3>1
      <4>2. n \in e.hashes
        BY <1>14
      <4> QED
        BY <1>2, <1>4, <1>11, <4>1, <4>2 DEF HashUndone
    <3>2. CASE u \in d.undo
      <4>1. PICK h \in d.hashes :
              /\ u.item = h.item /\ u.ver = h.ver /\ u.first = h.first
              /\ RootOf[h.item] = d.scans[s].root
              /\ h.first < s /\ h.last = s
              /\ h.first <= u.old /\ u.old < s
              /\ Kept(d.scans, u.old, RootOf[h.item])
        BY <1>3, <2>2, <3>2 DEF UndoOK, HashUndone
      <4>2. h \in e.hashes
        BY <4>1
      <4> QED
        BY <4>1, <4>2 DEF HashUndone
    <3> QED
      BY <3>1, <3>2
  <2>3. ASSUME NEW u \in e.undo, NEW w \in e.undo,
               u.table = w.table, u.item = w.item, u.ver = w.ver, u.first = w.first
        PROVE  u = w
    <3>1. /\ LogHash(g).table = "hash" /\ LogHash(g).item = g.item
          /\ LogHash(g).ver = g.ver /\ LogHash(g).first = g.first
      BY <1>9
    <3> QED
      BY <1>3, <1>10, <2>3, <3>1 DEF UndoOK
  <2>4. ASSUME NEW r \in e.versions, r.first < s, r.last = s
        PROVE  UndoFor(e.undo, r) # {}
    <3>1. UndoFor(d.undo, r) # {}
      BY <1>3, <2>4 DEF UndoOK
    <3> QED
      BY <3>1 DEF UndoFor
  <2>5. ASSUME NEW h \in e.hashes, h.first < s, h.last = s
        PROVE  UndoForHash(e.undo, h) # {}
    <3>1. CASE h = n
      <4>1. LogHash(g) \in UndoForHash(e.undo, h)
        BY <1>2, <1>9, <3>1 DEF UndoForHash
      <4> QED
        BY <4>1
    <3>2. CASE h \in d.hashes
      <4>1. UndoForHash(d.undo, h) # {}
        BY <1>3, <2>5, <3>2 DEF UndoOK
      <4> QED
        BY <4>1 DEF UndoForHash
    <3> QED
      BY <1>14, <3>1, <3>2
  <2> QED
    BY <2>1, <2>2, <2>3, <2>4, <2>5 DEF UndoOK
<1>13. /\ OnlyOpen(e.scans, s)
       /\ Keyed(e.versions) /\ Ordered(e.versions)
       /\ Within(e.versions, e.scans) /\ Gapless(e.versions, e.scans) /\ Named(e)
  BY DEF StoreInv, Named
<1> QED
  BY <1>5, <1>6, <1>8, <1>12, <1>13 DEF StoreInv, IsOpen
-----------------------------------------------------------------------------
(* States of the scan *)

LEMMA PrevCompletedSame ==
  ASSUME NEW a \in Seq(ScanRow), NEW b \in Seq(ScanRow), NEW s \in Nat, NEW ro,
         \A t \in Nat : t < s => (t \in 1 .. Len(a) <=> t \in 1 .. Len(b)),
         \A t \in 1 .. Len(a) : t < s => a[t] = b[t]
  PROVE  PrevCompleted(a, ro, s) = PrevCompleted(b, ro, s)
<1>1. {p \in 1 .. Len(a) : p < s /\ a[p].root = ro /\ a[p].state = "Completed"}
    = {p \in 1 .. Len(b) : p < s /\ b[p].root = ro /\ b[p].state = "Completed"}
  OBVIOUS
<1> QED
  BY <1>1 DEF PrevCompleted

\* UPDATE scans SET state = st for the open scan.
Moved(a, b, s, st) ==
  /\ b \in Seq(ScanRow) /\ Len(b) = Len(a)
  /\ b[s].state = st
  /\ \A t \in 1 .. Len(a) : b[t].root = a[t].root /\ (t # s => b[t] = a[t])

LEMMA StateChange ==
  ASSUME NEW scans \in Seq(ScanRow), NEW s \in 1 .. Len(scans), NEW st \in ScanStates
  PROVE  Moved(scans, [scans EXCEPT ![s].state = st], s, st)
<1> DEFINE b == [scans EXCEPT ![s] = [scans[s] EXCEPT !.state = st]]
<1>1. scans[s] \in ScanRow
  OBVIOUS
<1>2. [scans[s] EXCEPT !.state = st] \in ScanRow
  BY <1>1 DEF ScanRow
<1>3. b \in Seq(ScanRow)
  BY <1>2, ExceptSeq
<1>4. Len(b) = Len(scans)
  OBVIOUS
<1>5. b[s] = [scans[s] EXCEPT !.state = st]
  OBVIOUS
<1>6. b[s].state = st /\ b[s].root = scans[s].root
  BY <1>1, <1>5 DEF ScanRow
<1>7. ASSUME NEW t \in 1 .. Len(scans), t # s PROVE b[t] = scans[t]
  BY <1>7
<1> QED
  BY <1>3, <1>4, <1>6, <1>7 DEF Moved

LEMMA AdvanceInv ==
  ASSUME NEW d, StoreOK(d), NEW s \in 1 .. Len(d.scans), IsOpen(d, s), StoreInv(d, s),
         NEW st \in InProgress, st # "Scanning",
         NEW e, StoreOK(e), Moved(d.scans, e.scans, s, st),
         e.versions = d.versions, e.hashes = d.hashes, e.items = d.items, e.undo = d.undo
  PROVE  StoreInv(e, s)
<1>1. st \in ScanStates /\ st \notin Discarded /\ st # "Completed"
      /\ d.scans[s].state \notin Discarded /\ d.scans[s].state # "Completed"
  BY DEF ScanStates, InProgress, Discarded, IsOpen
<1>2. /\ Len(e.scans) = Len(d.scans)
      /\ e.scans[s].state = st
      /\ \A t \in 1 .. Len(d.scans) :
           e.scans[t].root = d.scans[t].root /\ (t # s => e.scans[t] = d.scans[t])
      /\ e.scans \in Seq(ScanRow) /\ d.scans \in Seq(ScanRow)
  BY RowTypes DEF Moved
<1>3. \A t, ro : /\ Kept(e.scans, t, ro) <=> Kept(d.scans, t, ro)
                 /\ Done(e.scans, t, ro) <=> Done(d.scans, t, ro)
  BY <1>1, <1>2 DEF Kept, Done
<1>4. /\ OnlyOpen(d.scans, s)
      /\ Keyed(d.versions) /\ Ordered(d.versions)
      /\ Within(d.versions, d.scans) /\ Gapless(d.versions, d.scans) /\ Named(d)
      /\ HashKeyed(d.hashes) /\ HashOrdered(d.hashes) /\ HashWithin(d.hashes, d.scans)
      /\ UndoOK(d, s)
  BY DEF StoreInv
<1>5. OnlyOpen(e.scans, s)
  BY <1>2, <1>4 DEF OnlyOpen
<1>6. Within(e.versions, e.scans)
  BY <1>1, <1>2, <1>3, <1>4 DEF Within
<1>7. Gapless(e.versions, e.scans)
  BY <1>2, <1>3, <1>4 DEF Gapless
<1>8. Named(e)
  BY <1>4 DEF Named
<1>9. HashWithin(e.hashes, e.scans)
  BY <1>3, <1>4 DEF HashWithin
<1>10. PrevCompleted(e.scans, e.scans[s].root, s) = PrevCompleted(d.scans, d.scans[s].root, s)
  BY <1>2, PrevCompletedSame
<1>11. UndoOK(e, s)
  <2>1. \A u \in d.undo : VersionUndone(d, s, u) => VersionUndone(e, s, u)
    BY <1>2, <1>10 DEF VersionUndone
  <2>2. \A u \in d.undo : HashUndone(d, s, u) => HashUndone(e, s, u)
    BY <1>2, <1>3 DEF HashUndone
  <2> QED
    BY <1>4, <2>1, <2>2 DEF UndoOK
<1>12. IsOpen(e, s)
  BY <1>2 DEF IsOpen
<1> QED
  BY <1>4, <1>5, <1>6, <1>7, <1>8, <1>9, <1>11, <1>12 DEF StoreInv

LEMMA CompleteInv ==
  ASSUME NEW d, StoreOK(d), NEW s \in 1 .. Len(d.scans), StoreInv(d, s), Swept(d, s),
         d.scans[s].state = "AnalyzingScan",
         NEW e, StoreOK(e), Moved(d.scans, e.scans, s, "Completed"),
         e.versions = d.versions, e.hashes = d.hashes, e.items = d.items, e.undo = {}
  PROVE  StoreInv(e, s) /\ ~IsOpen(e, s)
<1>1. /\ Len(e.scans) = Len(d.scans)
      /\ e.scans[s].state = "Completed"
      /\ \A t \in 1 .. Len(d.scans) :
           e.scans[t].root = d.scans[t].root /\ (t # s => e.scans[t] = d.scans[t])
      /\ e.scans \in Seq(ScanRow) /\ d.scans \in Seq(ScanRow) /\ s \in Nat
  BY RowTypes DEF Moved
<1>2. \A t, ro : /\ Kept(e.scans, t, ro) <=> Kept(d.scans, t, ro)
                 /\ Done(e.scans, t, ro) => Done(d.scans, t, ro) \/ (t = s /\ ro = d.scans[s].root)
  BY <1>1 DEF Kept, Done, Discarded
<1>3. /\ OnlyOpen(d.scans, s)
      /\ Keyed(d.versions) /\ Ordered(d.versions)
      /\ Within(d.versions, d.scans) /\ Gapless(d.versions, d.scans) /\ Named(d)
      /\ HashKeyed(d.hashes) /\ HashOrdered(d.hashes) /\ HashWithin(d.hashes, d.scans)
  BY DEF StoreInv
<1>4. OnlyOpen(e.scans, s)
  BY <1>1, <1>3 DEF OnlyOpen
<1>5. Within(e.versions, e.scans)
  BY <1>1, <1>2, <1>3 DEF Within, Discarded
<1>6. /\ \A q \in d.versions : q.ver \in Nat /\ q.first \in Nat /\ q.last \in Nat
  BY RowTypes
<1>7. Gapless(e.versions, e.scans)
  <2> SUFFICES ASSUME NEW r \in d.versions, NEW t \in 1 .. Len(d.scans),
                      Done(e.scans, t, RootOf[r.item]), r.first <= t, ~r.del
               PROVE  \/ t <= r.last
                      \/ \E q \in d.versions : q.item = r.item /\ r.first < q.first /\ q.first <= t
    BY <1>1 DEF Gapless
  <2>1. CASE Done(d.scans, t, RootOf[r.item])
    BY <1>3, <2>1 DEF Gapless
  <2>2. CASE t = s /\ RootOf[r.item] = d.scans[s].root
    <3>1. r.last = s \/ \E q \in d.versions : q.item = r.item /\ r.ver < q.ver
      BY <2>2 DEF Swept
    <3>2. ASSUME NEW q \in d.versions, q.item = r.item, r.ver < q.ver
          PROVE  r.first < q.first /\ q.first <= s
      <4>1. r.first <= r.last /\ r.last < q.first
        BY <1>3, <3>2 DEF Within, Ordered
      <4>2. q.first <= q.last /\ q.last <= s
        BY OldRow
      <4> QED
        BY <1>1, <1>6, <4>1, <4>2
    <3> QED
      BY <2>2, <3>1, <3>2
  <2> QED
    BY <1>2, <2>1, <2>2
<1>8. Named(e)
  BY <1>3 DEF Named
<1>9. HashWithin(e.hashes, e.scans)
  BY <1>2, <1>3 DEF HashWithin
<1>10. ~IsOpen(e, s)
  BY <1>1 DEF IsOpen, InProgress
<1> QED
  BY <1>3, <1>4, <1>5, <1>7, <1>8, <1>9, <1>10 DEF StoreInv

LEMMA StartInv ==
  ASSUME NEW d, StoreOK(d), StoreInv(d, 0), NEW row \in ScanRow, row.state = "Scanning",
         NEW e, StoreOK(e), e.scans = Append(d.scans, row),
         e.versions = d.versions, e.hashes = d.hashes, e.items = d.items, e.undo = d.undo
  PROVE  StoreInv(e, Len(d.scans) + 1)
<1> DEFINE s == Len(d.scans) + 1
<1>1. /\ d.scans \in Seq(ScanRow) /\ e.scans \in Seq(ScanRow)
      /\ Len(d.scans) \in Nat /\ s \in Nat \ {0} /\ Len(e.scans) = s
      /\ e.scans[s] = row
      /\ \A t \in 1 .. Len(d.scans) : e.scans[t] = d.scans[t]
  BY RowTypes
<1>2. /\ OnlyOpen(d.scans, 0)
      /\ Keyed(d.versions) /\ Ordered(d.versions)
      /\ Within(d.versions, d.scans) /\ Gapless(d.versions, d.scans) /\ Named(d)
      /\ HashKeyed(d.hashes) /\ HashOrdered(d.hashes) /\ HashWithin(d.hashes, d.scans)
      /\ d.undo = {}
  BY DEF StoreInv, IsOpen
<1> HIDE DEF s
<1>3. \A t, ro : /\ Kept(d.scans, t, ro) => Kept(e.scans, t, ro) /\ t < s
                 /\ Done(e.scans, t, ro) => Done(d.scans, t, ro)
  BY <1>1 DEF Kept, Done, s
<1>4. OnlyOpen(e.scans, s)
  BY <1>1, <1>2 DEF OnlyOpen, s
<1>5. Within(e.versions, e.scans)
  <2>1. \A t \in 1 .. Len(d.scans) : t \in 1 .. Len(e.scans)
    BY <1>1 DEF s
  <2> QED
    BY <1>1, <1>2, <1>3, <2>1 DEF Within
<1>6. Gapless(e.versions, e.scans)
  BY <1>1, <1>2, <1>3 DEF Gapless, Done
<1>7. Named(e)
  BY <1>2 DEF Named
<1>8. HashWithin(e.hashes, e.scans)
  BY <1>2, <1>3 DEF HashWithin
<1>9. \A r \in d.versions : r.last \in Nat /\ r.last < s
  BY <1>2, <1>3, RowTypes DEF Within
<1>10. \A h \in d.hashes : h.last \in Nat /\ h.last < s
  BY <1>2, <1>3, RowTypes DEF HashWithin
<1>11. UndoOK(e, s)
  BY <1>1, <1>2, <1>9, <1>10 DEF UndoOK
<1> QED
  BY <1>2, <1>4, <1>5, <1>6, <1>7, <1>8, <1>11 DEF StoreInv, IsOpen, InProgress, s

LEMMA EndInv ==
  ASSUME NEW d, NEW s, StoreInv(d, s), ~IsOpen(d, s), StoreOK(d)
  PROVE  StoreInv(d, 0)
<1>1. OnlyOpen(d.scans, 0)
  BY DEF StoreInv, OnlyOpen, IsOpen
<1> QED
  BY <1>1 DEF StoreInv, IsOpen
-----------------------------------------------------------------------------
(* Rolling back *)

\* A row as it was before scan s touched it; p is the completed scan before s.
Back(r, s, p) ==
  LET m == IF r.last = s THEN p ELSE r.last
  IN [r EXCEPT !.last = m, !.val = IF r.val > m THEN 0 ELSE r.val]

LEMMA BackFields ==
  ASSUME NEW r \in VersionRow, NEW s, NEW p
  PROVE  LET b == Back(r, s, p)
         IN /\ b.item = r.item /\ b.ver = r.ver /\ b.first = r.first /\ b.del = r.del
            /\ b.access = r.access /\ b.meta = r.meta
            /\ r.last = s => b.last = p
            /\ r.last # s => b.last = r.last
            /\ b.val = IF r.val > b.last THEN 0 ELSE r.val
BY DEF Back, VersionRow

\* The log holds for each row exactly what takes this scan's confirmation back.
LEMMA ReplayRow ==
  ASSUME NEW d, StoreOK(d), NEW s \in 1 .. Len(d.scans), IsOpen(d, s), StoreInv(d, s),
         NEW r \in d.versions
  PROVE  LET p == PrevCompleted(d.scans, d.scans[s].root, s)
         IN /\ r.first = s => Replay(UndoFor(d.undo, r), r) = r
            /\ r.first < s => Replay(UndoFor(d.undo, r), r) =
                                [r EXCEPT !.last = IF r.last = s THEN p ELSE r.last]
<1> DEFINE p == PrevCompleted(d.scans, d.scans[s].root, s)
<1>1. r \in VersionRow /\ s \in Nat
  BY RowTypes
<1>2. UndoOK(d, s) /\ Keyed(d.versions)
  BY DEF StoreInv
<1>3. ASSUME NEW u \in UndoFor(d.undo, r)
      PROVE  r.first < s /\ u.old = p /\ (r.last = s \/ r.last = p)
  <2>1. u \in d.undo /\ u.table = "item" /\ u.item = r.item /\ u.ver = r.ver
    BY DEF UndoFor
  <2>2. PICK q \in d.versions :
          /\ u.item = q.item /\ u.ver = q.ver /\ q.first < s
          /\ u.old = p
          /\ q.last = s \/ q.last = u.old
    BY <1>2, <2>1 DEF UndoOK, VersionUndone
  <2>3. q = r
    BY <1>2, <2>1, <2>2 DEF Keyed
  <2> QED
    BY <2>2, <2>3
<1>4. [r EXCEPT !.last = r.last] = r
  BY <1>1 DEF VersionRow
<1> HIDE DEF p
<1>5. CASE UndoFor(d.undo, r) = {}
  <2>1. Replay(UndoFor(d.undo, r), r) = r
    BY <1>5 DEF Replay
  <2>2. ~ (r.first < s /\ r.last = s)
    BY <1>2, <1>5 DEF UndoOK
  <2>3. r.first < s => [r EXCEPT !.last = IF r.last = s THEN p ELSE r.last] = r
    BY <1>4, <2>2
  <2> QED
    BY <2>1, <2>3 DEF p
<1>6. CASE UndoFor(d.undo, r) # {}
  <2> DEFINE u == CHOOSE u \in UndoFor(d.undo, r) : TRUE
  <2>1. u \in UndoFor(d.undo, r)
    BY <1>6
  <2>2. r.first < s /\ u.old = p /\ (r.last = s \/ r.last = p)
    BY <1>3, <2>1
  <2>3. Replay(UndoFor(d.undo, r), r) = [r EXCEPT !.last = u.old]
    BY <1>6 DEF Replay
  <2>4. r.first # s
    <3>1. r.first \in Nat
      BY <1>1 DEF VersionRow
    <3> QED
      BY <1>1, <2>2, <3>1
  <2> HIDE DEF u
  <2>5. (IF r.last = s THEN p ELSE r.last) = p
    BY <2>2
  <2> QED
    BY <2>2, <2>3, <2>4, <2>5 DEF p
<1> QED
  BY <1>5, <1>6

LEMMA RolledRows ==
  ASSUME NEW d, StoreOK(d), NEW s \in 1 .. Len(d.scans), IsOpen(d, s), StoreInv(d, s)
  PROVE  LET p == PrevCompleted(d.scans, d.scans[s].root, s)
         IN ClearVal(RolledVersions(d, s)) =
              {Back(r, s, p) : r \in {q \in d.versions : q.first < s}}
<1> DEFINE p == PrevCompleted(d.scans, d.scans[s].root, s)
           f(q) == Replay(UndoFor(d.undo, q), q)
           c(q) == IF q.val > q.last THEN [q EXCEPT !.val = 0] ELSE q
           Old == {q \in d.versions : q.first < s}
<1>1. ASSUME NEW r \in d.versions, r.first < s
      PROVE  f(r).first = r.first /\ c(f(r)) = Back(r, s, p)
  <2> DEFINE m == IF r.last = s THEN p ELSE r.last
  <2>1. r \in VersionRow
    BY RowTypes
  <2>2. f(r) = [r EXCEPT !.last = m]
    BY <1>1, ReplayRow
  <2>3. f(r).first = r.first
    BY <2>1, <2>2 DEF VersionRow
  <2> HIDE DEF f, m
  <2>4. c([r EXCEPT !.last = m]) = [r EXCEPT !.last = m, !.val = IF r.val > m THEN 0 ELSE r.val]
    BY <2>1 DEF VersionRow
  <2> QED
    BY <2>2, <2>3, <2>4 DEF Back, m
<1>2. ASSUME NEW r \in d.versions, ~ (r.first < s)
      PROVE  f(r).first = s
  <2>1. r.first = s
    <3>1. r.first # s => r.first < s
      BY OldRow
    <3> QED
      BY <1>2, <3>1
  <2> QED
    BY <2>1, ReplayRow
<1>3. \A r \in d.versions : r.first < s => r.first # s
  BY RowTypes
<1>6. RolledVersions(d, s) = {w \in {f(q) : q \in d.versions} : w.first # s}
  BY DEF RolledVersions
<1> HIDE DEF f
<1>4. RolledVersions(d, s) = {f(r) : r \in Old}
  <2>1. \A r \in d.versions : f(r).first # s <=> r.first < s
    BY <1>1, <1>2, <1>3
  <2> HIDE DEF RolledVersions
  <2> QED
    BY <1>6, <2>1
<1>5. ClearVal(RolledVersions(d, s)) = {c(f(r)) : r \in Old}
  BY <1>4 DEF ClearVal
<1> HIDE DEF c, p
<1>7. {c(f(r)) : r \in Old} = {Back(r, s, p) : r \in Old}
  BY <1>1
<1> QED
  BY <1>5, <1>7 DEF p

LEMMA ReplayHash ==
  ASSUME NEW d, StoreOK(d), NEW s \in 1 .. Len(d.scans), IsOpen(d, s), StoreInv(d, s),
         NEW h \in d.hashes
  PROVE  LET b == Replay(UndoForHash(d.undo, h), h)
         IN /\ b \in HashRow
            /\ b.item = h.item /\ b.ver = h.ver /\ b.first = h.first /\ b.hash = h.hash
            /\ h.last # s \/ h.first = s => b = h
            /\ h.last = s /\ h.first < s =>
                 /\ RootOf[h.item] = d.scans[s].root
                 /\ h.first <= b.last /\ b.last < s
                 /\ Kept(d.scans, b.last, RootOf[h.item])
<1> DEFINE b == Replay(UndoForHash(d.undo, h), h)
<1>1. h \in HashRow /\ s \in Nat /\ h.first \in Nat /\ h.last \in Nat
  BY RowTypes
<1>2. UndoOK(d, s) /\ HashKeyed(d.hashes)
  BY DEF StoreInv
<1>3. ASSUME NEW u \in UndoForHash(d.undo, h)
      PROVE  /\ h.first < s /\ h.last = s /\ h.first <= u.old /\ u.old < s /\ u.old \in Nat
             /\ RootOf[h.item] = d.scans[s].root
             /\ Kept(d.scans, u.old, RootOf[h.item])
  <2>1. u \in d.undo /\ u.table = "hash" /\ u.item = h.item /\ u.ver = h.ver /\ u.first = h.first
    BY DEF UndoForHash
  <2>2. PICK g \in d.hashes :
          /\ u.item = g.item /\ u.ver = g.ver /\ u.first = g.first
          /\ RootOf[g.item] = d.scans[s].root
          /\ g.first < s /\ g.last = s /\ g.first <= u.old /\ u.old < s
          /\ Kept(d.scans, u.old, RootOf[g.item])
    BY <1>2, <2>1 DEF UndoOK, HashUndone
  <2>3. g = h
    BY <1>2, <2>1, <2>2 DEF HashKeyed
  <2>4. u.old \in Nat
    BY <2>1, RowTypes
  <2> QED
    BY <2>2, <2>3, <2>4
<1>4. CASE UndoForHash(d.undo, h) = {}
  <2>1. b = h
    BY <1>4 DEF Replay
  <2>2. ~ (h.first < s /\ h.last = s)
    BY <1>2, <1>4 DEF UndoOK
  <2> HIDE DEF b
  <2>3. QED
    BY <1>1, <2>1, <2>2 DEF b
<1>5. CASE UndoForHash(d.undo, h) # {}
  <2> DEFINE u == CHOOSE u \in UndoForHash(d.undo, h) : TRUE
  <2>1. u \in UndoForHash(d.undo, h)
    BY <1>5
  <2>2. b = [h EXCEPT !.last = u.old]
    BY <1>5 DEF Replay
  <2> HIDE DEF u, b
  <2>3. /\ h.first < s /\ h.last = s /\ h.first <= u.old /\ u.old < s /\ u.old \in Nat
        /\ RootOf[h.item] = d.scans[s].root
        /\ Kept(d.scans, u.old, RootOf[h.item])
    BY <1>3, <2>1
  <2>4. b \in HashRow /\ b.item = h.item /\ b.ver = h.ver /\ b.first = h.first /\ b.hash = h.hash
        /\ b.last = u.old
    BY <1>1, <2>2, <2>3 DEF HashRow
  <2>5. ~ (h.last # s \/ h.first = s)
    BY <1>1, <2>3
  <2> QED
    BY <2>3, <2>4, <2>5 DEF b
<1> QED
  BY <1>4, <1>5

\* The store of a scan that was rolled back and its state set to st.
LEMMA RollbackInv ==
  ASSUME NEW d, StoreOK(d), NEW s \in 1 .. Len(d.scans), IsOpen(d, s), StoreInv(d, s),
         NEW st \in Discarded,
         NEW e, StoreOK(e), Moved(d.scans, e.scans, s, st),
         e.versions = ClearVal(RolledVersions(d, s)),
         e.hashes = RolledHashes(d, s),
         e.items = {i \in d.items : RowsOf(e.versions, i) # {}},
         e.undo = {}
  PROVE  StoreInv(e, s) /\ ~IsOpen(e, s)
<1> DEFINE p == PrevCompleted(d.scans, d.scans[s].root, s)
           b(r) == Back(r, s, p)
           f(h) == Replay(UndoForHash(d.undo, h), h)
           Old == {q \in d.versions : q.first < s}
<1>1. /\ Len(e.scans) = Len(d.scans)
      /\ e.scans[s].state = st
      /\ \A t \in 1 .. Len(d.scans) :
           e.scans[t].root = d.scans[t].root /\ (t # s => e.scans[t] = d.scans[t])
      /\ e.scans \in Seq(ScanRow) /\ d.scans \in Seq(ScanRow) /\ s \in Nat \ {0}
  BY RowTypes DEF Moved
<1>2. st \notin InProgress /\ st # "Completed"
  BY DEF Discarded, InProgress
<1>3. ~IsOpen(e, s)
  BY <1>1, <1>2 DEF IsOpen
<1>4. /\ OnlyOpen(d.scans, s)
      /\ Keyed(d.versions) /\ Ordered(d.versions)
      /\ Within(d.versions, d.scans) /\ Gapless(d.versions, d.scans) /\ Named(d)
      /\ HashKeyed(d.hashes) /\ HashOrdered(d.hashes) /\ HashWithin(d.hashes, d.scans)
  BY DEF StoreInv
<1>5. OnlyOpen(e.scans, s)
  BY <1>1, <1>4 DEF OnlyOpen
<1>6. \A t, ro : /\ Done(e.scans, t, ro) <=> Done(d.scans, t, ro) /\ t # s
                 /\ Kept(e.scans, t, ro) <=> Kept(d.scans, t, ro) /\ t # s
                 /\ Done(d.scans, t, ro) => Kept(d.scans, t, ro)
  BY <1>1, <1>2 DEF Done, Kept, Discarded
<1>7. /\ p \in Nat /\ p < s
      /\ p = 0 \/ Done(d.scans, p, d.scans[s].root)
      /\ \A t \in 1 .. Len(d.scans) : Done(d.scans, t, d.scans[s].root) /\ t < s => t <= p
  BY <1>1, PrevCompletedMax
<1>8. ASSUME NEW r \in Old
      PROVE  /\ b(r).item = r.item /\ b(r).ver = r.ver /\ b(r).first = r.first /\ b(r).del = r.del
             /\ b(r).val = 0 \/ (b(r).val = r.val /\ r.val <= b(r).last)
             /\ r.last = s => b(r).last = p
             /\ r.last # s => b(r).last = r.last
             /\ r \in d.versions /\ r.first < s /\ r.ver \in Nat /\ r.first \in Nat /\ r.last \in Nat
             /\ r.val \in Nat
  <2>1. r \in d.versions /\ r \in VersionRow /\ r.ver \in Nat /\ r.first \in Nat /\ r.last \in Nat
        /\ r.val \in Nat
    BY RowTypes
  <2>2. /\ b(r).item = r.item /\ b(r).ver = r.ver /\ b(r).first = r.first /\ b(r).del = r.del
        /\ r.last = s => b(r).last = p
        /\ r.last # s => b(r).last = r.last
        /\ b(r).val = IF r.val > b(r).last THEN 0 ELSE r.val
    BY <2>1, BackFields
  <2>3. b(r).last \in Nat
    BY <1>7, <2>1, <2>2
  <2> HIDE DEF b
  <2> QED
    BY <2>1, <2>2, <2>3
<1>9. e.versions = {b(r) : r \in Old}
  BY RolledRows
<1> HIDE DEF p, b
\* A confirmation of a completed scan before s stands behind every old row.
<1>10. ASSUME NEW r \in Old, r.last = s
       PROVE  r.first <= p /\ p # 0 /\ RootOf[r.item] = d.scans[s].root
  <2>1. r.first # s /\ r \in d.versions
    BY <1>1, <1>8
  <2>2. Done(d.scans, r.first, RootOf[r.item])
    BY <2>1, OldRow
  <2>3. RootOf[r.item] = d.scans[s].root
    BY <1>4, <1>10, <2>1 DEF Within, Kept
  <2> QED
    BY <1>1, <1>7, <1>8, <2>2, <2>3 DEF Done
<1>11. Keyed(e.versions)
  BY <1>4, <1>8, <1>9 DEF Keyed
<1>12. Ordered(e.versions)
  <2> SUFFICES ASSUME NEW r \in Old, NEW q \in Old, r.item = q.item, r.ver < q.ver
               PROVE  b(r).last < q.first
    BY <1>8, <1>9 DEF Ordered
  <2>1. r.last < q.first
    BY <1>4, <1>8 DEF Ordered
  <2> QED
    BY <1>1, <1>7, <1>8, <2>1
<1>13. Within(e.versions, e.scans)
  <2> SUFFICES ASSUME NEW r \in Old
               PROVE  /\ r.first <= b(r).last
                      /\ Kept(e.scans, r.first, RootOf[r.item])
                      /\ Kept(e.scans, b(r).last, RootOf[r.item])
                      /\ r.del => b(r).last = r.first
                      /\ b(r).val # 0 =>
                           /\ b(r).val \in 1 .. Len(e.scans)
                           /\ e.scans[b(r).val].state \notin Discarded
    BY <1>8, <1>9 DEF Within
  <2>1. /\ r.first <= r.last
        /\ Kept(d.scans, r.first, RootOf[r.item])
        /\ Kept(d.scans, r.last, RootOf[r.item])
        /\ r.del => r.last = r.first
        /\ r.val # 0 =>
             r.val \in 1 .. Len(d.scans) /\ d.scans[r.val].state \notin Discarded
    BY <1>4 DEF Within
  <2>2. r.first # s
    BY <1>1, <1>8
  <2>3. b(r).last < s /\ b(r).last \in Nat
    <3>1. r.last # s => r.last < s
      BY <1>8, OldRow
    <3> QED
      BY <1>7, <1>8, <3>1
  <2>4. r.first <= b(r).last /\ (r.del => b(r).last = r.first)
    BY <1>8, <1>10, <2>1, <2>2
  <2>5. Kept(d.scans, b(r).last, RootOf[r.item])
    BY <1>6, <1>7, <1>8, <1>10, <2>1
  <2>6. b(r).val # 0 => b(r).val < s /\ b(r).val = r.val
    BY <1>1, <1>8, <2>3
  <2>7. b(r).val # 0 =>
           /\ b(r).val \in 1 .. Len(e.scans)
           /\ e.scans[b(r).val].state \notin Discarded
    BY <1>1, <1>8, <2>1, <2>6
  <2>8. b(r).last # s
    BY <1>1, <2>3
  <2> QED
    BY <1>6, <2>1, <2>2, <2>4, <2>5, <2>7, <2>8
<1>14. Gapless(e.versions, e.scans)
  <2> SUFFICES ASSUME NEW r \in Old, NEW t \in 1 .. Len(e.scans),
                      Done(e.scans, t, RootOf[r.item]), r.first <= t, ~r.del
               PROVE  \/ t <= b(r).last
                      \/ \E q \in Old : q.item = r.item /\ r.first < q.first /\ q.first <= t
    BY <1>8, <1>9 DEF Gapless
  <2>1. Done(d.scans, t, RootOf[r.item]) /\ t # s /\ t \in 1 .. Len(d.scans)
    BY <1>1, <1>6
  <2>2. t < s
    BY <1>1, <1>4, <2>1 DEF OnlyOpen
  <2>3. \/ t <= r.last
        \/ \E q \in d.versions : q.item = r.item /\ r.first < q.first /\ q.first <= t
    BY <1>4, <1>8, <2>1 DEF Gapless
  <2>4. CASE t <= r.last
    BY <1>7, <1>8, <1>10, <2>1, <2>2, <2>4
  <2>5. ASSUME NEW q \in d.versions, q.item = r.item, r.first < q.first, q.first <= t
        PROVE  q \in Old
    <3>1. q.first \in Nat
      BY RowTypes
    <3> QED
      BY <1>1, <2>2, <2>5, <3>1
  <2> QED
    BY <2>3, <2>4, <2>5
<1>15. Named(e)
  <2>1. ASSUME NEW i \in Items, NEW w \in e.versions, w.item = i
        PROVE  i \in d.items
    BY <1>4, <1>8, <1>9, <2>1 DEF Named
  <2> QED
    BY <2>1 DEF Named, RowsOf
<1>16. ASSUME NEW w \in e.hashes
       PROVE  \E h \in d.hashes : /\ w = f(h) /\ h.first < s
                                  /\ w.item = h.item /\ w.ver = h.ver /\ w.first = h.first
                                  /\ w.last <= h.last /\ w.first <= w.last
                                  /\ Kept(e.scans, w.last, RootOf[w.item])
                                  /\ Kept(e.scans, w.first, RootOf[w.item])
  <2>1. PICK h \in d.hashes : w = f(h) /\ w.first # s
    BY DEF RolledHashes
  <2>2. /\ w.item = h.item /\ w.ver = h.ver /\ w.first = h.first
        /\ h.last # s \/ h.first = s => w = h
        /\ h.last = s /\ h.first < s =>
             h.first <= w.last /\ w.last < s /\ Kept(d.scans, w.last, RootOf[h.item])
    BY <2>1, ReplayHash
  <2>3. /\ h.first <= h.last /\ h.last <= s /\ h.first < s
    BY <2>1, <2>2, OldHash
  <2>4. h.first \in Nat /\ h.last \in Nat /\ w.last \in Nat
    BY RowTypes
  <2>5. Kept(d.scans, h.first, RootOf[h.item]) /\ Kept(d.scans, h.last, RootOf[h.item])
    BY <1>4 DEF HashWithin
  <2> HIDE DEF f
  <2>6. w.last <= h.last /\ w.first <= w.last /\ w.last < s
    BY <1>1, <2>2, <2>3, <2>4
  <2>7. w.last # s /\ w.first # s
    BY <1>1, <2>4, <2>1, <2>6
  <2>8. Kept(d.scans, w.last, RootOf[h.item])
    BY <1>1, <2>2, <2>3, <2>4, <2>5
  <2> QED
    BY <1>6, <2>1, <2>2, <2>3, <2>5, <2>6, <2>7, <2>8
<1>17. HashKeyed(e.hashes)
  BY <1>4, <1>16 DEF HashKeyed
<1>18. HashOrdered(e.hashes)
  <2> SUFFICES ASSUME NEW w \in e.hashes, NEW v \in e.hashes,
                      w.item = v.item, w.ver = v.ver, w.first < v.first
               PROVE  w.last < v.first
    BY DEF HashOrdered
  <2>1. PICK h \in d.hashes : w.item = h.item /\ w.ver = h.ver /\ w.first = h.first /\ w.last <= h.last
    BY <1>16
  <2>2. PICK g \in d.hashes : v.item = g.item /\ v.ver = g.ver /\ v.first = g.first
    BY <1>16
  <2>3. h.last < g.first
    BY <1>4, <2>1, <2>2 DEF HashOrdered
  <2>4. w.last \in Nat /\ h.last \in Nat /\ g.first \in Nat
    BY RowTypes
  <2> QED
    BY <2>1, <2>2, <2>3, <2>4
<1>19. HashWithin(e.hashes, e.scans)
  BY <1>16 DEF HashWithin
<1> QED
  BY <1>3, <1>5, <1>11, <1>12, <1>13, <1>14, <1>15, <1>17, <1>18, <1>19 DEF StoreInv
-----------------------------------------------------------------------------
(* Every live version was confirmed once the walk and the sweep are over.  *)

\* Rows may come, be confirmed, get other columns, or end with a successor.
LEMMA SweptKept ==
  ASSUME NEW d, NEW s, Swept(d, s), NEW e, e.scans = d.scans,
         \A w \in e.versions : ~w.del =>
           \/ w.last = s
           \/ \E q \in e.versions : q.item = w.item /\ w.ver < q.ver
           \/ \E r \in d.versions :
                r.item = w.item /\ r.ver = w.ver /\ ~r.del /\ r.last = w.last,
         \A r \in d.versions : \E w \in e.versions : w.item = r.item /\ w.ver = r.ver
  PROVE  Swept(e, s)
BY DEF Swept

IsLatest(vs, r) == \A q \in vs : q.item = r.item => q.ver <= r.ver

\* The newest version by first scan is the newest by number.
LEMMA NewestIsLatest ==
  ASSUME NEW vs \in SUBSET VersionRow, Keyed(vs), Ordered(vs),
         \A r \in vs : r.first <= r.last, NEW r \in vs
  PROVE  r \in NewestFirst(vs, r.item) <=> IsLatest(vs, r)
<1>1. \A q \in vs : q.ver \in Nat /\ q.first \in Nat /\ q.last \in Nat
  BY DEF VersionRow
<1>2. ASSUME r \in NewestFirst(vs, r.item), NEW q \in vs, q.item = r.item
      PROVE  q.ver <= r.ver
  <2>1. q.first <= r.first
    BY <1>2 DEF NewestFirst, RowsOf
  <2>2. r.ver < q.ver => r.last < q.first
    BY <1>2 DEF Ordered
  <2> QED
    BY <1>1, <2>1, <2>2
<1>3. ASSUME IsLatest(vs, r), NEW q \in vs, q.item = r.item
      PROVE  q.first <= r.first
  <2>1. CASE q.ver = r.ver
    BY <1>1, <1>3, <2>1 DEF Keyed
  <2>2. CASE q.ver # r.ver
    <3>1. q.ver < r.ver
      BY <1>1, <1>3, <2>2 DEF IsLatest
    <3>2. q.last < r.first
      BY <1>3, <3>1 DEF Ordered
    <3> QED
      BY <1>1, <3>2
  <2> QED
    BY <2>1, <2>2
<1> QED
  BY <1>2, <1>3 DEF NewestFirst, RowsOf, IsLatest

LEMMA NextVerFresh ==
  ASSUME NEW d, StoreOK(d), NEW i
  PROVE  /\ NextVer(d.versions, i) \in Nat
         /\ \A r \in d.versions : r.item = i => r.ver < NextVer(d.versions, i)
<1>1. PICK b \in Nat : Bounds(d.versions, b)
  BY DEF StoreOK, Bounded, Bounds
<1>2. /\ NextVer(d.versions, i) \in Nat
      /\ \A r \in RowsOf(d.versions, i) : r.ver < NextVer(d.versions, i)
  BY <1>1, NextVerNew DEF StoreOK, Stores
<1> QED
  BY <1>2 DEF RowsOf

\* The rows sweep inserts for the versions in U.
Tombstones(d, U, s) == {NewVersion(d.versions, q.item, s, TRUE, q.access, q.meta) : q \in U}

LEMMA TombstoneRows ==
  ASSUME NEW d, StoreOK(d), NEW s \in Nat, NEW U \in SUBSET d.versions,
         \A p, q \in U : p.item = q.item => p = q
  PROVE  /\ \A q \in U : \E m \in Tombstones(d, U, s) : m.item = q.item
         /\ \A m \in Tombstones(d, U, s) :
              /\ \E q \in U : m.item = q.item
              /\ m.first = s /\ m.last = s /\ m.val = 0 /\ m.del
              /\ \A r \in d.versions : r.item = m.item => r.ver < m.ver
         /\ \A m, k \in Tombstones(d, U, s) : m.item = k.item => m = k
<1> DEFINE n(q) == NewVersion(d.versions, q.item, s, TRUE, q.access, q.meta)
<1>1. ASSUME NEW q \in U
      PROVE  /\ n(q).item = q.item /\ n(q).first = s /\ n(q).last = s /\ n(q).val = 0 /\ n(q).del
             /\ \A r \in d.versions : r.item = q.item => r.ver < n(q).ver
  BY NextVerFresh DEF NewVersion
<1>2. Tombstones(d, U, s) = {n(q) : q \in U}
  BY DEF Tombstones
<1> HIDE DEF n
<1> QED
  BY <1>1, <1>2

\* The sweep itself, before the change of state.
LEMMA SweepInv ==
  ASSUME NEW d, StoreOK(d), NEW s \in 1 .. Len(d.scans), IsOpen(d, s), StoreInv(d, s),
         NEW ro, ro = d.scans[s].root,
         NEW e, StoreOK(e), e.scans = d.scans, e.hashes = d.hashes, e.items = d.items,
         e.undo = d.undo,
         e.versions = d.versions \cup Tombstones(d, Unconfirmed(d, ro, s), s)
  PROVE  /\ StoreInv(e, s)
         /\ \A r \in e.versions :
              RootOf[r.item] = ro /\ ~r.del =>
                r.last = s \/ \E q \in e.versions : q.item = r.item /\ r.ver < q.ver
<1> DEFINE U == Unconfirmed(d, ro, s)
           N == Tombstones(d, Unconfirmed(d, ro, s), s)
<1>1. /\ Keyed(d.versions) /\ Ordered(d.versions) /\ \A r \in d.versions : r.first <= r.last
      /\ Within(d.versions, d.scans) /\ Named(d)
      /\ d.versions \in SUBSET VersionRow
  BY DEF StoreInv, Within, StoreOK, Stores
<1>2. /\ \A q \in d.versions : q.ver \in Nat /\ q.first \in Nat /\ q.last \in Nat /\ q.item \in Items
      /\ s \in Nat
  BY RowTypes
<1>3. ASSUME NEW r \in d.versions
      PROVE  r \in U <=> RootOf[r.item] = ro /\ IsLatest(d.versions, r) /\ ~r.del /\ r.last < s
  <2>1. r \in NewestFirst(d.versions, r.item) <=> IsLatest(d.versions, r)
    BY <1>1, NewestIsLatest
  <2> QED
    BY <2>1 DEF Unconfirmed
<1>4. U \in SUBSET d.versions
  BY DEF Unconfirmed
<1> HIDE DEF U
<1>5. \A p, q \in U : p.item = q.item => p = q
  <2> SUFFICES ASSUME NEW p \in U, NEW q \in U, p.item = q.item PROVE p = q
    OBVIOUS
  <2>1. p.ver <= q.ver /\ q.ver <= p.ver
    BY <1>3, <1>4 DEF IsLatest
  <2> QED
    BY <1>1, <1>2, <1>4, <2>1 DEF Keyed
<1>6. e.versions = d.versions \cup N
  OBVIOUS
<1>7. /\ \A q \in U : \E m \in N : m.item = q.item
      /\ \A m \in N :
           /\ \E q \in U : m.item = q.item
           /\ m.first = s /\ m.last = s /\ m.val = 0 /\ m.del
           /\ \A r \in d.versions : r.item = m.item => r.ver < m.ver
      /\ \A m, k \in N : m.item = k.item => m = k
  BY <1>2, <1>4, <1>5, TombstoneRows DEF U
<1> HIDE DEF N
<1>8. \A q \in U : \A r \in d.versions : r.item = q.item => r.last < s
  <2> SUFFICES ASSUME NEW q \in U, NEW r \in d.versions, r.item = q.item PROVE r.last < s
    OBVIOUS
  <2>1. q.last < s /\ r.ver <= q.ver /\ q \in d.versions
    BY <1>3, <1>4 DEF IsLatest
  <2>2. CASE r.ver = q.ver
    BY <1>1, <2>1, <2>2 DEF Keyed
  <2>3. CASE r.ver # q.ver
    <3>1. r.ver < q.ver
      BY <1>2, <2>1, <2>3
    <3>2. r.last < q.first
      BY <1>1, <2>1, <3>1 DEF Ordered
    <3> QED
      BY <1>1, <1>2, <2>1, <3>2
  <2> QED
    BY <2>2, <2>3
<1>9. \A m \in N : /\ RootOf[m.item] = d.scans[s].root
                   /\ m.first = s /\ m.last = s /\ m.val = 0
                   /\ \A r \in d.versions : r.item = m.item => r.ver < m.ver /\ r.last < s
  BY <1>3, <1>4, <1>7, <1>8
<1>10. \A i \in Items : i \in e.items <=> i \in d.items \/ \E m \in N : m.item = i
  BY <1>1, <1>4, <1>7 DEF Named
<1>11. StoreInv(e, s)
  BY <1>6, <1>7, <1>9, <1>10, InsertInv
<1>12. ASSUME NEW r \in e.versions, RootOf[r.item] = ro, ~r.del, r.last # s
       PROVE  \E q \in e.versions : q.item = r.item /\ r.ver < q.ver
  <2>1. r \in d.versions
    BY <1>6, <1>9, <1>12
  <2>2. r.last < s
    BY <1>12, <2>1, OldRow
  <2>3. CASE r \in U
    BY <1>6, <1>7, <2>1, <2>3
  <2>4. CASE r \notin U
    <3>1. ~IsLatest(d.versions, r)
      BY <1>3, <1>12, <2>1, <2>2, <2>4
    <3>2. PICK q \in d.versions : q.item = r.item /\ ~ (q.ver <= r.ver)
      BY <3>1 DEF IsLatest
    <3>3. r.ver < q.ver
      BY <1>2, <2>1, <3>2
    <3> QED
      BY <1>6, <3>2, <3>3
  <2> QED
    BY <2>3, <2>4
<1> QED
  BY <1>11, <1>12

\* Case B: a version the walk had confirmed is closed and gets a successor.
Succeeded(d, e, s, p, i) ==
  \E r \in d.versions, new \in VersionRow :
    /\ r.item = i /\ r.first < s /\ r.last = s /\ RootOf[i] = d.scans[s].root
    /\ new.item = i /\ new.first = s /\ new.last = s
    /\ e.versions = (d.versions \ {r}) \cup {[r EXCEPT !.last = p]} \cup {new}

LEMMA CaseBInv ==
  ASSUME NEW d, StoreOK(d), NEW s \in 1 .. Len(d.scans), StoreInv(d, s), Swept(d, s),
         d.scans[s].state \in {"AnalyzingFiles", "AnalyzingScan"},
         NEW r \in d.versions, RootOf[r.item] = d.scans[s].root, ~r.del, r.first # s,
         IsLatest(d.versions, r),
         NEW access \in Accesses, NEW meta \in Metas \cup {NoMeta},
         NEW p, p = PrevCompleted(d.scans, d.scans[s].root, s),
         NEW new, new = NewVersion(d.versions, r.item, s, r.del, access, meta),
         NEW e, StoreOK(e), e.scans = d.scans, e.hashes = d.hashes, e.items = d.items,
         e.undo = d.undo,
         e.versions = CloseAndSucceed(d.versions, r, p, new)
  PROVE  /\ StoreInv(e, s) /\ Swept(e, s)
         /\ Succeeded(d, e, s, p, r.item)
<1> DEFINE m == [d EXCEPT !.versions = SetLast(d.versions, r.item, r.ver, p)]
           o == [r EXCEPT !.last = p]
<1>1. /\ \A q \in d.versions : q.ver \in Nat /\ q.first \in Nat /\ q.last \in Nat
      /\ r \in VersionRow /\ r.item \in Items /\ s \in Nat \ {0} /\ d.scans \in Seq(ScanRow)
      /\ Table(d.versions) /\ d \in Stores
  BY RowTypes DEF Table, StoreOK, Stores
<1>2. r.last = s
  <2>1. ~ \E q \in d.versions : q.item = r.item /\ r.ver < q.ver
    BY <1>1 DEF IsLatest
  <2> QED
    BY <2>1 DEF Swept
<1>3. r.first < s
  BY OldRow
<1>4. p \in Nat /\ p < s
  BY <1>1, PrevCompletedMax
<1>5. Table(SetLast(d.versions, r.item, r.ver, p))
  BY <1>1, <1>4, SetLastTable
<1>6. /\ StoreOK(m) /\ m.scans = d.scans /\ m.hashes = d.hashes /\ m.items = d.items
      /\ m.undo = d.undo /\ m.versions = SetLast(d.versions, r.item, r.ver, p)
  BY <1>1, <1>5 DEF StoreOK, Stores, Table
<1> HIDE DEF m
<1>7. StoreInv(m, s) /\ p # 0 /\ m.versions = (d.versions \ {r}) \cup {o}
  BY <1>2, <1>3, <1>6, CloseInv
<1>8. o.item = r.item /\ o.ver = r.ver /\ o.first = r.first /\ o.last = p /\ o.del = r.del
  BY <1>1 DEF VersionRow
<1> HIDE DEF o
<1>9. /\ new.item = r.item /\ new.first = s /\ new.last = s /\ new.val = 0
      /\ \A q \in d.versions : q.item = r.item => q.ver < new.ver
  BY NextVerFresh DEF NewVersion
<1>10. SetLast(d.versions, r.item, r.ver, p) = m.versions
  BY <1>6
<1>11. e.versions = m.versions \cup {new}
  BY <1>7, <1>10 DEF CloseAndSucceed
<1>12. \A q \in m.versions : q.item = r.item => q.ver < new.ver /\ q.last < s
  <2> SUFFICES ASSUME NEW q \in m.versions, q.item = r.item
               PROVE  q.ver < new.ver /\ q.last < s
    OBVIOUS
  <2>1. CASE q = o
    BY <1>4, <1>8, <1>9, <2>1
  <2>2. CASE q \in d.versions /\ q # r
    <3>1. q.ver <= r.ver
      BY <2>2 DEF IsLatest
    <3>2. q.ver # r.ver
      BY <2>2 DEF StoreInv, Keyed
    <3>3. q.last < r.first
      BY <1>1, <2>2, <3>1, <3>2 DEF StoreInv, Ordered
    <3>4. q.ver < new.ver
      BY <1>9, <2>2
    <3>5. q.last \in Nat /\ r.first \in Nat /\ s \in Nat
      BY <1>1, <2>2
    <3> QED
      BY <1>3, <3>3, <3>4, <3>5
  <2> QED
    BY <1>7, <2>1, <2>2
<1>13. IsOpen(m, s) /\ s \in 1 .. Len(m.scans)
  BY <1>1, <1>6 DEF IsOpen, InProgress
<1>14. r.item \in d.items
  BY <1>1 DEF StoreInv, Named
<1>15. StoreInv(e, s)
  <2> DEFINE N == {new}
  <2>1. \A i \in Items : i \in e.items <=> i \in m.items \/ \E n \in N : n.item = i
    BY <1>6, <1>9, <1>14
  <2>2. \A n \in N : /\ RootOf[n.item] = m.scans[s].root
                     /\ n.first = s /\ n.last = s /\ n.val = 0
                     /\ \A q \in m.versions : q.item = n.item => q.ver < n.ver /\ q.last < s
    BY <1>6, <1>9, <1>12
  <2>3. \A n, k \in N : n.item = k.item => n = k
    OBVIOUS
  <2>4. e.versions = m.versions \cup N
    BY <1>11
  <2> HIDE DEF N
  <2> QED
    BY <1>6, <1>7, <1>13, <2>1, <2>2, <2>3, <2>4, InsertInv
<1>16. Swept(e, s)
  <2>1. \A w \in e.versions : w = new \/ w = o \/ w \in d.versions
    BY <1>7, <1>11
  <2>2. r.ver < new.ver /\ new \in e.versions /\ o \in e.versions
    BY <1>7, <1>9, <1>11
  <2>3. ASSUME NEW w \in e.versions, ~w.del
        PROVE  \/ w.last = s
               \/ \E q \in e.versions : q.item = w.item /\ w.ver < q.ver
               \/ \E q \in d.versions :
                    q.item = w.item /\ q.ver = w.ver /\ ~q.del /\ q.last = w.last
    <3>1. CASE w = o
      BY <1>8, <1>9, <2>2, <3>1
    <3>2. CASE w = new
      BY <1>9, <3>2
    <3>3. CASE w \in d.versions
      BY <2>3, <3>3
    <3> QED
      BY <2>1, <3>1, <3>2, <3>3
  <2>4. ASSUME NEW q \in d.versions
        PROVE  \E w \in e.versions : w.item = q.item /\ w.ver = q.ver
    BY <1>7, <1>8, <1>11, <2>2
  <2>5. \A w \in e.versions : ~w.del =>
               \/ w.last = s
               \/ \E q \in e.versions : q.item = w.item /\ w.ver < q.ver
               \/ \E q \in d.versions :
                    q.item = w.item /\ q.ver = w.ver /\ ~q.del /\ q.last = w.last
    BY <2>3
  <2>6. \A q \in d.versions : \E w \in e.versions : w.item = q.item /\ w.ver = q.ver
    BY <2>4
  <2> QED
    BY <2>5, <2>6, SweptKept
<1>17. new \in VersionRow
  BY <1>11 DEF StoreOK, Stores
<1>18. e.versions = (d.versions \ {r}) \cup {[r EXCEPT !.last = p]} \cup {new}
  BY <1>7, <1>11 DEF o
<1> QED
  BY <1>2, <1>3, <1>9, <1>15, <1>16, <1>17, <1>18 DEF Succeeded
-----------------------------------------------------------------------------
(* Folder counts *)

\* A folder the walk enters has a version that is not a tombstone of an earlier
\* scan.
LEMMA ToWriteFound ==
  ASSUME NEW d, StoreOK(d), NEW s \in 1 .. Len(d.scans), StoreInv(d, s),
         NEW ro, ro = d.scans[s].root
  PROVE  ToWrite(d, s, FoldersToWrite(d.versions, ro, s))
<1>1. /\ Keyed(d.versions) /\ Ordered(d.versions) /\ \A r \in d.versions : r.first <= r.last
      /\ d.versions \in SUBSET VersionRow
  BY DEF StoreInv, Within, StoreOK, Stores
<1>2. \A q \in d.versions : q.first \in Nat /\ q.last \in Nat /\ s \in Nat
  BY RowTypes
<1>3. \A q \in d.versions : q.first <= s
  BY <1>1, <1>2, OldRow
<1>4. {r \in d.versions : r.first <= s} = d.versions
  BY <1>3
<1> SUFFICES ASSUME NEW f \in FoldersToWrite(d.versions, ro, s)
             PROVE  /\ RootOf[f] = ro
                    /\ \E r \in Latest(d.versions, f) : r.first = s \/ ~r.del
  BY DEF ToWrite
<1>5. RootOf[f] = ro /\ Entered(d.versions, f, s)
  BY DEF FoldersToWrite
<1>6. PICK c \in AsOf(d.versions, f, s) : ~c.del \/ c.first = s
  BY <1>5 DEF Entered
<1>7. c \in NewestFirst(d.versions, f)
  BY <1>4, <1>6 DEF AsOf
<1>8. c \in d.versions /\ c.item = f
  BY <1>7 DEF NewestFirst, RowsOf
<1>9. IsLatest(d.versions, c)
  BY <1>1, <1>7, <1>8, NewestIsLatest
<1>10. c \in Latest(d.versions, f)
  BY <1>8, <1>9 DEF IsLatest, Latest, RowsOf
<1> QED
  BY <1>5, <1>6, <1>10

LEMMA ToWriteKept ==
  ASSUME NEW d, NEW s, NEW fs, NEW f, ToWrite(d, s, fs), NEW e, e.scans = d.scans,
         \A g : g # f => RowsOf(e.versions, g) = RowsOf(d.versions, g)
  PROVE  ToWrite(e, s, fs \ {f})
<1>1. \A g : g # f => Latest(e.versions, g) = Latest(d.versions, g)
  BY DEF Latest
<1> QED
  BY <1>1 DEF ToWrite

LEMMA WriteFolderInv ==
  ASSUME NEW d, StoreOK(d), NEW s \in 1 .. Len(d.scans), StoreInv(d, s), Swept(d, s),
         d.scans[s].state = "AnalyzingScan",
         NEW f \in Items, RootOf[f] = d.scans[s].root,
         \E r \in Latest(d.versions, f) : r.first = s \/ ~r.del,
         NEW p, p = PrevCompleted(d.scans, d.scans[s].root, s),
         NEW e, StoreOK(e), e.scans = d.scans, e.hashes = d.hashes, e.items = d.items,
         e.undo = d.undo,
         e.versions = WriteFolder(d.versions, f, s, p)
  PROVE  /\ StoreInv(e, s) /\ Swept(e, s)
         /\ e.versions = d.versions \/ Succeeded(d, e, s, p, f)
         /\ \A g : g # f => RowsOf(e.versions, g) = RowsOf(d.versions, g)
<1>1. CASE \E r \in RowsOf(d.versions, f) : r.first = s
  <2>1. e.versions = d.versions
    BY <1>1 DEF WriteFolder
  <2>2. StoreInv(e, s)
    BY <2>1 DEF StoreInv, IsOpen, UndoOK, VersionUndone, HashUndone, Named
  <2>3. Swept(e, s)
    BY <2>1 DEF Swept
  <2> QED
    BY <2>1, <2>2, <2>3
<1>2. CASE ~ \E r \in RowsOf(d.versions, f) : r.first = s
  <2>1. PICK r \in Latest(d.versions, f) : r.first = s \/ ~r.del
    OBVIOUS
  <2>2. r \in d.versions /\ r.item = f /\ r.first # s /\ ~r.del /\ IsLatest(d.versions, r)
    BY <1>2, <2>1 DEF Latest, RowsOf, IsLatest
  <2>3. /\ \A q \in d.versions : q.ver \in Nat
        /\ r \in VersionRow
    BY <2>2, RowTypes
  <2>4. \A q \in Latest(d.versions, f) : q = r
    <3> SUFFICES ASSUME NEW q \in Latest(d.versions, f) PROVE q = r
      OBVIOUS
    <3>1. q \in d.versions /\ q.item = f /\ q.ver <= r.ver /\ r.ver <= q.ver
      BY <2>1 DEF Latest, RowsOf
    <3>2. q.ver = r.ver
      BY <2>2, <2>3, <3>1
    <3> QED
      BY <2>2, <3>1, <3>2 DEF StoreInv, Keyed
  <2> DEFINE new == NewVersion(d.versions, r.item, s, r.del, r.access, r.meta)
             c(q) == CloseAndSucceed(d.versions, q, p, NewVersion(d.versions, f, s, q.del, q.access, q.meta))
  <2>5. e.versions = UNION {c(q) : q \in Latest(d.versions, f)}
    BY <1>2 DEF WriteFolder
  <2>6. e.versions = c(r)
    <3> HIDE DEF c
    <3> QED
      BY <2>1, <2>4, <2>5
  <2>7. e.versions = CloseAndSucceed(d.versions, r, p, new)
    BY <2>2, <2>6
  <2>8. r.access \in Accesses /\ r.meta \in Metas \cup {NoMeta}
    BY <2>3 DEF VersionRow
  <2>9. StoreInv(e, s) /\ Swept(e, s) /\ Succeeded(d, e, s, p, f)
    BY <2>2, <2>7, <2>8, CaseBInv
  <2>10. \A g : g # f => RowsOf(e.versions, g) = RowsOf(d.versions, g)
    <3>1. PICK q \in d.versions, n \in VersionRow :
            /\ q.item = f /\ n.item = f
            /\ e.versions = (d.versions \ {q}) \cup {[q EXCEPT !.last = p]} \cup {n}
      BY <2>9 DEF Succeeded
    <3> DEFINE o == [q EXCEPT !.last = p]
    <3>2. o.item = f
      <4>1. q \in VersionRow
        BY RowTypes
      <4> QED
        BY <3>1, <4>1 DEF VersionRow
    <3>3. e.versions = (d.versions \ {q}) \cup {o} \cup {n}
      BY <3>1
    <3> HIDE DEF o
    <3> QED
      BY <3>1, <3>2, <3>3 DEF RowsOf
  <2> QED
    BY <2>9, <2>10
<1> QED
  BY <1>1, <1>2
-----------------------------------------------------------------------------
(* File analysis *)

LEMMA CurrentHashExists ==
  ASSUME NEW d, StoreOK(d), NEW s \in 1 .. Len(d.scans), StoreInv(d, s),
         NEW i, NEW v, HashesOf(d.hashes, i, v) # {}
  PROVE  CurrentHash(d.hashes, i, v) # {}
<1> DEFINE H == HashesOf(d.hashes, i, v)
           S == {h.first : h \in H}
<1>1. H \in SUBSET d.hashes /\ H # {}
  BY DEF HashesOf
<1>2. \A h \in d.hashes : h.first \in Nat /\ h.first <= s /\ s \in Nat
  <2> SUFFICES ASSUME NEW h \in d.hashes PROVE h.first \in Nat /\ h.first <= s /\ s \in Nat
    OBVIOUS
  <2>1. h.first \in Nat /\ h.last \in Nat /\ s \in Nat
    BY RowTypes
  <2>2. h.first <= h.last /\ h.last <= s
    BY OldHash
  <2> QED
    BY <2>1, <2>2
<1> HIDE DEF H
<1>3. S \in SUBSET Nat /\ S # {} /\ s \in Nat /\ \A m \in S : m <= s
  BY <1>1, <1>2
<1> HIDE DEF S
<1>4. MaxOf(S) \in S /\ \A m \in S : m <= MaxOf(S)
  BY <1>3, MaxOfBounded
<1>5. PICK h \in H : \A g \in H : g.first <= h.first
  BY <1>4 DEF S
<1>6. h \in CurrentHash(d.hashes, i, v)
  BY <1>5 DEF CurrentHash, H
<1> QED
  BY <1>6

\* What persist_hash can do to a store: nothing, add a row, or confirm one.
HashAdded(d, e, s) ==
  \E g \in HashRow :
    /\ g.first = s /\ g.last = s
    /\ e.hashes = d.hashes \cup {g}
    /\ e.undo = d.undo

HashConfirmed(d, e, s) ==
  \E g \in d.hashes :
    /\ g.first < s /\ g.last < s
    /\ e.hashes = (d.hashes \ {g}) \cup {[g EXCEPT !.last = s]}
    /\ e.undo = d.undo \cup {LogHash(g)}

HashStep(d, e, s) ==
  \/ e.hashes = d.hashes /\ e.undo = d.undo
  \/ HashAdded(d, e, s)
  \/ HashConfirmed(d, e, s)

LEMMA PersistHashInv ==
  ASSUME NEW d, StoreOK(d), NEW s \in 1 .. Len(d.scans), IsOpen(d, s), StoreInv(d, s),
         NEW r \in d.versions, RootOf[r.item] = d.scans[s].root,
         NEW hr,
         \/ hr \notin Hashes
         \/ CurrentHash(d.hashes, r.item, r.ver) = {}
         \/ \E g \in CurrentHash(d.hashes, r.item, r.ver) : g.last < s,
         NEW e, e = PersistHash(d, r, hr, s)
  PROVE  /\ StoreInv(e, s) /\ StoreOK(e) /\ HashStep(d, e, s)
         /\ e.scans = d.scans /\ e.versions = d.versions /\ e.items = d.items
<1> DEFINE C == CurrentHash(d.hashes, r.item, r.ver)
           same == {g \in C : g.hash = hr}
           row == [item |-> r.item, ver |-> r.ver, first |-> s, last |-> s, hash |-> hr]
           inserted == d.hashes \cup {row}
           extended == (d.hashes \ same) \cup {[g EXCEPT !.last = s] : g \in same}
           logged == d.undo \cup {LogHash(g) : g \in same}
<1>1. r \in VersionRow /\ r.item \in Items /\ r.ver \in Nat /\ s \in Nat /\ d \in Stores
      /\ \A h \in d.hashes : h.ver \in Nat /\ h.first \in Nat /\ h.last \in Nat
  BY RowTypes DEF StoreOK
<1>2. StoreOK(e) /\ e.scans = d.scans /\ e.versions = d.versions
  BY <1>1, PersistHashOK
<1>3. e = IF hr \notin Hashes THEN d
          ELSE IF same = {} THEN [d EXCEPT !.hashes = inserted]
          ELSE [d EXCEPT !.undo = logged, !.hashes = extended]
  BY <1>1 DEF PersistHash, Stores
<1>4. HashKeyed(d.hashes) /\ HashOrdered(d.hashes) /\ \A h \in d.hashes : h.first <= h.last
  BY DEF StoreInv, HashWithin
<1>5. C \subseteq HashesOf(d.hashes, r.item, r.ver)
  BY DEF CurrentHash
<1>6. \A g \in HashesOf(d.hashes, r.item, r.ver) :
        g \in d.hashes /\ g.item = r.item /\ g.ver = r.ver
  BY DEF HashesOf
<1>7. \A h \in d.hashes : h.item = r.item /\ h.ver = r.ver =>
        h \in HashesOf(d.hashes, r.item, r.ver)
  BY DEF HashesOf
<1>8. \A g \in C : \A h \in HashesOf(d.hashes, r.item, r.ver) : h.first <= g.first
  BY DEF CurrentHash
<1>9. C = {} => HashesOf(d.hashes, r.item, r.ver) = {}
  BY CurrentHashExists
<1>10. (C = {} \/ \E g \in C : g.last < s) \/ hr \notin Hashes
  OBVIOUS
<1>11. \A g, h \in C : g = h
  <2> SUFFICES ASSUME NEW g \in C, NEW h \in C PROVE g = h
    OBVIOUS
  <2>1. g.first <= h.first /\ h.first <= g.first
    BY <1>5, <1>8
  <2>2. g \in d.hashes /\ h \in d.hashes /\ g.item = h.item /\ g.ver = h.ver
    BY <1>5, <1>6
  <2>3. g.first = h.first
    BY <1>1, <2>1, <2>2
  <2> QED
    BY <1>4, <2>2, <2>3 DEF HashKeyed
<1> HIDE DEF C, row
<1>12. CASE hr \notin Hashes
  BY <1>2, <1>3, <1>12 DEF HashStep
<1>13. CASE hr \in Hashes /\ same = {}
  <2>1. e = [d EXCEPT !.hashes = inserted]
    BY <1>3, <1>13
  <2>2. e.hashes = d.hashes \cup {row} /\ e.undo = d.undo /\ e.items = d.items
    BY <1>1, <2>1 DEF Stores
  <2>3. /\ row.item = r.item /\ row.ver = r.ver /\ row.first = s /\ row.last = s
        /\ row \in HashRow
    BY <1>1, <1>13 DEF row, HashRow
  <2>4. \A h \in d.hashes : h.item = row.item /\ h.ver = row.ver => h.last < s
    <3> SUFFICES ASSUME NEW h \in d.hashes, h.item = r.item, h.ver = r.ver PROVE h.last < s
      BY <2>3
    <3>1. h \in HashesOf(d.hashes, r.item, r.ver) /\ C # {}
      BY <1>7, <1>9
    <3>2. PICK g \in C : g.last < s
      BY <1>10, <1>13, <3>1
    <3>3. h.first <= g.first /\ g \in d.hashes /\ g.item = h.item /\ g.ver = h.ver
      BY <1>5, <1>6, <1>8, <3>1
    <3>4. CASE h.first = g.first
      <4>1. h = g
        BY <1>4, <3>3, <3>4 DEF HashKeyed
      <4> QED
        BY <3>2, <4>1
    <3>5. CASE h.first # g.first
      <4>1. h.first < g.first
        BY <1>1, <3>3, <3>5
      <4>2. h.last < g.first
        BY <1>4, <3>3, <4>1 DEF HashOrdered
      <4> QED
        BY <1>1, <1>4, <3>2, <3>3, <4>2
    <3> QED
      BY <3>4, <3>5
  <2>5. HashAdded(d, e, s)
    BY <2>2, <2>3 DEF HashAdded
  <2>6. RootOf[row.item] = d.scans[s].root
    BY <2>3
  <2> QED
    BY <1>2, <2>2, <2>3, <2>4, <2>5, <2>6, HashInsertInv DEF HashStep
<1>14. CASE hr \in Hashes /\ same # {}
  <2>1. e = [d EXCEPT !.undo = logged, !.hashes = extended]
    BY <1>3, <1>14
  <2>2. PICK g \in same : TRUE
    BY <1>14
  <2>3. same = {g} /\ g \in C
    BY <1>11, <2>2
  <2>4. g.last < s
    BY <1>10, <1>11, <1>14, <2>3
  <2>5. g \in d.hashes /\ g.item = r.item /\ g.ver = r.ver
    BY <1>5, <1>6, <2>3
  <2>6. extended = (d.hashes \ {g}) \cup {[g EXCEPT !.last = s]}
        /\ logged = d.undo \cup {LogHash(g)}
    BY <2>3
  <2> HIDE DEF extended, logged, same
  <2>7. e.hashes = extended /\ e.undo = logged /\ e.items = d.items
    BY <1>1, <2>1 DEF Stores
  <2>8. g.first < s /\ g.last # s
    BY <1>1, <1>4, <2>4, <2>5
  <2>9. \A h \in d.hashes : h.item = g.item /\ h.ver = g.ver => h.first <= g.first
    BY <1>7, <1>8, <2>3, <2>5
  <2>10. RootOf[g.item] = d.scans[s].root
    BY <2>5
  <2>11. HashConfirmed(d, e, s)
    BY <2>4, <2>5, <2>6, <2>7, <2>8 DEF HashConfirmed
  <2>12. e.hashes = (d.hashes \ {g}) \cup {[g EXCEPT !.last = s]}
         /\ e.undo = d.undo \cup {LogHash(g)}
    BY <2>6, <2>7
  <2>13. StoreInv(e, s)
    BY <1>2, <2>5, <2>7, <2>8, <2>9, <2>10, <2>12, HashExtendInv
  <2> QED
    BY <1>2, <2>7, <2>11, <2>13 DEF HashStep
<1> QED
  BY <1>12, <1>13, <1>14
-----------------------------------------------------------------------------
(* What the tables said before the open scan. *)

\* Row r without the confirmation of scan s; p is the completed scan before s.
Past(r, s, p) ==
  [item |-> r.item, ver |-> r.ver, first |-> r.first,
   last |-> IF r.last = s THEN p ELSE r.last,
   del |-> r.del, access |-> r.access, meta |-> r.meta]

Before(vs, s, p) == {Past(r, s, p) : r \in {q \in vs : q.first < s}}

LEMMA BeforeSame ==
  ASSUME NEW vs, NEW ws, NEW s, NEW p,
         \A w \in ws : w.first < s =>
           \E q \in vs : q.first < s /\ Past(q, s, p) = Past(w, s, p),
         \A q \in vs : q.first < s =>
           \E w \in ws : w.first < s /\ Past(q, s, p) = Past(w, s, p)
  PROVE  Before(ws, s, p) = Before(vs, s, p)
<1>1. Before(ws, s, p) \subseteq Before(vs, s, p)
  BY DEF Before
<1>2. Before(vs, s, p) \subseteq Before(ws, s, p)
  BY DEF Before
<1> QED
  BY <1>1, <1>2

LEMMA BeforeSucceeded ==
  ASSUME NEW d, StoreOK(d), NEW s \in Nat, NEW p \in Nat, p < s, NEW i, NEW e,
         Succeeded(d, e, s, p, i)
  PROVE  Before(e.versions, s, p) = Before(d.versions, s, p)
<1>1. PICK r \in d.versions, new \in VersionRow :
        /\ r.first < s /\ r.last = s
        /\ new.first = s
        /\ e.versions = (d.versions \ {r}) \cup {[r EXCEPT !.last = p]} \cup {new}
  BY DEF Succeeded
<1> DEFINE o == [r EXCEPT !.last = p]
<1>2. /\ o.item = r.item /\ o.ver = r.ver /\ o.first = r.first /\ o.last = p
      /\ o.del = r.del /\ o.access = r.access /\ o.meta = r.meta
  BY RowTypes DEF VersionRow
<1>3. e.versions = (d.versions \ {r}) \cup {o} \cup {new}
  BY <1>1
<1> HIDE DEF o
<1>4. Past(o, s, p) = Past(r, s, p)
  BY <1>1, <1>2 DEF Past
<1>5. \A w \in e.versions : w.first < s =>
        \E q \in d.versions : q.first < s /\ Past(q, s, p) = Past(w, s, p)
  BY <1>1, <1>2, <1>3, <1>4
<1>6. \A q \in d.versions : q.first < s =>
        \E w \in e.versions : w.first < s /\ Past(q, s, p) = Past(w, s, p)
  BY <1>2, <1>3, <1>4
<1> QED
  BY <1>5, <1>6, BeforeSame

\* persist_analysis writes the columns val_* of a version it has confirmed, or not.
Validated(d, m, r, s) ==
  /\ m.scans = d.scans /\ m.hashes = d.hashes /\ m.items = d.items /\ m.undo = d.undo
  /\ m.versions = d.versions \/ m.versions = SetVal(d.versions, r.item, r.ver, s)

SameBefore(d, m, s) == \A p : Before(m.versions, s, p) = Before(d.versions, s, p)

SameColumns(n, r) ==
  /\ n.item = r.item /\ n.ver = r.ver /\ n.first = r.first /\ n.last = r.last
  /\ n.del = r.del /\ n.access = r.access /\ n.meta = r.meta

LEMMA PersistValInv ==
  ASSUME NEW d, StoreOK(d), NEW s \in 1 .. Len(d.scans), IsOpen(d, s), StoreInv(d, s), Swept(d, s),
         NEW r \in d.versions, NEW m, StoreOK(m), Validated(d, m, r, s)
  PROVE  /\ StoreInv(m, s) /\ Swept(m, s) /\ SameBefore(d, m, s)
         /\ \E n \in m.versions : SameColumns(n, r)
<1>0. m.scans = d.scans /\ m.hashes = d.hashes /\ m.items = d.items /\ m.undo = d.undo
  BY DEF Validated
<1>1. r \in VersionRow
  BY RowTypes
<1>2. Keyed(d.versions)
  BY DEF StoreInv
<1>3. \A q \in d.versions : q.item = r.item /\ q.ver = r.ver <=> q = r
  BY <1>2 DEF Keyed
<1>4. PICK n \in VersionRow :
        /\ n.item = r.item /\ n.ver = r.ver /\ n.first = r.first /\ n.last = r.last
        /\ n.del = r.del /\ n.access = r.access /\ n.meta = r.meta
        /\ n.val \in {r.val, s}
        /\ m.versions = (d.versions \ {r}) \cup {n}
  <2>1. CASE m.versions = d.versions
    <3>1. m.versions = (d.versions \ {r}) \cup {r}
      BY <2>1
    <3> QED
      BY <1>1, <3>1
  <2>2. CASE m.versions = SetVal(d.versions, r.item, r.ver, s)
    <3> DEFINE n == [r EXCEPT !.val = s]
    <3>1. s \in Nat
      BY RowTypes
    <3>2. /\ n \in VersionRow
          /\ n.item = r.item /\ n.ver = r.ver /\ n.first = r.first /\ n.last = r.last
          /\ n.del = r.del /\ n.access = r.access /\ n.meta = r.meta /\ n.val = s
      BY <1>1, <3>1 DEF VersionRow
    <3>3. m.versions = (d.versions \ {r}) \cup {n}
      BY <1>3, <2>2 DEF SetVal
    <3> HIDE DEF n
    <3> QED
      BY <3>2, <3>3
  <2> QED
    BY <2>1, <2>2 DEF Validated
<1>5. StoreInv(m, s)
  BY <1>0, <1>4, ColumnsInv
<1>6. Swept(m, s)
  <2>1. \A w \in m.versions : ~w.del =>
          \/ w.last = s
          \/ \E q \in m.versions : q.item = w.item /\ w.ver < q.ver
          \/ \E q \in d.versions :
               q.item = w.item /\ q.ver = w.ver /\ ~q.del /\ q.last = w.last
    BY <1>4
  <2>2. \A q \in d.versions : \E w \in m.versions : w.item = q.item /\ w.ver = q.ver
    BY <1>4
  <2> QED
    BY <1>0, <2>1, <2>2, SweptKept
<1>7. ASSUME NEW p
      PROVE  Before(m.versions, s, p) = Before(d.versions, s, p)
  <2>1. Past(n, s, p) = Past(r, s, p)
    BY <1>4 DEF Past
  <2>2. \A w \in m.versions : w.first < s =>
          \E q \in d.versions : q.first < s /\ Past(q, s, p) = Past(w, s, p)
    BY <1>4, <2>1
  <2>3. \A q \in d.versions : q.first < s =>
          \E w \in m.versions : w.first < s /\ Past(q, s, p) = Past(w, s, p)
    BY <1>4, <2>1
  <2> QED
    BY <2>2, <2>3, BeforeSame
<1>8. n \in m.versions /\ SameColumns(n, r)
  BY <1>4 DEF SameColumns
<1>9. SameBefore(d, m, s)
  BY <1>7 DEF SameBefore
<1> QED
  BY <1>5, <1>6, <1>8, <1>9

\* A version this scan confirmed is the newest of its item.
LEMMA ConfirmedIsLatest ==
  ASSUME NEW d, StoreOK(d), NEW s \in 1 .. Len(d.scans), StoreInv(d, s),
         NEW r \in d.versions, r.last = s
  PROVE  IsLatest(d.versions, r)
<1> SUFFICES ASSUME NEW q \in d.versions, q.item = r.item, ~ (q.ver <= r.ver) PROVE FALSE
  BY DEF IsLatest
<1>1. q.ver \in Nat /\ q.first \in Nat /\ q.last \in Nat /\ r.ver \in Nat /\ s \in Nat
  BY RowTypes
<1>2. r.ver < q.ver
  BY <1>1
<1>3. r.last < q.first
  BY <1>2 DEF StoreInv, Ordered
<1>4. q.first <= q.last /\ q.last <= s
  BY OldRow
<1> QED
  BY <1>1, <1>3, <1>4

\* ... and item_access: in place in a version of its own, by Case B in an older one.
LEMMA PersistAccessInv ==
  ASSUME NEW d, StoreOK(d), NEW s \in 1 .. Len(d.scans), StoreInv(d, s), Swept(d, s),
         d.scans[s].state = "AnalyzingFiles",
         NEW r \in d.versions, RootOf[r.item] = d.scans[s].root, ~r.del, r.last = s,
         NEW access \in Accesses,
         NEW p, p = PrevCompleted(d.scans, d.scans[s].root, s),
         NEW e, StoreOK(e), e.scans = d.scans, e.hashes = d.hashes, e.items = d.items,
         e.undo = d.undo,
         e.versions = PersistAccess(d.versions, r, access, s, p)
  PROVE  /\ StoreInv(e, s) /\ Swept(e, s)
         /\ Before(e.versions, s, p) = Before(d.versions, s, p)
<1>1. r \in VersionRow /\ s \in Nat \ {0} /\ d.scans \in Seq(ScanRow)
  BY RowTypes
<1>2. IsOpen(d, s) /\ Keyed(d.versions)
  BY <1>1 DEF IsOpen, InProgress, StoreInv
<1>3. p \in Nat /\ p < s
  BY <1>1, PrevCompletedMax
<1>4. CASE access = r.access
  <2>1. e.versions = d.versions
    BY <1>4 DEF PersistAccess
  <2>2. StoreInv(e, s)
    BY <2>1 DEF StoreInv, IsOpen, UndoOK, VersionUndone, HashUndone, Named
  <2>3. Swept(e, s)
    BY <2>1 DEF Swept
  <2> QED
    BY <2>1, <2>2, <2>3
<1>5. CASE access # r.access /\ r.first = s
  <2> DEFINE o == [r EXCEPT !.access = access]
  <2>1. /\ o.item = r.item /\ o.ver = r.ver /\ o.first = r.first /\ o.last = r.last
        /\ o.del = r.del /\ o.val = r.val
    BY <1>1 DEF VersionRow
  <2>2. \A q \in d.versions : q.item = r.item /\ q.ver = r.ver <=> q = r
    BY <1>2 DEF Keyed
  <2>3. e.versions = SetAccess(d.versions, r.item, r.ver, access)
    BY <1>5 DEF PersistAccess
  <2>4. e.versions = (d.versions \ {r}) \cup {o}
    BY <2>2, <2>3 DEF SetAccess
  <2> HIDE DEF o
  <2>5. StoreInv(e, s)
    BY <1>2, <2>1, <2>4, ColumnsInv
  <2>6. Swept(e, s)
    <3>1. \A w \in e.versions : ~w.del =>
            \/ w.last = s
            \/ \E q \in e.versions : q.item = w.item /\ w.ver < q.ver
            \/ \E q \in d.versions :
                 q.item = w.item /\ q.ver = w.ver /\ ~q.del /\ q.last = w.last
      BY <2>1, <2>4
    <3>2. \A q \in d.versions : \E w \in e.versions : w.item = q.item /\ w.ver = q.ver
      BY <2>1, <2>4
    <3> QED
      BY <3>1, <3>2, SweptKept
  <2>7. Before(e.versions, s, p) = Before(d.versions, s, p)
    <3>1. ~ (r.first < s) /\ ~ (o.first < s)
      BY <1>1, <1>5, <2>1
    <3>2. \A w \in e.versions : w.first < s =>
            \E q \in d.versions : q.first < s /\ Past(q, s, p) = Past(w, s, p)
      BY <2>4, <3>1
    <3>3. \A q \in d.versions : q.first < s =>
            \E w \in e.versions : w.first < s /\ Past(q, s, p) = Past(w, s, p)
      BY <2>4, <3>1
    <3> QED
      BY <3>2, <3>3, BeforeSame
  <2> QED
    BY <2>5, <2>6, <2>7
<1>6. CASE access # r.access /\ r.first # s
  <2>1. r.del = FALSE /\ r.meta \in Metas \cup {NoMeta}
    BY <1>1 DEF VersionRow
  <2>2. e.versions = CloseAndSucceed(d.versions, r, p,
                       NewVersion(d.versions, r.item, s, r.del, access, r.meta))
    BY <1>6, <2>1 DEF PersistAccess
  <2>3. IsLatest(d.versions, r)
    BY ConfirmedIsLatest
  <2>4. StoreInv(e, s) /\ Swept(e, s) /\ Succeeded(d, e, s, p, r.item)
    BY <1>6, <2>1, <2>2, <2>3, CaseBInv
  <2>5. Before(e.versions, s, p) = Before(d.versions, s, p)
    BY <1>1, <1>3, <2>4, BeforeSucceeded
  <2> QED
    BY <2>4, <2>5
<1> QED
  BY <1>4, <1>5, <1>6
-----------------------------------------------------------------------------
(* Statements that leave what the tables said before the open scan. *)

Settled(d, s) ==
  [versions |-> Before(d.versions, s, PrevCompleted(d.scans, d.scans[s].root, s)),
   hashes |-> RolledHashes(d, s)]

LEMMA RolledSame ==
  ASSUME NEW d, NEW e, NEW s, e.hashes = d.hashes,
         \A h \in d.hashes : UndoForHash(e.undo, h) = UndoForHash(d.undo, h)
  PROVE  RolledHashes(e, s) = RolledHashes(d, s)
<1>1. {Replay(UndoForHash(e.undo, g), g) : g \in e.hashes}
    = {Replay(UndoForHash(d.undo, g), g) : g \in d.hashes}
  OBVIOUS
<1> QED
  BY <1>1 DEF RolledHashes

LEMMA InsertSettled ==
  ASSUME NEW d, StoreOK(d), NEW s \in Nat,
         NEW e, e.scans = d.scans, e.hashes = d.hashes, e.undo = d.undo,
         d.versions \subseteq e.versions,
         \A w \in e.versions : w \in d.versions \/ w.first = s
  PROVE  Settled(e, s) = Settled(d, s)
<1> DEFINE p == PrevCompleted(d.scans, d.scans[s].root, s)
<1>2. Before(e.versions, s, p) = Before(d.versions, s, p)
  <2> HIDE DEF p
  <2>1. \A w \in e.versions : w.first < s =>
          \E q \in d.versions : q.first < s /\ Past(q, s, p) = Past(w, s, p)
    OBVIOUS
  <2>2. \A q \in d.versions : q.first < s =>
          \E w \in e.versions : w.first < s /\ Past(q, s, p) = Past(w, s, p)
    OBVIOUS
  <2> QED
    BY <2>1, <2>2, BeforeSame
<1>3. RolledHashes(e, s) = RolledHashes(d, s)
  BY RolledSame
<1> QED
  BY <1>2, <1>3 DEF Settled

LEMMA ConfirmSettled ==
  ASSUME NEW d, StoreOK(d), NEW s \in 1 .. Len(d.scans), StoreInv(d, s), IsOpen(d, s),
         NEW r \in d.versions, r.first < s,
         r.last = PrevCompleted(d.scans, d.scans[s].root, s),
         NEW e, e.scans = d.scans, e.hashes = d.hashes,
         e.undo = d.undo \cup {LogVersion(r)},
         Confirmed(d, e, r, s)
  PROVE  Settled(e, s) = Settled(d, s)
<1> DEFINE p == PrevCompleted(d.scans, d.scans[s].root, s)
           n == [r EXCEPT !.last = s]
<1>1. /\ n.item = r.item /\ n.ver = r.ver /\ n.first = r.first /\ n.last = s
      /\ n.del = r.del /\ n.access = r.access /\ n.meta = r.meta
  BY RowTypes DEF VersionRow
<1>2. e.versions = (d.versions \ {r}) \cup {n} /\ r.last = p
  BY DEF Confirmed
<1>3. p < s
  BY RowTypes, PrevCompletedMax
<1> HIDE DEF n, p
<1>4. Past(n, s, p) = Past(r, s, p)
  BY <1>1, <1>2 DEF Past
<1>5. Before(e.versions, s, p) = Before(d.versions, s, p)
  <2>1. \A w \in e.versions : w.first < s =>
          \E q \in d.versions : q.first < s /\ Past(q, s, p) = Past(w, s, p)
    BY <1>1, <1>2, <1>4
  <2>2. \A q \in d.versions : q.first < s =>
          \E w \in e.versions : w.first < s /\ Past(q, s, p) = Past(w, s, p)
    BY <1>1, <1>2, <1>4
  <2> QED
    BY <2>1, <2>2, BeforeSame
<1>6. \A h \in d.hashes : UndoForHash(e.undo, h) = UndoForHash(d.undo, h)
  BY DEF UndoForHash, LogVersion
<1>7. RolledHashes(e, s) = RolledHashes(d, s)
  BY <1>6, RolledSame
<1> QED
  BY <1>5, <1>7 DEF Settled, p

LEMMA ReplayFirst ==
  ASSUME NEW undo, NEW h \in HashRow
  PROVE  Replay(undo, h).first = h.first
BY DEF Replay, HashRow

LEMMA HashStepSettled ==
  ASSUME NEW d, StoreOK(d), NEW s \in 1 .. Len(d.scans), StoreInv(d, s), IsOpen(d, s),
         NEW e, HashStep(d, e, s)
  PROVE  RolledHashes(e, s) = RolledHashes(d, s)
<1> DEFINE f(h) == Replay(UndoForHash(d.undo, h), h)
           g(h) == Replay(UndoForHash(e.undo, h), h)
<1>1. CASE e.hashes = d.hashes /\ e.undo = d.undo
  BY <1>1, RolledSame
<1>2. CASE HashAdded(d, e, s)
  <2>1. PICK n \in HashRow : n.first = s /\ e.hashes = d.hashes \cup {n} /\ e.undo = d.undo
    BY <1>2 DEF HashAdded
  <2>2. f(n).first = s
    BY <2>1, ReplayFirst
  <2>3. \A h : f(h) = g(h)
    BY <2>1
  <2> HIDE DEF f, g
  <2>4. {w \in {g(h) : h \in e.hashes} : w.first # s} = {w \in {f(h) : h \in d.hashes} : w.first # s}
    BY <2>1, <2>2, <2>3
  <2> QED
    BY <2>4 DEF RolledHashes, f, g
<1>3. CASE HashConfirmed(d, e, s)
  <2>1. PICK h \in d.hashes :
          /\ h.first < s /\ h.last < s
          /\ e.hashes = (d.hashes \ {h}) \cup {[h EXCEPT !.last = s]}
          /\ e.undo = d.undo \cup {LogHash(h)}
    BY <1>3 DEF HashConfirmed
  <2> DEFINE n == [h EXCEPT !.last = s]
  <2>2. h \in HashRow /\ h.last \in Nat /\ s \in Nat
    BY RowTypes
  <2>3. n.item = h.item /\ n.ver = h.ver /\ n.first = h.first
    BY <2>2 DEF HashRow
  <2>4. [n EXCEPT !.last = h.last] = h
    BY <2>2 DEF HashRow
  <2>5. LogHash(h).table = "hash" /\ LogHash(h).item = h.item /\ LogHash(h).ver = h.ver
        /\ LogHash(h).first = h.first /\ LogHash(h).old = h.last
    BY DEF LogHash
  <2>6. HashKeyed(d.hashes) /\ UndoOK(d, s)
    BY DEF StoreInv
  <2>7. \A u \in d.undo : u.table = "hash" => ~ (u.item = h.item /\ u.ver = h.ver /\ u.first = h.first)
    <3> SUFFICES ASSUME NEW u \in d.undo, u.table = "hash",
                        u.item = h.item /\ u.ver = h.ver /\ u.first = h.first
                 PROVE  FALSE
      OBVIOUS
    <3>1. PICK k \in d.hashes : u.item = k.item /\ u.ver = k.ver /\ u.first = k.first /\ k.last = s
      BY <2>6 DEF UndoOK, HashUndone
    <3>2. k = h
      BY <2>6, <3>1 DEF HashKeyed
    <3> QED
      BY <2>1, <2>2, <3>1, <3>2
  <2>8. f(h) = h
    <3>1. UndoForHash(d.undo, h) = {}
      BY <2>7 DEF UndoForHash
    <3> QED
      BY <3>1 DEF Replay
  <2>9. g(n) = h
    <3> HIDE DEF n
    <3>1. UndoForHash(e.undo, n) = {LogHash(h)}
      BY <2>1, <2>3, <2>5, <2>7 DEF UndoForHash
    <3>2. (CHOOSE u \in UndoForHash(e.undo, n) : TRUE) = LogHash(h)
      BY <3>1
    <3>3. g(n) = [n EXCEPT !.last = h.last]
      BY <2>5, <3>1, <3>2 DEF Replay
    <3> QED
      BY <2>4, <3>3
  <2>10. ASSUME NEW k \in d.hashes, k # h
         PROVE  g(k) = f(k)
    <3>1. ~ (k.item = h.item /\ k.ver = h.ver /\ k.first = h.first)
      BY <2>6, <2>10 DEF HashKeyed
    <3>2. UndoForHash(e.undo, k) = UndoForHash(d.undo, k)
      BY <2>1, <2>5, <3>1 DEF UndoForHash
    <3> QED
      BY <3>2
  <2>11. e.hashes = (d.hashes \ {h}) \cup {n}
    BY <2>1
  <2> HIDE DEF f, g, n
  <2>12. {g(k) : k \in e.hashes} = {f(k) : k \in d.hashes}
    <3>1. ASSUME NEW k \in e.hashes PROVE \E q \in d.hashes : g(k) = f(q)
      BY <2>8, <2>9, <2>10, <2>11
    <3>2. ASSUME NEW q \in d.hashes PROVE \E k \in e.hashes : g(k) = f(q)
      BY <2>8, <2>9, <2>10, <2>11
    <3> QED
      BY <3>1, <3>2
  <2> QED
    BY <2>12 DEF RolledHashes, f, g
<1> QED
  BY <1>1, <1>2, <1>3 DEF HashStep

LEMMA AdvanceSettled ==
  ASSUME NEW d, StoreOK(d), NEW s \in 1 .. Len(d.scans), NEW st,
         NEW e, Moved(d.scans, e.scans, s, st),
         e.versions = d.versions, e.hashes = d.hashes, e.undo = d.undo
  PROVE  Settled(e, s) = Settled(d, s)
<1>1. /\ Len(e.scans) = Len(d.scans)
      /\ \A t \in 1 .. Len(d.scans) :
           e.scans[t].root = d.scans[t].root /\ (t # s => e.scans[t] = d.scans[t])
      /\ e.scans \in Seq(ScanRow) /\ d.scans \in Seq(ScanRow) /\ s \in Nat
  BY RowTypes DEF Moved
<1>2. PrevCompleted(e.scans, e.scans[s].root, s) = PrevCompleted(d.scans, d.scans[s].root, s)
  BY <1>1, PrevCompletedSame
<1>3. RolledHashes(e, s) = RolledHashes(d, s)
  BY RolledSame
<1> QED
  BY <1>2, <1>3 DEF Settled
=============================================================================
