--------------------------- MODULE StartupProofs ---------------------------
(***************************************************************************)
(* What the marks of the long upgrade steps, and the table that items are  *)
(* moved from, guarantee, for any number of scans, folders, items and      *)
(* pages and any number of kills and failures.                             *)
(***************************************************************************)
EXTENDS StartupProperties, WellFoundedInduction, TLAPS
-----------------------------------------------------------------------------
(***************************************************************************)
(* First what running statements in order leaves of one table: a table     *)
(* that one of them makes is there at the end when no later one takes it   *)
(* away, and statements that only read and write leave the shape as it is. *)
(***************************************************************************)
\* Shapes after the first n statements, as Outcomes defines them.
IsRun(left, S, enforced, stmts) ==
  left = [n \in 0..Len(stmts) |->
            IF n = 0 THEN {S}
            ELSE {Effect(T, stmts[n]) : T \in {U \in left[n - 1] : Accepts(U, enforced, stmts[n])}}]

\* Each shape comes of one before it.
Follows(left, S, stmts) ==
  /\ left[0] = {S}
  /\ \A n \in 1..Len(stmts) : \A V \in left[n] : \E T \in left[n - 1] : V = Effect(T, stmts[n])

\* What leaves table t where it is, and what makes it.
Spares(s, t) == s.op \in {"drop", "drop if exists", "rename"} => s.table # t
Ops == {"create", "index", "index if missing", "drop", "drop if exists", "drop index", "rename",
        "add", "add reference", "rename column", "drop column", "read", "write"}
Makes(s, t) == s.op = "rename" /\ s.to = t
-----------------------------------------------------------------------------
\* The least number of a set there is: what replaces an induction.
LEMMA Least ==
  ASSUME NEW S \in SUBSET Nat, S # {}
  PROVE  \E k \in S : \A j \in S : k <= j
<1>1. \A n, k \in Nat : n < k => <<n, k>> \in OpToRel(<, Nat)
  BY Zenon DEF OpToRel
<1>2. PICK R : IsWellFoundedOn(R, Nat) /\ \A n, k \in Nat : n < k => <<n, k>> \in R
  BY <1>1, NatLessThanWellFounded, Zenon
<1>3. PICK k \in S : \A n \in S : ~ (<<n, k>> \in R)
  <2>1. IsWellFoundedOn(R, Nat)
    BY <1>2
  <2> QED
    BY <2>1, WFMin, Zenon
<1>4. ASSUME NEW n \in S PROVE k <= n
  <2>1. n \in Nat /\ k \in Nat /\ ~ (n < k)
    BY <1>2, <1>3
  <2> QED
    BY <2>1
<1> QED
  BY <1>3, <1>4

\* The statements run one after the other: the definition of Outcomes conforms
\* to its equation, whatever the number of statements.
LEMMA RunExists ==
  ASSUME NEW S, NEW enforced, NEW stmts, Len(stmts) \in Nat
  PROVE  \E left : IsRun(left, S, enforced, stmts)
<1> DEFINE Step(L, n) == {Effect(T, stmts[n]) : T \in {U \in L : Accepts(U, enforced, stmts[n])}}
           Upto(g, n) == g = [k \in 0..n |-> IF k = 0 THEN {S} ELSE Step(g[k - 1], k)]
           Missing == {n \in 0..Len(stmts) : ~ \E g : Upto(g, n)}
<1>1. Missing = {}
  <2> SUFFICES ASSUME Missing # {} PROVE FALSE
    OBVIOUS
  <2>1. Missing \in SUBSET Nat
    OBVIOUS
  <2>2. PICK m \in Missing : \A j \in Missing : m <= j
    <3> HIDE DEF Missing
    <3> QED
      BY <2>1, Least
  <2>3. CASE m = 0
    <3> DEFINE g == [k \in 0..0 |-> {S}]
    <3>1. g = [k \in 0..0 |-> IF k = 0 THEN {S} ELSE Step(g[k - 1], k)]
      <4> HIDE DEF Step
      <4> QED
        OBVIOUS
    <3>2. Upto(g, 0)
      BY <3>1
    <3> HIDE DEF Upto
    <3> QED
      BY <2>2, <2>3, <3>2
  <2>4. CASE m # 0
    <3>1. m \in Nat /\ m - 1 \in 0..Len(stmts) /\ m - 1 \notin Missing
      <4>1. m \in 0..Len(stmts)
        BY <2>2
      <4> HIDE DEF Missing
      <4>2. ~ (m <= m - 1) /\ m - 1 \in 0..Len(stmts)
        BY <2>4, <4>1
      <4> QED
        BY <2>2, <4>1, <4>2
    <3>2. PICK g : Upto(g, m - 1)
      <4> HIDE DEF Upto
      <4> QED
        BY <3>1
    <3> DEFINE h == [k \in 0..m |-> IF k = m THEN Step(g[m - 1], m) ELSE g[k]]
    <3>3. h = [k \in 0..m |-> IF k = 0 THEN {S} ELSE Step(h[k - 1], k)]
      <4> HIDE DEF Step
      <4>1. \A k \in 0..(m - 1) : g[k] = IF k = 0 THEN {S} ELSE Step(g[k - 1], k)
        BY <3>2
      <4>2. ASSUME NEW k \in 0..m PROVE h[k] = IF k = 0 THEN {S} ELSE Step(h[k - 1], k)
        <5>1. CASE k = m
          BY <5>1, <2>4, <3>1
        <5>2. CASE k # m
          <6>1. k \in 0..(m - 1) /\ h[k] = g[k]
            BY <5>2, <3>1
          <6>2. k # 0 => h[k - 1] = g[k - 1]
            BY <6>1, <3>1
          <6> QED
            BY <6>1, <6>2, <4>1
        <5> QED
          BY <5>1, <5>2
      <4>3. \A k \in 0..m : h[k] = IF k = 0 THEN {S} ELSE Step(h[k - 1], k)
        BY <4>2
      <4> QED
        BY <4>3
    <3>4. Upto(h, m)
      BY <3>3
    <3> HIDE DEF Upto
    <3> QED
      BY <2>2, <3>4
  <2> QED
    BY <2>3, <2>4
<1>2. Len(stmts) \in 0..Len(stmts)
  OBVIOUS
<1>3. PICK g : Upto(g, Len(stmts))
  <2> HIDE DEF Upto
  <2> QED
    BY <1>1, <1>2
<1> QED
  BY <1>3 DEF IsRun

LEMMA RunSteps ==
  ASSUME NEW S, NEW enforced, NEW stmts, Len(stmts) \in Nat,
         NEW left, IsRun(left, S, enforced, stmts)
  PROVE  Follows(left, S, stmts)
<1>1. \A n \in 0..Len(stmts) :
        left[n] = IF n = 0 THEN {S}
                  ELSE {Effect(T, stmts[n]) : T \in {U \in left[n - 1] : Accepts(U, enforced, stmts[n])}}
  BY DEF IsRun
<1>2. left[0] = {S}
  <2>1. 0 \in 0..Len(stmts)
    OBVIOUS
  <2> QED
    BY <1>1, <2>1, Zenon
<1>3. ASSUME NEW n \in 1..Len(stmts), NEW V \in left[n]
      PROVE  \E T \in left[n - 1] : V = Effect(T, stmts[n])
  <2>1. n \in 0..Len(stmts) /\ n # 0
    OBVIOUS
  <2>2. left[n] = {Effect(T, stmts[n]) : T \in {U \in left[n - 1] : Accepts(U, enforced, stmts[n])}}
    BY <1>1, <2>1, Zenon
  <2> QED
    BY <2>2
<1> QED
  BY <1>2, <1>3 DEF Follows

\* So Outcomes is the end of a run, each shape of which comes of one before.
LEMMA OutcomesOfRun ==
  ASSUME NEW S, NEW enforced, NEW stmts, Len(stmts) \in Nat
  PROVE  \E left : Outcomes(S, enforced, stmts) = left[Len(stmts)] /\ Follows(left, S, stmts)
<1> DEFINE left == CHOOSE g : IsRun(g, S, enforced, stmts)
<1>1. IsRun(left, S, enforced, stmts)
  BY RunExists, Zenon
<1>2. Outcomes(S, enforced, stmts) = left[Len(stmts)]
  BY Zenon DEF Outcomes, IsRun
<1> HIDE DEF left
<1>3. Follows(left, S, stmts)
  BY <1>1, RunSteps, Zenon
<1> QED
  BY <1>2, <1>3, Zenon
-----------------------------------------------------------------------------
HasTable(T, t) == "tables" \in DOMAIN T /\ t \in Tables(T)

LEMMA ShapeTables ==
  ASSUME NEW a, NEW b, NEW c, NEW V, V = [tables |-> a, indexes |-> b, fks |-> c]
  PROVE  "tables" \in DOMAIN V /\ Tables(V) = DOMAIN a
BY DEF Tables

LEMMA DomainOfWith ==
  ASSUME NEW f, NEW x, NEW e
  PROVE  DOMAIN With(f, x, e) = DOMAIN f \cup {x}
BY DEF With

LEMMA DomainOfRestrict ==
  ASSUME NEW f, NEW D
  PROVE  DOMAIN Restrict(f, D) = D
BY DEF Restrict

LEMMA RenamedTables ==
  ASSUME NEW T, NEW t, NEW u
  PROVE  "tables" \in DOMAIN Renamed(T, t, u) /\ Tables(Renamed(T, t, u)) = (Tables(T) \ {t}) \cup {u}
<1> DEFINE a == With(Restrict(T.tables, Tables(T) \ {t}), u, T.tables[t])
<1>1. PICK b, c : Renamed(T, t, u) = [tables |-> a, indexes |-> b, fks |-> c]
  BY Zenon DEF Renamed
<1>2. DOMAIN a = (Tables(T) \ {t}) \cup {u}
  <2>1. DOMAIN Restrict(T.tables, Tables(T) \ {t}) = Tables(T) \ {t}
    BY DomainOfRestrict, Zenon
  <2> QED
    BY <2>1, DomainOfWith
<1> HIDE DEF a
<1> QED
  BY <1>1, <1>2, ShapeTables, Zenon

\* A rename makes its table,
LEMMA MakesTable ==
  ASSUME NEW T, NEW s, NEW t, Makes(s, t)
  PROVE  HasTable(Effect(T, s), t)
<1>1. Effect(T, s) = Renamed(T, s.table, t)
  BY DEF Effect, Makes
<1> QED
  BY <1>1, RenamedTables DEF HasTable

\* and a statement that does not take it away keeps it.
LEMMA SparesTable ==
  ASSUME NEW T, NEW s, NEW t, HasTable(T, t), Spares(s, t), s.op \in Ops
  PROVE  HasTable(Effect(T, s), t)
<1>1. CASE s.op = "create"
  <2> DEFINE a == With(T.tables, s.table, s.cols)
  <2>1. PICK k : Effect(T, s) = [T EXCEPT !.tables = a, !.fks = k]
    BY <1>1 DEF Effect
  <2>2. DOMAIN a = Tables(T) \cup {s.table}
    BY DomainOfWith, Zenon DEF Tables
  <2> HIDE DEF a
  <2> QED
    BY <2>1, <2>2 DEF HasTable, Tables
<1>2. CASE s.op \in {"index", "index if missing", "drop index"}
  <2>1. PICK i : Effect(T, s) = [T EXCEPT !.indexes = i]
    BY <1>2 DEF Effect
  <2> QED
    BY <2>1 DEF HasTable, Tables
<1>3. CASE s.op \in {"drop", "drop if exists"}
  <2>1. Effect(T, s) = WithoutTable(T, s.table) /\ s.table # t
    BY <1>3 DEF Effect, Spares
  <2> DEFINE a == Restrict(T.tables, Tables(T) \ {s.table})
  <2>2. PICK b, c : WithoutTable(T, s.table) = [tables |-> a, indexes |-> b, fks |-> c]
    BY Zenon DEF WithoutTable
  <2>3. DOMAIN a = Tables(T) \ {s.table}
    BY DomainOfRestrict, Zenon
  <2> HIDE DEF a
  <2>4. "tables" \in DOMAIN WithoutTable(T, s.table) /\ Tables(WithoutTable(T, s.table)) = Tables(T) \ {s.table}
    BY <2>2, <2>3, ShapeTables, Zenon
  <2> QED
    BY <2>1, <2>4 DEF HasTable
<1>4. CASE s.op = "rename"
  <2>1. Effect(T, s) = Renamed(T, s.table, s.to) /\ s.table # t
    BY <1>4 DEF Effect, Spares
  <2> QED
    BY <2>1, RenamedTables DEF HasTable
<1>5. CASE s.op \in {"add", "rename column", "drop column"}
  <2>1. PICK c : Effect(T, s) = [T EXCEPT !.tables[s.table] = c]
    BY <1>5 DEF Effect
  <2> QED
    BY <2>1 DEF HasTable, Tables
<1>6. CASE s.op = "add reference"
  <2>1. PICK c, k : Effect(T, s) = [T EXCEPT !.tables[s.table] = c, !.fks = k]
    BY <1>6 DEF Effect
  <2> QED
    BY <2>1 DEF HasTable, Tables
<1>7. CASE s.op \in {"read", "write"}
  <2>1. Effect(T, s) = T
    BY <1>7 DEF Effect
  <2> QED
    BY <2>1
<1> QED
  BY <1>1, <1>2, <1>3, <1>4, <1>5, <1>6, <1>7 DEF Ops
-----------------------------------------------------------------------------
\* Once made, a table outlasts every later statement that spares it.
LEMMA TableLasts ==
  ASSUME NEW S, NEW enforced, NEW stmts, Len(stmts) \in Nat,
         NEW t, NEW k \in 1..Len(stmts), Makes(stmts[k], t),
         \A j \in (k + 1)..Len(stmts) : stmts[j].op \in Ops /\ Spares(stmts[j], t)
  PROVE  \A V \in Outcomes(S, enforced, stmts) : HasTable(V, t)
<1>1. PICK left : Outcomes(S, enforced, stmts) = left[Len(stmts)] /\ Follows(left, S, stmts)
  BY OutcomesOfRun, Zenon
<1> DEFINE Bad == {n \in k..Len(stmts) : \E V \in left[n] : ~HasTable(V, t)}
<1>2. Bad = {}
  <2> SUFFICES ASSUME Bad # {} PROVE FALSE
    OBVIOUS
  <2>1. Bad \in SUBSET Nat
    OBVIOUS
  <2>2. PICK m \in Bad : \A j \in Bad : m <= j
    <3> HIDE DEF Bad
    <3> QED
      BY <2>1, Least
  <2>3. m \in k..Len(stmts) /\ m \in 1..Len(stmts)
    BY <2>2
  <2>4. PICK V \in left[m] : ~HasTable(V, t)
    BY <2>2
  <2>5. PICK T \in left[m - 1] : V = Effect(T, stmts[m])
    BY <1>1, <2>3, <2>4, Zenon DEF Follows
  <2>6. CASE m = k
    BY <2>4, <2>5, <2>6, MakesTable
  <2>7. CASE m # k
    <3>1. m - 1 \in k..Len(stmts) /\ ~ (m <= m - 1) /\ m \in (k + 1)..Len(stmts)
      BY <2>3, <2>7
    <3>2. m - 1 \notin Bad
      <4> HIDE DEF Bad
      <4> QED
        BY <2>2, <3>1
    <3>3. HasTable(T, t)
      BY <2>5, <3>1, <3>2
    <3> QED
      BY <2>4, <2>5, <3>1, <3>3, SparesTable
  <2> QED
    BY <2>6, <2>7
<1>3. Len(stmts) \in k..Len(stmts)
  OBVIOUS
<1> QED
  BY <1>1, <1>2, <1>3

\* Copying rows changes no table.
LEMMA CopyingStays ==
  ASSUME NEW S, NEW enforced, NEW stmts, Len(stmts) \in Nat,
         \A j \in 1..Len(stmts) : stmts[j].op \in {"read", "write"}
  PROVE  \A V \in Outcomes(S, enforced, stmts) : V = S
<1>1. PICK left : Outcomes(S, enforced, stmts) = left[Len(stmts)] /\ Follows(left, S, stmts)
  BY OutcomesOfRun, Zenon
<1> DEFINE Bad == {n \in 0..Len(stmts) : \E V \in left[n] : V # S}
<1>2. Bad = {}
  <2> SUFFICES ASSUME Bad # {} PROVE FALSE
    OBVIOUS
  <2>1. Bad \in SUBSET Nat
    OBVIOUS
  <2>2. PICK m \in Bad : \A j \in Bad : m <= j
    <3> HIDE DEF Bad
    <3> QED
      BY <2>1, Least
  <2>3. m \in 0..Len(stmts)
    BY <2>2
  <2>4. PICK V \in left[m] : V # S
    BY <2>2
  <2>5. m # 0
    BY <1>1, <2>4 DEF Follows
  <2>6. m \in 1..Len(stmts) /\ m - 1 \in 0..Len(stmts) /\ ~ (m <= m - 1)
    BY <2>3, <2>5
  <2>7. PICK T \in left[m - 1] : V = Effect(T, stmts[m])
    BY <1>1, <2>6, <2>4, Zenon DEF Follows
  <2>8. Effect(T, stmts[m]) = T
    <3>1. stmts[m].op \in {"read", "write"}
      BY <2>6
    <3> QED
      BY <3>1 DEF Effect
  <2>9. m - 1 \notin Bad
    <3> HIDE DEF Bad
    <3> QED
      BY <2>2, <2>6
  <2> QED
    BY <2>4, <2>6, <2>7, <2>8, <2>9
<1>3. Len(stmts) \in 0..Len(stmts)
  OBVIOUS
<1> QED
  BY <1>1, <1>2, <1>3
-----------------------------------------------------------------------------
(* The step from 27 *)

\* Statements are put together, whatever they are.
IsSeq(s) == \E A : s \in Seq(A)

\* What sets the versions aside, and what follows it.
SetAside == RenameTable("item_versions", "item_versions_old")
AfterAside ==
  << DropIndexIfExists("idx_versions_item_scan"), DropIndexIfExists("idx_versions_first_scan"),
     CreateIndex("idx_versions_old_item_scan", "item_versions_old", {"item_id", "first_scan_id"}),
     CreateIndex("idx_versions_old_first_scan", "item_versions_old", {"first_scan_id"}),
     CreateTable("item_versions", VersionsV28 \cup {"version_id"}, {"items", "roots", "scans"}),
     CreateIndex("idx_versions_item_scan", "item_versions", {"item_id", "first_scan_id"}),
     CreateIndex("idx_versions_first_scan", "item_versions", {"first_scan_id"}),
     CreateIndex("idx_versions_root_lastscan", "item_versions", {"root_id", "last_scan_id"}),
     CreateTable("hash_versions", HashesV28 \cup {"item_version_id"},
                 {"items", "item_versions", "scans"}),
     CreateIndex("idx_hash_versions_item_version", "hash_versions", {"item_version_id"}),
     DropTable("scan_undo_log"), CreateTable("scan_undo_log", UndoV28, {}),
     RenameColumn("scan_schedules", "validate_mode", "is_val") >>

LEMMA SplitIs == P1SplitVersions = <<SetAside>> \o AfterAside
BY DEF P1SplitVersions, VersionIndexes, SetAside, AfterAside

LEMMA Kinds ==
  /\ \A t, c, p : CreateTable(t, c, p).op = "create"
  /\ \A i, t, c : CreateIndex(i, t, c).op = "index"
  /\ \A t : DropTable(t).op = "drop" /\ DropTable(t).table = t
  /\ \A i : DropIndexIfExists(i).op = "drop index"
  /\ \A t, c, n : RenameColumn(t, c, n).op = "rename column"
  /\ \A t, c : Read(t, c).op = "read" /\ Write(t, c).op = "write"
BY DEF CreateTable, CreateIndex, DropTable, DropIndexIfExists, RenameColumn, Read, Write

LEMMA Thirteen ==
  ASSUME NEW x1, NEW x2, NEW x3, NEW x4, NEW x5, NEW x6, NEW x7,
         NEW x8, NEW x9, NEW x10, NEW x11, NEW x12, NEW x13,
         NEW s, s = <<x1, x2, x3, x4, x5, x6, x7, x8, x9, x10, x11, x12, x13>>
  PROVE  /\ Len(s) = 13 /\ s \in Seq({x1, x2, x3, x4, x5, x6, x7, x8, x9, x10, x11, x12, x13})
         /\ \A j \in 1..13 : s[j] \in {x1, x2, x3, x4, x5, x6, x7, x8, x9, x10, x11, x12, x13}
<1>1. Len(s) = 13 /\ \A j \in 1..13 : s[j] \in {x1, x2, x3, x4, x5, x6, x7, x8, x9, x10, x11, x12, x13}
  BY SMTT(60)
<1>2. s \in Seq({x1, x2, x3, x4, x5, x6, x7, x8, x9, x10, x11, x12, x13})
  BY SMTT(60)
<1> QED
  BY <1>1, <1>2

LEMMA AfterAsideSpares ==
  /\ Len(AfterAside) = 13 /\ IsSeq(AfterAside)
  /\ \A j \in 1..13 : AfterAside[j].op \in Ops /\ Spares(AfterAside[j], "item_versions_old")
<1> DEFINE Gentle(s) == \/ s.op \in {"create", "index", "drop index", "rename column"}
                        \/ s.op = "drop" /\ s.table = "scan_undo_log"
<1>1. /\ \A t, c, p : Gentle(CreateTable(t, c, p))
      /\ \A t, c, p : Gentle(CreateIndex(t, c, p))
      /\ \A t, c, p : Gentle(RenameColumn(t, c, p))
      /\ \A t : Gentle(DropIndexIfExists(t))
  BY DEF CreateTable, CreateIndex, RenameColumn, DropIndexIfExists
<1>2. Gentle(DropTable("scan_undo_log"))
  BY Kinds
<1> HIDE DEF Gentle
<1>3. Len(AfterAside) = 13 /\ IsSeq(AfterAside) /\ \A j \in 1..13 : Gentle(AfterAside[j])
  <2>1. ASSUME NEW x1, NEW x2, NEW x3, NEW x4, NEW x5, NEW x6, NEW x7, NEW x8, NEW x9, NEW x10, NEW x11, NEW x12, NEW x13,
               Gentle(x1), Gentle(x2), Gentle(x3), Gentle(x4), Gentle(x5), Gentle(x6), Gentle(x7),
               Gentle(x8), Gentle(x9), Gentle(x10), Gentle(x11), Gentle(x12), Gentle(x13),
               NEW s, s = <<x1, x2, x3, x4, x5, x6, x7, x8, x9, x10, x11, x12, x13>>
        PROVE  Len(s) = 13 /\ IsSeq(s) /\ \A j \in 1..13 : Gentle(s[j])
    <3> DEFINE all == {x1, x2, x3, x4, x5, x6, x7, x8, x9, x10, x11, x12, x13}
    <3>1. Len(s) = 13 /\ s \in Seq(all) /\ \A j \in 1..13 : s[j] \in all
      BY <2>1, Thirteen, Zenon
    <3>2. \A x \in all : Gentle(x)
      BY <2>1
    <3> HIDE DEF all
    <3> QED
      BY <3>1, <3>2 DEF IsSeq
  <2> QED
    BY <1>1, <1>2, <2>1, Zenon DEF AfterAside
<1>4. \A s : Gentle(s) => s.op \in Ops /\ Spares(s, "item_versions_old")
  BY DEF Gentle, Ops, Spares
<1> QED
  BY <1>3, <1>4

LEMMA One ==
  ASSUME NEW x1
  PROVE  IsSeq(<<x1>>)
<1>1. <<x1>> \in Seq({x1})
  OBVIOUS
<1> QED
  BY <1>1 DEF IsSeq

LEMMA Two ==
  ASSUME NEW x1, NEW x2
  PROVE  IsSeq(<<x1, x2>>)
<1>1. <<x1, x2>> \in Seq({x1, x2})
  OBVIOUS
<1> QED
  BY <1>1 DEF IsSeq

LEMMA Five ==
  ASSUME NEW x1, NEW x2, NEW x3, NEW x4, NEW x5
  PROVE  IsSeq(<<x1, x2, x3, x4, x5>>)
<1>1. <<x1, x2, x3, x4, x5>> \in Seq({x1, x2, x3, x4, x5})
  OBVIOUS
<1> QED
  BY <1>1 DEF IsSeq

JoinOf(q, s, r) ==
  /\ IsSeq(q) /\ Len(s) \in Nat /\ Len(r) \in Nat
  /\ Len(q) = Len(s) + Len(r)
  /\ \A j \in 1..Len(s) : q[j] = s[j]
  /\ \A j \in 1..Len(r) : q[Len(s) + j] = r[j]

LEMMA Joined ==
  ASSUME NEW s, NEW r, IsSeq(s), IsSeq(r)
  PROVE  JoinOf(s \o r, s, r)
<1>1. PICK A : s \in Seq(A)
  BY DEF IsSeq
<1>2. PICK B : r \in Seq(B)
  BY DEF IsSeq
<1>3. s \in Seq(A \cup B) /\ r \in Seq(A \cup B)
  BY <1>1, <1>2
<1>4. s \o r \in Seq(A \cup B)
  BY <1>3
<1>5. Len(s) \in Nat /\ Len(r) \in Nat /\ Len(s \o r) = Len(s) + Len(r)
  BY <1>3
<1>6. \A j \in 1..Len(r) : (s \o r)[Len(s) + j] = r[j]
  BY <1>3, <1>5
<1>7. \A j \in 1..Len(s) : (s \o r)[j] = s[j]
  BY <1>3, <1>5
<1> QED
  BY <1>4, <1>5, <1>6, <1>7 DEF IsSeq, JoinOf

LEMMA Indices ==
  ASSUME NEW n \in Nat, NEW m, m = n + 14
  PROVE  /\ n + 1 \in 1..m /\ m \in Nat /\ (n + 1) + 1 = n + 2
         /\ \A j \in (n + 2)..m : /\ j - n - 1 \in 1..13 /\ 1 + (j - n - 1) \in 1..14
                                 /\ j = n + (1 + (j - n - 1))
OBVIOUS

\* Wherever a split may begin, the versions set aside are there when it is over: none of
\* the statements that follow takes their table away again (phase 1 of v27_to_v28.rs).
THEOREM SplitSetsAside ==
  ASSUME NEW S, NEW enforced
  PROVE  \A V \in Outcomes(S, enforced, V27Phase1) : HasTable(V, "item_versions_old")
<1> DEFINE before == RollBackOpenScans \o P1RebuildItems \o P1RebuildScans
           after == <<SetAside>> \o AfterAside
<1>1. IsSeq(before)
  <2>1. IsSeq(RollBackOpenScans)
    BY Five, Zenon DEF RollBackOpenScans
  <2>2. IsSeq(P1RebuildItems)
    BY Two, Five, Joined, Zenon DEF P1RebuildItems, RebuildInPlace, JoinOf
  <2>3. IsSeq(P1RebuildScans)
    BY One, Five, Joined, Zenon DEF P1RebuildScans, RebuildInPlace, JoinOf
  <2> QED
    BY <2>1, <2>2, <2>3, Joined, Zenon DEF JoinOf
<1>2. IsSeq(<<SetAside>>) /\ IsSeq(AfterAside)
  BY One, AfterAsideSpares
<1>3. IsSeq(after) /\ Len(after) = 14 /\ after[1] = SetAside /\ \A j \in 1..13 : after[1 + j] = AfterAside[j]
  <2>1. PICK one : one = <<SetAside>>
    OBVIOUS
  <2>2. Len(one) = 1 /\ one[1] = SetAside /\ IsSeq(one)
    BY <1>2, <2>1
  <2>3. /\ IsSeq(one \o AfterAside) /\ Len(one \o AfterAside) = Len(one) + Len(AfterAside)
        /\ \A j \in 1..Len(one) : (one \o AfterAside)[j] = one[j]
        /\ \A j \in 1..Len(AfterAside) : (one \o AfterAside)[Len(one) + j] = AfterAside[j]
    <3>1. JoinOf(one \o AfterAside, one, AfterAside)
      BY <1>2, <2>2, Joined, Zenon
    <3> QED
      BY <3>1 DEF JoinOf
  <2>4. 1 + 13 = 14 /\ 1 \in 1..1
    OBVIOUS
  <2> QED
    BY <2>1, <2>2, <2>3, <2>4, AfterAsideSpares, Zenon
<1> HIDE DEF before, after
<1>4. V27Phase1 = before \o after
  BY SplitIs, Zenon DEF V27Phase1, before, after
<1>5. PICK n : n = Len(before)
  OBVIOUS
<1>6. /\ n \in Nat /\ Len(V27Phase1) = n + 14
      /\ \A j \in 1..14 : V27Phase1[n + j] = after[j]
  <2>1. JoinOf(before \o after, before, after)
    BY <1>1, <1>3, Joined, Zenon
  <2>2. JoinOf(V27Phase1, before, after)
    BY <1>4, <2>1, Zenon
  <2> QED
    BY <1>3, <1>5, <2>2 DEF JoinOf
<1>7. n + 1 \in 1..Len(V27Phase1) /\ Makes(V27Phase1[n + 1], "item_versions_old")
  <2>1. n + 1 \in 1..Len(V27Phase1)
    BY <1>6, Indices, Zenon
  <2>2. 1 \in 1..14
    OBVIOUS
  <2>3. V27Phase1[n + 1] = SetAside
    BY <1>3, <1>6, <2>2, Zenon
  <2> QED
    BY <2>1, <2>3 DEF SetAside, RenameTable, Makes
<1>8. ASSUME NEW j \in (n + 2)..Len(V27Phase1)
      PROVE  V27Phase1[j].op \in Ops /\ Spares(V27Phase1[j], "item_versions_old")
  <2>1. PICK i : i = j - n - 1
    OBVIOUS
  <2>2. i \in 1..13 /\ 1 + i \in 1..14 /\ j = n + (1 + i)
    BY <1>6, <2>1, Indices, Zenon
  <2>3. V27Phase1[j] = AfterAside[i]
    BY <1>3, <1>6, <2>2, Zenon
  <2> QED
    BY <2>2, <2>3, AfterAsideSpares, Zenon
<1>9. Len(V27Phase1) \in Nat /\ (n + 1) + 1 = n + 2
  BY <1>6, Indices, Zenon
<1> QED
  BY <1>7, <1>8, <1>9, TableLasts

\* Moving a batch, or nothing to run, leaves the tables as they are.
Copying(s) == Len(s) = 5 /\ \A j \in 1..5 : s[j].op \in {"read", "write"}

LEMMA MovingStays ==
  ASSUME NEW S, NEW enforced
  PROVE  /\ \A V \in Outcomes(S, enforced, V27Phase2) : V = S
         /\ \A V \in Outcomes(S, enforced, << >>) : V = S
<1>1. ASSUME NEW x1, NEW x2, NEW x3, NEW x4, NEW x5,
             x1.op = "read", x2.op = "read", x3.op = "write", x4.op = "write", x5.op = "write"
      PROVE  Copying(<<x1, x2, x3, x4, x5>>)
  <2>1. PICK s : s = <<x1, x2, x3, x4, x5>>
    OBVIOUS
  <2>2. Len(s) = 5 /\ \A j \in 1..5 : s[j] \in {x1, x2, x3, x4, x5}
    BY <2>1
  <2>3. Copying(s)
    BY <1>1, <2>2 DEF Copying
  <2> QED
    BY <2>1, <2>3
<1>2. Copying(V27Phase2)
  BY <1>1, Kinds, Zenon DEF V27Phase2
<1>3. \A V \in Outcomes(S, enforced, V27Phase2) : V = S
  <2>1. Len(V27Phase2) \in Nat /\ \A j \in 1..Len(V27Phase2) : V27Phase2[j].op \in {"read", "write"}
    BY <1>2 DEF Copying
  <2> QED
    BY <2>1, CopyingStays
<1>4. \A V \in Outcomes(S, enforced, << >>) : V = S
  <2>1. PICK s : s = << >>
    OBVIOUS
  <2>2. Len(s) \in Nat /\ \A j \in 1..Len(s) : s[j].op \in {"read", "write"}
    BY <2>1
  <2>3. \A V \in Outcomes(S, enforced, s) : V = S
    BY <2>2, CopyingStays
  <2> QED
    BY <2>1, <2>3
<1> QED
  BY <1>3, <1>4
-----------------------------------------------------------------------------
\* The rows of the upgrades.
RowsOk ==
  rows \in [counted : [Recounting -> SUBSET Scans], deduped : SUBSET Folders,
            recomputed : BOOLEAN, moved : SUBSET Items, merged : BOOLEAN,
            scan : ScanStates, task : TaskStates]

(***************************************************************************)
(* A mark is in meta only during its own step, so that the next step that  *)
(* needs one finds none and begins at 0; and all that is at or below it is *)
(* done.                                                                   *)
(***************************************************************************)
MarksOk ==
  /\ \A v \in Standalone : HwmKey[v] \in DOMAIN meta => v = version /\ meta[HwmKey[v]] \in Nat
  /\ DDL_DONE \in DOMAIN meta => version = 23
  /\ "high_water_mark" \in DOMAIN meta => version \in 2..27
  /\ DOMAIN meta \subseteq {HwmKey[v] : v \in Standalone} \cup {DDL_DONE, "high_water_mark"}

BelowMark ==
  /\ version \in Recounting => \A s \in Scans : s <= Hwm => s \in rows.counted[version]
  /\ version = 24 => \A f \in Folders : f <= Hwm => f \in rows.deduped

\* Where in a step the program can be, and what it has seen by then.
StageOk ==
  /\ stage = "opening" => version \in {23, 27}
  /\ stage = "working" => version \in Standalone
  /\ stage = "marking" =>
       /\ version \in {18, 22, 23}
       /\ ScansLeft # {} /\ Min(ScansLeft) \in rows.counted[version]
  /\ stage \in {"moving", "dropping"} => version = 27
  /\ stage = "dropping" => ScansLeft = {}
  /\ stage = "closing" =>
       \/ version = 24 /\ FoldersLeft = {} /\ rows.recomputed
       \/ version = 27 /\ ScansLeft = {}

\* A new database owes no rows anything.
PastOk ==
  /\ \A v \in Recounting : version = 0 \/ version > v => rows.counted[v] = Scans
  /\ version = 0 \/ version > 24 => rows.deduped = Folders /\ rows.recomputed

MarkInv ==
  /\ version \in {0} \cup 2..31
  /\ stage \in {"step", "opening", "working", "marking", "moving", "dropping", "closing"}
  /\ RowsOk /\ MarksOk /\ BelowMark /\ StageOk /\ PastOk
-----------------------------------------------------------------------------
LEMMA Keys ==
  /\ Standalone = {18, 22, 23, 24, 27} /\ Recounting = {18, 22, 23, 27}
  /\ HwmKey[18] = "v19_backfill_hwm" /\ HwmKey[22] = "v23_backfill_hwm"
  /\ HwmKey[23] = "v24_backfill_hwm" /\ HwmKey[24] = "v25_dedup_hwm"
  /\ HwmKey[27] = "v28_count_hwm" /\ DDL_DONE = "v24_ddl_done"
  /\ CURRENT_SCHEMA_VERSION = 31
BY DEF Standalone, Recounting, HwmKey, DDL_DONE, CURRENT_SCHEMA_VERSION

\* The keys of meta are pairwise different.
LEMMA KeysDiffer ==
  /\ \A v, w \in Standalone : HwmKey[v] = HwmKey[w] => v = w
  /\ \A v \in Standalone : HwmKey[v] # DDL_DONE /\ HwmKey[v] # "high_water_mark"
  /\ DDL_DONE # "high_water_mark"
BY Keys

LEMMA MinIsLeast ==
  ASSUME NEW S \in SUBSET Nat, S # {}
  PROVE  Min(S) \in S /\ \A j \in S : Min(S) <= j
<1>1. PICK k \in S : \A j \in S : k <= j
  BY Least
<1> QED
  BY <1>1 DEF Min

LEMMA InitMark == Init => MarkInv
<1> SUFFICES ASSUME Init PROVE MarkInv
  OBVIOUS
<1>1. /\ version \in {0} \cup 2..31 /\ stage = "step"
      /\ meta \in {<< >>, [k \in {"high_water_mark"} |-> 7]}
      /\ version \notin 2..27 => meta = << >>
  BY Keys, UpgradeAssumption DEF Init, InitDatabase
<1>2. PICK open \in BOOLEAN :
        rows = [counted |-> [v \in Recounting |-> DoneBefore(v, Scans)],
                deduped |-> DoneBefore(24, Folders),
                recomputed |-> version \notin 2..24,
                moved |-> DoneBefore(27, Items),
                merged |-> version \notin 2..27,
                scan |-> IF open /\ version # 0 THEN "open" ELSE "none",
                task |-> IF open /\ version >= 9 THEN "running" ELSE "none"]
  BY DEF Init, InitDatabase
<1>3. RowsOk
  BY <1>2 DEF RowsOk, DoneBefore, ScanStates, TaskStates
<1>4. DOMAIN meta \subseteq {"high_water_mark"} /\ (version \notin 2..27 => DOMAIN meta = {})
  BY <1>1
<1>5. MarksOk
  BY <1>4, KeysDiffer DEF MarksOk
<1>6. BelowMark
  <2>1. version \in Standalone => Hwm = 0
    BY <1>4, KeysDiffer DEF Hwm
  <2> QED
    BY <2>1, Keys, UpgradeAssumption DEF BelowMark
<1>7. PastOk
  <2>1. ASSUME NEW v \in Recounting, version = 0 \/ version > v
        PROVE  rows.counted[v] = Scans
    <3>1. rows.counted[v] = DoneBefore(v, Scans)
      BY <1>2
    <3>2. ~ (version # 0 /\ version <= v)
      BY <1>1, <2>1, Keys
    <3> QED
      BY <3>1, <3>2 DEF DoneBefore
  <2>2. ASSUME version = 0 \/ version > 24
        PROVE  rows.deduped = Folders /\ rows.recomputed
    <3>1. rows.deduped = DoneBefore(24, Folders) /\ (rows.recomputed <=> version \notin 2..24)
      BY <1>2
    <3>2. ~ (version # 0 /\ version <= 24) /\ version \notin 2..24
      BY <1>1, <2>2
    <3> QED
      BY <3>1, <3>2 DEF DoneBefore
  <2> QED
    BY <2>1, <2>2 DEF PastOk
<1> QED
  BY <1>1, <1>3, <1>5, <1>6, <1>7 DEF MarkInv, StageOk
-----------------------------------------------------------------------------
(* The marks *)

LEMMA MarkIsNat ==
  ASSUME MarkInv, version \in Standalone
  PROVE  /\ Hwm \in Nat /\ Scans \subseteq Nat /\ Folders \subseteq Nat
         /\ ScansLeft \in SUBSET Nat /\ FoldersLeft \in SUBSET Nat
<1>1. Hwm \in Nat
  BY DEF MarkInv, MarksOk, Hwm
<1>2. Scans \subseteq Nat /\ Folders \subseteq Nat
  BY UpgradeAssumption
<1> QED
  BY <1>1, <1>2 DEF ScansLeft, FoldersLeft

\* A statement that leaves meta and the version alone leaves the mark.
LEMMA MarkStays ==
  ASSUME MarkInv, meta' = meta, version' = version
  PROVE  MarksOk' /\ Hwm' = Hwm /\ ScansLeft' = ScansLeft /\ FoldersLeft' = FoldersLeft
<1>1. MarksOk'
  BY DEF MarkInv, MarksOk
<1>2. Hwm' = Hwm
  BY DEF Hwm
<1> QED
  BY <1>1, <1>2 DEF ScansLeft, FoldersLeft

LEMMA MarkMoves ==
  ASSUME MarkInv, version \in Standalone, NEW n \in Nat, meta' = SetHwm(n), version' = version
  PROVE  /\ MarksOk' /\ Hwm' = n
         /\ ScansLeft' = {s \in Scans : s > n} /\ FoldersLeft' = {f \in Folders : f > n}
<1>1. /\ DOMAIN meta' = DOMAIN meta \cup {HwmKey[version]}
      /\ meta'[HwmKey[version]] = n
      /\ \A k \in DOMAIN meta : k # HwmKey[version] => meta'[k] = meta[k]
  BY DEF SetHwm, Put
<1>2. MarksOk'
  BY <1>1, KeysDiffer DEF MarkInv, MarksOk
<1>3. Hwm' = n
  BY <1>1 DEF Hwm
<1> QED
  BY <1>2, <1>3 DEF ScansLeft, FoldersLeft

\* The version goes up and the marks of the step, if it has any, are gone.
LEMMA NextVersion ==
  ASSUME MarkInv, version' = version + 1, version \in 2..30,
         DOMAIN meta' \subseteq DOMAIN meta,
         \A k \in DOMAIN meta' : meta'[k] = meta[k],
         version \in Standalone => HwmKey[version] \notin DOMAIN meta',
         version = 23 => DDL_DONE \notin DOMAIN meta',
         version = 27 => "high_water_mark" \notin DOMAIN meta'
  PROVE  MarksOk' /\ (version' \in Standalone => Hwm' = 0)
<1>1. \A v \in Standalone : HwmKey[v] \notin DOMAIN meta'
  BY DEF MarkInv, MarksOk
<1>2. MarksOk'
  BY <1>1 DEF MarkInv, MarksOk
<1> QED
  BY <1>1, <1>2 DEF Hwm

\* At the end of a step, and everywhere in a step without marks.
LEMMA NextMark ==
  ASSUME MarkInv, version' = version + 1, version \in 2..30, stage' = "step",
         MarksOk', version' \in Standalone => Hwm' = 0, RowsOk', rows' = rows,
         version \in Recounting => rows.counted[version] = Scans,
         version = 24 => rows.deduped = Folders /\ rows.recomputed
  PROVE  MarkInv'
<1>1. version' \in 2..31 /\ version \in Nat
  OBVIOUS
<1>2. BelowMark'
  <2>1. version' \in Recounting \/ version' = 24 => Hwm' = 0
    BY Keys
  <2>2. (\A s \in Scans : ~ (s <= 0)) /\ (\A f \in Folders : ~ (f <= 0))
    BY UpgradeAssumption
  <2> QED
    BY <2>1, <2>2 DEF BelowMark
<1>3. PastOk'
  <2>1. \A v \in Recounting : version' > v => version > v \/ version = v
    BY <1>1, Keys
  <2>2. version' > 24 => version > 24 \/ version = 24
    BY <1>1
  <2> QED
    BY <1>1, <2>1, <2>2 DEF MarkInv, PastOk
<1> QED
  BY <1>1, <1>2, <1>3 DEF MarkInv, StageOk

\* Nothing below the mark is touched.
LEMMA SameRows ==
  ASSUME MarkInv, version' = version, rows' = rows
  PROVE  /\ RowsOk' /\ PastOk'
         /\ (version \in Recounting \cup {24} => Hwm' = Hwm) => BelowMark'
<1>1. RowsOk' /\ PastOk'
  BY DEF MarkInv, RowsOk, PastOk
<1>2. ASSUME version \in Recounting \cup {24} => Hwm' = Hwm PROVE BelowMark'
  BY <1>2 DEF MarkInv, BelowMark
<1> QED
  BY <1>1, <1>2
-----------------------------------------------------------------------------
(* The steps of an upgrade *)

LEMMA TransactMark ==
  ASSUME MarkInv, Transact, version \in 2..30
  PROVE  MarkInv'
<1>1. /\ stage' = "step" /\ version \notin Standalone /\ version' = version + 1
      /\ rows' = rows /\ meta' = meta
  BY DEF Transact
<1>2. MarksOk' /\ (version' \in Standalone => Hwm' = 0)
  BY <1>1, Keys, NextVersion
<1>3. RowsOk'
  BY <1>1 DEF MarkInv, RowsOk
<1> QED
  BY <1>1, <1>2, <1>3, Keys, NextMark

\* Steps that do their statements and go on.
LEMMA GoOnMark ==
  ASSUME MarkInv, MakeTempIndex \/ DropTempIndex
  PROVE  MarkInv'
<1>1. /\ UNCHANGED <<version, meta, rows>>
      /\ version = 27
      /\ \/ stage' = "opening"
         \/ stage' = "closing" /\ ScansLeft = {}
  BY DEF MakeTempIndex, DropTempIndex, MarkInv, StageOk
<1>2. MarksOk' /\ Hwm' = Hwm /\ ScansLeft' = ScansLeft
  BY <1>1, MarkStays
<1>3. RowsOk' /\ PastOk' /\ BelowMark'
  BY <1>1, <1>2, SameRows
<1> QED
  BY <1>1, <1>2, <1>3 DEF MarkInv, StageOk

LEMMA RunDdlMark ==
  ASSUME MarkInv, RunDdl
  PROVE  MarkInv'
<1>1. /\ version = 23 /\ version' = version /\ rows' = rows /\ stage' = "opening"
      /\ meta' = IF DDL_DONE \in DOMAIN meta THEN meta ELSE Put(DDL_DONE, 1)
  BY DEF RunDdl
<1>2. /\ DOMAIN meta' = DOMAIN meta \cup {DDL_DONE}
      /\ \A k \in DOMAIN meta : k # DDL_DONE => meta'[k] = meta[k]
  BY <1>1 DEF Put
<1>3. MarksOk'
  BY <1>1, <1>2, KeysDiffer DEF MarkInv, MarksOk
<1>4. Hwm' = Hwm
  BY <1>1, <1>2, Keys, KeysDiffer DEF Hwm
<1>5. RowsOk' /\ PastOk' /\ BelowMark'
  BY <1>1, <1>4, SameRows
<1> QED
  BY <1>1, <1>3, <1>5 DEF MarkInv, StageOk

LEMMA OpenBackfillMark ==
  ASSUME MarkInv, OpenBackfill
  PROVE  MarkInv'
<1>1. /\ UNCHANGED <<version, rows>> /\ meta' = SetHwm(Hwm)
      /\ version \in Standalone
      /\ stage' \in {"dropping", "working"}
      /\ stage' = "dropping" => version = 27 /\ ScansLeft = {}
  BY Keys DEF OpenBackfill
<1>2. Hwm \in Nat
  BY <1>1, MarkIsNat
<1>3. MarksOk' /\ Hwm' = Hwm /\ ScansLeft' = {s \in Scans : s > Hwm}
  BY <1>1, <1>2, MarkMoves
<1>4. RowsOk' /\ PastOk' /\ BelowMark'
  BY <1>1, <1>3, SameRows
<1> QED
  BY <1>1, <1>3, <1>4 DEF MarkInv, StageOk, ScansLeft

\* The scan recounted is the one next to the mark, and the mark moves to it.
LEMMA RecountScanMark ==
  ASSUME MarkInv, RecountScan
  PROVE  MarkInv'
<1>1. /\ version \in {18, 22, 23} /\ ScansLeft # {}
      /\ rows' = [rows EXCEPT !.counted[version] = @ \cup {Min(ScansLeft)}]
      /\ stage' = "marking" /\ UNCHANGED <<version, meta>>
  BY DEF RecountScan
<1>2. version \in Recounting /\ version \in Standalone
  BY <1>1, Keys
<1>3. Min(ScansLeft) \in Scans
  BY <1>1, <1>2, MarkIsNat, MinIsLeast DEF ScansLeft
<1>4. /\ RowsOk' /\ rows'.deduped = rows.deduped /\ rows'.recomputed = rows.recomputed
      /\ rows'.counted[version] = rows.counted[version] \cup {Min(ScansLeft)}
      /\ \A v \in Recounting : v # version => rows'.counted[v] = rows.counted[v]
  BY <1>1, <1>2, <1>3 DEF MarkInv, RowsOk
<1>5. MarksOk' /\ Hwm' = Hwm /\ ScansLeft' = ScansLeft
  BY <1>1, MarkStays
<1>6. BelowMark'
  BY <1>1, <1>2, <1>4, <1>5 DEF MarkInv, BelowMark
<1>7. PastOk'
  BY <1>1, <1>4 DEF MarkInv, PastOk
<1>8. StageOk'
  BY <1>1, <1>4, <1>5 DEF StageOk
<1> QED
  BY <1>1, <1>4, <1>5, <1>6, <1>7, <1>8 DEF MarkInv

LEMMA MarkScanMark ==
  ASSUME MarkInv, MarkScan
  PROVE  MarkInv'
<1>1. /\ version \in {18, 22, 23} /\ ScansLeft # {} /\ Min(ScansLeft) \in rows.counted[version]
      /\ meta' = SetHwm(Min(ScansLeft)) /\ stage' = "working" /\ UNCHANGED <<version, rows>>
  BY DEF MarkScan, MarkInv, StageOk
<1>2. version \in Recounting /\ version \in Standalone /\ version # 24
  BY <1>1, Keys
<1>3. /\ Min(ScansLeft) \in ScansLeft /\ Min(ScansLeft) \in Nat
      /\ \A s \in ScansLeft : Min(ScansLeft) <= s
  BY <1>1, <1>2, MarkIsNat, MinIsLeast
<1>4. MarksOk' /\ Hwm' = Min(ScansLeft)
  BY <1>1, <1>2, <1>3, MarkMoves
<1>5. ASSUME NEW s \in Scans, s <= Min(ScansLeft)
      PROVE  s \in rows.counted[version]
  <2>1. s \in Nat /\ Hwm \in Nat
    BY <1>2, MarkIsNat
  <2>2. CASE s <= Hwm
    BY <1>2, <2>2 DEF MarkInv, BelowMark
  <2>3. CASE s > Hwm
    <3>1. s \in ScansLeft
      BY <2>3 DEF ScansLeft
    <3>2. s = Min(ScansLeft)
      BY <1>3, <1>5, <2>1, <3>1
    <3> QED
      BY <1>1, <3>2
  <2> QED
    BY <2>1, <2>2, <2>3
<1>6. BelowMark'
  BY <1>1, <1>2, <1>4, <1>5 DEF BelowMark
<1>7. RowsOk' /\ PastOk'
  BY <1>1, SameRows
<1> QED
  BY <1>1, <1>2, <1>4, <1>6, <1>7 DEF MarkInv, StageOk

\* A batch and its mark go together.
LEMMA DedupBatchMark ==
  ASSUME MarkInv, DedupBatch
  PROVE  MarkInv'
<1>1. /\ version = 24 /\ FoldersLeft # {} /\ stage = "working"
      /\ rows' = [rows EXCEPT !.deduped = @ \cup {Min(FoldersLeft)}]
      /\ meta' = SetHwm(Min(FoldersLeft)) /\ UNCHANGED <<version, stage>>
  BY DEF DedupBatch
<1>2. version \in Standalone /\ version \notin Recounting
  BY <1>1, Keys
<1>3. /\ Min(FoldersLeft) \in FoldersLeft /\ Min(FoldersLeft) \in Nat
      /\ Min(FoldersLeft) \in Folders
      /\ \A f \in FoldersLeft : Min(FoldersLeft) <= f
  BY <1>1, <1>2, MarkIsNat, MinIsLeast DEF FoldersLeft
<1>4. /\ RowsOk' /\ rows'.counted = rows.counted
      /\ rows'.deduped = rows.deduped \cup {Min(FoldersLeft)}
  BY <1>1, <1>3 DEF MarkInv, RowsOk
<1>5. MarksOk' /\ Hwm' = Min(FoldersLeft)
  BY <1>1, <1>2, <1>3, MarkMoves
<1>6. ASSUME NEW f \in Folders, f <= Min(FoldersLeft)
      PROVE  f \in rows'.deduped
  <2>1. f \in Nat /\ Hwm \in Nat
    BY <1>2, MarkIsNat
  <2>2. CASE f <= Hwm
    BY <1>1, <1>4, <2>2 DEF MarkInv, BelowMark
  <2>3. CASE f > Hwm
    <3>1. f \in FoldersLeft
      BY <2>3 DEF FoldersLeft
    <3>2. f = Min(FoldersLeft)
      BY <1>3, <1>6, <2>1, <3>1
    <3> QED
      BY <1>4, <3>2
  <2> QED
    BY <2>1, <2>2, <2>3
<1>7. BelowMark'
  BY <1>1, <1>2, <1>5, <1>6 DEF BelowMark
<1>8. PastOk'
  BY <1>1, <1>4 DEF MarkInv, PastOk
<1> QED
  BY <1>1, <1>2, <1>4, <1>5, <1>7, <1>8 DEF MarkInv, StageOk

LEMMA RecomputeCountsMark ==
  ASSUME MarkInv, RecomputeCounts
  PROVE  MarkInv'
<1>1. /\ version = 24 /\ FoldersLeft = {} /\ stage' = "closing"
      /\ rows' = [rows EXCEPT !.recomputed = TRUE] /\ UNCHANGED <<version, meta>>
  BY DEF RecomputeCounts
<1>2. /\ RowsOk' /\ rows'.counted = rows.counted /\ rows'.deduped = rows.deduped
      /\ rows'.recomputed
  BY <1>1 DEF MarkInv, RowsOk
<1>3. MarksOk' /\ Hwm' = Hwm /\ FoldersLeft' = FoldersLeft
  BY <1>1, MarkStays
<1>4. BelowMark' /\ PastOk'
  BY <1>1, <1>2, <1>3 DEF MarkInv, BelowMark, PastOk
<1> QED
  BY <1>1, <1>2, <1>3, <1>4 DEF MarkInv, StageOk

\* Nothing is above the mark and everything below it is done.
LEMMA AllDone ==
  ASSUME MarkInv
  PROVE  /\ version \in Recounting /\ ScansLeft = {} => rows.counted[version] = Scans
         /\ version = 24 /\ FoldersLeft = {} => rows.deduped = Folders
<1>1. ASSUME version \in Recounting, ScansLeft = {}
      PROVE  rows.counted[version] = Scans
  <2>1. version \in Standalone
    BY <1>1, Keys
  <2>2. \A s \in Scans : s <= Hwm
    BY <1>1, <2>1, MarkIsNat DEF ScansLeft
  <2>3. rows.counted[version] \subseteq Scans
    BY <1>1 DEF MarkInv, RowsOk
  <2> QED
    BY <1>1, <2>2, <2>3 DEF MarkInv, BelowMark
<1>2. ASSUME version = 24, FoldersLeft = {}
      PROVE  rows.deduped = Folders
  <2>1. version \in Standalone
    BY <1>2, Keys
  <2>2. \A f \in Folders : f <= Hwm
    BY <1>2, <2>1, MarkIsNat DEF FoldersLeft
  <2>3. rows.deduped \subseteq Folders
    BY DEF MarkInv, RowsOk
  <2> QED
    BY <1>2, <2>2, <2>3 DEF MarkInv, BelowMark
<1> QED
  BY <1>1, <1>2

LEMMA WithoutKeys ==
  ASSUME NEW keys, NEW m, m = Without(keys)
  PROVE  /\ DOMAIN m = DOMAIN meta \ keys
         /\ \A k \in DOMAIN m : m[k] = meta[k]
BY DEF Without, Restrict

LEMMA CloseBackfillMark ==
  ASSUME MarkInv, CloseBackfill
  PROVE  MarkInv'
<1>1. /\ \/ version \in {18, 22, 23} /\ ScansLeft = {}
         \/ version = 24 /\ FoldersLeft = {} /\ rows.recomputed
      /\ meta' = Without({HwmKey[version]} \cup IF version = 23 THEN {DDL_DONE} ELSE {})
      /\ version' = version + 1 /\ stage' = "step" /\ rows' = rows
  BY DEF CloseBackfill, MarkInv, StageOk
<1>2. version \in 2..30 /\ version # 27
  BY <1>1
<1>3. /\ DOMAIN meta' \subseteq DOMAIN meta
      /\ \A k \in DOMAIN meta' : meta'[k] = meta[k]
      /\ HwmKey[version] \notin DOMAIN meta'
      /\ version = 23 => DDL_DONE \notin DOMAIN meta'
  <2>1. PICK keys : keys = {HwmKey[version]} \cup IF version = 23 THEN {DDL_DONE} ELSE {}
    OBVIOUS
  <2>2. PICK m : m = Without(keys)
    OBVIOUS
  <2>3. m = meta'
    BY <1>1, <2>1, <2>2
  <2>4. DOMAIN m = DOMAIN meta \ keys /\ \A k \in DOMAIN m : m[k] = meta[k]
    BY <2>2, WithoutKeys
  <2> QED
    BY <1>1, <2>1, <2>3, <2>4
<1>4. MarksOk' /\ (version' \in Standalone => Hwm' = 0)
  BY <1>1, <1>2, <1>3, NextVersion
<1>5. /\ version \in Recounting => rows.counted[version] = Scans
      /\ version = 24 => rows.deduped = Folders /\ rows.recomputed
  BY <1>1, Keys, AllDone
<1>6. RowsOk'
  BY <1>1 DEF MarkInv, RowsOk
<1> QED
  BY <1>1, <1>2, <1>4, <1>5, <1>6, NextMark

LEMMA BuildFinalTablesMark ==
  ASSUME MarkInv, BuildFinalTables
  PROVE  MarkInv'
<1>1. /\ version = 27 /\ ScansLeft = {}
      /\ meta' = Without({HwmKey[27], "high_water_mark"})
      /\ version' = version + 1 /\ stage' = "step" /\ rows' = rows
  BY DEF BuildFinalTables, MarkInv, StageOk
<1>2. version \in 2..30 /\ version # 23 /\ version # 24
  BY <1>1
<1>3. /\ DOMAIN meta' \subseteq DOMAIN meta
      /\ \A k \in DOMAIN meta' : meta'[k] = meta[k]
      /\ HwmKey[version] \notin DOMAIN meta' /\ "high_water_mark" \notin DOMAIN meta'
  <2>1. PICK keys : keys = {HwmKey[27], "high_water_mark"}
    OBVIOUS
  <2>2. PICK m : m = Without(keys)
    OBVIOUS
  <2>3. m = meta'
    BY <1>1, <2>1, <2>2
  <2>4. DOMAIN m = DOMAIN meta \ keys /\ \A k \in DOMAIN m : m[k] = meta[k]
    BY <2>2, WithoutKeys
  <2> QED
    BY <1>1, <2>1, <2>3, <2>4
<1>4. MarksOk' /\ (version' \in Standalone => Hwm' = 0)
  BY <1>1, <1>2, <1>3, NextVersion
<1>5. version \in Recounting => rows.counted[version] = Scans
  BY <1>1, AllDone
<1>6. RowsOk'
  BY <1>1 DEF MarkInv, RowsOk
<1> QED
  BY <1>1, <1>2, <1>4, <1>5, <1>6, NextMark

\* The transactions of the step from 27 that move rows or merge them.
LEMMA RowsMark ==
  ASSUME MarkInv, SplitTables \/ MoveBatch \/ MergeRepeats
  PROVE  MarkInv'
<1>1. /\ UNCHANGED <<version, meta>> /\ version = 27
      /\ \/ stage' = "moving"
         \/ stage' = "dropping" /\ ScansLeft = {}
  BY DEF SplitTables, MoveBatch, MergeRepeats, MarkInv, StageOk
<1>2. /\ RowsOk' /\ rows'.counted = rows.counted /\ rows'.deduped = rows.deduped
      /\ rows'.recomputed = rows.recomputed
  <2>1. CASE SplitTables
    <3>1. rows.scan \in ScanStates /\ "stopped" \in ScanStates
      BY DEF MarkInv, RowsOk, ScanStates
    <3> QED
      BY <2>1, <3>1 DEF SplitTables, MarkInv, RowsOk
  <2>2. CASE MoveBatch
    <3>1. Aside \in SUBSET Nat /\ Aside \subseteq Items /\ Aside # {}
      BY <2>2, UpgradeAssumption DEF MoveBatch, Aside
    <3>2. Min(Aside) \in Items
      BY <3>1, MinIsLeast
    <3> QED
      BY <2>2, <3>2 DEF MoveBatch, MarkInv, RowsOk
  <2>3. CASE MergeRepeats
    BY <2>3 DEF MergeRepeats, MarkInv, RowsOk
  <2> QED
    BY <2>1, <2>2, <2>3
<1>3. MarksOk' /\ Hwm' = Hwm /\ ScansLeft' = ScansLeft
  BY <1>1, MarkStays
<1>4. BelowMark' /\ PastOk'
  BY <1>1, <1>2, <1>3 DEF MarkInv, BelowMark, PastOk
<1> QED
  BY <1>1, <1>2, <1>3, <1>4 DEF MarkInv, StageOk

LEMMA CountScanMark ==
  ASSUME MarkInv, CountScan
  PROVE  MarkInv'
<1>1. /\ version = 27 /\ ScansLeft # {} /\ stage = "working"
      /\ rows' = [rows EXCEPT !.counted[27] = @ \cup {Min(ScansLeft)}]
      /\ meta' = SetHwm(Min(ScansLeft)) /\ UNCHANGED <<version, stage>>
  BY DEF CountScan
<1>2. version \in Recounting /\ version \in Standalone /\ version # 24
  BY <1>1, Keys
<1>3. /\ Min(ScansLeft) \in ScansLeft /\ Min(ScansLeft) \in Nat /\ Min(ScansLeft) \in Scans
      /\ \A s \in ScansLeft : Min(ScansLeft) <= s
  BY <1>1, <1>2, MarkIsNat, MinIsLeast DEF ScansLeft
<1>4. /\ RowsOk' /\ rows'.deduped = rows.deduped /\ rows'.recomputed = rows.recomputed
      /\ rows'.counted[27] = rows.counted[27] \cup {Min(ScansLeft)}
      /\ \A v \in Recounting : v # 27 => rows'.counted[v] = rows.counted[v]
  BY <1>1, <1>2, <1>3 DEF MarkInv, RowsOk
<1>5. MarksOk' /\ Hwm' = Min(ScansLeft)
  BY <1>1, <1>2, <1>3, MarkMoves
<1>6. ASSUME NEW s \in Scans, s <= Min(ScansLeft)
      PROVE  s \in rows'.counted[27]
  <2>1. s \in Nat /\ Hwm \in Nat
    BY <1>2, MarkIsNat
  <2>2. CASE s <= Hwm
    BY <1>1, <1>2, <1>4, <2>2 DEF MarkInv, BelowMark
  <2>3. CASE s > Hwm
    <3>1. s \in ScansLeft
      BY <2>3 DEF ScansLeft
    <3>2. s = Min(ScansLeft)
      BY <1>3, <1>6, <2>1, <3>1
    <3> QED
      BY <1>4, <3>2
  <2> QED
    BY <2>1, <2>2, <2>3
<1>7. BelowMark'
  BY <1>1, <1>2, <1>5, <1>6 DEF BelowMark
<1>8. PastOk'
  BY <1>1, <1>4 DEF MarkInv, PastOk
<1> QED
  BY <1>1, <1>2, <1>4, <1>5, <1>7, <1>8 DEF MarkInv, StageOk
-----------------------------------------------------------------------------
(* The program around it *)

LEMMA UpgradeMark ==
  ASSUME MarkInv, UpgradeStep, version \in 2..30
  PROVE  MarkInv'
<1>1. CASE Transact
  BY <1>1, TransactMark
<1>2. CASE RunDdl \/ OpenBackfill \/ RecountScan \/ MarkScan
  BY <1>2, RunDdlMark, OpenBackfillMark, RecountScanMark, MarkScanMark
<1>3. CASE DedupBatch \/ RecomputeCounts \/ CloseBackfill
  BY <1>3, DedupBatchMark, RecomputeCountsMark, CloseBackfillMark
<1>4. CASE SplitTables \/ MoveBatch \/ MergeRepeats
  BY <1>4, RowsMark
<1>5. CASE MakeTempIndex \/ DropTempIndex
  BY <1>5, GoOnMark
<1>6. CASE CountScan \/ BuildFinalTables
  BY <1>6, CountScanMark, BuildFinalTablesMark
<1> QED
  BY <1>1, <1>2, <1>3, <1>4, <1>5, <1>6 DEF UpgradeStep

\* What the program and the pages do tells of the version.
ServingInv ==
  /\ proc # "down" => version # 0
  /\ proc \in {"starting", "upgraded", "serving"} => version = CURRENT_SCHEMA_VERSION
  /\ ready => version = CURRENT_SCHEMA_VERSION
  /\ AppOnCurrentSchema

\* The database is written by an upgrade, by the creation of a new one, and by the
\* task that is resumed; nothing else touches it.
LEMMA RestMark ==
  ASSUME MarkInv, UNCHANGED dbVars, stage' = stage \/ stage' = "step"
  PROVE  MarkInv'
<1>1. UNCHANGED <<version, meta, rows>>
  BY DEF dbVars
<1>2. MarksOk' /\ Hwm' = Hwm /\ ScansLeft' = ScansLeft /\ FoldersLeft' = FoldersLeft
  BY <1>1, MarkStays
<1>3. RowsOk' /\ PastOk' /\ BelowMark'
  BY <1>1, <1>2, SameRows
<1>4. StageOk'
  BY <1>1, <1>2 DEF MarkInv, StageOk
<1> QED
  BY <1>1, <1>2, <1>3, <1>4 DEF MarkInv

LEMMA StartMark ==
  ASSUME MarkInv, ServingInv, Start
  PROVE  MarkInv' /\ ServingInv'
<1>1. CASE version = 0
  <2>1. CreateSchema
    BY <1>1 DEF Start
  <2>2. /\ version' = 31 /\ UNCHANGED <<meta, rows, stage>>
        /\ version \notin 2..(CURRENT_SCHEMA_VERSION - 1)
    BY <1>1, <2>1, Keys DEF CreateSchema
  <2>3. ready' /\ proc' = "starting" /\ page' = page
    BY <2>2, Zenon DEF Start, pageVars
  <2>4. MarksOk'
    <3>1. \A v \in Standalone : HwmKey[v] \notin DOMAIN meta
      BY <1>1, Keys DEF MarkInv, MarksOk
    <3>2. DDL_DONE \notin DOMAIN meta /\ "high_water_mark" \notin DOMAIN meta
      BY <1>1 DEF MarkInv, MarksOk
    <3> QED
      BY <2>2, <3>1, <3>2 DEF MarkInv, MarksOk
  <2>5. RowsOk' /\ PastOk' /\ BelowMark'
    BY <1>1, <2>2, Keys DEF MarkInv, RowsOk, PastOk, BelowMark
  <2>6. stage' = "step"
    BY <1>1, <2>2, Keys DEF MarkInv, StageOk
  <2>7. MarkInv'
    BY <2>2, <2>4, <2>5, <2>6 DEF MarkInv, StageOk
  <2>8. ServingInv'
    BY <2>2, <2>3, Keys DEF ServingInv, AppOnCurrentSchema
  <2> QED
    BY <2>7, <2>8
<1>2. CASE version # 0
  <2> DEFINE migrate == version \in 2..(CURRENT_SCHEMA_VERSION - 1)
  <2>0. ~migrate => version \notin 2..30
    BY Keys
  <2> HIDE DEF migrate
  <2>01. /\ proc' = IF migrate THEN "upgrading" ELSE "starting"
         /\ ready' = ~migrate
         /\ UNCHANGED <<shape, version, meta, rows, stage>> /\ page' = page
    BY <1>2, Zenon DEF Start, pageVars, migrate
  <2>1. /\ UNCHANGED dbVars /\ stage' = stage /\ page' = page
        /\ proc' \in {"upgrading", "starting"}
        /\ (ready' \/ proc' = "starting") => version \notin 2..30
    <3>1. (ready' \/ proc' = "starting") => ~migrate
      BY <2>01
    <3> QED
      BY <2>0, <2>01, <3>1, Zenon DEF dbVars
  <2>2. version' = version /\ (version \notin 2..30 => version = 31)
    BY <1>2, <2>1 DEF MarkInv, dbVars
  <2>3. ServingInv'
    BY <1>2, <2>1, <2>2, Keys DEF ServingInv, AppOnCurrentSchema
  <2> QED
    BY <2>1, <2>3, RestMark
<1> QED
  BY <1>1, <1>2

\* Before the upgrade is done no page has the application.
LEMMA UpgradeServing ==
  ASSUME MarkInv, ServingInv, Upgrade
  PROVE  MarkInv' /\ ServingInv'
<1>1. /\ version # 0 /\ version # 31 /\ version < 31 /\ UpgradeStep
      /\ UNCHANGED <<proc, ready, page>> /\ proc \in {"upgrading", "draining"}
  BY Keys DEF Upgrade, ServingInv, procVars, pageVars
<1>2. version \in 2..30
  BY <1>1 DEF MarkInv
<1>3. MarkInv'
  BY <1>1, <1>2, UpgradeMark
<1>4. version' # 0
  <2>1. version' \in {version, version + 1, 28}
    BY <1>1 DEF UpgradeStep, Transact, RunDdl, OpenBackfill, RecountScan, MarkScan, DedupBatch,
         RecomputeCounts, CloseBackfill, SplitTables, MoveBatch, MakeTempIndex, CountScan,
         MergeRepeats, DropTempIndex, BuildFinalTables
  <2> QED
    BY <1>2, <2>1
<1>5. ~ready /\ \A p \in Pages : page[p] # "app"
  BY <1>1, Keys DEF ServingInv, AppOnCurrentSchema
<1>6. ServingInv'
  BY <1>1, <1>4, <1>5 DEF ServingInv, AppOnCurrentSchema
<1> QED
  BY <1>3, <1>6

LEMMA EndsServing ==
  ASSUME ServingInv, version' = version, Ends
  PROVE  ServingInv'
<1>1. /\ proc' = "down" /\ ~ready'
      /\ \A p \in Pages : page'[p] = "app" => page[p] = "app"
  BY DEF Ends
<1> QED
  BY <1>1 DEF ServingInv, AppOnCurrentSchema

LEMMA ProgramServing ==
  ASSUME MarkInv, ServingInv,
         \/ StartServices \/ UpgradeFails \/ Record \/ Broadcast \/ StartAppServices
         \/ SetReady \/ ExitFailed \/ Crash \/ Signal \/ ServerReturns \/ Drained
  PROVE  MarkInv' /\ ServingInv'
<1>1. UNCHANGED dbVars
  BY DEF StartServices, UpgradeFails, Record, Broadcast, StartAppServices, SetReady, ExitFailed,
         Crash, Signal, ServerReturns, Drained
<1>2. stage' = stage \/ stage' = "step"
  BY DEF StartServices, UpgradeFails, Record, Broadcast, StartAppServices, SetReady, ExitFailed,
         Crash, Signal, ServerReturns, Drained, Ends
<1>3. MarkInv'
  BY <1>1, <1>2, RestMark
<1>4. version' = version
  BY <1>1 DEF dbVars
<1>5. CASE Ends
  BY <1>3, <1>4, <1>5, EndsServing
<1>6. CASE ~Ends
  <2>1. /\ page' = page
        /\ ready' => (ready \/ proc = "serving")
        /\ \/ proc' = proc
           \/ proc = "starting" /\ proc' = "serving"
           \/ version = CURRENT_SCHEMA_VERSION /\ proc = "upgrading" /\ proc' = "upgraded"
           \/ proc = "upgraded" /\ proc' = "serving"
           \/ proc # "down" /\ proc' \in {"failing", "draining"}
    <3>1. CASE StartServices \/ Record \/ Broadcast
      BY <3>1 DEF StartServices, Record, Broadcast, pageVars
    <3>2. CASE UpgradeFails
      BY <1>6, <3>2 DEF UpgradeFails, pageVars
    <3>3. CASE StartAppServices \/ SetReady \/ Signal
      BY <3>3 DEF StartAppServices, SetReady, Signal, pageVars
    <3>4. CASE ServerReturns
      <4>1. proc = "upgrading" /\ proc' = "draining" /\ UNCHANGED <<ready, page>>
        BY <1>6, <3>4, Zenon DEF ServerReturns, pageVars
      <4> QED
        BY <4>1
    <3> QED
      BY <1>6, <3>1, <3>2, <3>3, <3>4 DEF ExitFailed, Crash, Drained
  <2> QED
    BY <1>3, <1>4, <2>1 DEF ServingInv, AppOnCurrentSchema
<1> QED
  BY <1>5, <1>6

\* The task that is resumed writes to the rows what no mark is about.
LEMMA ResumeServing ==
  ASSUME MarkInv, ServingInv, ResumeTask
  PROVE  MarkInv' /\ ServingInv'
<1>1. /\ rows' = [rows EXCEPT !.task = "completed",
                              !.scan = IF @ = "open" THEN "completed" ELSE @]
      /\ UNCHANGED <<version, meta, stage>> /\ UNCHANGED <<proc, ready, page>>
  BY DEF ResumeTask, procVars, pageVars
<1>2. "completed" \in TaskStates /\ "completed" \in ScanStates /\ rows.scan \in ScanStates
  BY DEF MarkInv, RowsOk, TaskStates, ScanStates
<1>3. /\ RowsOk' /\ rows'.counted = rows.counted /\ rows'.deduped = rows.deduped
      /\ rows'.recomputed = rows.recomputed
  BY <1>1, <1>2 DEF MarkInv, RowsOk
<1>4. MarksOk' /\ Hwm' = Hwm /\ ScansLeft' = ScansLeft /\ FoldersLeft' = FoldersLeft
  BY <1>1, MarkStays
<1>5. BelowMark' /\ PastOk'
  BY <1>1, <1>3, <1>4 DEF MarkInv, BelowMark, PastOk
<1>6. StageOk'
  BY <1>1, <1>3, <1>4 DEF MarkInv, StageOk
<1>7. ServingInv'
  BY <1>1 DEF ServingInv, AppOnCurrentSchema
<1> QED
  BY <1>1, <1>3, <1>4, <1>5, <1>6, <1>7 DEF MarkInv

\* A page has the application only from a program whose flag is up.
LEMMA PageServing ==
  ASSUME MarkInv, ServingInv, NEW p \in Pages, Visit(p) \/ PageStep(p)
  PROVE  MarkInv' /\ ServingInv'
<1>1. UNCHANGED <<dbVars, stage>> /\ UNCHANGED procVars
  BY DEF Visit, PageStep, Subscribe, ReadHistory, Receive, Reload
<1>2. MarkInv'
  BY <1>1, RestMark
<1>3. UNCHANGED <<version, proc, ready>>
  BY <1>1 DEF dbVars, procVars
<1>4. PICK show : page' = [page EXCEPT ![p] = show] /\ (show = "app" => ready)
  <2>1. CASE Visit(p)
    <3>1. Answer = "app" => ready
      BY DEF Answer
    <3> QED
      BY <2>1, <3>1, Zenon DEF Visit
  <2>2. CASE Subscribe(p)
    <3>1. (IF maintaining THEN "subscribed" ELSE "lost") # "app"
      OBVIOUS
    <3> QED
      BY <2>2, <3>1, Zenon DEF Subscribe
  <2>3. CASE ReadHistory(p)
    <3>1. "watching" # "app"
      OBVIOUS
    <3> QED
      BY <2>3, <3>1, Zenon DEF ReadHistory
  <2>4. CASE Receive(p)
    <3>1. (IF inbox[p] = "complete" THEN "reloading" ELSE "told") # "app"
      OBVIOUS
    <3> QED
      BY <2>4, <3>1, Zenon DEF Receive
  <2>5. CASE Reload(p)
    <3>1. (IF Listening THEN Answer ELSE "away") = "app" => ready
      BY DEF Answer
    <3> QED
      BY <2>5, <3>1, Zenon DEF Reload
  <2> QED
    BY <2>1, <2>2, <2>3, <2>4, <2>5 DEF PageStep
<1>5. ASSUME NEW q \in Pages, page'[q] = "app"
      PROVE  page[q] = "app" \/ ready
  BY <1>4, <1>5
<1>6. ServingInv'
  BY <1>3, <1>5 DEF ServingInv, AppOnCurrentSchema
<1> QED
  BY <1>2, <1>6

LEMMA StepServing ==
  ASSUME MarkInv, ServingInv, [Next]_vars
  PROVE  MarkInv' /\ ServingInv'
<1>1. CASE Start \/ Upgrade \/ ResumeTask
  BY <1>1, StartMark, UpgradeServing, ResumeServing
<1>2. CASE \/ StartServices \/ UpgradeFails \/ Record \/ Broadcast \/ StartAppServices
           \/ SetReady \/ ExitFailed \/ Crash \/ Signal \/ ServerReturns \/ Drained
  BY <1>2, ProgramServing
<1>3. CASE \E p \in Pages : Visit(p) \/ PageStep(p)
  BY <1>3, PageServing
<1>4. CASE UNCHANGED vars
  <2>1. UNCHANGED dbVars /\ stage' = stage /\ UNCHANGED <<version, proc, ready, page>>
    BY <1>4 DEF vars, dbVars
  <2> QED
    BY <2>1, RestMark DEF ServingInv, AppOnCurrentSchema
<1> QED
  BY <1>1, <1>2, <1>3, <1>4 DEF Next, Progress

\* A database is found with no page on it and no flag up.
LEMMA InitServing == Init => ServingInv
BY DEF Init, Fresh, ServingInv, AppOnCurrentSchema

-----------------------------------------------------------------------------
(* The versions set aside by the step from 27 *)

(***************************************************************************)
(* The mark of 27 counts scans, and says nothing of the items that are yet *)
(* to be moved.  What tells a program that goes on is the table they are   *)
(* in, which is there as long as one is left.                              *)
(***************************************************************************)
MovingInv ==
  /\ version = 27 /\ stage = "moving" => "item_versions_old" \in Tables(shape)
  /\ version = 27 /\ stage \in {"opening", "working", "dropping", "closing"} => rows.moved = Items
  /\ version = 0 \/ version > 27 => rows.moved = Items

LEMMA InitMoving == Init => MovingInv
<1> SUFFICES ASSUME Init PROVE MovingInv
  OBVIOUS
<1>1. stage = "step" /\ rows.moved = DoneBefore(27, Items)
  BY DEF Init, InitDatabase
<1>2. version \in {0} \cup 2..31
  BY InitMark DEF MarkInv
<1>3. version = 0 \/ version > 27 => ~ (version # 0 /\ version <= 27)
  BY <1>2
<1> QED
  BY <1>1, <1>3 DEF MovingInv, DoneBefore

\* A step that is not of 27 passes no item over.
LEMMA OtherMoving ==
  ASSUME MarkInv, MovingInv,
         \/ Transact \/ RunDdl \/ RecountScan \/ MarkScan \/ DedupBatch \/ RecomputeCounts
         \/ CloseBackfill,
         version \in 2..30
  PROVE  MovingInv'
<1>1. /\ version # 27 /\ version' \in {version, version + 1}
      /\ version' = version + 1 => stage' = "step"
  <2>1. CASE Transact
    BY <2>1, Keys DEF Transact
  <2>2. CASE MarkScan
    BY <2>2 DEF MarkScan, MarkInv, StageOk
  <2>3. CASE RunDdl \/ RecountScan \/ DedupBatch \/ RecomputeCounts \/ CloseBackfill
    BY <2>3 DEF RunDdl, RecountScan, DedupBatch, RecomputeCounts, CloseBackfill
  <2> QED
    BY <2>1, <2>2, <2>3
<1>2. rows'.moved = rows.moved
  <2>1. CASE rows' = rows
    BY <2>1
  <2>2. CASE RecountScan
    BY <2>2 DEF RecountScan, MarkInv, RowsOk
  <2>3. CASE DedupBatch \/ RecomputeCounts
    BY <2>3 DEF DedupBatch, RecomputeCounts, MarkInv, RowsOk
  <2> QED
    BY <2>1, <2>2, <2>3 DEF Transact, RunDdl, MarkScan, CloseBackfill
<1>3. version' # 0 /\ (version' > 27 => version > 27)
  BY <1>1
<1>4. ~ (version' = 27 /\ stage' # "step")
  BY <1>1
<1> QED
  BY <1>2, <1>3, <1>4 DEF MovingInv

\* Moving begins with the table there, and goes on only over an empty one.
LEMMA MovesMoving ==
  ASSUME MarkInv, MovingInv, SplitTables \/ MoveBatch \/ MakeTempIndex
  PROVE  MovingInv'
<1>1. CASE SplitTables
  <2>1. /\ version = 27 /\ version' = 27 /\ stage' = "moving" /\ stage = "step"
        /\ shape' \in Outcomes(shape, Enforced, Pending)
    BY <1>1 DEF SplitTables, Performs
  <2>2. CASE "item_versions_old" \in Tables(shape)
    <3>1. Pending = << >>
      BY <2>1, <2>2, Keys DEF Pending
    <3>2. shape' = shape
      BY <2>1, <3>1, MovingStays, Zenon
    <3> QED
      BY <2>1, <2>2, <3>2 DEF MovingInv
  <2>3. CASE "item_versions_old" \notin Tables(shape)
    <3>1. Pending = V27Phase1
      BY <2>1, <2>3, Keys DEF Pending
    <3>2. HasTable(shape', "item_versions_old")
      BY <2>1, <3>1, SplitSetsAside, Zenon
    <3> QED
      BY <2>1, <3>2 DEF MovingInv, HasTable
  <2> QED
    BY <2>2, <2>3
<1>2. CASE MoveBatch
  <2>1. /\ version = 27 /\ version' = 27 /\ stage' = "moving" /\ stage = "moving" /\ Aside # {}
        /\ shape' \in Outcomes(shape, Enforced, Pending)
    BY <1>2 DEF MoveBatch, Performs, MarkInv, StageOk
  <2>2. Pending = V27Phase2
    BY <2>1 DEF Pending
  <2>3. shape' = shape
    BY <2>1, <2>2, MovingStays, Zenon
  <2> QED
    BY <2>1, <2>3 DEF MovingInv
<1>3. CASE MakeTempIndex
  <2>1. /\ version = 27 /\ version' = 27 /\ stage = "moving" /\ stage' = "opening" /\ Aside = {}
        /\ rows' = rows
    BY <1>3 DEF MakeTempIndex, MarkInv, StageOk
  <2>2. "item_versions_old" \in Tables(shape)
    BY <2>1 DEF MovingInv
  <2>3. Items \ rows.moved = {} /\ rows.moved \subseteq Items
    BY <2>1, <2>2 DEF Aside, MarkInv, RowsOk
  <2> QED
    BY <2>1, <2>3 DEF MovingInv
<1> QED
  BY <1>1, <1>2, <1>3

\* The rest of the step from 27 comes after the last item.
LEMMA MovedMoving ==
  ASSUME MarkInv, MovingInv,
         OpenBackfill \/ CountScan \/ MergeRepeats \/ DropTempIndex \/ BuildFinalTables
  PROVE  MovingInv'
<1>1. rows'.moved = rows.moved
  BY DEF OpenBackfill, CountScan, MergeRepeats, DropTempIndex, BuildFinalTables, MarkInv, RowsOk
<1>2. CASE OpenBackfill
  BY <1>1, <1>2 DEF OpenBackfill, MovingInv
<1>3. CASE CountScan \/ MergeRepeats \/ DropTempIndex \/ BuildFinalTables
  <2>1. /\ version = 27 /\ stage \in {"working", "dropping", "closing"}
        /\ version' \in {27, 28} /\ stage' # "moving"
    BY <1>3 DEF CountScan, MergeRepeats, DropTempIndex, BuildFinalTables, MarkInv, StageOk
  <2>2. rows'.moved = Items
    BY <1>1, <2>1 DEF MovingInv
  <2> QED
    BY <2>1, <2>2 DEF MovingInv
<1> QED
  BY <1>2, <1>3

\* Outside of the upgrade nothing is moved.
LEMMA RestMoving ==
  ASSUME MovingInv, version' = version \/ (version = 0 /\ version' = 31),
         rows'.moved = rows.moved, version' = 27 => shape' = shape,
         stage' = stage \/ stage' = "step"
  PROVE  MovingInv'
BY DEF MovingInv

LEMMA StepMoving ==
  ASSUME MarkInv, ServingInv, MovingInv, [Next]_vars
  PROVE  MovingInv'
<1>1. CASE Upgrade
  <2>1. UpgradeStep /\ version \in 2..30
    BY <1>1, Keys DEF Upgrade, ServingInv, MarkInv
  <2> QED
    BY <2>1, OtherMoving, MovesMoving, MovedMoving DEF UpgradeStep
<1>2. CASE Start /\ version = 0
  <2>1. version' = 31 /\ UNCHANGED <<rows, stage>>
    BY <1>2, Keys, Zenon DEF Start, CreateSchema
  <2> QED
    BY <1>2, <2>1, RestMoving
<1>3. CASE Start /\ version # 0
  <2>1. UNCHANGED <<shape, version, rows, stage>>
    BY <1>3, Zenon DEF Start
  <2> QED
    BY <2>1, RestMoving
<1>4. CASE ResumeTask
  <2>1. UNCHANGED <<shape, version, stage>> /\ rows'.moved = rows.moved
    BY <1>4 DEF ResumeTask, MarkInv, RowsOk
  <2> QED
    BY <2>1, RestMoving
<1>5. CASE \/ StartServices \/ UpgradeFails \/ Record \/ Broadcast \/ StartAppServices
           \/ SetReady \/ ExitFailed \/ Crash \/ Signal \/ ServerReturns \/ Drained
  <2>1. UNCHANGED dbVars /\ (stage' = stage \/ stage' = "step")
    BY <1>5 DEF StartServices, UpgradeFails, Record, Broadcast, StartAppServices, SetReady,
         ExitFailed, Crash, Signal, ServerReturns, Drained, Ends
  <2> QED
    BY <2>1, RestMoving DEF dbVars
<1>6. CASE \E p \in Pages : Visit(p) \/ PageStep(p)
  <2>1. UNCHANGED dbVars /\ stage' = stage
    BY <1>6 DEF Visit, PageStep, Subscribe, ReadHistory, Receive, Reload
  <2> QED
    BY <2>1, RestMoving DEF dbVars
<1>7. CASE UNCHANGED vars
  BY <1>7, RestMoving DEF vars
<1> QED
  BY <1>1, <1>2, <1>3, <1>4, <1>5, <1>6, <1>7 DEF Next, Progress

\* In every reachable state the marks tell the truth about the rows, and the program
\* serves only a current database (migrate_v* of schema/, and main of server.rs).
THEOREM StartupInvariant == Spec => [](MarkInv /\ ServingInv /\ MovingInv)
<1>1. Init => MarkInv /\ ServingInv /\ MovingInv
  BY InitMark, InitServing, InitMoving
<1>2. MarkInv /\ ServingInv /\ MovingInv /\ [Next]_vars => (MarkInv /\ ServingInv /\ MovingInv)'
  BY StepServing, StepMoving
<1> QED
  BY <1>1, <1>2, PTL DEF Spec

\* A page is given the application only when the database is the one it was written for,
\* whatever the program met on the way (maintenance_middleware, the order of SetReady).
THEOREM AppOnCurrent == Spec => []AppOnCurrentSchema
<1>1. MarkInv /\ ServingInv => AppOnCurrentSchema
  BY DEF ServingInv
<1> QED
  BY <1>1, StartupInvariant, PTL

\* Past the version a backfill makes, its work is done on every scan and folder, and past
\* the split every item has been moved, through any number of kills and failed statements
\* (the high-water marks of v18_to_v19, v22_to_v23, v23_to_v24, v24_to_v25 and v27_to_v28,
\* and the table of the versions set aside in v27_to_v28).
THEOREM NonePassedOver == Spec => []NothingPassedOver
<1>1. MarkInv => NoScanPassedOver /\ NoFolderPassedOver
  BY DEF MarkInv, PastOk, NoScanPassedOver, NoFolderPassedOver
<1>2. MovingInv => NoItemPassedOver
  BY DEF MovingInv, NoItemPassedOver
<1>3. MarkInv /\ MovingInv => NothingPassedOver
  BY <1>1, <1>2 DEF NothingPassedOver
<1> QED
  BY <1>3, StartupInvariant, PTL

\* No mark outlives its step: a database that was brought to the current version has none
\* left in meta.
THEOREM MarksRemoved == Spec => [](version = CURRENT_SCHEMA_VERSION => DOMAIN meta = {})
<1>1. ASSUME MarkInv, version = CURRENT_SCHEMA_VERSION
      PROVE  DOMAIN meta = {}
  <2>1. \A v \in Standalone : HwmKey[v] \notin DOMAIN meta
    BY <1>1, Keys DEF MarkInv, MarksOk
  <2>2. DDL_DONE \notin DOMAIN meta /\ "high_water_mark" \notin DOMAIN meta
    BY <1>1, Keys DEF MarkInv, MarksOk
  <2> QED
    BY <1>1, <2>1, <2>2 DEF MarkInv, MarksOk
<1> QED
  BY <1>1, StartupInvariant, PTL
=============================================================================
