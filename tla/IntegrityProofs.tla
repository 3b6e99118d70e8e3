-------------------------- MODULE IntegrityProofs --------------------------
(***************************************************************************)
(* The upgrades from version 18 lose nothing of what the scans found: for  *)
(* any root, any number of scans and any number of kills.                  *)
(***************************************************************************)
EXTENDS IntegrityProperties, FiniteSetTheorems, WellFoundedInduction, TLAPS

\* What scan s found of item i; S is the history, what each scan found.
Found(S, i, s) == S[s][i] # Absent

\* What a row is read for.
RowLike(v) == {"item", "first", "last", "added", "deleted", "meta"} \subseteq DOMAIN v

\* The rows H of item i tell of scans 1..n what they found: those that are
\* not deleted cover the scans that found it, and no others.
Told(S, H, i, n) ==
  /\ \A v \in H : v.first \in 1..n /\ v.last \in Nat /\ v.first <= v.last /\ v.last <= n
  /\ \A v, w \in H : v # w => v.last < w.first \/ w.last < v.first
  /\ \A s \in 1..n : Found(S, i, s) => \E v \in H : ~v.deleted /\ v.first <= s /\ s <= v.last
  /\ \A v \in H : ~v.deleted => \A s \in v.first..v.last : Found(S, i, s) /\ v.meta = S[s][i].meta

\* The next row begins where one ends that is not deleted.
Unbroken(H, n) == \A v \in H : ~v.deleted /\ v.last < n => \E w \in H : w.first = v.last + 1

\* A row that is no addition goes on from one that is not deleted; a deleted
\* one says that the item was not there.
Continued(H) == \A v \in H : ~v.deleted /\ ~v.added => \E p \in H : ~p.deleted /\ v.first = p.last + 1
Gone(S, H, i) == \A v \in H : v.deleted => \A s \in v.first..v.last : ~Found(S, i, s)

\* What is kept of an item.  Before phantoms are folded it is also unbroken.
Present(S, H, i, n) ==
  /\ Told(S, H, i, n)
  /\ i \in Folders => Unbroken(H, n) /\ Continued(H) /\ Gone(S, H, i)
Past(S, H, i, n) == Present(S, H, i, n) /\ Unbroken(H, n)

\* Rows that tell the same.
Alike(x, v) == x.first = v.first /\ x.last = v.last /\ x.deleted = v.deleted /\ x.meta = v.meta
-----------------------------------------------------------------------------
LEMMA Least ==
  ASSUME NEW S \in SUBSET Nat, S # {}
  PROVE  \E k \in S : \A j \in S : k <= j
<1>1. \A n, k \in Nat : n < k => <<n, k>> \in OpToRel(<, Nat)
  BY Zenon DEF OpToRel
<1>2. PICK R : IsWellFoundedOn(R, Nat) /\ \A n, k \in Nat : n < k => <<n, k>> \in R
  BY <1>1, NatLessThanWellFounded, Zenon
<1>3. PICK k \in S : \A n \in S : ~ (<<n, k>> \in R)
  <2>1. IsWellFoundedOn(R, Nat)
    BY <1>2
  <2> QED
    BY <2>1, WFMin, Zenon
<1>4. ASSUME NEW n \in S PROVE k <= n
  <2>1. n \in Nat /\ k \in Nat /\ ~ (n < k)
    BY <1>2, <1>3
  <2> QED
    BY <2>1
<1> QED
  BY <1>3, <1>4

LEMMA Greatest ==
  ASSUME NEW N \in Nat, NEW S \in SUBSET Nat, S # {}, \A j \in S : j <= N
  PROVE  \E k \in S : \A j \in S : j <= k
<1> DEFINE T == {N - j : j \in S}
<1>1. T \in SUBSET Nat /\ T # {}
  <2>1. \A j \in S : N - j \in Nat
    OBVIOUS
  <2> QED
    BY <2>1
<1>2. PICK k \in T : \A j \in T : k <= j
  <2> HIDE DEF T
  <2> QED
    BY <1>1, Least
<1>3. PICK m \in S : k = N - m
  OBVIOUS
<1>4. ASSUME NEW j \in S PROVE j <= m
  <2>1. N - j \in T /\ j \in Nat /\ m \in Nat
    OBVIOUS
  <2>2. N - m <= N - j
    BY <1>2, <1>3, <2>1
  <2> QED
    BY <2>1, <2>2
<1> QED
  BY <1>4

\* The version in force is the one row that starts last, and the rows before
\* it have ended.
LEMMA InForce ==
  ASSUME NEW S, NEW R, NEW i, NEW n \in Nat, NEW s \in Nat, Told(S, Of(R, i), i, n)
  PROVE  /\ At(R, i, s) \subseteq Of(R, i)
         /\ \A v \in At(R, i, s) : /\ v.first <= s
                                   /\ \A w \in Of(R, i) : w # v /\ w.first <= s => w.last < v.first
         /\ \A v, w \in At(R, i, s) : v = w
         /\ (\E w \in Of(R, i) : w.first <= s) => At(R, i, s) # {}
<1> DEFINE H == Of(R, i)
<1>1. /\ \A v \in H : v.first \in 1..n /\ v.last \in Nat /\ v.first <= v.last /\ v.last <= n
      /\ \A v, w \in H : v # w => v.last < w.first \/ w.last < v.first
  BY DEF Told
<1>2. At(R, i, s) = {v \in H : v.first <= s /\ \A w \in H : w.first <= s => w.first <= v.first}
  BY DEF At
<1> HIDE DEF H
<1>3. ASSUME NEW v \in At(R, i, s)
      PROVE  v \in H /\ v.first <= s /\ \A w \in H : w # v /\ w.first <= s => w.last < v.first
  <2>1. v \in H /\ v.first <= s /\ \A w \in H : w.first <= s => w.first <= v.first
    BY <1>2
  <2>2. ASSUME NEW w \in H, w # v, w.first <= s PROVE w.last < v.first
    <3>1. w.first <= v.first /\ v.first <= v.last /\ v.first \in Nat /\ v.last \in Nat /\ w.first \in Nat
      BY <1>1, <2>1, <2>2
    <3> QED
      BY <1>1, <2>1, <2>2, <3>1
  <2> QED
    BY <2>1, <2>2
<1>4. ASSUME NEW v \in At(R, i, s), NEW w \in At(R, i, s), v # w PROVE FALSE
  <2>1. v \in H /\ w \in H /\ w.last < v.first /\ v.last < w.first
    BY <1>3, <1>4
  <2> QED
    BY <1>1, <2>1
<1>5. ASSUME NEW w \in H, w.first <= s PROVE At(R, i, s) # {}
  <2> DEFINE K == {v.first : v \in {x \in H : x.first <= s}}
  <2>1. K \in SUBSET Nat /\ K # {} /\ \A j \in K : j <= s
    BY <1>1, <1>5
  <2>2. PICK k \in K : \A j \in K : j <= k
    <3> HIDE DEF K
    <3> QED
      BY <2>1, Greatest
  <2>3. PICK v \in H : v.first = k /\ v.first <= s
    BY <2>2
  <2>4. \A x \in H : x.first <= s => x.first <= v.first
    BY <2>2, <2>3
  <2> QED
    BY <1>2, <2>3, <2>4
<1> QED
  BY <1>3, <1>4, <1>5 DEF H
-----------------------------------------------------------------------------
\* What an update leaves of a row.
LEMMA NewLast ==
  ASSUME NEW v, RowLike(v), NEW n
  PROVE  /\ RowLike([v EXCEPT !.last = n])
         /\ [v EXCEPT !.last = n].item = v.item
         /\ [v EXCEPT !.last = n].first = v.first
         /\ [v EXCEPT !.last = n].last = n
         /\ [v EXCEPT !.last = n].added = v.added
         /\ [v EXCEPT !.last = n].deleted = v.deleted
         /\ [v EXCEPT !.last = n].meta = v.meta
BY DEF RowLike

LEMMA NewMeta ==
  ASSUME NEW v, RowLike(v), NEW x
  PROVE  /\ RowLike([v EXCEPT !.meta = x])
         /\ [v EXCEPT !.meta = x].item = v.item
         /\ [v EXCEPT !.meta = x].first = v.first
         /\ [v EXCEPT !.meta = x].last = v.last
         /\ [v EXCEPT !.meta = x].added = v.added
         /\ [v EXCEPT !.meta = x].deleted = v.deleted
         /\ [v EXCEPT !.meta = x].meta = x
BY DEF RowLike

\* Rows that tell the same, of folders also what is an addition.
Similar(i, x, v) == Alike(x, v) /\ (i \in Folders => x.added = v.added)
Same(x, v) == RowLike(x) /\ x.item = v.item /\ x.added = v.added /\ Alike(x, v)

LEMMA OtherFields ==
  ASSUME NEW v, RowLike(v), NEW x
  PROVE  /\ Same([v EXCEPT !.counts = x], v) /\ Same([v EXCEPT !.states = x], v)
         /\ Same([v EXCEPT !.hashState = x], v) /\ Same([v EXCEPT !.version = x], v)
         /\ Same([v EXCEPT !.hashScan = x], v) /\ Same([v EXCEPT !.valScan = x], v)
         /\ Same([v EXCEPT !.hash = x], v) /\ Same([v EXCEPT !.val = x], v)
BY DEF RowLike, Same, Alike

LEMMA StartedRow ==
  ASSUME NEW v, RowLike(v), NEW s
  PROVE  /\ RowLike(Started(v, s)) /\ Started(v, s).item = v.item
         /\ Started(v, s).first = s /\ Started(v, s).last = s
         /\ ~Started(v, s).added
         /\ Started(v, s).deleted = v.deleted /\ Started(v, s).meta = v.meta
BY DEF RowLike, Started

LEMMA DeletedRow ==
  ASSUME NEW v, RowLike(v)
  PROVE  LET u == [v EXCEPT !.deleted = TRUE]
         IN /\ RowLike(u) /\ u.item = v.item /\ u.first = v.first /\ u.last = v.last
            /\ u.added = v.added /\ u.deleted /\ u.meta = v.meta
BY DEF RowLike

LEMMA FreshRow ==
  ASSUME NEW i, NEW s, NEW m
  PROVE  /\ RowLike(Fresh(i, s, m)) /\ Fresh(i, s, m).item = i
         /\ Fresh(i, s, m).first = s /\ Fresh(i, s, m).last = s
         /\ Fresh(i, s, m).added /\ ~Fresh(i, s, m).deleted
         /\ Fresh(i, s, m).meta = m
BY DEF RowLike, Fresh

LEMMA AnalysedRow ==
  ASSUME NEW v, RowLike(v), NEW o, NEW s
  PROVE  LET u == Analysed(v, o, s)
         IN /\ RowLike(u) /\ u.item = v.item /\ u.first = v.first /\ u.last = v.last
            /\ u.added = v.added /\ u.deleted = v.deleted /\ u.meta = o.meta
<1> DEFINE state == IF o.hash = v.hash THEN v.hashState
                    ELSE IF v.hash # None /\ v.meta = o.meta THEN 2 ELSE 1
           hashed == IF o.hash = None THEN v
                     ELSE [v EXCEPT !.hash = o.hash, !.hashScan = s, !.hashState = state]
<1>1. Same(hashed, v)
  <2> HIDE DEF state
  <2> QED
    BY DEF Same, Alike, RowLike
<1>2. \/ Analysed(v, o, s) = [hashed EXCEPT !.meta = o.meta]
      \/ Analysed(v, o, s) = [hashed EXCEPT !.meta = o.meta, !.val = o.val, !.valScan = s]
  BY Zenon DEF Analysed
<1> HIDE DEF hashed
<1> QED
  BY <1>1, <1>2 DEF Same, Alike, RowLike
\* The three ways a row begins.
LEMMA FoundRow ==
  ASSUME NEW i, NEW s, NEW o
  PROVE  LET x == Analysed(Fresh(i, s, o.meta), o, s)
         IN /\ RowLike(x) /\ x.item = i /\ x.first = s /\ x.last = s
            /\ ~x.deleted /\ x.added /\ x.meta = o.meta
<1> DEFINE u == Fresh(i, s, o.meta)
<1>1. RowLike(u) /\ u.item = i /\ u.first = s /\ u.last = s /\ u.added /\ ~u.deleted
  BY FreshRow
<1> HIDE DEF u
<1>2. LET x == Analysed(u, o, s)
      IN /\ RowLike(x) /\ x.item = u.item /\ x.first = u.first /\ x.last = u.last
         /\ x.added = u.added /\ x.deleted = u.deleted /\ x.meta = o.meta
  BY <1>1, AnalysedRow
<1> QED
  BY <1>1, <1>2 DEF u

LEMMA ChangedRow ==
  ASSUME NEW v, RowLike(v), ~v.deleted, NEW s, NEW o
  PROVE  LET x == Analysed(Started(v, s), o, s)
         IN /\ RowLike(x) /\ x.item = v.item /\ x.first = s /\ x.last = s
            /\ ~x.deleted /\ ~x.added /\ x.meta = o.meta
<1> DEFINE u == Started(v, s)
<1>1. /\ RowLike(u) /\ u.item = v.item /\ u.first = s /\ u.last = s
      /\ ~u.added /\ u.deleted = v.deleted
  BY StartedRow
<1> HIDE DEF u
<1>2. LET x == Analysed(u, o, s)
      IN /\ RowLike(x) /\ x.item = u.item /\ x.first = u.first /\ x.last = u.last
         /\ x.added = u.added /\ x.deleted = u.deleted /\ x.meta = o.meta
  BY <1>1, AnalysedRow
<1> QED
  BY <1>1, <1>2 DEF u

LEMMA LostRow ==
  ASSUME NEW v, RowLike(v), NEW s
  PROVE  LET x == [Started(v, s) EXCEPT !.deleted = TRUE]
         IN /\ RowLike(x) /\ x.item = v.item /\ x.first = s /\ x.last = s
            /\ x.deleted /\ ~x.added
<1> DEFINE u == Started(v, s)
<1>1. RowLike(u) /\ u.item = v.item /\ u.first = s /\ u.last = s /\ ~u.added
  BY StartedRow
<1> HIDE DEF u
<1>2. LET x == [u EXCEPT !.deleted = TRUE]
      IN /\ RowLike(x) /\ x.item = u.item /\ x.first = u.first /\ x.last = u.last
         /\ x.added = u.added /\ x.deleted
  BY <1>1, DeletedRow
<1> QED
  BY <1>1, <1>2 DEF u
-----------------------------------------------------------------------------
\* Histories.  G tells what H tells.
LEMMA AlikePresent ==
  ASSUME NEW S, NEW H, NEW G, NEW i, NEW n \in Nat, Present(S, H, i, n),
         \A x \in G : \E v \in H : Similar(i, x, v),
         \A v \in H : \E x \in G : Similar(i, x, v),
         \A x, y \in G : x.first = y.first => x = y
  PROVE  Present(S, G, i, n) /\ (Unbroken(H, n) => Unbroken(G, n))
<1>1. Told(S, G, i, n)
  <2>1. /\ \A v \in H : v.first \in 1..n /\ v.last \in Nat /\ v.first <= v.last /\ v.last <= n
        /\ \A v, w \in H : v # w => v.last < w.first \/ w.last < v.first
        /\ \A s \in 1..n : Found(S, i, s) => \E v \in H : ~v.deleted /\ v.first <= s /\ s <= v.last
        /\ \A v \in H : ~v.deleted => \A s \in v.first..v.last : Found(S, i, s) /\ v.meta = S[s][i].meta
    BY DEF Present, Told
  <2>2. \A v \in G : v.first \in 1..n /\ v.last \in Nat /\ v.first <= v.last /\ v.last <= n
    BY <2>1 DEF Similar, Alike
  <2>3. \A v, w \in G : v # w => v.last < w.first \/ w.last < v.first
    <3> SUFFICES ASSUME NEW x \in G, NEW y \in G, x # y PROVE x.last < y.first \/ y.last < x.first
      OBVIOUS
    <3>1. PICK v \in H : Similar(i, x, v)
      OBVIOUS
    <3>2. PICK w \in H : Similar(i, y, w)
      OBVIOUS
    <3>3. v # w
      BY <3>1, <3>2 DEF Similar, Alike
    <3> QED
      BY <2>1, <3>1, <3>2, <3>3 DEF Similar, Alike
  <2>4. \A s \in 1..n : Found(S, i, s) => \E v \in G : ~v.deleted /\ v.first <= s /\ s <= v.last
    <3> SUFFICES ASSUME NEW s \in 1..n, Found(S, i, s)
                 PROVE  \E v \in G : ~v.deleted /\ v.first <= s /\ s <= v.last
      OBVIOUS
    <3>1. PICK v \in H : ~v.deleted /\ v.first <= s /\ s <= v.last
      BY <2>1
    <3>2. PICK x \in G : Similar(i, x, v)
      OBVIOUS
    <3> QED
      BY <3>1, <3>2 DEF Similar, Alike
  <2>5. \A v \in G : ~v.deleted => \A s \in v.first..v.last : Found(S, i, s) /\ v.meta = S[s][i].meta
    <3> SUFFICES ASSUME NEW x \in G, ~x.deleted, NEW s \in x.first..x.last
                 PROVE  Found(S, i, s) /\ x.meta = S[s][i].meta
      OBVIOUS
    <3>1. PICK v \in H : Similar(i, x, v)
      OBVIOUS
    <3> QED
      BY <2>1, <3>1 DEF Similar, Alike
  <2> QED
    BY <2>2, <2>3, <2>4, <2>5 DEF Told
<1>2. ASSUME Unbroken(H, n) PROVE Unbroken(G, n)
  <2> SUFFICES ASSUME NEW x \in G, ~x.deleted, x.last < n PROVE \E y \in G : y.first = x.last + 1
    BY DEF Unbroken
  <2>1. PICK v \in H : Similar(i, x, v)
    OBVIOUS
  <2>2. PICK w \in H : w.first = v.last + 1
    BY <1>2, <2>1 DEF Unbroken, Similar, Alike
  <2>3. PICK y \in G : Similar(i, y, w)
    OBVIOUS
  <2> QED
    BY <2>1, <2>2, <2>3 DEF Similar, Alike
<1>3. ASSUME i \in Folders, Continued(H) PROVE Continued(G)
  <2> SUFFICES ASSUME NEW x \in G, ~x.deleted, ~x.added
               PROVE  \E p \in G : ~p.deleted /\ x.first = p.last + 1
    BY DEF Continued
  <2>1. PICK v \in H : Similar(i, x, v)
    OBVIOUS
  <2>2. PICK w \in H : ~w.deleted /\ v.first = w.last + 1
    BY <1>3, <2>1 DEF Continued, Similar, Alike
  <2>3. PICK y \in G : Similar(i, y, w)
    OBVIOUS
  <2> QED
    BY <2>1, <2>2, <2>3 DEF Similar, Alike
<1>4. ASSUME Gone(S, H, i) PROVE Gone(S, G, i)
  BY <1>4 DEF Gone, Similar, Alike
<1> QED
  BY <1>1, <1>2, <1>3, <1>4 DEF Present

\* A row of another scan comes after the others.
LEMMA Appended ==
  ASSUME NEW S, NEW H, NEW i, NEW n \in Nat, Past(S, H, i, n), NEW x,
         x.first = n + 1, x.last = n + 1,
         ~x.deleted => Found(S, i, n + 1) /\ x.meta = S[n + 1][i].meta,
         x.deleted => ~Found(S, i, n + 1),
         ~x.deleted /\ ~x.added => \E p \in H : ~p.deleted /\ p.last = n
  PROVE  Past(S, H \cup {x}, i, n + 1)
<1> DEFINE G == H \cup {x}
<1>1. /\ \A v \in H : v.first \in 1..n /\ v.last \in Nat /\ v.first <= v.last /\ v.last <= n
      /\ \A v, w \in H : v # w => v.last < w.first \/ w.last < v.first
      /\ \A s \in 1..n : Found(S, i, s) => \E v \in H : ~v.deleted /\ v.first <= s /\ s <= v.last
      /\ \A v \in H : ~v.deleted => \A s \in v.first..v.last : Found(S, i, s) /\ v.meta = S[s][i].meta
  BY DEF Past, Present, Told
<1>2. Told(S, G, i, n + 1)
  <2>1. \A v \in G : v.first \in 1..(n + 1) /\ v.last \in Nat /\ v.first <= v.last /\ v.last <= n + 1
    BY <1>1
  <2>2. \A v, w \in G : v # w => v.last < w.first \/ w.last < v.first
    BY <1>1
  <2>3. ASSUME NEW s \in 1..(n + 1), Found(S, i, s)
        PROVE  \E v \in G : ~v.deleted /\ v.first <= s /\ s <= v.last
    <3>1. CASE s = n + 1
      <4>1. ~x.deleted
        BY <2>3, <3>1
      <4> QED
        BY <3>1, <4>1
    <3>2. CASE s # n + 1
      <4>1. s \in 1..n
        BY <3>2
      <4> QED
        BY <1>1, <2>3, <4>1
    <3> QED
      BY <3>1, <3>2
  <2>4. ASSUME NEW v \in G, ~v.deleted, NEW s \in v.first..v.last
        PROVE  Found(S, i, s) /\ v.meta = S[s][i].meta
    <3>1. CASE v \in H
      BY <1>1, <2>4, <3>1
    <3>2. CASE v = x
      <4>1. s = n + 1
        BY <3>2
      <4> QED
        BY <2>4, <3>2, <4>1
    <3> QED
      BY <3>1, <3>2
  <2> HIDE DEF G
  <2> QED
    BY <2>1, <2>2, <2>3, <2>4 DEF Told
<1>3. Unbroken(G, n + 1)
  <2> SUFFICES ASSUME NEW v \in G, ~v.deleted, v.last < n + 1 PROVE \E w \in G : w.first = v.last + 1
    BY Zenon DEF Unbroken
  <2>1. v \in H
    OBVIOUS
  <2>2. CASE v.last = n
    BY <2>2
  <2>3. CASE v.last # n
    <3>1. v.last < n
      BY <1>1, <2>1, <2>3
    <3> QED
      BY <2>1, <3>1 DEF Past, Unbroken
  <2> QED
    BY <2>2, <2>3
<1>4. ASSUME Continued(H) PROVE Continued(G)
  BY <1>4 DEF Continued
<1>5. ASSUME Gone(S, H, i) PROVE Gone(S, G, i)
  <2> SUFFICES ASSUME NEW v \in G, v.deleted, NEW s \in v.first..v.last PROVE ~Found(S, i, s)
    BY DEF Gone
  <2>1. CASE v \in H
    BY <1>5, <2>1 DEF Gone
  <2>2. CASE v = x
    <3>1. s = n + 1
      BY <2>2
    <3> QED
      BY <2>2, <3>1
  <2> QED
    BY <2>1, <2>2
<1> HIDE DEF G
<1>6. Past(S, G, i, n + 1)
  BY <1>2, <1>3, <1>4, <1>5 DEF Past, Present
<1> QED
  BY <1>6 DEF G

\* The last row goes on for another scan.
LEMMA Stretched ==
  ASSUME NEW S, NEW H, NEW i, NEW n \in Nat, Past(S, H, i, n), NEW v \in H, NEW x,
         ~v.deleted, v.last = n,
         x.first = v.first, x.last = n + 1, x.added = v.added, x.deleted = v.deleted, x.meta = v.meta,
         Found(S, i, n + 1), v.meta = S[n + 1][i].meta
  PROVE  Past(S, (H \ {v}) \cup {x}, i, n + 1)
<1> DEFINE G == (H \ {v}) \cup {x}
<1>1. /\ \A u \in H : u.first \in 1..n /\ u.last \in Nat /\ u.first <= u.last /\ u.last <= n
      /\ \A u, w \in H : u # w => u.last < w.first \/ w.last < u.first
      /\ \A s \in 1..n : Found(S, i, s) => \E u \in H : ~u.deleted /\ u.first <= s /\ s <= u.last
      /\ \A u \in H : ~u.deleted => \A s \in u.first..u.last : Found(S, i, s) /\ u.meta = S[s][i].meta
  BY DEF Past, Present, Told
<1>2. \A u \in H \ {v} : u.last < v.first
  BY <1>1
<1>3. Told(S, G, i, n + 1)
  <2>1. \A u \in G : u.first \in 1..(n + 1) /\ u.last \in Nat /\ u.first <= u.last /\ u.last <= n + 1
    BY <1>1
  <2>2. \A u, w \in G : u # w => u.last < w.first \/ w.last < u.first
    BY <1>1, <1>2
  <2>3. ASSUME NEW s \in 1..(n + 1), Found(S, i, s)
        PROVE  \E u \in G : ~u.deleted /\ u.first <= s /\ s <= u.last
    <3>1. CASE s = n + 1
      BY <1>1, <3>1
    <3>2. CASE s # n + 1
      <4>1. s \in 1..n
        BY <3>2
      <4>2. PICK u \in H : ~u.deleted /\ u.first <= s /\ s <= u.last
        BY <1>1, <2>3, <4>1
      <4> QED
        BY <1>1, <4>1, <4>2
    <3> QED
      BY <3>1, <3>2
  <2>4. ASSUME NEW u \in G, ~u.deleted, NEW s \in u.first..u.last
        PROVE  Found(S, i, s) /\ u.meta = S[s][i].meta
    <3>1. CASE u \in H
      BY <1>1, <2>4, <3>1
    <3>2. CASE u = x /\ s = n + 1
      BY <3>2
    <3>3. CASE u = x /\ s # n + 1
      <4>1. s \in v.first..v.last
        BY <1>1, <3>3
      <4> QED
        BY <1>1, <3>3, <4>1
    <3> QED
      BY <3>1, <3>2, <3>3
  <2> HIDE DEF G
  <2> QED
    BY <2>1, <2>2, <2>3, <2>4 DEF Told
<1>4. Unbroken(G, n + 1)
  <2> SUFFICES ASSUME NEW u \in G, ~u.deleted, u.last < n + 1 PROVE \E w \in G : w.first = u.last + 1
    BY Zenon DEF Unbroken
  <2>1. u \in H /\ u # v /\ u.last < n
    BY <1>1, <1>2
  <2>2. PICK w \in H : w.first = u.last + 1
    BY <2>1 DEF Past, Unbroken
  <2> QED
    BY <2>2
<1>5. ASSUME Continued(H) PROVE Continued(G)
  <2> SUFFICES ASSUME NEW u \in G, ~u.deleted, ~u.added
               PROVE  \E p \in G : ~p.deleted /\ u.first = p.last + 1
    BY DEF Continued
  <2>1. PICK w \in H : w.first = u.first /\ ~w.deleted /\ ~w.added
    OBVIOUS
  <2>2. PICK p \in H : ~p.deleted /\ w.first = p.last + 1
    BY <1>5, <2>1 DEF Continued
  <2>3. p # v
    BY <1>1, <2>1, <2>2
  <2> QED
    BY <2>1, <2>2, <2>3
<1>6. ASSUME Gone(S, H, i) PROVE Gone(S, G, i)
  BY <1>6 DEF Gone
<1> HIDE DEF G
<1>7. Past(S, G, i, n + 1)
  BY <1>3, <1>4, <1>5, <1>6 DEF Past, Present
<1> QED
  BY <1>7 DEF G

\* Nothing new: the item was away and still is.
LEMMA StillAway ==
  ASSUME NEW S, NEW H, NEW i, NEW n \in Nat, Past(S, H, i, n), ~Found(S, i, n + 1),
         \A v \in H : v.last = n => v.deleted
  PROVE  Past(S, H, i, n + 1)
<1>1. /\ \A v \in H : v.first \in 1..n /\ v.last \in Nat /\ v.first <= v.last /\ v.last <= n
      /\ \A v, w \in H : v # w => v.last < w.first \/ w.last < v.first
      /\ \A s \in 1..n : Found(S, i, s) => \E v \in H : ~v.deleted /\ v.first <= s /\ s <= v.last
      /\ \A v \in H : ~v.deleted => \A s \in v.first..v.last : Found(S, i, s) /\ v.meta = S[s][i].meta
  BY DEF Past, Present, Told
<1>2. Told(S, H, i, n + 1)
  <2>1. \A v \in H : v.first \in 1..(n + 1) /\ v.last <= n + 1
    BY <1>1
  <2>2. \A s \in 1..(n + 1) : Found(S, i, s) => s \in 1..n
    OBVIOUS
  <2> QED
    BY <1>1, <2>1, <2>2 DEF Told
<1>3. Unbroken(H, n + 1)
  <2> SUFFICES ASSUME NEW u \in H, ~u.deleted, u.last < n + 1 PROVE \E w \in H : w.first = u.last + 1
    BY DEF Unbroken
  <2>1. u.last < n
    BY <1>1
  <2> QED
    BY <2>1 DEF Past, Unbroken
<1> QED
  BY <1>2, <1>3 DEF Past, Present
-----------------------------------------------------------------------------
\* The row in force at the last scan is the one that ends last.
LEMMA Latest ==
  ASSUME NEW S, NEW R, NEW i, NEW n \in Nat, n <= LastScan, Past(S, Of(R, i), i, n)
  PROVE  /\ Newest(R, i) \subseteq Of(R, i)
         /\ \A v, w \in Newest(R, i) : v = w
         /\ \A v \in Of(R, i) : v.last = n => v \in Newest(R, i)
         /\ \A v \in Newest(R, i) : ~v.deleted => v.last = n
         /\ \A v \in Newest(R, i), w \in Of(R, i) : w # v => w.last < v.first
<1> DEFINE H == Of(R, i)
<1>0. LastScan \in Nat
  BY RowsAssumption
<1>1. /\ \A v \in H : v.first \in 1..n /\ v.last \in Nat /\ v.first <= v.last /\ v.last <= n
      /\ \A v, w \in H : v # w => v.last < w.first \/ w.last < v.first
  BY DEF Past, Present, Told
<1>2. Newest(R, i) = {v \in H : v.first <= LastScan /\ \A w \in H : w.first <= LastScan => w.first <= v.first}
  BY DEF At, Newest
<1>3. Unbroken(H, n)
  BY DEF Past
<1> HIDE DEF H
<1>4. \A v \in H : v.first <= LastScan
  BY <1>0, <1>1
<1>5. Newest(R, i) = {v \in H : \A w \in H : w.first <= v.first}
  BY <1>2, <1>4
<1>6. ASSUME NEW v \in Newest(R, i), NEW w \in H, w # v PROVE w.last < v.first
  <2>1. v \in H /\ w.first <= v.first
    BY <1>5
  <2> QED
    BY <1>1, <1>6, <2>1
<1>7. ASSUME NEW v \in Newest(R, i), NEW w \in Newest(R, i) PROVE v = w
  <2> SUFFICES ASSUME v # w PROVE FALSE
    OBVIOUS
  <2>1. v \in H /\ w \in H
    BY <1>5
  <2>2. w.last < v.first /\ v.last < w.first
    BY <1>6, <2>1
  <2> QED
    BY <1>1, <2>1, <2>2
<1>8. ASSUME NEW v \in H, v.last = n PROVE v \in Newest(R, i)
  <2> SUFFICES ASSUME NEW w \in H, ~(w.first <= v.first) PROVE FALSE
    BY <1>5
  <2>1. w # v
    BY <1>1, <1>8
  <2> QED
    BY <1>1, <1>8, <2>1
<1>9. ASSUME NEW v \in Newest(R, i), ~v.deleted PROVE v.last = n
  <2> SUFFICES ASSUME v.last # n PROVE FALSE
    OBVIOUS
  <2>1. v \in H /\ v.last < n
    BY <1>1, <1>5
  <2>2. PICK w \in H : w.first = v.last + 1
    BY <1>3, <1>9, <2>1 DEF Unbroken
  <2> QED
    BY <1>1, <1>5, <2>1, <2>2
<1> QED
  BY <1>5, <1>6, <1>7, <1>8, <1>9 DEF H

\* What finding o in scan s makes of the rows H of item i, which end by n:
\* still away, gone, come, changed, or as before.
Gained(H, G, i, s, x) ==
  /\ G = H \cup {x} /\ RowLike(x) /\ x.item = i /\ x.first = s /\ x.last = s
Lasting(v, x) == x.first = v.first /\ x.added = v.added /\ x.deleted = v.deleted /\ x.meta = v.meta

Noticed(H, G, o, i, s, n) ==
  \/ o = Absent /\ G = H /\ \A v \in H : v.last = n => v.deleted
  \/ /\ o = Absent
     /\ \E x : Gained(H, G, i, s, x) /\ x.deleted
  \/ /\ o # Absent
     /\ \E x : /\ Gained(H, G, i, s, x) /\ ~x.deleted /\ x.meta = o.meta
               /\ ~x.added => \E v \in H : ~v.deleted /\ v.last = n
  \/ /\ o # Absent
     /\ \E v \in H : \E x :
          /\ ~v.deleted /\ v.last = n /\ v.meta = o.meta
          /\ G = (H \ {v}) \cup {x}
          /\ RowLike(x) /\ x.item = i /\ x.last = s /\ Lasting(v, x)

LEMMA ObservedCases ==
  ASSUME NEW S, NEW R, NEW i, NEW o, NEW s, NEW n \in Nat, n <= LastScan, Past(S, Of(R, i), i, n),
         \A v \in Of(R, i) : RowLike(v)
  PROVE  Noticed(Of(R, i), Observed(R, i, o, s), o, i, s, n)
<1> DEFINE cur == Newest(R, i)
           alive == {v \in cur : ~v.deleted}
<1>1. /\ cur \subseteq Of(R, i)
      /\ \A v, w \in cur : v = w
      /\ \A v \in Of(R, i) : v.last = n => v \in cur
      /\ \A v \in cur : ~v.deleted => v.last = n
  BY Latest
<1>0. \A v \in Of(R, i) : v.item = i
  BY DEF Of
<1>2. CASE alive = {} /\ o = Absent
  <2>1. Observed(R, i, o, s) = Of(R, i) \cup {[Started(v, s) EXCEPT !.deleted = TRUE] : v \in alive}
    BY <1>2 DEF Observed
  <2> QED
    BY <1>1, <1>2, <2>1 DEF Noticed
<1>3. CASE alive = {} /\ o # Absent
  <2> DEFINE x == Analysed(Fresh(i, s, o.meta), o, s)
  <2>1. Observed(R, i, o, s) = Of(R, i) \cup {x}
    BY <1>3 DEF Observed
  <2>2. /\ RowLike(x) /\ x.item = i /\ x.first = s /\ x.last = s
        /\ ~x.deleted /\ x.added /\ x.meta = o.meta
    BY FoundRow
  <2> HIDE DEF x
  <2> QED
    BY <1>3, <2>1, <2>2 DEF Noticed, Gained
<1>4. CASE alive # {}
  <2>1. PICK v \in alive : TRUE
    BY <1>4
  <2>2. alive = {v} /\ v \in Of(R, i) /\ ~v.deleted /\ v.last = n /\ RowLike(v) /\ cur = {v}
    BY <1>1, <2>1
  <2>3. CASE o = Absent
    <3> DEFINE x == [Started(v, s) EXCEPT !.deleted = TRUE]
    <3>1. Observed(R, i, o, s) = Of(R, i) \cup {[Started(w, s) EXCEPT !.deleted = TRUE] : w \in alive}
      BY <2>3 DEF Observed
    <3>2. Observed(R, i, o, s) = Of(R, i) \cup {x}
      BY <3>1, <2>2
    <3>3. /\ RowLike(x) /\ x.item = v.item /\ x.first = s /\ x.last = s
          /\ x.deleted /\ ~x.added
      BY <2>2, LostRow
    <3> HIDE DEF x
    <3> QED
      BY <1>0, <2>2, <2>3, <3>2, <3>3 DEF Noticed, Gained
  <2>4. CASE o # Absent /\ (v.meta # o.meta \/ Learns(v, o))
    <3> DEFINE x == Analysed(Started(v, s), o, s)
    <3>1. Observed(R, i, o, s) = Of(R, i) \cup {Analysed(Started(w, s), o, s) : w \in alive}
      BY <1>4, <2>4, <2>2 DEF Observed
    <3>2. Observed(R, i, o, s) = Of(R, i) \cup {x}
      BY <3>1, <2>2
    <3>3. /\ RowLike(x) /\ x.item = v.item /\ x.first = s /\ x.last = s
          /\ ~x.deleted /\ ~x.added /\ x.meta = o.meta
      BY <2>2, ChangedRow
    <3> HIDE DEF x
    <3> QED
      BY <1>0, <2>2, <2>4, <3>2, <3>3 DEF Noticed, Gained
  <2>5. CASE o # Absent /\ ~(v.meta # o.meta \/ Learns(v, o))
    <3> DEFINE x == [Analysed(v, o, s) EXCEPT !.last = s]
    <3>1. Observed(R, i, o, s) = (Of(R, i) \ cur) \cup {[Analysed(w, o, s) EXCEPT !.last = s] : w \in alive}
      BY <1>4, <2>5, <2>2 DEF Observed
    <3>2. Observed(R, i, o, s) = (Of(R, i) \ {v}) \cup {x}
      BY <3>1, <2>2
    <3>3. /\ RowLike(x) /\ x.item = v.item /\ x.first = v.first /\ x.last = s
          /\ x.deleted = v.deleted /\ x.added = v.added /\ x.meta = v.meta
      <4>1. RowLike(Analysed(v, o, s))
        BY <2>2, AnalysedRow
      <4> QED
        BY <4>1, <2>2, <2>5, NewLast, AnalysedRow
    <3> HIDE DEF x
    <3> QED
      BY <1>0, <2>2, <2>5, <3>2, <3>3 DEF Noticed, Lasting
  <2> QED
    BY <2>3, <2>4, <2>5
<1> QED
  BY <1>2, <1>3, <1>4
LEMMA NoticedRows ==
  ASSUME NEW H, NEW G, NEW o, NEW i, NEW s, NEW n, Noticed(H, G, o, i, s, n),
         \A v \in H : RowLike(v) /\ v.item = i
  PROVE  \A x \in G : RowLike(x) /\ x.item = i
BY DEF Noticed, Gained

\* The rows tell of that scan too.
LEMMA NoticedPast ==
  ASSUME NEW S, NEW H, NEW G, NEW i, NEW n \in Nat, Past(S, H, i, n),
         Noticed(H, G, S[n + 1][i], i, n + 1, n)
  PROVE  Past(S, G, i, n + 1)
<1> DEFINE o == S[n + 1][i]
<1>1. Found(S, i, n + 1) <=> o # Absent
  BY DEF Found
<1> HIDE DEF o
<1>2. CASE o = Absent /\ G = H /\ \A v \in H : v.last = n => v.deleted
  BY <1>1, <1>2, StillAway
<1>3. ASSUME NEW x, Gained(H, G, i, n + 1, x), x.deleted <=> o = Absent,
             o # Absent => x.meta = o.meta,
             ~x.deleted /\ ~x.added => \E v \in H : ~v.deleted /\ v.last = n
      PROVE  Past(S, G, i, n + 1)
  <2>1. x.first = n + 1 /\ x.last = n + 1 /\ G = H \cup {x}
    BY <1>3 DEF Gained
  <2>2. Past(S, H \cup {x}, i, n + 1)
    BY <1>1, <1>3, <2>1, Appended DEF o
  <2> QED
    BY <2>1, <2>2
<1>4. ASSUME NEW v \in H, NEW x, o # Absent, ~v.deleted, v.last = n, v.meta = o.meta,
             G = (H \ {v}) \cup {x}, x.last = n + 1, Lasting(v, x)
      PROVE  Past(S, G, i, n + 1)
  <2>1. Past(S, (H \ {v}) \cup {x}, i, n + 1)
    BY <1>1, <1>4, Stretched DEF Lasting, o
  <2> QED
    BY <1>4, <2>1
<1>5. Noticed(H, G, o, i, n + 1, n)
  BY DEF o
<1> QED
  BY <1>2, <1>3, <1>4, <1>5 DEF Noticed
-----------------------------------------------------------------------------
\* Rows of version 18.
Proper(R) == \A v \in R : RowLike(v) /\ v.item \in Items

\* What each scan left, one scan after the other.
EachScan(rs, found, s) ==
  rs = [t \in 0..s |-> IF t = 0 THEN {} ELSE UNION {Observed(rs[t - 1], i, found[t][i], t) : i \in Items}]

LEMMA EachScanExists ==
  ASSUME NEW found, NEW s \in Nat
  PROVE  \E rs : EachScan(rs, found, s)
<1> DEFINE Step(R, t) == UNION {Observed(R, i, found[t][i], t) : i \in Items}
           Upto(g, n) == g = [t \in 0..n |-> IF t = 0 THEN {} ELSE Step(g[t - 1], t)]
           Missing == {n \in 0..s : ~ \E g : Upto(g, n)}
<1>1. Missing = {}
  <2> SUFFICES ASSUME Missing # {} PROVE FALSE
    OBVIOUS
  <2>1. Missing \in SUBSET Nat
    OBVIOUS
  <2>2. PICK m \in Missing : \A j \in Missing : m <= j
    <3> HIDE DEF Missing
    <3> QED
      BY <2>1, Least
  <2>3. CASE m = 0
    <3> DEFINE g == [t \in 0..0 |-> {}]
    <3>1. g = [t \in 0..0 |-> IF t = 0 THEN {} ELSE Step(g[t - 1], t)]
      <4> HIDE DEF Step
      <4> QED
        OBVIOUS
    <3>2. Upto(g, 0)
      BY <3>1
    <3> HIDE DEF Upto
    <3> QED
      BY <2>2, <2>3, <3>2
  <2>4. CASE m # 0
    <3>1. m \in Nat /\ m - 1 \in 0..s /\ m - 1 \notin Missing
      <4>1. m \in 0..s
        BY <2>2
      <4> HIDE DEF Missing
      <4>2. ~ (m <= m - 1) /\ m - 1 \in 0..s
        BY <2>4, <4>1
      <4> QED
        BY <2>2, <4>1, <4>2
    <3>2. PICK g : Upto(g, m - 1)
      <4> HIDE DEF Upto
      <4> QED
        BY <3>1
    <3> DEFINE h == [t \in 0..m |-> IF t = m THEN Step(g[m - 1], m) ELSE g[t]]
    <3>3. h = [t \in 0..m |-> IF t = 0 THEN {} ELSE Step(h[t - 1], t)]
      <4> HIDE DEF Step
      <4>1. \A t \in 0..(m - 1) : g[t] = IF t = 0 THEN {} ELSE Step(g[t - 1], t)
        BY <3>2
      <4>2. ASSUME NEW t \in 0..m PROVE h[t] = IF t = 0 THEN {} ELSE Step(h[t - 1], t)
        <5>1. CASE t = m
          BY <5>1, <2>4, <3>1
        <5>2. CASE t # m
          <6>1. t \in 0..(m - 1) /\ h[t] = g[t]
            BY <5>2, <3>1
          <6>2. t # 0 => h[t - 1] = g[t - 1]
            BY <6>1, <3>1
          <6> QED
            BY <6>1, <6>2, <4>1
        <5> QED
          BY <5>1, <5>2
      <4>3. \A t \in 0..m : h[t] = IF t = 0 THEN {} ELSE Step(h[t - 1], t)
        BY <4>2
      <4> QED
        BY <4>3
    <3>4. Upto(h, m)
      BY <3>3
    <3> HIDE DEF Upto
    <3> QED
      BY <2>2, <3>4
  <2> QED
    BY <2>3, <2>4
<1>2. PICK g : Upto(g, s)
  <2> HIDE DEF Upto
  <2> QED
    BY <1>1
<1> QED
  BY <1>2 DEF EachScan

LEMMA EmptyPast ==
  ASSUME NEW S, NEW i
  PROVE  Past(S, {}, i, 0)
BY DEF Past, Present, Told, Unbroken, Continued, Gone

\* Scans tell of themselves,
LEMMA EachScanTells ==
  ASSUME NEW S, NEW n \in 0..LastScan, NEW rs, EachScan(rs, S, n)
  PROVE  \A t \in 0..n : Proper(rs[t]) /\ \A i \in Items : Past(S, Of(rs[t], i), i, t)
<1> DEFINE Good(t) == Proper(rs[t]) /\ \A i \in Items : Past(S, Of(rs[t], i), i, t)
           Bad == {t \in 0..n : ~Good(t)}
<1>0. LastScan \in Nat
  BY RowsAssumption
<1> DEFINE Step(R, t) == UNION {Observed(R, i, S[t][i], t) : i \in Items}
<1>1. rs[0] = {} /\ \A t \in 1..n : rs[t] = Step(rs[t - 1], t)
  <2>1. rs = [t \in 0..n |-> IF t = 0 THEN {} ELSE Step(rs[t - 1], t)]
    BY DEF EachScan
  <2> HIDE DEF Step
  <2>2. \A t \in 0..n : rs[t] = IF t = 0 THEN {} ELSE Step(rs[t - 1], t)
    BY <2>1
  <2> QED
    BY <2>2
<1>2. Good(0)
  <2>1. rs[0] = {}
    BY <1>1
  <2>2. \A i \in Items : Of(rs[0], i) = {}
    BY <2>1 DEF Of
  <2> QED
    BY <2>1, <2>2, EmptyPast DEF Proper
<1>3. ASSUME NEW t \in 1..n, Good(t - 1) PROVE Good(t)
  <2> DEFINE m == t - 1
             R == rs[m]
             G(i) == Observed(R, i, S[t][i], t)
  <2>1. m \in Nat /\ m + 1 = t /\ m + 1 <= LastScan /\ m <= LastScan /\ rs[t] = UNION {G(i) : i \in Items}
    <3>1. rs[t] = UNION {G(i) : i \in Items}
      BY <1>1
    <3> QED
      BY <1>0, <3>1
  <2>2. Proper(R) /\ \A i \in Items : Past(S, Of(R, i), i, m)
    BY <1>3
  <2> HIDE DEF m, R
  <2>3. ASSUME NEW i \in Items
        PROVE  Past(S, G(i), i, t) /\ \A x \in G(i) : RowLike(x) /\ x.item = i
    <3>1. \A v \in Of(R, i) : RowLike(v) /\ v.item = i
      BY <2>2 DEF Proper, Of
    <3>2. Noticed(Of(R, i), G(i), S[t][i], i, t, m)
      BY <2>1, <2>2, <3>1, ObservedCases
    <3>3. \A x \in G(i) : RowLike(x) /\ x.item = i
      BY <3>1, <3>2, NoticedRows
    <3> DEFINE H == Of(R, i)
               K == G(i)
    <3>4. Noticed(H, K, S[m + 1][i], i, m + 1, m) /\ Past(S, H, i, m)
      BY <2>1, <2>2, <3>2
    <3> HIDE DEF H, K
    <3>5. Past(S, K, i, m + 1)
      BY <2>1, <3>4, NoticedPast
    <3> QED
      BY <2>1, <3>3, <3>5 DEF K
  <2>4. Proper(rs[t])
    BY <2>1, <2>3 DEF Proper
  <2>5. ASSUME NEW i \in Items PROVE Of(rs[t], i) = G(i)
    <3> HIDE DEF G
    <3> QED
      BY <2>1, <2>3 DEF Of
  <2> HIDE DEF G
  <2> QED
    BY <2>3, <2>4, <2>5
<1> HIDE DEF Good
<1>4. Bad = {}
  <2> SUFFICES ASSUME Bad # {} PROVE FALSE
    OBVIOUS
  <2>1. Bad \in SUBSET Nat
    OBVIOUS
  <2>2. PICK m \in Bad : \A j \in Bad : m <= j
    <3> HIDE DEF Bad
    <3> QED
      BY <2>1, Least
  <2>3. m \in 1..n /\ m - 1 \in 0..n
    <3>1. m \in 0..n /\ m # 0
      BY <1>2, <2>2
    <3> QED
      BY <3>1
  <2>4. m - 1 \notin Bad
    <3> HIDE DEF Bad
    <3>1. ~ (m <= m - 1)
      BY <2>3
    <3> QED
      BY <2>2, <3>1
  <2>5. Good(m - 1)
    BY <2>3, <2>4
  <2> QED
    BY <1>3, <2>2, <2>3, <2>5
<1> QED
  BY <1>4 DEF Good

\* and so do the rows of version 18 of files.
LEMMA EarlyPast ==
  ASSUME NEW S, NEW n \in 0..LastScan
  PROVE  /\ Proper(EarlyRows(S, n))
         /\ \A i \in Files : Past(S, Of(EarlyRows(S, n), i), i, n)
         /\ n = 0 => EarlyRows(S, n) = {}
<1>0. n \in Nat /\ n \in 0..n /\ LastScan \in Nat
  BY RowsAssumption
<1> DEFINE rs == CHOOSE g : EachScan(g, S, n)
<1>1. EachScan(rs, S, n)
  BY <1>0, EachScanExists, Zenon
<1>2. EarlyRows(S, n) = {[v EXCEPT !.added = FALSE] : v \in rs[n]}
  BY Zenon DEF EarlyRows, EachScan
<1> HIDE DEF rs
<1>3. Proper(rs[n]) /\ \A i \in Items : Past(S, Of(rs[n], i), i, n)
  BY <1>0, <1>1, EachScanTells
<1> DEFINE E(v) == [v EXCEPT !.added = FALSE]
           R == EarlyRows(S, n)
<1>4. \A v \in rs[n] : RowLike(E(v)) /\ E(v).item = v.item /\ Alike(E(v), v)
  BY <1>3 DEF Proper, RowLike, Alike
<1>5. R = {E(v) : v \in rs[n]}
  BY <1>2
<1> HIDE DEF E, R
<1>6. Proper(R)
  BY <1>3, <1>4, <1>5 DEF Proper
<1>7. ASSUME NEW i \in Files PROVE Past(S, Of(R, i), i, n)
  <2>0. i \in Items /\ i \notin Folders
    BY RowsAssumption DEF Items
  <2>1. Past(S, Of(rs[n], i), i, n)
    BY <1>3, <2>0
  <2>2. \A x \in Of(R, i) : \E v \in Of(rs[n], i) : x = E(v) /\ Similar(i, x, v)
    BY <1>4, <1>5, <2>0 DEF Of, Similar
  <2>3. \A v \in Of(rs[n], i) : \E x \in Of(R, i) : Similar(i, x, v)
    BY <1>4, <1>5, <2>0 DEF Of, Similar
  <2>4. \A v, w \in Of(rs[n], i) : v.first = w.first => v = w
    BY <2>1 DEF Past, Present, Told
  <2>5. \A x, y \in Of(R, i) : x.first = y.first => x = y
    <3> SUFFICES ASSUME NEW x \in Of(R, i), NEW y \in Of(R, i), x.first = y.first PROVE x = y
      OBVIOUS
    <3>1. PICK v \in Of(rs[n], i) : x = E(v) /\ Similar(i, x, v)
      BY <2>2
    <3>2. PICK w \in Of(rs[n], i) : y = E(w) /\ Similar(i, y, w)
      BY <2>2
    <3> QED
      BY <2>4, <3>1, <3>2 DEF Similar, Alike
  <2>6. \A x \in Of(R, i) : \E v \in Of(rs[n], i) : Similar(i, x, v)
    BY <2>2
  <2> QED
    BY <1>0, <2>1, <2>3, <2>5, <2>6, AlikePresent DEF Past
<1>8. n = 0 => R = {}
  <2>1. rs[0] = {}
    BY <1>0, <1>1 DEF EachScan
  <2> QED
    BY <1>5, <2>1
<1> QED
  BY <1>6, <1>7, <1>8 DEF R
-----------------------------------------------------------------------------
\* Scans of version 27.
LEMMA ObservedProper ==
  ASSUME NEW R, Proper(R), NEW i \in Items, NEW o, NEW s
  PROVE  \A x \in Observed(R, i, o, s) : RowLike(x) /\ x.item = i
<1> DEFINE cur == Newest(R, i)
           alive == {v \in cur : ~v.deleted}
<1>1. \A v \in Of(R, i) : RowLike(v) /\ v.item = i
  BY DEF Proper, Of
<1>2. alive \subseteq cur /\ cur \subseteq Of(R, i)
  BY DEF Newest, At
<1>3. CASE o = Absent
  <2> DEFINE E(v) == [Started(v, s) EXCEPT !.deleted = TRUE]
  <2>1. Observed(R, i, o, s) = Of(R, i) \cup {E(v) : v \in alive}
    BY <1>3 DEF Observed
  <2>2. \A v \in alive : RowLike(E(v)) /\ E(v).item = i
    BY <1>1, <1>2, LostRow
  <2> HIDE DEF E, alive
  <2> QED
    BY <1>1, <2>1, <2>2
<1>4. CASE o # Absent /\ alive = {}
  <2> DEFINE x == Analysed(Fresh(i, s, o.meta), o, s)
  <2>1. Observed(R, i, o, s) = Of(R, i) \cup {x}
    BY <1>4 DEF Observed
  <2>2. RowLike(x) /\ x.item = i
    BY FoundRow
  <2> HIDE DEF x
  <2> QED
    BY <1>1, <2>1, <2>2
<1>5. CASE o # Absent /\ alive # {}
  <2> DEFINE E(v) == Analysed(Started(v, s), o, s)
             F(v) == [Analysed(v, o, s) EXCEPT !.last = s]
  <2>1. \/ Observed(R, i, o, s) = Of(R, i) \cup {E(v) : v \in alive}
        \/ Observed(R, i, o, s) = (Of(R, i) \ cur) \cup {F(v) : v \in alive}
    BY <1>5 DEF Observed
  <2>2. \A v \in alive : RowLike(E(v)) /\ E(v).item = i
    BY <1>1, <1>2, ChangedRow
  <2>3. \A v \in alive : RowLike(F(v)) /\ F(v).item = i
    <3> SUFFICES ASSUME NEW v \in alive PROVE RowLike(F(v)) /\ F(v).item = i
      OBVIOUS
    <3> DEFINE u == Analysed(v, o, s)
    <3>1. RowLike(v) /\ v.item = i
      BY <1>1, <1>2
    <3>2. RowLike(u) /\ u.item = i
      BY <3>1, AnalysedRow
    <3> HIDE DEF u
    <3>3. RowLike([u EXCEPT !.last = s]) /\ [u EXCEPT !.last = s].item = i
      BY <3>2, NewLast
    <3> QED
      BY <3>3 DEF u
  <2> HIDE DEF E, F, alive, cur
  <2> QED
    BY <1>1, <2>1, <2>2, <2>3
<1> QED
  BY <1>3, <1>4, <1>5

\* A folder gets a version for what changed below it.
LEMMA CutPast ==
  ASSUME NEW S, NEW H, NEW i, NEW n \in Nat, Past(S, H, i, n), NEW v \in H,
         ~v.deleted, v.last = n, Found(S, i, n + 1), v.meta = S[n + 1][i].meta,
         NEW c, Alike(c, v), c.added = v.added,
         NEW x, x.first = n + 1, x.last = n + 1, x.deleted = v.deleted, x.meta = v.meta
  PROVE  Past(S, (H \ {v}) \cup {c} \cup {x}, i, n + 1)
<1> DEFINE G == (H \ {v}) \cup {c}
<1>1. /\ \A y \in G : \E w \in H : Similar(i, y, w)
      /\ \A w \in H : \E y \in G : Similar(i, y, w)
  BY DEF Similar, Alike
<1>2. \A u, w \in H : u.first = w.first => u = w
  BY DEF Past, Present, Told
<1>3. \A y, z \in G : y.first = z.first => y = z
  BY <1>2 DEF Alike
<1>4. ~c.deleted /\ c.last = n /\ c \in G
  BY DEF Alike
<1> HIDE DEF G
<1>5. Past(S, G, i, n)
  BY <1>1, <1>3, AlikePresent DEF Past
<1>6. Past(S, G \cup {x}, i, n + 1)
  BY <1>4, <1>5, Appended
<1> QED
  BY <1>6 DEF G

\* What a scan leaves of the rows of each item.
Went(R, G, S, i, n) ==
  /\ Past(S, G, i, n + 1)
  /\ \A v \in Of(R, i) : \E x \in G : Lasting(v, x)
  /\ \A x \in G : x.first = n + 1 \/ \E v \in Of(R, i) : Lasting(v, x)

LEMMA LivePast ==
  ASSUME NEW S, NEW R, Proper(R), NEW n \in Nat, n + 1 <= LastScan
  PROVE  LET after == LiveRows(R, S[n + 1], n + 1)
         IN /\ Proper(after)
            /\ \A i \in Items : Past(S, Of(R, i), i, n) => Went(R, Of(after, i), S, i, n)
<1> DEFINE s == n + 1
           found == S[s]
           Own(i) == Observed(R, i, found[i], s)
           own == UNION {Own(i) : i \in Items}
           changed(d) == \E v \in own : v.first = s /\ d \in Above[v.item]
           split(d) == d \in Folders /\ found[d] # Absent /\ StartedBy(own, d, s) = {} /\ changed(d)
           cut(v) == [v EXCEPT !.last = s - 1]
           after == LiveRows(R, S[n + 1], n + 1)
<1>0. LastScan \in Nat /\ n <= LastScan /\ s \in Nat /\ s - 1 = n
  BY RowsAssumption
<1>1. after = {IF split(v.item) /\ v \in Newest(own, v.item) THEN cut(v) ELSE v : v \in own} \cup
              {Started(v, s) : v \in {w \in own : split(w.item) /\ w \in Newest(own, w.item)}}
  BY DEF LiveRows
<1>2. \A i \in Items : \A x \in Own(i) : RowLike(x) /\ x.item = i
  BY ObservedProper
<1>3. found = S[s] /\ s = n + 1
  OBVIOUS
<1>4. \A i \in Items : Own(i) = Observed(R, i, S[n + 1][i], n + 1)
  OBVIOUS
<1>5. \A i \in Items : split(i) => i \in Folders /\ found[i] # Absent /\ StartedBy(own, i, s) = {}
  OBVIOUS
<1> HIDE DEF Own, split, found, after
<1>6. Proper(own)
  BY <1>2 DEF Proper
<1>7. ASSUME NEW i \in Items PROVE Of(own, i) = Own(i)
  BY <1>2 DEF Of
<1>8. \A v : RowLike(v) => /\ RowLike(cut(v)) /\ RowLike(Started(v, s))
                           /\ cut(v).item = v.item /\ Started(v, s).item = v.item
                           /\ cut(v).first = v.first /\ cut(v).last = n /\ cut(v).added = v.added
                           /\ cut(v).deleted = v.deleted /\ cut(v).meta = v.meta
                           /\ Started(v, s).first = s /\ Started(v, s).last = s
                           /\ Started(v, s).deleted = v.deleted /\ Started(v, s).meta = v.meta
  <2> HIDE DEF s
  <2> SUFFICES ASSUME NEW v, RowLike(v)
               PROVE  /\ RowLike(cut(v)) /\ RowLike(Started(v, s))
                      /\ cut(v).item = v.item /\ Started(v, s).item = v.item
                      /\ cut(v).first = v.first /\ cut(v).last = n /\ cut(v).added = v.added
                      /\ cut(v).deleted = v.deleted /\ cut(v).meta = v.meta
                      /\ Started(v, s).first = s /\ Started(v, s).last = s
                      /\ Started(v, s).deleted = v.deleted /\ Started(v, s).meta = v.meta
    OBVIOUS
  <2>1. cut(v) = [v EXCEPT !.last = n]
    BY <1>0
  <2> HIDE DEF cut
  <2>2. /\ RowLike(cut(v)) /\ cut(v).item = v.item
        /\ cut(v).first = v.first /\ cut(v).last = n /\ cut(v).added = v.added
        /\ cut(v).deleted = v.deleted /\ cut(v).meta = v.meta
    BY <2>1, NewLast
  <2>3. /\ RowLike(Started(v, s)) /\ Started(v, s).item = v.item
        /\ Started(v, s).first = s /\ Started(v, s).last = s
        /\ Started(v, s).deleted = v.deleted /\ Started(v, s).meta = v.meta
    BY StartedRow
  <2> QED
    BY <2>2, <2>3
<1> HIDE DEF own, cut, s
<1>9. Proper(after)
  BY <1>1, <1>6, <1>8 DEF Proper
<1>10. ASSUME NEW i \in Items, Past(S, Of(R, i), i, n) PROVE Went(R, Of(after, i), S, i, n)
  <2> DEFINE H == Of(R, i)
             G == Own(i)
  <2>1. \A v \in H : RowLike(v) /\ v.item = i
    BY DEF Proper, Of
  <2>2. Noticed(H, G, S[n + 1][i], i, n + 1, n)
    BY <1>0, <1>4, <1>10, <2>1, ObservedCases
  <2>3. Past(S, H, i, n)
    BY <1>10
  <2>4. \A x \in G : RowLike(x) /\ x.item = i
    BY <1>2
  <2>5. Of(own, i) = G
    BY <1>7
  <2>6. CASE ~split(i)
    <3>1. Of(after, i) = G
      <4>1. \A v \in own : v.item = i => v \in Of(after, i)
        BY <1>1, <2>6 DEF Of
      <4>2. \A x \in Of(after, i) : x \in Of(own, i)
        BY <1>1, <1>6, <1>8, <2>6 DEF Of, Proper
      <4> QED
        BY <4>1, <4>2, <2>5 DEF Of
    <3> HIDE DEF G, H
    <3>2. Past(S, G, i, n + 1)
      BY <2>2, <2>3, NoticedPast
    <3>3. /\ \A v \in H : \E x \in G : Lasting(v, x)
          /\ \A x \in G : x.first = n + 1 \/ \E v \in H : Lasting(v, x)
      BY <2>2 DEF Noticed, Gained, Lasting
    <3> QED
      BY <3>1, <3>2, <3>3 DEF Went, H
  <2>7. CASE split(i)
    <3> HIDE DEF G, H
    <3>1. \A x \in G : x.first # n + 1
      BY <1>3, <1>5, <2>5, <2>7 DEF StartedBy
    <3>2. PICK v \in H : \E x : /\ ~v.deleted /\ v.last = n /\ v.meta = S[n + 1][i].meta
                                /\ G = (H \ {v}) \cup {x}
                                /\ RowLike(x) /\ x.item = i /\ x.last = n + 1 /\ Lasting(v, x)
      <4>1. S[n + 1][i] # Absent
        BY <1>3, <1>5, <2>7
      <4> QED
        BY <2>2, <3>1, <4>1 DEF Noticed, Gained
    <3>3. PICK x : /\ ~v.deleted /\ v.last = n /\ v.meta = S[n + 1][i].meta
                   /\ G = (H \ {v}) \cup {x}
                   /\ RowLike(x) /\ x.item = i /\ x.last = n + 1 /\ Lasting(v, x)
      BY <3>2
    <3>4. Past(S, G, i, n + 1)
      BY <2>2, <2>3, NoticedPast
    <3>5. Newest(own, i) = {x}
      <4>1. /\ Newest(own, i) \subseteq G
            /\ \A a, b \in Newest(own, i) : a = b
            /\ \A a \in G : a.last = n + 1 => a \in Newest(own, i)
        BY <1>0, <2>5, <3>4, Latest DEF s
      <4> QED
        BY <3>3, <4>1
    <3>6. Of(after, i) = (H \ {v}) \cup {cut(x)} \cup {Started(x, s)}
      <4>1. \A y \in own : y.item = i => y \in G
        BY <2>5 DEF Of
      <4>2. \A y \in G : y \in own /\ y.item = i
        BY <2>5 DEF Of
      <4>3. x \notin H \ {v}
        <5>1. \A u \in H : u.last <= n
          BY <2>3 DEF Past, Present, Told
        <5> QED
          BY <3>3, <5>1
      <4>4. \A y \in Of(after, i) : y \in (H \ {v}) \cup {cut(x)} \cup {Started(x, s)}
        <5> SUFFICES ASSUME NEW y \in after, y.item = i
                     PROVE  y \in (H \ {v}) \cup {cut(x)} \cup {Started(x, s)}
          BY DEF Of
        <5>1. CASE \E w \in own : y = IF split(w.item) /\ w \in Newest(own, w.item) THEN cut(w) ELSE w
          <6>1. PICK w \in own : y = IF split(w.item) /\ w \in Newest(own, w.item) THEN cut(w) ELSE w
            BY <5>1
          <6>2. w.item = i /\ w \in G
            BY <1>6, <1>8, <4>1, <6>1 DEF Proper
          <6> QED
            BY <2>7, <3>3, <3>5, <6>1, <6>2
        <5>2. CASE \E w \in own : y = Started(w, s) /\ split(w.item) /\ w \in Newest(own, w.item)
          <6>1. PICK w \in own : y = Started(w, s) /\ w \in Newest(own, w.item)
            BY <5>2
          <6>2. w.item = i
            BY <1>6, <1>8, <6>1 DEF Proper
          <6> QED
            BY <3>5, <6>1, <6>2
        <5> QED
          BY <1>1, <5>1, <5>2
      <4>5. x \in own /\ x.item = i /\ split(x.item) /\ x \in Newest(own, x.item)
        BY <2>7, <3>3, <3>5, <4>2
      <4>6. cut(x) \in after /\ Started(x, s) \in after
        BY <1>1, <4>5
      <4>7. cut(x).item = i /\ Started(x, s).item = i
        BY <1>8, <3>3
      <4>8. ASSUME NEW y \in H \ {v} PROVE y \in after /\ y.item = i
        <5>1. y \in own /\ y.item = i /\ y # x
          BY <3>3, <4>2, <4>3
        <5>2. ~(y \in Newest(own, y.item))
          BY <3>5, <5>1
        <5> QED
          BY <1>1, <5>1, <5>2
      <4> QED
        BY <4>4, <4>6, <4>7, <4>8 DEF Of
    <3>7. Alike(cut(x), v) /\ cut(x).added = v.added
      BY <1>8, <3>3 DEF Alike, Lasting
    <3>8. /\ Started(x, s).first = n + 1 /\ Started(x, s).last = n + 1
          /\ Started(x, s).deleted = v.deleted /\ Started(x, s).meta = v.meta
      BY <1>3, <1>8, <3>3 DEF Lasting
    <3>9. Found(S, i, n + 1)
      BY <1>3, <1>5, <2>7 DEF Found
    <3>10. Past(S, (H \ {v}) \cup {cut(x)} \cup {Started(x, s)}, i, n + 1)
      BY <2>3, <3>3, <3>7, <3>8, <3>9, CutPast
    <3>11. /\ \A u \in H : \E y \in Of(after, i) : Lasting(u, y)
           /\ \A y \in Of(after, i) : y.first = n + 1 \/ \E u \in H : Lasting(u, y)
      <4>1. Lasting(v, cut(x))
        BY <3>7 DEF Lasting, Alike
      <4> QED
        BY <3>6, <3>8, <4>1 DEF Lasting
    <3> QED
      BY <3>6, <3>10, <3>11 DEF Went, H
  <2> QED
    BY <2>6, <2>7
<1> QED
  BY <1>9, <1>10 DEF after
-----------------------------------------------------------------------------
\* Rolling back the last scan: the rows A after it, and the undo log U of the
\* rows it changed.
Undone(U, v) == {u \in U : u.was.item = v.item /\ u.was.first = v.first}
Restored(A, U) ==
  {v \in A : v.first # LastScan /\ Undone(U, v) = {}} \cup
  {[u.row EXCEPT !.last = u.was.last, !.hashScan = u.was.hashScan,
                 !.valScan = u.was.valScan] : u \in U}
Logged(R, A) ==
  UNION {{[was |-> v, row |-> w] : w \in {x \in A \ R : x.item = v.item /\ x.first = v.first}} : v \in R}

LEMMA RolledBackIs == RolledBack = Restored(old, undo)
BY DEF RolledBack, Restored, Undone

LEMMA RestoredRow ==
  ASSUME NEW w, RowLike(w), NEW l, NEW a, NEW b
  PROVE  LET x == [w EXCEPT !.last = l, !.hashScan = a, !.valScan = b]
         IN RowLike(x) /\ x.item = w.item /\ x.last = l /\ Lasting(w, x)
BY DEF RowLike, Lasting

LEMMA RestoredProper ==
  ASSUME NEW A, Proper(A), NEW R
  PROVE  Proper(Restored(A, Logged(R, A)))
<1> DEFINE U == Logged(R, A)
           E(u) == [u.row EXCEPT !.last = u.was.last, !.hashScan = u.was.hashScan,
                                 !.valScan = u.was.valScan]
<1>1. \A u \in U : u.row \in A
  BY DEF Logged
<1>2. ASSUME NEW u \in U PROVE RowLike(E(u)) /\ E(u).item \in Items
  <2>1. RowLike(u.row) /\ u.row.item \in Items
    BY <1>1 DEF Proper
  <2>2. /\ RowLike(E(u)) /\ E(u).item = u.row.item /\ E(u).last = u.was.last /\ Lasting(u.row, E(u))
    BY <2>1, RestoredRow
  <2> QED
    BY <2>1, <2>2
<1>3. Restored(A, U) = {v \in A : v.first # LastScan /\ Undone(U, v) = {}} \cup {E(u) : u \in U}
  BY DEF Restored
<1> HIDE DEF E, U
<1>4. Proper(Restored(A, U))
  BY <1>2, <1>3 DEF Proper
<1> QED
  BY <1>4 DEF U

LEMMA RestoredPast ==
  ASSUME NEW S, NEW R, NEW A, Proper(R), Proper(A), NEW n \in Nat, n + 1 = LastScan,
         NEW i \in Items, Past(S, Of(R, i), i, n), Went(R, Of(A, i), S, i, n)
  PROVE  Past(S, Of(Restored(A, Logged(R, A)), i), i, n)
<1> DEFINE H == Of(R, i)
           G == Of(A, i)
           U == Logged(R, A)
           E(u) == [u.row EXCEPT !.last = u.was.last, !.hashScan = u.was.hashScan,
                                 !.valScan = u.was.valScan]
           K == Of(Restored(A, U), i)
<1>1. /\ \A v, w \in H : v.first = w.first => v = w
      /\ \A v \in H : v.first <= n /\ v.first \in Nat
  BY DEF Past, Present, Told
<1>2. /\ \A v, w \in G : v.first = w.first => v = w
      /\ \A v \in H : \E x \in G : Lasting(v, x)
      /\ \A x \in G : x.first = LastScan \/ \E v \in H : Lasting(v, x)
  BY DEF Went, Past, Present, Told
<1>3. /\ \A u \in U : /\ u.was \in R /\ u.row \in A /\ u.row \notin R
                      /\ u.row.item = u.was.item /\ u.row.first = u.was.first
      /\ \A v \in R, w \in A : w \notin R /\ w.item = v.item /\ w.first = v.first =>
           \E u \in U : u.was = v /\ u.row = w
  <2>1. \A u \in U : \E v \in R, w \in A : /\ w \notin R /\ w.item = v.item /\ w.first = v.first
                                           /\ u = [was |-> v, row |-> w]
    BY DEF Logged
  <2>2. \A v \in R, w \in A : w \notin R /\ w.item = v.item /\ w.first = v.first =>
          [was |-> v, row |-> w] \in U
    BY DEF Logged
  <2> HIDE DEF U
  <2>3. ASSUME NEW u \in U
        PROVE  /\ u.was \in R /\ u.row \in A /\ u.row \notin R
               /\ u.row.item = u.was.item /\ u.row.first = u.was.first
    <3>1. PICK v \in R, w \in A : /\ w \notin R /\ w.item = v.item /\ w.first = v.first
                                 /\ u = [was |-> v, row |-> w]
      BY <2>1
    <3>2. u.was = v /\ u.row = w
      BY <3>1
    <3> QED
      BY <3>1, <3>2
  <2>4. ASSUME NEW v \in R, NEW w \in A, w \notin R, w.item = v.item, w.first = v.first
        PROVE  \E u \in U : u.was = v /\ u.row = w
    BY <2>2, <2>4
  <2> QED
    BY <2>3, <2>4
<1>4. \A u, v \in U : u.was = v.was /\ u.row = v.row => u = v
  <2>1. \A u \in U : u = [was |-> u.was, row |-> u.row]
    BY DEF Logged
  <2> HIDE DEF U
  <2> QED
    BY <2>1
<1>5. K = {x \in G : x.first # LastScan /\ Undone(U, x) = {}} \cup {E(u) : u \in {w \in U : E(w).item = i}}
  BY DEF Restored, Of
<1>6. ASSUME NEW u \in U
      PROVE  /\ RowLike(E(u)) /\ E(u).item = u.row.item /\ E(u).last = u.was.last /\ Lasting(u.row, E(u))
  <2>1. RowLike(u.row)
    BY <1>3 DEF Proper
  <2> QED
    BY <2>1, RestoredRow
<1>7. /\ \A v \in H : v \in R /\ v.item = i /\ RowLike(v)
      /\ \A v \in R : v.item = i => v \in H
      /\ \A v \in G : v \in A /\ v.item = i
      /\ \A v \in A : v.item = i => v \in G
  BY DEF Of, Proper
<1>8. Past(S, H, i, n) /\ n < LastScan /\ LastScan \in Nat
  OBVIOUS
<1> HIDE DEF H, G, U, E, K
<1>9. ASSUME NEW u \in U, u.row.item = i
      PROVE  u.was \in H /\ u.row \in G /\ Similar(i, E(u), u.was) /\ E(u).first = u.row.first
  <2>1. u.was \in H /\ u.row \in G /\ u.row.first = u.was.first /\ u.row.first # LastScan
    BY <1>1, <1>3, <1>7, <1>8, <1>9
  <2>2. PICK v \in H : Lasting(v, u.row)
    BY <1>2, <2>1
  <2>3. v = u.was
    BY <1>1, <2>1, <2>2 DEF Lasting
  <2> QED
    BY <1>6, <2>1, <2>2, <2>3 DEF Lasting, Similar, Alike
<1>10. ASSUME NEW x \in G, x.first # LastScan, Undone(U, x) = {} PROVE x \in H
  <2>1. PICK v \in H : Lasting(v, x)
    BY <1>2, <1>10
  <2>2. CASE x \in R
    BY <1>7, <2>2
  <2>3. CASE x \notin R
    <3>1. PICK u \in U : u.was = v /\ u.row = x
      BY <1>3, <1>7, <2>1, <2>3 DEF Lasting
    <3>2. u \in Undone(U, x)
      BY <1>7, <2>1, <3>1 DEF Undone, Lasting
    <3> QED
      BY <1>10, <3>2
  <2> QED
    BY <2>2, <2>3
<1>11. \A y \in K : \E v \in H : Similar(i, y, v)
  <2> SUFFICES ASSUME NEW y \in K PROVE \E v \in H : Similar(i, y, v)
    OBVIOUS
  <2>1. CASE y \in G /\ y.first # LastScan /\ Undone(U, y) = {}
    BY <1>10, <2>1 DEF Similar, Alike
  <2>2. CASE \E u \in U : E(u).item = i /\ y = E(u)
    BY <1>6, <1>9, <2>2
  <2> QED
    BY <1>5, <2>1, <2>2
<1>12. \A v \in H : \E y \in K : Similar(i, y, v)
  <2> SUFFICES ASSUME NEW v \in H PROVE \E y \in K : Similar(i, y, v)
    OBVIOUS
  <2>1. PICK x \in G : Lasting(v, x)
    BY <1>2
  <2>2. CASE x \in R
    <3>1. x \in H /\ x = v
      BY <1>1, <1>7, <2>1, <2>2 DEF Lasting
    <3>2. Undone(U, x) = {}
      <4> SUFFICES ASSUME NEW u \in U, u.was.item = x.item, u.was.first = x.first PROVE FALSE
        BY DEF Undone
      <4>1. u.was \in H /\ u.row \in G /\ u.row \notin R /\ u.row.first = x.first
        BY <1>3, <1>7, <3>1
      <4> QED
        BY <1>2, <2>2, <4>1
    <3>3. x.first # LastScan
      BY <1>1, <1>8, <3>1
    <3>4. x \in K
      BY <1>5, <3>2, <3>3
    <3> QED
      BY <3>1, <3>4 DEF Similar, Alike
  <2>3. CASE x \notin R
    <3>1. PICK u \in U : u.was = v /\ u.row = x
      BY <1>3, <1>7, <2>1, <2>3 DEF Lasting
    <3>2. E(u).item = i /\ Similar(i, E(u), v)
      BY <1>6, <1>7, <1>9, <3>1
    <3> QED
      BY <1>5, <3>1, <3>2
  <2> QED
    BY <2>2, <2>3
<1>13. \A y, z \in K : y.first = z.first => y = z
  <2>1. ASSUME NEW y \in G, Undone(U, y) = {}, NEW u \in U, E(u).item = i, E(u).first = y.first
        PROVE  FALSE
    <3>1. u.was.item = y.item /\ u.was.first = y.first
      BY <1>3, <1>6, <1>7, <1>9, <2>1
    <3> QED
      BY <2>1, <3>1 DEF Undone
  <2>2. ASSUME NEW u \in U, NEW w \in U, E(u).item = i, E(w).item = i, E(u).first = E(w).first
        PROVE  E(u) = E(w)
    <3>1. /\ u.was \in H /\ w.was \in H /\ u.row \in G /\ w.row \in G
          /\ E(u).first = u.row.first /\ E(w).first = w.row.first
          /\ u.row.first = u.was.first /\ w.row.first = w.was.first
      <4>1. u.row.item = i /\ w.row.item = i
        BY <1>6, <2>2
      <4> QED
        BY <1>3, <1>9, <4>1
    <3>2. u.row.first = w.row.first /\ u.was.first = w.was.first
      BY <2>2, <3>1
    <3>3. u.row = w.row /\ u.was = w.was
      BY <1>1, <1>2, <3>1, <3>2
    <3> QED
      BY <1>4, <3>3
  <2> QED
    BY <1>2, <1>5, <2>1, <2>2
<1>14. Past(S, K, i, n)
  BY <1>8, <1>11, <1>12, <1>13, AlikePresent DEF Past
<1> QED
  BY <1>14 DEF K, U
-----------------------------------------------------------------------------
\* Folding phantoms.
LEMMA PhantomFollows ==
  ASSUME NEW S, NEW f \in Items, NEW n \in Nat, Past(S, Of(old, f), f, n),
         NEW v \in Of(old, f), Phantom(v)
  PROVE  /\ ~v.deleted
         /\ \E q \in Of(old, f) : /\ ~q.deleted /\ q.meta = v.meta /\ q.first < v.first
                                  /\ \A w \in Of(old, f) : w.first < v.first => w.first <= q.first
<1> DEFINE H == Of(old, f)
<1>1. v.item = f /\ v \in H
  BY DEF Of
<1>2. Told(S, H, f, n)
  BY DEF Past, Present
<1>3. \A w \in H : w.first \in 1..n /\ w.last \in Nat /\ w.first <= w.last
  BY <1>2 DEF Told
<1>4. v.first - 1 \in Nat
  BY <1>1, <1>3
<1>5. PICK q \in Before(old, f, v.first) : ~q.deleted /\ q.meta = v.meta
  BY <1>1 DEF Phantom
<1>6. q \in At(old, f, v.first - 1)
  BY <1>5 DEF Before
<1>7. q \in H /\ q.first <= v.first - 1 /\ \A w \in H : w.first <= v.first - 1 => w.first <= q.first
  BY <1>6 DEF At
<1>8. ~v.deleted
  BY DEF Phantom
<1> HIDE DEF H
<1>9. q.first < v.first /\ \A w \in H : w.first < v.first => w.first <= q.first
  <2>1. v.first \in Nat /\ q.first \in Nat
    BY <1>1, <1>3, <1>7
  <2>2. q.first < v.first
    BY <1>7, <2>1
  <2>3. ASSUME NEW w \in H, w.first < v.first PROVE w.first <= q.first
    <3>1. w.first \in Nat
      BY <1>3
    <3>2. w.first <= v.first - 1
      BY <2>1, <2>3, <3>1
    <3> QED
      BY <1>7, <3>2
  <2> QED
    BY <2>2, <2>3
<1> QED
  BY <1>5, <1>7, <1>8, <1>9 DEF H

\* The cluster of a version, and where it ends.
LEMMA ClusterFacts ==
  ASSUME NEW S, NEW f \in Items, NEW n \in Nat, Past(S, Of(old, f), f, n), NEW v \in Of(old, f)
  PROVE  /\ Cluster(v) \subseteq Of(old, f) /\ v \in Cluster(v)
         /\ \A w \in Of(old, f) :
              w \in Cluster(v) <=>
                /\ w.first >= v.first
                /\ \A x \in Of(old, f) : v.first < x.first /\ x.first <= w.first => Phantom(x)
         /\ \E m \in Cluster(v) : EffectiveLast(v) = m.last
         /\ \A w \in Cluster(v) : w.last <= EffectiveLast(v)
<1> DEFINE H == Of(old, f)
           L == {w.last : w \in Cluster(v)}
<1>1. v.item = f /\ v \in H
  BY DEF Of
<1>2. \A w \in H : w.first \in 1..n /\ w.last \in Nat /\ w.first <= w.last /\ w.last <= n
  BY DEF Past, Present, Told
<1>3. Cluster(v) = {w \in H : /\ w.first >= v.first
                              /\ \A x \in H : v.first < x.first /\ x.first <= w.first => Phantom(x)}
  BY <1>1 DEF Cluster
<1>4. EffectiveLast(v) = CHOOSE x \in L : \A y \in L : x >= y
  BY DEF EffectiveLast, Max
<1> HIDE DEF H
<1>5. v \in Cluster(v)
  <2>1. v.first \in Nat /\ \A x \in H : x.first \in Nat
    BY <1>1, <1>2
  <2> QED
    BY <1>1, <1>3, <2>1
<1>6. L \in SUBSET Nat /\ L # {} /\ \A y \in L : y <= n
  BY <1>2, <1>3, <1>5
<1>7. \E x \in L : \A y \in L : y <= x
  <2> HIDE DEF L
  <2> QED
    BY <1>6, Greatest
<1>8. EffectiveLast(v) \in L /\ \A y \in L : y <= EffectiveLast(v)
  <2> HIDE DEF L
  <2>1. \E x \in L : \A y \in L : x >= y
    BY <1>6, <1>7
  <2>2. EffectiveLast(v) \in L /\ \A y \in L : EffectiveLast(v) >= y
    BY <1>4, <2>1
  <2> QED
    BY <1>6, <2>2
<1> QED
  BY <1>3, <1>5, <1>8 DEF H

\* What a version that is not deleted says holds through its cluster.
LEMMA ClusterSays ==
  ASSUME NEW S, NEW f \in Items, NEW n \in Nat, Past(S, Of(old, f), f, n), NEW v \in Of(old, f),
         ~v.deleted
  PROVE  \A w \in Cluster(v) : ~w.deleted /\ w.meta = v.meta
<1> DEFINE H == Of(old, f)
           C == Cluster(v)
           Bad == {w.first : w \in {x \in C : ~(~x.deleted /\ x.meta = v.meta)}}
<1>1. \A w \in H : w.first \in 1..n /\ w.last \in Nat
  BY DEF Past, Present, Told
<1>2. \A u, w \in H : u.first = w.first => u = w
  BY DEF Past, Present, Told
<1>3. /\ C \subseteq H /\ v \in C
      /\ \A w \in H : w \in C <=> /\ w.first >= v.first
                                  /\ \A x \in H : v.first < x.first /\ x.first <= w.first => Phantom(x)
  BY ClusterFacts
<1>4. \A w \in H : Phantom(w) =>
        /\ ~w.deleted
        /\ \E q \in H : /\ ~q.deleted /\ q.meta = w.meta /\ q.first < w.first
                        /\ \A x \in H : x.first < w.first => x.first <= q.first
  BY PhantomFollows
<1>5. v \in H
  OBVIOUS
<1> HIDE DEF H, C
<1>6. SUFFICES ASSUME Bad # {} PROVE FALSE
  BY DEF C
<1>7. Bad \in SUBSET Nat
  BY <1>1, <1>3
<1>8. PICK k \in Bad : \A j \in Bad : k <= j
  <2> HIDE DEF Bad
  <2> QED
    BY <1>6, <1>7, Least
<1>9. PICK w \in C : w.first = k /\ ~(~w.deleted /\ w.meta = v.meta)
  BY <1>8
<1>10. w \in H /\ w # v /\ w.first > v.first
  <2>1. w \in H /\ w # v
    BY <1>3, <1>9
  <2>2. w.first # v.first /\ w.first >= v.first
    BY <1>2, <1>3, <1>5, <1>9, <2>1
  <2> QED
    BY <1>1, <1>5, <2>1, <2>2
<1>11. Phantom(w)
  BY <1>1, <1>3, <1>5, <1>9, <1>10
<1>12. PICK q \in H : /\ ~q.deleted /\ q.meta = w.meta /\ q.first < w.first
                      /\ \A x \in H : x.first < w.first => x.first <= q.first
  BY <1>4, <1>10, <1>11
<1>13. ~w.deleted
  BY <1>4, <1>10, <1>11
<1>14. q.first >= v.first
  BY <1>1, <1>5, <1>10, <1>12
<1>15. q \in C
  <2>1. \A x \in H : v.first < x.first /\ x.first <= q.first => Phantom(x)
    <3> SUFFICES ASSUME NEW x \in H, v.first < x.first, x.first <= q.first PROVE Phantom(x)
      OBVIOUS
    <3>1. x.first <= w.first
      BY <1>1, <1>10, <1>12
    <3> QED
      BY <1>3, <1>9, <1>10, <3>1
  <2> QED
    BY <1>3, <1>14, <2>1
<1>16. q.first \in Bad
  BY <1>9, <1>12, <1>13, <1>15
<1>17. k <= q.first
  <2> HIDE DEF Bad
  <2> QED
    BY <1>8, <1>16
<1> QED
  BY <1>1, <1>9, <1>10, <1>12, <1>17

\* Every row is in the cluster of a version that is no phantom, and of one
\* that is deleted no other is.
LEMMA ClusterOf ==
  ASSUME NEW S, NEW f \in Items, NEW n \in Nat, Past(S, Of(old, f), f, n), NEW w \in Of(old, f)
  PROVE  \E v \in Of(old, f) : ~Phantom(v) /\ w \in Cluster(v) /\ (v.deleted => w = v)
<1> DEFINE H == Of(old, f)
           Open(v) == v.first <= w.first /\ \A x \in H : v.first < x.first /\ x.first <= w.first => Phantom(x)
           K == {v.first : v \in {x \in H : Open(x)}}
<1>1. \A u \in H : u.first \in 1..n /\ u.last \in Nat
  BY DEF Past, Present, Told
<1>2. \A u, x \in H : u.first = x.first => u = x
  BY DEF Past, Present, Told
<1>3. \A u \in H : Phantom(u) =>
        /\ ~u.deleted
        /\ \E q \in H : /\ ~q.deleted /\ q.meta = u.meta /\ q.first < u.first
                        /\ \A x \in H : x.first < u.first => x.first <= q.first
  BY PhantomFollows
<1>4. w \in H
  OBVIOUS
<1>5. \A v, u \in H :
        u \in Cluster(v) <=> /\ u.first >= v.first
                             /\ \A x \in H : v.first < x.first /\ x.first <= u.first => Phantom(x)
  BY ClusterFacts
<1> HIDE DEF H
<1>6. K \in SUBSET Nat
  BY <1>1
<1>7. w.first \in K
  BY <1>1, <1>4
<1>8. PICK k \in K : \A j \in K : k <= j
  <2> HIDE DEF K
  <2> QED
    BY <1>6, <1>7, Least
<1>9. PICK v \in H : v.first = k /\ Open(v)
  BY <1>8
<1>10. ~Phantom(v)
  <2> SUFFICES ASSUME Phantom(v) PROVE FALSE
    OBVIOUS
  <2>1. PICK q \in H : /\ q.first < v.first
                       /\ \A x \in H : x.first < v.first => x.first <= q.first
    BY <1>3
  <2>2. q.first <= w.first
    BY <1>1, <1>4, <1>9, <2>1
  <2>3. ASSUME NEW x \in H, q.first < x.first, x.first <= w.first PROVE Phantom(x)
    <3>1. ~(x.first < v.first)
      BY <1>1, <2>1, <2>3
    <3>2. CASE x.first = v.first
      BY <1>2, <3>2
    <3>3. CASE x.first # v.first
      <4>1. v.first < x.first
        BY <1>1, <3>1, <3>3
      <4> QED
        BY <1>9, <2>3, <4>1
    <3> QED
      BY <3>2, <3>3
  <2>4. q.first \in K
    BY <2>2, <2>3
  <2>5. k <= q.first
    <3> HIDE DEF K
    <3> QED
      BY <1>8, <2>4
  <2> QED
    BY <1>1, <1>9, <2>1, <2>5
<1>11. w \in Cluster(v)
  <2>1. w.first >= v.first
    BY <1>1, <1>4, <1>9
  <2> QED
    BY <1>4, <1>5, <1>9, <2>1
<1>12. ASSUME v.deleted, w # v PROVE FALSE
  <2> DEFINE J == {x.first : x \in {y \in H : v.first < y.first}}
  <2>1. J \in SUBSET Nat
    BY <1>1
  <2>2. v.first < w.first
    BY <1>1, <1>2, <1>4, <1>9, <1>12
  <2>3. w.first \in J
    BY <1>4, <2>2
  <2>4. PICK j \in J : \A i \in J : j <= i
    <3> HIDE DEF J
    <3> QED
      BY <2>1, <2>3, Least
  <2>5. PICK x \in H : x.first = j /\ v.first < x.first
    BY <2>4
  <2>6. x.first <= w.first
    <3> HIDE DEF J
    <3> QED
      BY <2>3, <2>4, <2>5
  <2>7. Phantom(x)
    BY <1>9, <2>5, <2>6
  <2>8. PICK q \in H : /\ ~q.deleted /\ q.first < x.first
                       /\ \A y \in H : y.first < x.first => y.first <= q.first
    BY <1>3, <2>7
  <2>9. v.first <= q.first
    BY <2>5, <2>8
  <2>10. v.first # q.first
    BY <1>2, <1>12, <2>8
  <2>11. q.first \in J
    BY <1>1, <2>9, <2>10
  <2>12. j <= q.first
    <3> HIDE DEF J
    <3> QED
      BY <2>4, <2>11
  <2> QED
    BY <1>1, <2>5, <2>8, <2>12
<1> QED
  BY <1>10, <1>11, <1>12 DEF H
\* The rows of the new table.
LEMMA RowFields ==
  ASSUME NEW v, NEW last, NEW c, NEW a, NEW b
  PROVE  LET x == Row(v, last, c, a, b)
         IN /\ RowLike(x) /\ x.item = v.item /\ x.first = v.first /\ x.last = last
            /\ x.added = v.added /\ x.deleted = v.deleted /\ x.meta = v.meta
BY DEF Row, RowLike

\* A version and its range, as it is moved.
Moves(v, x) == /\ RowLike(x) /\ x.item = v.item /\ x.first = v.first /\ x.last = EffectiveLast(v)
               /\ x.deleted = v.deleted /\ x.meta = v.meta

LEMMA MovedFileRows ==
  ASSUME NEW f \in Items
  PROVE  /\ \A x \in MovedFile(f) : \E v \in Of(old, f) : ~Phantom(v) /\ Moves(v, x)
         /\ \A v \in Of(old, f) : ~Phantom(v) => \E x \in MovedFile(f) : Moves(v, x)
         /\ (\A v, w \in Of(old, f) : v.first = w.first => v = w)
              => \A x, y \in MovedFile(f) : x.first = y.first => x = y
<1> DEFINE E(v) == Row(v, EffectiveLast(v), v.counts, MapThenSumSet(LAMBDA w : w.val, Judged(v)),
                       MapThenSumSet(LAMBDA w : w.valScan, Judged(v)))
<1>1. MovedFile(f) = {E(v) : v \in {w \in Of(old, f) : ~Phantom(w)}}
  BY DEF MovedFile
<1>2. ASSUME NEW v PROVE Moves(v, E(v))
  <2> DEFINE l == EffectiveLast(v)
             a == MapThenSumSet(LAMBDA w : w.val, Judged(v))
             b == MapThenSumSet(LAMBDA w : w.valScan, Judged(v))
  <2>1. E(v) = Row(v, l, v.counts, a, b)
    OBVIOUS
  <2> HIDE DEF l, a, b, E
  <2>2. /\ RowLike(E(v)) /\ E(v).item = v.item /\ E(v).first = v.first /\ E(v).last = l
        /\ E(v).deleted = v.deleted /\ E(v).meta = v.meta
    BY <2>1, RowFields
  <2> QED
    BY <2>2 DEF Moves, l
<1> HIDE DEF E
<1>3. ASSUME \A v, w \in Of(old, f) : v.first = w.first => v = w
      PROVE  \A x, y \in MovedFile(f) : x.first = y.first => x = y
  <2> SUFFICES ASSUME NEW x \in MovedFile(f), NEW y \in MovedFile(f), x.first = y.first PROVE x = y
    OBVIOUS
  <2>1. PICK v \in Of(old, f) : x = E(v)
    BY <1>1
  <2>2. PICK w \in Of(old, f) : y = E(w)
    BY <1>1
  <2>3. v.first = w.first
    BY <1>2, <2>1, <2>2 DEF Moves
  <2> QED
    BY <1>3, <2>1, <2>2, <2>3
<1> QED
  BY <1>1, <1>2, <1>3

LEMMA MovedFilePast ==
  ASSUME NEW S, NEW f \in Files, NEW n \in Nat, n <= LastScan, Past(S, Of(old, f), f, n)
  PROVE  Present(S, MovedFile(f), f, n) /\ \A x \in MovedFile(f) : RowLike(x) /\ x.item = f
<1> DEFINE H == Of(old, f)
           M == MovedFile(f)
<1>0. f \in Items /\ f \notin Folders
  BY RowsAssumption DEF Items
<1>1. /\ \A v \in H : v.first \in 1..n /\ v.last \in Nat /\ v.first <= v.last /\ v.last <= n
      /\ \A v, w \in H : v # w => v.last < w.first \/ w.last < v.first
      /\ \A s \in 1..n : Found(S, f, s) => \E v \in H : ~v.deleted /\ v.first <= s /\ s <= v.last
      /\ \A v \in H : ~v.deleted => \A s \in v.first..v.last : Found(S, f, s) /\ v.meta = S[s][f].meta
  BY DEF Past, Present, Told
<1>2. \A u, x \in H : u.first = x.first => u = x
  BY <1>1
<1>3. /\ \A x \in M : \E v \in H : ~Phantom(v) /\ Moves(v, x)
      /\ \A v \in H : ~Phantom(v) => \E x \in M : Moves(v, x)
      /\ \A x, y \in M : x.first = y.first => x = y
  BY <1>0, <1>2, MovedFileRows
<1>4. \A v \in H :
         /\ Cluster(v) \subseteq H /\ v \in Cluster(v)
         /\ \A w \in H : w \in Cluster(v) <=>
                           /\ w.first >= v.first
                           /\ \A x \in H : v.first < x.first /\ x.first <= w.first => Phantom(x)
         /\ \E m \in Cluster(v) : EffectiveLast(v) = m.last
         /\ \A w \in Cluster(v) : w.last <= EffectiveLast(v)
  BY <1>0, ClusterFacts
<1>5. \A v \in H : ~v.deleted => \A w \in Cluster(v) : ~w.deleted /\ w.meta = v.meta
  BY <1>0, ClusterSays
<1>6. \A w \in H : \E v \in H : ~Phantom(v) /\ w \in Cluster(v) /\ (v.deleted => w = v)
  BY <1>0, ClusterOf
<1>7. Unbroken(H, n)
  BY DEF Past
<1>8. \A v \in H : v.item = f
  BY DEF Of
<1>9. \A s \in Nat : \A v \in H : v.first <= s => \E w \in H : w.first <= s /\ \A u \in H : u.first <= s => u.first <= w.first
  <2> SUFFICES ASSUME NEW s \in Nat, NEW v \in H, v.first <= s
               PROVE  \E w \in H : w.first <= s /\ \A u \in H : u.first <= s => u.first <= w.first
    OBVIOUS
  <2> DEFINE K == {u.first : u \in {x \in H : x.first <= s}}
  <2>1. K \in SUBSET Nat /\ K # {} /\ \A j \in K : j <= s
    BY <1>1
  <2>2. PICK k \in K : \A j \in K : j <= k
    <3> HIDE DEF K
    <3> QED
      BY <2>1, Greatest
  <2> QED
    BY <2>2
<1> HIDE DEF H, M
\* Where a cluster ends, another version has not begun.
<1>10. ASSUME NEW v \in H, NEW w \in H, v.first < w.first, ~Phantom(w) PROVE EffectiveLast(v) < w.first
  <2>1. PICK m \in Cluster(v) : EffectiveLast(v) = m.last
    BY <1>4
  <2>2. m \in H
    BY <1>4
  <2>3. m.first < w.first
    <3> SUFFICES ASSUME ~(m.first < w.first) PROVE FALSE
      OBVIOUS
    <3>1. w.first <= m.first
      BY <1>1, <2>2
    <3> QED
      BY <1>4, <1>10, <2>1, <2>2, <3>1
  <2> QED
    BY <1>1, <2>1, <2>2, <2>3
<1>11. ASSUME NEW v \in H PROVE EffectiveLast(v) \in Nat /\ v.first <= EffectiveLast(v) /\ EffectiveLast(v) <= n
  <2>1. PICK m \in Cluster(v) : EffectiveLast(v) = m.last
    BY <1>4
  <2>2. v.last <= EffectiveLast(v) /\ m \in H
    BY <1>4, <2>1
  <2> QED
    BY <1>1, <2>1, <2>2
\* Its range is that of rows that are there.
<1>12. ASSUME NEW v \in H, ~v.deleted, NEW s \in v.first..EffectiveLast(v)
       PROVE  Found(S, f, s) /\ v.meta = S[s][f].meta
  <2>1. PICK m \in Cluster(v) : EffectiveLast(v) = m.last
    BY <1>4
  <2>2. m \in H /\ s \in Nat /\ v.first <= s /\ s <= m.last /\ m.last <= n
    BY <1>1, <1>4, <1>11, <2>1
  <2>3. PICK w \in H : w.first <= s /\ \A u \in H : u.first <= s => u.first <= w.first
    BY <1>9, <2>2
  <2>4. v.first <= w.first
    BY <2>2, <2>3
  <2>5. w.first <= m.first /\ s <= w.last
    <3>1. CASE m.first <= s
      <4>1. m.first <= w.first
        BY <2>2, <2>3, <3>1
      <4>2. w = m
        BY <1>1, <2>2, <2>3, <4>1
      <4> QED
        BY <1>1, <2>2, <4>2
    <3>2. CASE ~(m.first <= s)
      <4>1. w.first <= m.first
        BY <1>1, <2>2, <2>3, <3>2
      <4>2. w \in Cluster(v)
        <5>1. \A x \in H : v.first < x.first /\ x.first <= w.first => Phantom(x)
          BY <1>1, <1>4, <2>1, <2>2, <4>1
        <5>2. w.first >= v.first
          BY <1>1, <2>4
        <5> QED
          BY <1>4, <5>1, <5>2
      <4>3. ~w.deleted
        BY <1>5, <1>12, <4>2
      <4>4. s <= w.last
        <5> SUFFICES ASSUME w.last < s PROVE FALSE
          BY <1>1, <2>2
        <5>1. w.last < n
          BY <1>1, <2>2
        <5>2. PICK y \in H : y.first = w.last + 1
          BY <1>7, <4>3, <5>1 DEF Unbroken
        <5>3. y.first <= s
          BY <1>1, <2>2, <5>2
        <5> QED
          BY <1>1, <2>3, <5>2, <5>3
      <4> QED
        BY <4>1, <4>4
    <3> QED
      BY <3>1, <3>2
  <2>6. w \in Cluster(v)
    <3>1. \A x \in H : v.first < x.first /\ x.first <= w.first => Phantom(x)
      BY <1>1, <1>4, <2>1, <2>2, <2>5
    <3>2. w.first >= v.first
      BY <1>1, <2>4
    <3> QED
      BY <1>4, <3>1, <3>2
  <2>7. ~w.deleted /\ w.meta = v.meta /\ s \in w.first..w.last
    BY <1>1, <1>5, <1>12, <2>2, <2>3, <2>5, <2>6
  <2> QED
    BY <1>1, <2>7
<1>13. Told(S, M, f, n)
  <2>1. \A x \in M : x.first \in 1..n /\ x.last \in Nat /\ x.first <= x.last /\ x.last <= n
    BY <1>1, <1>3, <1>11 DEF Moves
  <2>2. \A x, y \in M : x # y => x.last < y.first \/ y.last < x.first
    <3> SUFFICES ASSUME NEW x \in M, NEW y \in M, x # y PROVE x.last < y.first \/ y.last < x.first
      OBVIOUS
    <3>1. PICK v \in H : ~Phantom(v) /\ Moves(v, x)
      BY <1>3
    <3>2. PICK w \in H : ~Phantom(w) /\ Moves(w, y)
      BY <1>3
    <3>3. v.first # w.first
      BY <1>3, <3>1, <3>2 DEF Moves
    <3>4. v.first < w.first \/ w.first < v.first
      BY <1>1, <3>3
    <3> QED
      BY <1>10, <3>1, <3>2, <3>4 DEF Moves
  <2>3. ASSUME NEW s \in 1..n, Found(S, f, s) PROVE \E x \in M : ~x.deleted /\ x.first <= s /\ s <= x.last
    <3>1. PICK w \in H : ~w.deleted /\ w.first <= s /\ s <= w.last
      BY <1>1, <2>3
    <3>2. PICK v \in H : ~Phantom(v) /\ w \in Cluster(v) /\ (v.deleted => w = v)
      BY <1>6
    <3>3. PICK x \in M : Moves(v, x)
      BY <1>3, <3>2
    <3>4. ~v.deleted /\ v.first <= w.first /\ w.last <= EffectiveLast(v)
      BY <1>1, <1>4, <3>1, <3>2
    <3>5. v.first <= s /\ s <= EffectiveLast(v)
      BY <1>1, <1>11, <3>1, <3>4
    <3> QED
      BY <3>3, <3>4, <3>5 DEF Moves
  <2>4. ASSUME NEW x \in M, ~x.deleted, NEW s \in x.first..x.last PROVE Found(S, f, s) /\ x.meta = S[s][f].meta
    <3>1. PICK v \in H : Moves(v, x)
      BY <1>3
    <3> QED
      BY <1>12, <2>4, <3>1 DEF Moves
  <2> QED
    BY <2>1, <2>2, <2>3, <2>4 DEF Told
<1>14. Present(S, M, f, n) /\ \A x \in M : RowLike(x) /\ x.item = f
  BY <1>0, <1>3, <1>8, <1>13 DEF Present, Moves
<1> QED
  BY <1>14 DEF M
LEMMA MovedFolderPast ==
  ASSUME NEW S, NEW d \in Items, NEW n \in Nat, Past(S, Of(old, d), d, n)
  PROVE  Present(S, MovedFolder(d), d, n) /\ \A x \in MovedFolder(d) : RowLike(x) /\ x.item = d
<1> DEFINE H == Of(old, d)
           M == MovedFolder(d)
           E(v) == Row(v, v.last, v.counts, 0, 0)
<1>1. M = {E(v) : v \in H}
  BY DEF MovedFolder
<1>2. ASSUME NEW v PROVE RowLike(E(v)) /\ E(v).item = v.item /\ Similar(d, E(v), v)
  <2>1. /\ RowLike(E(v)) /\ E(v).item = v.item /\ E(v).first = v.first /\ E(v).last = v.last
        /\ E(v).added = v.added /\ E(v).deleted = v.deleted /\ E(v).meta = v.meta
    BY RowFields
  <2> QED
    BY <2>1 DEF Similar, Alike
<1>3. \A v, w \in H : v.first = w.first => v = w
  BY DEF Past, Present, Told
<1>4. \A v \in H : v.item = d
  BY DEF Of
<1>5. Present(S, H, d, n)
  BY DEF Past
<1> HIDE DEF E, H, M
<1>6. \A x, y \in M : x.first = y.first => x = y
  BY <1>1, <1>2, <1>3 DEF Similar, Alike
<1>7. /\ \A x \in M : \E v \in H : Similar(d, x, v)
      /\ \A v \in H : \E x \in M : Similar(d, x, v)
  BY <1>1, <1>2
<1>8. Present(S, M, d, n)
  BY <1>5, <1>6, <1>7, AlikePresent
<1>9. \A x \in M : RowLike(x) /\ x.item = d
  BY <1>1, <1>2, <1>4
<1> QED
  BY <1>8, <1>9 DEF M
-----------------------------------------------------------------------------
\* Versions of folders, counted again, pruned and merged.

\* Cutting a version in two.
LEMMA CutInTwo ==
  ASSUME NEW S, NEW H, NEW d \in Folders, NEW n \in Nat, Present(S, H, d, n),
         NEW v \in H, NEW s \in Nat, v.first < s, s <= v.last,
         NEW a, a.first = v.first, a.last = s - 1, a.added = v.added, a.deleted = v.deleted, a.meta = v.meta,
         NEW b, b.first = s, b.last = v.last, ~b.added, b.deleted = v.deleted, b.meta = v.meta
  PROVE  Present(S, (H \ {v}) \cup {a} \cup {b}, d, n)
<1> DEFINE G == (H \ {v}) \cup {a} \cup {b}
<1>1. /\ \A u \in H : u.first \in 1..n /\ u.last \in Nat /\ u.first <= u.last /\ u.last <= n
      /\ \A u, w \in H : u # w => u.last < w.first \/ w.last < u.first
      /\ \A t \in 1..n : Found(S, d, t) => \E u \in H : ~u.deleted /\ u.first <= t /\ t <= u.last
      /\ \A u \in H : ~u.deleted => \A t \in u.first..u.last : Found(S, d, t) /\ u.meta = S[t][d].meta
  BY DEF Present, Told
<1>2. Unbroken(H, n) /\ Continued(H) /\ Gone(S, H, d)
  BY DEF Present
<1>3. \A u \in G : u = a \/ u = b \/ (u \in H /\ u # v)
  OBVIOUS
<1>4. a \in G /\ b \in G /\ \A u \in H : u # v => u \in G
  OBVIOUS
<1>5. s - 1 \in Nat /\ v.first <= s - 1
  BY <1>1
<1> HIDE DEF G
<1>6. Told(S, G, d, n)
  <2>1. \A u \in G : u.first \in 1..n /\ u.last \in Nat /\ u.first <= u.last /\ u.last <= n
    <3>1. s \in 1..n /\ s - 1 <= n
      BY <1>1
    <3> QED
      BY <1>1, <1>3, <1>5, <3>1
  <2>2. \A u, w \in G : u # w => u.last < w.first \/ w.last < u.first
    <3>1. ASSUME NEW u \in H, u # v
          PROVE  /\ u.last < a.first \/ a.last < u.first
                 /\ u.last < b.first \/ b.last < u.first
      BY <1>1, <1>5, <3>1
    <3>2. a.last < b.first
      BY <1>5
    <3> QED
      BY <1>1, <1>3, <3>1, <3>2
  <2>3. ASSUME NEW t \in 1..n, Found(S, d, t) PROVE \E u \in G : ~u.deleted /\ u.first <= t /\ t <= u.last
    <3>1. PICK u \in H : ~u.deleted /\ u.first <= t /\ t <= u.last
      BY <1>1, <2>3
    <3>2. CASE u # v
      BY <1>4, <3>1, <3>2
    <3>3. CASE u = v
      <4>1. (a.first <= t /\ t <= a.last) \/ (b.first <= t /\ t <= b.last)
        BY <1>1, <1>5, <3>1, <3>3
      <4> QED
        BY <1>4, <3>1, <3>3, <4>1
    <3> QED
      BY <3>2, <3>3
  <2>4. ASSUME NEW u \in G, ~u.deleted, NEW t \in u.first..u.last PROVE Found(S, d, t) /\ u.meta = S[t][d].meta
    <3>1. CASE u \in H
      BY <1>1, <2>4, <3>1
    <3>2. CASE u = a \/ u = b
      <4>1. t \in v.first..v.last /\ ~v.deleted /\ u.meta = v.meta
        BY <1>1, <1>5, <2>4, <3>2
      <4> QED
        BY <1>1, <4>1
    <3> QED
      BY <1>3, <3>1, <3>2
  <2> QED
    BY <2>1, <2>2, <2>3, <2>4 DEF Told
\* Where a row began, one still begins; where one ended, one still ends.
<1>7. \A u \in H : \E w \in G : w.first = u.first
  BY <1>4
<1>8. \A u \in H : ~u.deleted => \E w \in G : ~w.deleted /\ w.last = u.last
  BY <1>4
<1>9. Unbroken(G, n)
  <2> SUFFICES ASSUME NEW u \in G, ~u.deleted, u.last < n PROVE \E w \in G : w.first = u.last + 1
    BY DEF Unbroken
  <2>1. CASE u = a
    <3>1. b.first = u.last + 1
      BY <2>1
    <3> QED
      BY <1>4, <3>1
  <2>2. CASE u # a
    <3>1. PICK x \in H : ~x.deleted /\ x.last = u.last
      BY <1>3, <2>2
    <3>2. PICK y \in H : y.first = x.last + 1
      BY <1>2, <3>1 DEF Unbroken
    <3>3. PICK w \in G : w.first = y.first
      BY <1>7
    <3> QED
      BY <3>1, <3>2, <3>3
  <2> QED
    BY <2>1, <2>2
<1>10. Continued(G)
  <2> SUFFICES ASSUME NEW u \in G, ~u.deleted, ~u.added PROVE \E p \in G : ~p.deleted /\ u.first = p.last + 1
    BY DEF Continued
  <2>1. CASE u = b
    <3>1. ~a.deleted /\ u.first = a.last + 1
      BY <2>1
    <3> QED
      BY <1>4, <3>1
  <2>2. CASE u # b
    <3>1. PICK x \in H : ~x.deleted /\ ~x.added /\ x.first = u.first
      BY <1>3, <2>2
    <3>2. PICK y \in H : ~y.deleted /\ x.first = y.last + 1
      BY <1>2, <3>1 DEF Continued
    <3>3. PICK w \in G : ~w.deleted /\ w.last = y.last
      BY <1>8, <3>2
    <3> QED
      BY <3>1, <3>2, <3>3
  <2> QED
    BY <2>1, <2>2
<1>11. Gone(S, G, d)
  <2> SUFFICES ASSUME NEW u \in G, u.deleted, NEW t \in u.first..u.last PROVE ~Found(S, d, t)
    BY DEF Gone
  <2>1. CASE u \in H
    BY <1>2, <2>1 DEF Gone
  <2>2. CASE u = a \/ u = b
    <3>1. t \in v.first..v.last /\ v.deleted
      BY <1>1, <1>5, <2>2
    <3> QED
      BY <1>2, <3>1 DEF Gone
  <2> QED
    BY <1>3, <2>1, <2>2
<1>12. Present(S, G, d, n)
  BY <1>6, <1>9, <1>10, <1>11 DEF Present
<1> QED
  BY <1>12 DEF G

\* Joining a version with the next one, x from where v begins to where w ends;
\* both deleted, or one going on where the other ends.
LEMMA Joined ==
  ASSUME NEW S, NEW H, NEW d \in Folders, NEW n \in Nat, Present(S, H, d, n),
         NEW v \in H, NEW w \in H, v.first < w.first,
         \A u \in H : v.first < u.first => w.first <= u.first,
         v.deleted <=> w.deleted, ~v.deleted => v.meta = w.meta,
         NEW x, x.first = v.first, x.last = w.last, x.added = v.added, x.deleted = v.deleted, x.meta = v.meta
  PROVE  Present(S, (H \ {v, w}) \cup {x}, d, n)
<1> DEFINE G == (H \ {v, w}) \cup {x}
<1>1. /\ \A u \in H : u.first \in 1..n /\ u.last \in Nat /\ u.first <= u.last /\ u.last <= n
      /\ \A u, y \in H : u # y => u.last < y.first \/ y.last < u.first
      /\ \A t \in 1..n : Found(S, d, t) => \E u \in H : ~u.deleted /\ u.first <= t /\ t <= u.last
      /\ \A u \in H : ~u.deleted => \A t \in u.first..u.last : Found(S, d, t) /\ u.meta = S[t][d].meta
  BY DEF Present, Told
<1>2. Unbroken(H, n) /\ Continued(H) /\ Gone(S, H, d)
  BY DEF Present
<1>3. \A u \in G : u = x \/ (u \in H /\ u # v /\ u # w)
  OBVIOUS
<1>4. x \in G /\ \A u \in H : u # v /\ u # w => u \in G
  OBVIOUS
<1>5. v.last < w.first /\ v # w
  BY <1>1
<1>6. \A u \in H : u # v /\ u # w => u.last < v.first \/ w.last < u.first
  <2> SUFFICES ASSUME NEW u \in H, u # v, u # w PROVE u.last < v.first \/ w.last < u.first
    OBVIOUS
  <2>1. u.last < v.first \/ v.last < u.first
    BY <1>1
  <2>2. u.last < w.first \/ w.last < u.first
    BY <1>1
  <2> QED
    BY <1>1, <2>1, <2>2
<1>7. ~v.deleted => w.first = v.last + 1
  <2> SUFFICES ASSUME ~v.deleted PROVE w.first = v.last + 1
    OBVIOUS
  <2>1. v.last < n
    BY <1>1, <1>5
  <2>2. PICK y \in H : y.first = v.last + 1
    BY <1>2, <2>1 DEF Unbroken
  <2>3. w.first <= y.first
    BY <1>1, <2>2
  <2> QED
    BY <1>1, <1>5, <2>2, <2>3
<1> HIDE DEF G
<1>8. Told(S, G, d, n)
  <2>1. \A u \in G : u.first \in 1..n /\ u.last \in Nat /\ u.first <= u.last /\ u.last <= n
    BY <1>1, <1>3, <1>5
  <2>2. \A u, y \in G : u # y => u.last < y.first \/ y.last < u.first
    BY <1>1, <1>3, <1>6
  <2>3. ASSUME NEW t \in 1..n, Found(S, d, t) PROVE \E u \in G : ~u.deleted /\ u.first <= t /\ t <= u.last
    <3>1. PICK u \in H : ~u.deleted /\ u.first <= t /\ t <= u.last
      BY <1>1, <2>3
    <3>2. CASE u # v /\ u # w
      BY <1>4, <3>1, <3>2
    <3>3. CASE u = v \/ u = w
      <4>1. ~x.deleted /\ x.first <= t /\ t <= x.last
        BY <1>1, <1>5, <3>1, <3>3
      <4> QED
        BY <1>4, <4>1
    <3> QED
      BY <3>2, <3>3
  <2>4. ASSUME NEW u \in G, ~u.deleted, NEW t \in u.first..u.last PROVE Found(S, d, t) /\ u.meta = S[t][d].meta
    <3>1. CASE u \in H
      BY <1>1, <2>4, <3>1
    <3>2. CASE u = x
      <4>1. t \in v.first..v.last \/ t \in w.first..w.last
        BY <1>1, <1>7, <2>4, <3>2
      <4> QED
        BY <1>1, <2>4, <3>2, <4>1
    <3> QED
      BY <1>3, <3>1, <3>2
  <2> QED
    BY <2>1, <2>2, <2>3, <2>4 DEF Told
<1>9. Unbroken(G, n)
  <2> SUFFICES ASSUME NEW u \in G, ~u.deleted, u.last < n PROVE \E y \in G : y.first = u.last + 1
    BY DEF Unbroken
  <2>1. PICK y \in H : ~y.deleted /\ y.last = u.last /\ y # v
    BY <1>3, <1>5
  <2>2. PICK z \in H : z.first = y.last + 1
    BY <1>2, <2>1 DEF Unbroken
  <2>3. CASE z = w
    <3>1. y.last < w.first /\ ~(y.last < v.first)
      BY <1>1, <1>5, <2>1, <2>2, <2>3
    <3> QED
      BY <1>1, <1>6, <2>1, <2>2, <2>3, <3>1
  <2>4. CASE z = v
    BY <1>4, <2>1, <2>2, <2>4
  <2>5. CASE z # v /\ z # w
    BY <1>4, <2>1, <2>2, <2>5
  <2> QED
    BY <2>3, <2>4, <2>5
<1>10. Continued(G)
  <2> SUFFICES ASSUME NEW u \in G, ~u.deleted, ~u.added PROVE \E p \in G : ~p.deleted /\ u.first = p.last + 1
    BY DEF Continued
  <2>1. PICK y \in H : ~y.deleted /\ ~y.added /\ y.first = u.first /\ y # w
    BY <1>3, <1>5
  <2>2. PICK z \in H : ~z.deleted /\ y.first = z.last + 1
    BY <1>2, <2>1 DEF Continued
  <2>3. CASE z = v
    <3>1. w.first = y.first
      BY <1>7, <2>2, <2>3
    <3> QED
      BY <1>1, <2>1, <3>1
  <2>4. CASE z = w
    BY <1>4, <2>1, <2>2, <2>4
  <2>5. CASE z # v /\ z # w
    BY <1>4, <2>1, <2>2, <2>5
  <2> QED
    BY <2>3, <2>4, <2>5
<1>11. Gone(S, G, d)
  <2> SUFFICES ASSUME NEW u \in G, u.deleted, NEW t \in u.first..u.last PROVE ~Found(S, d, t)
    BY DEF Gone
  <2>1. CASE u \in H
    BY <1>2, <2>1 DEF Gone
  <2>2. CASE u = x
    <3> SUFFICES ASSUME Found(S, d, t) PROVE FALSE
      OBVIOUS
    <3>1. v.deleted /\ w.deleted /\ t \in 1..n /\ v.first <= t /\ t <= w.last
      BY <1>1, <2>2
    <3>2. PICK y \in H : ~y.deleted /\ y.first <= t /\ t <= y.last
      BY <1>1, <3>1
    <3>3. y # v /\ y # w
      BY <3>1, <3>2
    <3> QED
      BY <1>1, <1>6, <3>1, <3>2, <3>3
  <2> QED
    BY <1>3, <2>1, <2>2
<1>12. Present(S, G, d, n)
  BY <1>8, <1>9, <1>10, <1>11 DEF Present
<1> QED
  BY <1>12 DEF G
LEMMA CountedRow ==
  ASSUME NEW v, RowLike(v), NEW s, NEW c
  PROVE  LET b == [v EXCEPT !.version = s, !.first = s, !.added = FALSE, !.counts = c]
         IN /\ RowLike(b) /\ b.item = v.item /\ b.first = s /\ b.last = v.last /\ ~b.added
            /\ b.deleted = v.deleted /\ b.meta = v.meta
BY DEF RowLike

LEMMA CountedPresent ==
  ASSUME NEW S, NEW R, NEW d \in Folders, NEW n \in Nat, Present(S, Of(R, d), d, n),
         \A v \in Of(R, d) : RowLike(v), NEW s \in Nat, NEW c
  PROVE  Present(S, Counted(R, d, s, c), d, n) /\ \A x \in Counted(R, d, s, c) : RowLike(x) /\ x.item = d
<1> DEFINE H == Of(R, d)
           G == Counted(R, d, s, c)
           own == {v \in H : v.first = s}
           cover == {v \in H : v.first < s /\ v.last >= s}
           span == {v \in cover : \A w \in cover : w.first <= v.first}
           E(v) == [v EXCEPT !.counts = c]
           a(v) == [v EXCEPT !.last = s - 1]
           b(v) == [v EXCEPT !.version = s, !.first = s, !.added = FALSE, !.counts = c]
<1>1. G = IF own # {} THEN (H \ own) \cup {E(v) : v \in own}
          ELSE (H \ span) \cup {a(v) : v \in span} \cup {b(v) : v \in span}
  BY Zenon DEF Counted
<1>2. \A v \in H : RowLike(v) /\ v.item = d
  BY DEF Of
<1>3. /\ \A v, w \in H : v.first = w.first => v = w
      /\ \A v \in H : v.first \in Nat /\ v.last \in Nat
  BY DEF Present, Told
<1>4. \A v \in H : Same(E(v), v)
  BY <1>2, OtherFields
<1>5. \A v \in H : /\ RowLike(a(v)) /\ a(v).item = v.item /\ a(v).first = v.first /\ a(v).last = s - 1
                   /\ a(v).added = v.added /\ a(v).deleted = v.deleted /\ a(v).meta = v.meta
  BY <1>2, NewLast
<1>6. \A v \in H : /\ RowLike(b(v)) /\ b(v).item = v.item /\ b(v).first = s /\ b(v).last = v.last /\ ~b(v).added
                   /\ b(v).deleted = v.deleted /\ b(v).meta = v.meta
  <2> SUFFICES ASSUME NEW v \in H
               PROVE  /\ RowLike(b(v)) /\ b(v).item = v.item /\ b(v).first = s /\ b(v).last = v.last
                      /\ ~b(v).added /\ b(v).deleted = v.deleted /\ b(v).meta = v.meta
    BY Zenon
  <2>1. RowLike(v)
    BY <1>2
  <2> HIDE DEF H, G, own, cover, span, E, a
  <2> QED
    BY <2>1 DEF RowLike
<1>7. Present(S, H, d, n)
  OBVIOUS
<1> HIDE DEF G, H, E, a, b
<1>8. CASE own # {}
  <2>1. G = (H \ own) \cup {E(v) : v \in own}
    BY <1>1, <1>8
  <2>2. \A x \in G : \E v \in H : Same(x, v) /\ x = IF v.first = s THEN E(v) ELSE v
    BY <1>2, <1>4, <2>1 DEF Same, Alike
  <2>3. \A v \in H : \E x \in G : Same(x, v)
    <3> SUFFICES ASSUME NEW v \in H PROVE \E x \in G : Same(x, v)
      OBVIOUS
    <3>1. CASE v.first = s
      BY <1>4, <2>1, <3>1
    <3>2. CASE v.first # s
      BY <1>2, <2>1, <3>2 DEF Same, Alike
    <3> QED
      BY <3>1, <3>2
  <2>4. \A x, y \in G : x.first = y.first => x = y
    <3> SUFFICES ASSUME NEW x \in G, NEW y \in G, x.first = y.first PROVE x = y
      OBVIOUS
    <3>1. PICK v \in H : Same(x, v) /\ x = IF v.first = s THEN E(v) ELSE v
      BY <2>2
    <3>2. PICK w \in H : Same(y, w) /\ y = IF w.first = s THEN E(w) ELSE w
      BY <2>2
    <3>3. v = w
      BY <1>3, <3>1, <3>2 DEF Same, Alike
    <3> QED
      BY <3>1, <3>2, <3>3
  <2>5. /\ \A x \in G : \E v \in H : Similar(d, x, v)
        /\ \A v \in H : \E x \in G : Similar(d, x, v)
    BY <2>2, <2>3 DEF Same, Similar
  <2>6. Present(S, G, d, n)
    BY <1>7, <2>4, <2>5, AlikePresent
  <2>7. \A x \in G : RowLike(x) /\ x.item = d
    BY <1>2, <2>2 DEF Same
  <2> QED
    BY <2>6, <2>7 DEF G
<1>9. CASE own = {} /\ span = {}
  <2>1. G = H
    BY <1>1, <1>9
  <2> QED
    BY <1>2, <1>7, <2>1 DEF G
<1>10. CASE own = {} /\ span # {}
  <2>1. PICK v \in span : TRUE
    BY <1>10
  <2>2. span = {v}
    BY <1>3, <2>1
  <2>3. v \in H /\ v.first < s /\ s <= v.last
    BY <1>3, <2>1
  <2>4. G = (H \ {v}) \cup {a(v)} \cup {b(v)}
    <3> HIDE DEF span, own
    <3> QED
      BY <1>1, <1>10, <2>2
  <2>5. Present(S, (H \ {v}) \cup {a(v)} \cup {b(v)}, d, n)
    BY <1>5, <1>6, <1>7, <2>3, CutInTwo
  <2>6. \A x \in G : RowLike(x) /\ x.item = d
    BY <1>2, <1>5, <1>6, <2>3, <2>4
  <2> QED
    BY <2>4, <2>5, <2>6 DEF G
<1> QED
  BY <1>8, <1>9, <1>10

LEMMA PrunedPresent ==
  ASSUME NEW S, NEW R, NEW d \in Folders, NEW n \in Nat, Present(S, Of(R, d), d, n),
         \A v \in Of(R, d) : RowLike(v), NEW s
  PROVE  Present(S, Pruned(R, d, s), d, n) /\ \A x \in Pruned(R, d, s) : RowLike(x) /\ x.item = d
<1> DEFINE H == Of(R, d)
           G == Pruned(R, d, s)
           own == {v \in H : v.first = s}
           repeats(v) == /\ ~v.added /\ ~v.deleted
                         /\ \E p \in Before(R, d, s) : p.meta = v.meta
           still == [Zero EXCEPT !.unchanged = PrevAlive(R, d, s)]
           rest == H \ own
           E(v) == [v EXCEPT !.counts = still]
           a(p) == [p EXCEPT !.last = Max({v.last : v \in own})]
<1>1. G = IF own = {} THEN rest
          ELSE IF \E v \in own : repeats(v)
          THEN {IF p \in Before(R, d, s) THEN a(p) ELSE p : p \in rest}
          ELSE rest \cup {E(v) : v \in own}
  BY Zenon DEF Pruned
<1>2. \A v \in H : RowLike(v) /\ v.item = d
  BY DEF Of
<1>3. /\ \A v, w \in H : v.first = w.first => v = w
      /\ \A v \in H : v.first \in 1..n /\ v.last \in Nat /\ v.first <= v.last
      /\ \A v, w \in H : v # w => v.last < w.first \/ w.last < v.first
      /\ Continued(H)
  BY DEF Present, Told
<1>4. \A v \in H : Same(E(v), v)
  <2> HIDE DEF still
  <2> QED
    BY <1>2, OtherFields
<1>5. Present(S, H, d, n)
  OBVIOUS
<1>6. Before(R, d, s) = {v \in H : v.first <= s - 1 /\ \A w \in H : w.first <= s - 1 => w.first <= v.first}
  BY DEF Before, At
<1> HIDE DEF G, H, E, still
<1>7. CASE own = {}
  <2>1. G = H
    BY <1>1, <1>7
  <2> QED
    BY <1>2, <1>5, <2>1 DEF G
<1>8. CASE own # {} /\ \E v \in own : repeats(v)
  <2>1. PICK v \in own : repeats(v)
    BY <1>8
  <2>2. v \in H /\ v.first = s /\ ~v.added /\ ~v.deleted
    BY <2>1
  <2>3. own = {v}
    BY <1>3, <2>1
  <2>4. PICK q \in Before(R, d, s) : q.meta = v.meta
    BY <2>1
  <2>5. PICK p \in H : ~p.deleted /\ v.first = p.last + 1
    BY <1>3, <2>2 DEF Continued
  <2>6. s \in Nat /\ p.first < s /\ \A u \in H : u.first < s => u.first <= p.first
    <3>1. ASSUME NEW u \in H, u.first < s PROVE u.first <= p.first
      BY <1>3, <2>2, <2>5, <3>1
    <3> QED
      BY <1>3, <2>2, <2>5, <3>1
  <2>7. Before(R, d, s) = {p}
    <3>1. \A u \in H : u.first <= s - 1 <=> u.first < s
      BY <1>3, <2>6
    <3> QED
      BY <1>3, <1>6, <2>6, <3>1
  <2>8. q = p /\ p.meta = v.meta /\ p # v
    BY <1>3, <2>2, <2>4, <2>6, <2>7
  <2>9. a(p) = [p EXCEPT !.last = v.last]
    <3>1. {w.last : w \in own} = {v.last}
      BY <2>3
    <3>2. Max({v.last}) = v.last
      <4>1. \A x \in {v.last} : x = v.last
        OBVIOUS
      <4>2. v.last >= v.last
        BY <1>3, <2>2
      <4> QED
        BY <4>1, <4>2 DEF Max
    <3> QED
      BY <3>1, <3>2
  <2> DEFINE x == a(p)
  <2>10. /\ RowLike(x) /\ x.item = d /\ x.first = p.first /\ x.last = v.last
         /\ x.added = p.added /\ x.deleted = p.deleted /\ x.meta = p.meta
    <3> DEFINE l == v.last
               y == [p EXCEPT !.last = l]
    <3>1. RowLike(p) /\ p.item = d
      BY <1>2, <2>5
    <3>2. /\ RowLike(y) /\ y.item = p.item /\ y.first = p.first /\ y.last = l
          /\ y.added = p.added /\ y.deleted = p.deleted /\ y.meta = p.meta
      <4> HIDE DEF l
      <4> QED
        BY <3>1, NewLast
    <3>3. x = y
      BY <2>9
    <3> HIDE DEF x, y
    <3> QED
      BY <3>1, <3>2, <3>3
  <2>11. G = (H \ {p, v}) \cup {x}
    <3>1. G = {IF u \in Before(R, d, s) THEN a(u) ELSE u : u \in rest}
      BY <1>1, <1>8
    <3> HIDE DEF a, own
    <3> QED
      BY <2>3, <2>5, <2>7, <2>8, <3>1
  <2> HIDE DEF x
  <2>12. \A u \in H : p.first < u.first => v.first <= u.first
    <3> SUFFICES ASSUME NEW u \in H, p.first < u.first, ~(v.first <= u.first) PROVE FALSE
      OBVIOUS
    <3>1. u.first < s
      BY <1>3, <2>2, <2>6
    <3> QED
      BY <1>3, <2>5, <2>6, <3>1
  <2>13. Present(S, (H \ {p, v}) \cup {x}, d, n)
    BY <1>5, <2>2, <2>5, <2>6, <2>8, <2>10, <2>12, Joined
  <2>14. \A y \in G : RowLike(y) /\ y.item = d
    BY <1>2, <2>10, <2>11
  <2> QED
    BY <2>11, <2>13, <2>14 DEF G
<1>9. CASE own # {} /\ ~(\E v \in own : repeats(v))
  <2>1. G = (H \ own) \cup {E(v) : v \in own}
    BY <1>1, <1>9
  <2>2. \A x \in G : \E v \in H : Same(x, v) /\ x = IF v.first = s THEN E(v) ELSE v
    BY <1>2, <1>4, <2>1 DEF Same, Alike
  <2>3. \A v \in H : \E x \in G : Same(x, v)
    <3> SUFFICES ASSUME NEW v \in H PROVE \E x \in G : Same(x, v)
      OBVIOUS
    <3>1. CASE v.first = s
      BY <1>4, <2>1, <3>1
    <3>2. CASE v.first # s
      BY <1>2, <2>1, <3>2 DEF Same, Alike
    <3> QED
      BY <3>1, <3>2
  <2>4. \A x, y \in G : x.first = y.first => x = y
    <3> SUFFICES ASSUME NEW x \in G, NEW y \in G, x.first = y.first PROVE x = y
      OBVIOUS
    <3>1. PICK v \in H : Same(x, v) /\ x = IF v.first = s THEN E(v) ELSE v
      BY <2>2
    <3>2. PICK w \in H : Same(y, w) /\ y = IF w.first = s THEN E(w) ELSE w
      BY <2>2
    <3>3. v = w
      BY <1>3, <3>1, <3>2 DEF Same, Alike
    <3> QED
      BY <3>1, <3>2, <3>3
  <2>5. /\ \A x \in G : \E v \in H : Similar(d, x, v)
        /\ \A v \in H : \E x \in G : Similar(d, x, v)
    BY <2>2, <2>3 DEF Same, Similar
  <2>6. Present(S, G, d, n)
    BY <1>5, <2>4, <2>5, AlikePresent
  <2>7. \A x \in G : RowLike(x) /\ x.item = d
    BY <1>2, <2>2 DEF Same
  <2> QED
    BY <2>6, <2>7 DEF G
<1> QED
  BY <1>7, <1>8, <1>9

-----------------------------------------------------------------------------
\* Rows of one item.
RowsOf(H, i) == \A x \in H : RowLike(x) /\ x.item = i

LEMMA OfProper ==
  ASSUME NEW R, Proper(R)
  PROVE  \A i \in Items : RowsOf(Of(R, i), i)
BY DEF Proper, RowsOf, Of

\* Rows put together from those of the files and some for each folder.
Together(R, P) == FilesOf(R) \cup UNION Range(P)

LEMMA Parts ==
  ASSUME NEW R, Proper(R), NEW P, DOMAIN P = Folders, \A d \in Folders : RowsOf(P[d], d)
  PROVE  /\ Proper(Together(R, P))
         /\ \A f \in Files : Of(Together(R, P), f) = Of(R, f)
         /\ \A d \in Folders : Of(Together(R, P), d) = P[d]
<1> DEFINE G == Together(R, P)
<1>0. G = FilesOf(R) \cup UNION {P[d] : d \in Folders}
  BY DEF Together, Range
<1> HIDE DEF G
<1>1. Files \cap Folders = {} /\ Items = Files \cup Folders
  BY RowsAssumption DEF Items
<1>2. Proper(G)
  BY <1>0, <1>1 DEF Proper, RowsOf, FilesOf
<1>3. \A f \in Files : Of(G, f) = Of(R, f)
  BY <1>0, <1>1 DEF Of, RowsOf, FilesOf
<1>4. \A d \in Folders : Of(G, d) = P[d]
  BY <1>0, <1>1 DEF Of, RowsOf, FilesOf
<1> QED
  BY <1>2, <1>3, <1>4 DEF G

\* The rows of one item in place of those it had.
Exchange(R, i, H) == (R \ Of(R, i)) \cup H

LEMMA Exchanged ==
  ASSUME NEW R, Proper(R), NEW i \in Items, NEW H, RowsOf(H, i)
  PROVE  /\ Proper(Exchange(R, i, H)) /\ Of(Exchange(R, i, H), i) = H
         /\ \A j \in Items : j # i => Of(Exchange(R, i, H), j) = Of(R, j)
<1>1. Proper(Exchange(R, i, H))
  BY DEF Proper, RowsOf, Of, Exchange
<1>2. Of(Exchange(R, i, H), i) = H
  BY DEF Of, RowsOf, Exchange
<1>3. \A j \in Items : j # i => Of(Exchange(R, i, H), j) = Of(R, j)
  BY DEF Of, RowsOf, Exchange
<1> QED
  BY <1>1, <1>2, <1>3

\* Each row in another form that tells the same.
Retold(F, R) == DOMAIN F = R /\ \A v \in R : RowLike(F[v]) /\ F[v].item = v.item /\ Alike(F[v], v)

LEMMA RewrittenProper ==
  ASSUME NEW R, Proper(R), NEW F, Retold(F, R)
  PROVE  Proper(Range(F))
BY DEF Proper, Retold, Range

LEMMA RewrittenPresent ==
  ASSUME NEW R, NEW F, Retold(F, R),
         NEW i \in Items, i \in Folders => \A v \in R : F[v].added = v.added,
         NEW S, NEW n \in Nat, Present(S, Of(R, i), i, n)
  PROVE  /\ Present(S, Of(Range(F), i), i, n)
         /\ Past(S, Of(R, i), i, n) => Past(S, Of(Range(F), i), i, n)
<1> DEFINE H == Of(R, i)
           G == Range(F)
           K == Of(G, i)
<1>0. G = {F[v] : v \in R} /\ \A v \in R : F[v].item = v.item /\ Alike(F[v], v)
  BY DEF Range, Retold
<1> HIDE DEF G
<1>1. \A x \in K : \E v \in H : x = F[v] /\ Similar(i, x, v)
  BY <1>0 DEF Of, Similar
<1>2. \A v \in H : \E x \in K : Similar(i, x, v)
  BY <1>0 DEF Of, Similar
<1>3. \A v, w \in H : v.first = w.first => v = w
  BY DEF Present, Told
<1>4. Present(S, H, i, n)
  OBVIOUS
<1> HIDE DEF H, K
<1>5. \A x, y \in K : x.first = y.first => x = y
  <2> SUFFICES ASSUME NEW x \in K, NEW y \in K, x.first = y.first PROVE x = y
    OBVIOUS
  <2>1. PICK v \in H : x = F[v] /\ Similar(i, x, v)
    BY <1>1
  <2>2. PICK w \in H : y = F[w] /\ Similar(i, y, w)
    BY <1>1
  <2>3. v = w
    BY <1>3, <2>1, <2>2 DEF Similar, Alike
  <2> QED
    BY <2>1, <2>2, <2>3
<1>6. \A x \in K : \E v \in H : Similar(i, x, v)
  BY <1>1
<1>7. Present(S, K, i, n) /\ (Unbroken(H, n) => Unbroken(K, n))
  BY <1>2, <1>4, <1>5, <1>6, AlikePresent
<1>8. Past(S, H, i, n) => Past(S, K, i, n)
  BY <1>7 DEF Past
<1> QED
  BY <1>7, <1>8 DEF H, K, G

LEMMA RewrittenFiles ==
  ASSUME NEW R, Proper(R), NEW F, Retold(F, R), NEW S, NEW n \in Nat
  PROVE  \A f \in Files : Past(S, Of(R, f), f, n) => Past(S, Of(Range(F), f), f, n)
<1>1. ASSUME NEW f \in Files, Past(S, Of(R, f), f, n) PROVE Past(S, Of(Range(F), f), f, n)
  <2>1. f \in Items /\ f \notin Folders
    BY RowsAssumption DEF Items
  <2>2. f \in Folders => \A v \in R : F[v].added = v.added
    BY <2>1
  <2>3. Present(S, Of(R, f), f, n)
    BY <1>1 DEF Past
  <2>4. /\ Present(S, Of(Range(F), f), f, n)
        /\ Past(S, Of(R, f), f, n) => Past(S, Of(Range(F), f), f, n)
    BY <2>1, <2>2, <2>3, RewrittenPresent
  <2> QED
    BY <1>1, <2>4
<1> QED
  BY <1>1

LEMMA CopiedRow ==
  ASSUME NEW v, RowLike(v), NEW s, NEW c
  PROVE  LET x == [v EXCEPT !.first = s, !.last = s, !.added = FALSE, !.counts = c]
         IN RowLike(x) /\ x.item = v.item
BY DEF RowLike

LEMMA WithCountsRows ==
  ASSUME NEW R, Proper(R), NEW d \in Folders, NEW s, NEW c
  PROVE  RowsOf(WithCounts(R, d, s, c), d)
<1> DEFINE H == Of(R, d)
           own == StartedBy(R, d, s)
           newest == Newest(R, d)
           copy(v) == [v EXCEPT !.first = s, !.last = s, !.added = FALSE, !.counts = c]
           E(v) == [v EXCEPT !.counts = c]
           cut(v) == [v EXCEPT !.last = s - 1]
<1>1. RowsOf(H, d)
  BY OfProper DEF Items
<1>2. own \subseteq H /\ newest \subseteq H
  BY DEF StartedBy, Newest, At
<1>3. \A v \in H : RowLike(E(v)) /\ E(v).item = v.item
  BY <1>1, OtherFields DEF RowsOf, Same
<1>4. \A v \in H : RowLike(copy(v)) /\ copy(v).item = v.item
  <2> SUFFICES ASSUME NEW v \in H PROVE RowLike(copy(v)) /\ copy(v).item = v.item
    OBVIOUS
  <2>1. RowLike(v)
    BY <1>1 DEF RowsOf
  <2> HIDE DEF H
  <2> QED
    BY <2>1, CopiedRow
<1>5. \A v \in H : RowLike(cut(v)) /\ cut(v).item = v.item
  BY <1>1, NewLast DEF RowsOf
<1>6. WithCounts(R, d, s, c) =
        IF own # {} THEN (H \ own) \cup {E(v) : v \in own}
        ELSE (H \ newest) \cup {copy(v) : v \in newest} \cup
             IF s > 1 THEN {cut(v) : v \in newest} ELSE newest
  BY Zenon DEF WithCounts
<1> HIDE DEF H, own, newest, copy, E, cut
<1>7. \A x \in WithCounts(R, d, s, c) :
        \/ x \in H
        \/ \E v \in H : x = E(v) \/ x = copy(v) \/ x = cut(v)
  BY <1>2, <1>6
<1> QED
  BY <1>1, <1>3, <1>4, <1>5, <1>7 DEF RowsOf

LEMMA WrittenRows ==
  ASSUME NEW R, Proper(R), NEW d \in Folders, NEW s, NEW b
  PROVE  RowsOf(Written(R, d, s, b), d)
<1>1. \A c : RowsOf(WithCounts(R, d, s, c), d)
  BY WithCountsRows
<1>2. RowsOf(Of(R, d), d)
  BY OfProper DEF Items
<1>3. \/ Written(R, d, s, b) = Of(R, d)
      \/ \E c : Written(R, d, s, b) = WithCounts(R, d, s, c)
  BY Zenon DEF Written
<1> QED
  BY <1>1, <1>2, <1>3, Zenon

LEMMA CountedRows ==
  ASSUME NEW R, Proper(R), NEW d \in Folders, NEW s, NEW c
  PROVE  RowsOf(Counted(R, d, s, c), d)
<1> DEFINE H == Of(R, d)
           own == {v \in H : v.first = s}
           cover == {v \in H : v.first < s /\ v.last >= s}
           span == {v \in cover : \A w \in cover : w.first <= v.first}
           E(v) == [v EXCEPT !.counts = c]
           a(v) == [v EXCEPT !.last = s - 1]
           b(v) == [v EXCEPT !.version = s, !.first = s, !.added = FALSE, !.counts = c]
<1>1. RowsOf(H, d)
  BY OfProper DEF Items
<1>2. own \subseteq H /\ span \subseteq H
  OBVIOUS
<1>3. \A v \in H : RowLike(E(v)) /\ E(v).item = v.item
  BY <1>1, OtherFields DEF RowsOf, Same
<1>4. \A v \in H : RowLike(b(v)) /\ b(v).item = v.item
  <2> SUFFICES ASSUME NEW v \in H PROVE RowLike(b(v)) /\ b(v).item = v.item
    OBVIOUS
  <2>1. RowLike(v)
    BY <1>1 DEF RowsOf
  <2> HIDE DEF H, own, cover, span, E, a
  <2> QED
    BY <2>1 DEF RowLike
<1>5. \A v \in H : RowLike(a(v)) /\ a(v).item = v.item
  BY <1>1, NewLast DEF RowsOf
<1>6. Counted(R, d, s, c) =
        IF own # {} THEN (H \ own) \cup {E(v) : v \in own}
        ELSE (H \ span) \cup {a(v) : v \in span} \cup {b(v) : v \in span}
  BY Zenon DEF Counted
<1> HIDE DEF H, own, span, a, E, b
<1>7. \A x \in Counted(R, d, s, c) :
        \/ x \in H
        \/ \E v \in H : x = E(v) \/ x = a(v) \/ x = b(v)
  BY <1>2, <1>6
<1> QED
  BY <1>1, <1>3, <1>4, <1>5, <1>7 DEF RowsOf

LEMMA PrunedRows ==
  ASSUME NEW R, Proper(R), NEW d \in Folders, NEW s
  PROVE  RowsOf(Pruned(R, d, s), d)
<1> DEFINE H == Of(R, d)
           own == {v \in H : v.first = s}
           repeats(v) == /\ ~v.added /\ ~v.deleted
                         /\ \E p \in Before(R, d, s) : p.meta = v.meta
           still == [Zero EXCEPT !.unchanged = PrevAlive(R, d, s)]
           rest == H \ own
           l == Max({v.last : v \in own})
           E(v) == [v EXCEPT !.counts = still]
           a(p) == [p EXCEPT !.last = l]
<1>1. RowsOf(H, d)
  BY OfProper DEF Items
<1>2. own \subseteq H /\ rest \subseteq H
  OBVIOUS
<1>3. \A v \in H : RowLike(E(v)) /\ E(v).item = v.item
  <2> HIDE DEF still
  <2> QED
    BY <1>1, OtherFields DEF RowsOf, Same
<1>4. \A v \in H : RowLike(a(v)) /\ a(v).item = v.item
  <2> HIDE DEF l
  <2> QED
    BY <1>1, NewLast DEF RowsOf
<1>5. Pruned(R, d, s) =
          IF own = {} THEN rest
          ELSE IF \E v \in own : repeats(v)
          THEN {IF p \in Before(R, d, s) THEN a(p) ELSE p : p \in rest}
          ELSE rest \cup {E(v) : v \in own}
  BY Zenon DEF Pruned
<1> HIDE DEF H, own, rest, repeats, E, a
<1>6. \A x \in Pruned(R, d, s) :
        \/ x \in H
        \/ \E v \in H : x = E(v) \/ x = a(v)
  BY <1>2, <1>5
<1> QED
  BY <1>1, <1>3, <1>4, <1>6 DEF RowsOf

LEMMA ChainedRows ==
  ASSUME Proper(rows), NEW i \in Items
  PROVE  RowsOf(Chained(i), i)
<1> DEFINE H == Of(rows, i)
           end(v) == IF After(rows, v) = {} THEN Max({w.last : w \in H})
                     ELSE Min({w.first : w \in After(rows, v)}) - 1
           E(v) == [v EXCEPT !.last = end(v)]
<1>1. RowsOf(H, i)
  BY OfProper
<1>2. Chained(i) = {E(v) : v \in H}
  BY Zenon DEF Chained
<1>3. ASSUME NEW v \in H PROVE RowLike(E(v)) /\ E(v).item = i
  <2> DEFINE l == end(v)
  <2>1. RowLike(v) /\ v.item = i
    BY <1>1 DEF RowsOf
  <2>2. RowLike([v EXCEPT !.last = l]) /\ [v EXCEPT !.last = l].item = v.item
    <3> HIDE DEF l
    <3> QED
      BY <2>1, NewLast
  <2> QED
    BY <2>1, <2>2
<1> HIDE DEF H, E
<1> QED
  BY <1>2, <1>3 DEF RowsOf

\* What collapsing has kept of the versions of d up to each scan.
Collapsing(g, R, d, dedup, n) ==
  g = [s \in 0..n |->
        IF s = 0 THEN {}
        ELSE LET keeper == Newest(g[s - 1], d)
                 next == StartedBy(R, d, s)
             IN IF \E v \in keeper, w \in next : Mergeable(v, w, dedup)
                THEN (g[s - 1] \ keeper) \cup
                     {[v EXCEPT !.last = Max({w.last : w \in next})] : v \in keeper}
                ELSE g[s - 1] \cup next]

LEMMA CollapsingExists ==
  ASSUME NEW R, NEW d, NEW dedup, NEW s \in Nat
  PROVE  \E g : Collapsing(g, R, d, dedup, s)
<1> DEFINE Step(K, t) ==
             LET keeper == Newest(K, d)
                 next == StartedBy(R, d, t)
             IN IF \E v \in keeper, w \in next : Mergeable(v, w, dedup)
                THEN (K \ keeper) \cup
                     {[v EXCEPT !.last = Max({w.last : w \in next})] : v \in keeper}
                ELSE K \cup next
           Upto(g, n) == g = [t \in 0..n |-> IF t = 0 THEN {} ELSE Step(g[t - 1], t)]
           Missing == {n \in 0..s : ~ \E g : Upto(g, n)}
<1>1. Missing = {}
  <2> SUFFICES ASSUME Missing # {} PROVE FALSE
    OBVIOUS
  <2>1. Missing \in SUBSET Nat
    OBVIOUS
  <2>2. PICK m \in Missing : \A j \in Missing : m <= j
    <3> HIDE DEF Missing
    <3> QED
      BY <2>1, Least
  <2>3. CASE m = 0
    <3> DEFINE g == [t \in 0..0 |-> {}]
    <3>1. g = [t \in 0..0 |-> IF t = 0 THEN {} ELSE Step(g[t - 1], t)]
      <4> HIDE DEF Step
      <4> QED
        OBVIOUS
    <3>2. Upto(g, 0)
      BY <3>1
    <3> HIDE DEF Upto
    <3> QED
      BY <2>2, <2>3, <3>2
  <2>4. CASE m # 0
    <3>1. m \in Nat /\ m - 1 \in 0..s /\ m - 1 \notin Missing
      <4>1. m \in 0..s
        BY <2>2
      <4> HIDE DEF Missing
      <4>2. ~ (m <= m - 1) /\ m - 1 \in 0..s
        BY <2>4, <4>1
      <4> QED
        BY <2>2, <4>1, <4>2
    <3>2. PICK g : Upto(g, m - 1)
      <4> HIDE DEF Upto
      <4> QED
        BY <3>1
    <3> DEFINE h == [t \in 0..m |-> IF t = m THEN Step(g[m - 1], m) ELSE g[t]]
    <3>3. h = [t \in 0..m |-> IF t = 0 THEN {} ELSE Step(h[t - 1], t)]
      <4> HIDE DEF Step
      <4>1. \A t \in 0..(m - 1) : g[t] = IF t = 0 THEN {} ELSE Step(g[t - 1], t)
        BY <3>2
      <4>2. ASSUME NEW t \in 0..m PROVE h[t] = IF t = 0 THEN {} ELSE Step(h[t - 1], t)
        <5>1. CASE t = m
          BY <5>1, <2>4, <3>1
        <5>2. CASE t # m
          <6>1. t \in 0..(m - 1) /\ h[t] = g[t]
            BY <5>2, <3>1
          <6>2. t # 0 => h[t - 1] = g[t - 1]
            BY <6>1, <3>1
          <6> QED
            BY <6>1, <6>2, <4>1
        <5> QED
          BY <5>1, <5>2
      <4>3. \A t \in 0..m : h[t] = IF t = 0 THEN {} ELSE Step(h[t - 1], t)
        BY <4>2
      <4> QED
        BY <4>3
    <3>4. Upto(h, m)
      BY <3>3
    <3> HIDE DEF Upto
    <3> QED
      BY <2>2, <3>4
  <2> QED
    BY <2>3, <2>4
<1>2. PICK g : Upto(g, s)
  <2> HIDE DEF Upto
  <2> QED
    BY <1>1
<1> QED
  BY <1>2 DEF Collapsing

LEMMA CollapsedRows ==
  ASSUME NEW R, Proper(R), NEW d \in Folders, NEW dedup
  PROVE  RowsOf(Collapsed(R, d, dedup), d)
<1> DEFINE N == LastScan
           kept == CHOOSE g : Collapsing(g, R, d, dedup, N)
           Step(K, t) ==
             LET keeper == Newest(K, d)
                 next == StartedBy(R, d, t)
             IN IF \E v \in keeper, w \in next : Mergeable(v, w, dedup)
                THEN (K \ keeper) \cup
                     {[v EXCEPT !.last = Max({w.last : w \in next})] : v \in keeper}
                ELSE K \cup next
<1>0. N \in Nat
  BY RowsAssumption
<1>1. Collapsing(kept, R, d, dedup, N)
  BY <1>0, CollapsingExists, Zenon
<1>2. Collapsed(R, d, dedup) = kept[N]
  BY Zenon DEF Collapsed, Collapsing
<1> HIDE DEF kept, N
<1>3. kept[0] = {} /\ \A t \in 1..N : kept[t] = Step(kept[t - 1], t)
  <2>1. kept = [t \in 0..N |-> IF t = 0 THEN {} ELSE Step(kept[t - 1], t)]
    BY <1>1 DEF Collapsing
  <2> HIDE DEF Step
  <2>2. \A t \in 0..N : kept[t] = IF t = 0 THEN {} ELSE Step(kept[t - 1], t)
    BY <2>1
  <2> QED
    BY <1>0, <2>2
<1>4. ASSUME NEW K, RowsOf(K, d), NEW t PROVE RowsOf(Step(K, t), d)
  <2> DEFINE keeper == Newest(K, d)
             next == StartedBy(R, d, t)
             l == Max({w.last : w \in next})
             E(v) == [v EXCEPT !.last = l]
  <2>1. keeper \subseteq K
    BY DEF Newest, At, Of
  <2>2. RowsOf(next, d)
    BY DEF Proper, RowsOf, StartedBy, Of
  <2>3. \A v \in K : RowLike(E(v)) /\ E(v).item = d
    <3> HIDE DEF l
    <3> QED
      BY <1>4, NewLast DEF RowsOf
  <2>4. Step(K, t) = IF \E v \in keeper, w \in next : Mergeable(v, w, dedup)
                     THEN (K \ keeper) \cup {E(v) : v \in keeper} ELSE K \cup next
    BY Zenon
  <2> HIDE DEF keeper, next, E, Step
  <2>5. \A x \in Step(K, t) : x \in K \/ x \in next \/ \E v \in K : x = E(v)
    BY <2>1, <2>4
  <2> QED
    BY <1>4, <2>2, <2>3, <2>5 DEF RowsOf
<1> HIDE DEF Step
<1> DEFINE Bad == {t \in 0..N : ~RowsOf(kept[t], d)}
<1>5. Bad = {}
  <2> SUFFICES ASSUME Bad # {} PROVE FALSE
    OBVIOUS
  <2>1. Bad \in SUBSET Nat
    OBVIOUS
  <2>2. PICK m \in Bad : \A j \in Bad : m <= j
    <3> HIDE DEF Bad
    <3> QED
      BY <2>1, Least
  <2>3. m \in 1..N /\ m - 1 \in 0..N /\ ~RowsOf(kept[m], d)
    <3>1. RowsOf(kept[0], d)
      BY <1>3 DEF RowsOf
    <3>2. m \in 0..N /\ m # 0 /\ ~RowsOf(kept[m], d)
      BY <2>2, <3>1
    <3> QED
      BY <1>0, <3>2
  <2>4. m - 1 \notin Bad
    <3> HIDE DEF Bad
    <3>1. ~ (m <= m - 1)
      BY <2>3
    <3> QED
      BY <2>2, <3>1
  <2>5. RowsOf(kept[m - 1], d)
    BY <2>3, <2>4
  <2>6. RowsOf(Step(kept[m - 1], m), d)
    BY <1>4, <2>5
  <2> QED
    BY <1>3, <2>3, <2>6
<1>6. RowsOf(kept[N], d)
  BY <1>0, <1>5
<1> QED
  BY <1>2, <1>6

-----------------------------------------------------------------------------
\* The tree: the recursive definition of Above has a solution, the least sets
\* closed under Parent.
LEMMA AboveIs ==
  \A i \in Items : Above[i] = IF Parent[i] = Root THEN {Root} ELSE {Parent[i]} \cup Above[Parent[i]]
<1> DEFINE Closed(T) == \A j \in T \cap Items : Parent[j] \in T
           Up(i) == {x \in Folders \cup {Root} :
                       \A T \in SUBSET (Items \cup {Root}) : Parent[i] \in T /\ Closed(T) => x \in T}
           Rule(g) == g = [i \in Items |-> IF Parent[i] = Root THEN {Root}
                                           ELSE {Parent[i]} \cup g[Parent[i]]]
           up == [i \in Items |-> Up(i)]
<1>0. /\ Root \notin Items /\ Folders \subseteq Items
      /\ \A i \in Items : Parent[i] \in Folders \cup {Root}
  BY RowsAssumption DEF Items
<1>1. ASSUME NEW i \in Items PROVE Parent[i] \in Up(i)
  BY <1>0
<1>2. ASSUME NEW i \in Items, NEW j \in Up(i) \cap Items PROVE Parent[j] \in Up(i)
  <2>1. Parent[j] \in Folders \cup {Root}
    BY <1>0
  <2>2. ASSUME NEW T \in SUBSET (Items \cup {Root}), Parent[i] \in T, Closed(T) PROVE Parent[j] \in T
    <3>1. j \in T
      BY <2>2
    <3> QED
      BY <2>2, <3>1
  <2> HIDE DEF Closed
  <2> QED
    BY <2>1, <2>2
<1>3. ASSUME NEW i \in Items, Parent[i] = Root PROVE Up(i) = {Root}
  <2>1. Closed({Root})
    BY <1>0
  <2>2. Root \in Up(i)
    BY <1>1, <1>3
  <2>3. \A x \in Up(i) : x \in {Root}
    <3> HIDE DEF Closed
    <3> QED
      BY <1>3, <2>1
  <2> HIDE DEF Up
  <2> QED
    BY <2>2, <2>3
<1>4. ASSUME NEW i \in Items, Parent[i] # Root PROVE Up(i) = {Parent[i]} \cup Up(Parent[i])
  <2> DEFINE p == Parent[i]
             T == {p} \cup Up(p)
  <2>1. p \in Items /\ p \in Folders
    BY <1>0, <1>4
  <2>2. Closed(T)
    <3> SUFFICES ASSUME NEW j \in T \cap Items PROVE Parent[j] \in T
      OBVIOUS
    <3> HIDE DEF Up
    <3>1. CASE j = p
      BY <1>1, <2>1, <3>1
    <3>2. CASE j # p
      BY <1>2, <2>1, <3>2
    <3> QED
      BY <3>1, <3>2
  <2>3. T \in SUBSET (Items \cup {Root})
    BY <1>0, <2>1
  <2>4. \A x \in Up(i) : x \in T
    <3> HIDE DEF Closed, T
    <3>1. p \in T
      BY DEF T
    <3> QED
      BY <2>2, <2>3, <3>1
  <2>5. ASSUME NEW x \in Up(p) PROVE x \in Up(i)
    <3>1. ASSUME NEW Q \in SUBSET (Items \cup {Root}), p \in Q, Closed(Q) PROVE x \in Q
      <4>1. Parent[p] \in Q
        BY <2>1, <3>1
      <4> QED
        BY <3>1, <4>1
    <3> HIDE DEF Closed
    <3> QED
      BY <3>1
  <2>6. p \in Up(i)
    BY <1>1
  <2> HIDE DEF Up
  <2> QED
    BY <2>4, <2>5, <2>6
<1> HIDE DEF Up
<1>5. Rule(up)
  <2>1. ASSUME NEW i \in Items
        PROVE  up[i] = IF Parent[i] = Root THEN {Root} ELSE {Parent[i]} \cup up[Parent[i]]
    <3>1. CASE Parent[i] = Root
      BY <1>3, <3>1
    <3>2. CASE Parent[i] # Root
      <4>1. Parent[i] \in Items
        BY <1>0, <3>2
      <4> QED
        BY <1>4, <3>2, <4>1
    <3> QED
      BY <3>1, <3>2
  <2> QED
    BY <2>1
<1>6. Above = CHOOSE g : Rule(g)
  BY Zenon DEF Above
<1> HIDE DEF up
<1>7. Rule(Above)
  <2> HIDE DEF Rule
  <2> QED
    BY <1>5, <1>6, Zenon
<1> QED
  BY <1>7

\* What is above something found was found, too.
LEMMA FoundAbove ==
  ASSUME NEW found \in Findings, NEW i \in Items, found[i] # Absent, NEW d \in Items, d \in Above[i]
  PROVE  found[d] # Absent
<1> DEFINE Lost(j) == found[j] # Absent /\ \E e \in Above[j] \cap Items : found[e] = Absent
           Bad == {j \in Folders : Lost(j)}
<1>0. /\ Root \notin Items /\ Folders \subseteq Items
      /\ \A j \in Items : Parent[j] \in Folders \cup {Root}
  BY RowsAssumption DEF Items
<1>1. ASSUME NEW j \in Items, Lost(j) PROVE Parent[j] \in Bad
  <2>1. PICK e \in Above[j] \cap Items : found[e] = Absent
    BY <1>1
  <2>2. Parent[j] # Root
    BY <1>0, <2>1, AboveIs
  <2>3. Parent[j] \in Folders /\ found[Parent[j]] # Absent
    BY <1>0, <1>1, <2>2 DEF Findings
  <2>4. e \in Above[Parent[j]]
    BY <2>1, <2>2, <2>3, AboveIs
  <2> QED
    BY <2>1, <2>3, <2>4
<1>2. Bad = {}
  <2> HIDE DEF Lost
  <2>1. \A j \in Bad : Parent[j] \in Bad
    BY <1>0, <1>1
  <2> QED
    BY <2>1, TreeAssumption
<1> QED
  BY <1>1, <1>2
-----------------------------------------------------------------------------
LEMMA MovedRows ==
  ASSUME NEW i \in Items
  PROVE  RowsOf(MovedFile(i), i) /\ RowsOf(MovedFolder(i), i)
<1>1. \A v, l, c, a, b : RowLike(Row(v, l, c, a, b)) /\ Row(v, l, c, a, b).item = v.item
  BY RowFields
<1>2. RowsOf(MovedFile(i), i)
  <2> DEFINE E(v) == Row(v, EffectiveLast(v), v.counts, MapThenSumSet(LAMBDA w : w.val, Judged(v)),
                         MapThenSumSet(LAMBDA w : w.valScan, Judged(v)))
  <2>1. MovedFile(i) = {E(v) : v \in {w \in Of(old, i) : ~Phantom(w)}}
    BY Zenon DEF MovedFile
  <2>2. \A v : RowLike(E(v)) /\ E(v).item = v.item
    BY <1>1
  <2> HIDE DEF E
  <2> QED
    BY <2>1, <2>2 DEF RowsOf, Of
<1>3. RowsOf(MovedFolder(i), i)
  BY <1>1 DEF MovedFolder, RowsOf, Of
<1> QED
  BY <1>2, <1>3

\* Merging a version with the next one.
LEMMA MergedRows ==
  ASSUME NEW R, Proper(R), NEW d \in Items, NEW v \in Of(R, d), NEW w \in Of(R, d),
         NEW G, G = (R \ {v, w}) \cup {[v EXCEPT !.last = w.last]}
  PROVE  /\ Proper(G)
         /\ Of(G, d) = (Of(R, d) \ {v, w}) \cup {[v EXCEPT !.last = w.last]}
         /\ \A j \in Items : j # d => Of(G, j) = Of(R, j)
<1> DEFINE l == w.last
           x == [v EXCEPT !.last = l]
<1>1. RowLike(v) /\ v.item = d /\ w.item = d
  BY OfProper DEF RowsOf
<1>2. RowLike(x) /\ x.item = d
  <2> HIDE DEF l
  <2> QED
    BY <1>1, NewLast
<1>3. v \in R /\ w \in R
  BY DEF Of
<1> HIDE DEF x
<1>4. G = (R \ {v, w}) \cup {x}
  BY DEF x
<1>5. Proper(G)
  BY <1>2, <1>4 DEF Proper
<1>6. Of(G, d) = (Of(R, d) \ {v, w}) \cup {x}
  BY <1>2, <1>4 DEF Of
<1>7. \A j \in Items : j # d => Of(G, j) = Of(R, j)
  BY <1>1, <1>2, <1>4 DEF Of
<1> QED
  BY <1>5, <1>6, <1>7 DEF x

LEMMA MergedPresent ==
  ASSUME NEW S, NEW d \in Folders, NEW n \in Nat, Present(S, Of(rows, d), d, n), Proper(rows),
         NEW v \in Of(rows, d), NEW w \in Of(rows, d), Repeats(v, w)
  PROVE  Present(S, (Of(rows, d) \ {v, w}) \cup {[v EXCEPT !.last = w.last]}, d, n)
<1> DEFINE H == Of(rows, d)
           l == w.last
           x == [v EXCEPT !.last = l]
<1>1. RowLike(v) /\ v.item = d
  BY OfProper DEF RowsOf, Items
<1>2. /\ x.first = v.first /\ x.last = l /\ x.added = v.added /\ x.deleted = v.deleted /\ x.meta = v.meta
  <2> HIDE DEF l
  <2> QED
    BY <1>1, NewLast
<1>3. /\ v.first < w.first /\ w.deleted = v.deleted /\ w.meta = v.meta
      /\ \A u \in H : u.first > v.first => w.first <= u.first
  BY <1>1 DEF Repeats, After
<1>4. \A u \in H : u.first \in Nat /\ v.first \in Nat
  BY DEF Present, Told
<1>5. \A u \in H : v.first < u.first => w.first <= u.first
  BY <1>3, <1>4
<1> HIDE DEF H, x
<1>6. (v.deleted <=> w.deleted) /\ (~v.deleted => v.meta = w.meta) /\ v \in H /\ w \in H
  BY <1>3 DEF H
<1>7. Present(S, H, d, n)
  BY DEF H
<1>8. Present(S, (H \ {v, w}) \cup {x}, d, n)
  BY <1>2, <1>3, <1>5, <1>6, <1>7, Joined
<1> QED
  BY <1>8 DEF H, x

-----------------------------------------------------------------------------
\* Items whose rows are kept: folders only when none was counted afterwards.
KeptItems == Files \cup IF early = 0 THEN Folders ELSE {}

Backfilling == stage \in {"v18", "v19", "v20", "v22", "v23", "states", "v24"}
BeforeSplit == Backfilling \/ stage \in {"live", "split"}
Recounting == stage \in {"untangling", "recounting", "merging", "numbering"}

\* The last completed scan once the last one is rolled back.
LastKept == IF running THEN LastScan - 1 ELSE LastScan

Stages ==
  /\ seen \in [Scans -> Findings] /\ early \in 0..LastScan /\ live \in early..LastScan
  /\ running \in BOOLEAN /\ (running => early < LastScan) /\ merged \subseteq Folders
  /\ BeforeSplit \/ stage = "moving" \/ Recounting \/ Upgraded
  /\ Backfilling => early > 0 /\ live = early
  /\ stage = "live" => live < LastScan
  /\ stage = "split" => live = LastScan

\* An item is moved whole.
Moved(i) ==
  \/ Of(rows, i) = {} /\ Past(seen, Of(old, i), i, LastKept)
  \/ Of(old, i) = {} /\ Present(seen, Of(rows, i), i, LastKept)

Faithful ==
  /\ Proper(old) /\ Proper(rows)
  /\ BeforeSplit =>
       /\ rows = {}
       /\ \A i \in KeptItems : Past(seen, Of(old, i), i, live)
  /\ stage = "split" /\ running =>
       /\ Proper(Restored(old, undo))
       /\ \A i \in KeptItems : Past(seen, Of(Restored(old, undo), i), i, LastScan - 1)
  /\ ~BeforeSplit => \A i \in KeptItems : Moved(i)
  /\ Recounting \/ Upgraded => old = {}
  /\ tangled \cap KeptItems = {}

IInv == Stages /\ Faithful

-----------------------------------------------------------------------------
LEMMA KeptFacts ==
  ASSUME Stages
  PROVE  /\ KeptItems \subseteq Items /\ Files \subseteq KeptItems
         /\ early > 0 => KeptItems = Files
         /\ early = 0 => KeptItems = Items
         /\ early \in Nat /\ live \in Nat /\ LastScan \in Nat \ {0} /\ live <= LastScan
         /\ LastKept \in Nat /\ LastKept <= LastScan
<1>1. LastScan \in Nat \ {0}
  BY RowsAssumption
<1>2. early \in Nat /\ live \in Nat /\ live <= LastScan
  BY <1>1 DEF Stages
<1>3. LastKept \in Nat /\ LastKept <= LastScan
  BY <1>1 DEF LastKept
<1>4. /\ KeptItems \subseteq Items /\ Files \subseteq KeptItems
      /\ early > 0 => KeptItems = Files
      /\ early = 0 => KeptItems = Items
  BY <1>2 DEF KeptItems, Items
<1> QED
  BY <1>1, <1>2, <1>3, <1>4

LEMMA InitInv ==
  ASSUME Init
  PROVE  IInv
<1>1. /\ seen \in [Scans -> Findings] /\ early \in 0..LastScan /\ live = early /\ merged = {}
      /\ running \in BOOLEAN /\ (running => early < LastScan)
      /\ stage = (IF early = 0 THEN "live" ELSE "v18") /\ old = EarlyRows(seen, early)
      /\ rows = {} /\ tangled = {}
  BY DEF Init, BackfillInit
<1>2. LastScan \in Nat \ {0} /\ early \in Nat
  BY <1>1, RowsAssumption
<1>3. Stages
  BY <1>1, <1>2 DEF Stages, Backfilling, BeforeSplit
<1>4. BeforeSplit /\ stage # "split" /\ ~Recounting /\ ~Upgraded
  BY <1>1 DEF BeforeSplit, Backfilling, Recounting, Upgraded
<1>5. Proper(old) /\ (\A i \in Files : Past(seen, Of(old, i), i, early)) /\ (early = 0 => old = {})
  BY <1>1, EarlyPast
<1>6. ASSUME NEW i \in KeptItems PROVE Past(seen, Of(old, i), i, early)
  <2>1. CASE early = 0
    <3>1. Of(old, i) = {}
      BY <1>5, <2>1 DEF Of
    <3> QED
      BY <2>1, <3>1, EmptyPast
  <2>2. CASE early # 0
    BY <1>2, <1>3, <1>5, <2>2, KeptFacts
  <2> QED
    BY <2>1, <2>2
<1>7. Proper(rows)
  BY <1>1 DEF Proper
<1> QED
  BY <1>1, <1>3, <1>4, <1>5, <1>6, <1>7 DEF IInv, Faithful

\* A step that leaves rows, stage and history.
LEMMA Elsewhere ==
  ASSUME IInv, UNCHANGED <<seen, early, live, running, stage, old, undo, rows, tangled>>, merged' \subseteq Folders
  PROVE  IInv'
<1>1. /\ KeptItems' = KeptItems /\ LastKept' = LastKept /\ (BeforeSplit <=> BeforeSplit')
      /\ (Backfilling <=> Backfilling') /\ (Recounting <=> Recounting') /\ (Upgraded <=> Upgraded')
  BY DEF KeptItems, LastKept, BeforeSplit, Backfilling, Recounting, Upgraded
<1>2. Stages'
  BY <1>1 DEF IInv, Stages
<1>3. Faithful'
  BY <1>1 DEF IInv, Faithful, Moved
<1> QED
  BY <1>2, <1>3 DEF IInv

\* A step before the split.
LEMMA StillBefore ==
  ASSUME IInv, BeforeSplit, UNCHANGED <<seen, early, running, rows, tangled>>,
         Stages', BeforeSplit', stage' = "split" => ~running,
         Proper(old'), \A i \in KeptItems : Past(seen, Of(old', i), i, live')
  PROVE  IInv'
<1>1. KeptItems' = KeptItems
  BY DEF KeptItems
<1>2. rows = {} /\ tangled \cap KeptItems = {}
  BY DEF IInv, Faithful
<1>3. ~Recounting' /\ ~Upgraded'
  BY DEF BeforeSplit, Backfilling, Recounting, Upgraded
<1>4. Proper(rows')
  BY <1>2 DEF Proper
<1> QED
  BY <1>1, <1>2, <1>3, <1>4 DEF IInv, Faithful

LEMMA BackfillStep ==
  ASSUME IInv, BackfillNext, UNCHANGED <<rows, hashes, tangled>>
  PROVE  IInv'
<1>0. /\ Stages /\ Proper(old)
      /\ BeforeSplit => \A i \in KeptItems : Past(seen, Of(old, i), i, live)
  BY DEF IInv, Faithful
<1>1. /\ KeptItems \subseteq Items /\ Files \subseteq KeptItems
      /\ early > 0 => KeptItems = Files
      /\ early \in Nat /\ live \in Nat /\ LastScan \in Nat \ {0} /\ live <= LastScan
  BY <1>0, KeptFacts
<1>2. Files \subseteq Items /\ Folders \subseteq Items /\ Files \cap Folders = {}
  BY RowsAssumption DEF Items
<1>3. Backfilling => BeforeSplit /\ early > 0 /\ KeptItems = Files
  BY <1>0, <1>1 DEF BeforeSplit, Stages
\* Steps of the upgrades from 18 to 25 leave the rows of files as they tell.
<1>4. ASSUME Backfilling, Backfilling', UNCHANGED <<seen, early, live, running>>, merged' \subseteq Folders,
             Proper(old'), \A f \in Files : Past(seen, Of(old', f), f, live)
      PROVE  IInv'
  <2>1. Stages'
    BY <1>0, <1>3, <1>4 DEF Stages, Backfilling, BeforeSplit
  <2>2. BeforeSplit' /\ stage' # "split"
    BY <1>4 DEF BeforeSplit, Backfilling
  <2> QED
    BY <1>3, <1>4, <2>1, <2>2, StillBefore
<1>5. CASE CountChanges
  <2> DEFINE s == Min(Uncovered)
             P == [d \in Folders |-> Written(old, d, s, stage = "v22")]
  <2>1. /\ Backfilling /\ Backfilling' /\ UNCHANGED <<seen, early, live, running, merged>>
        /\ old' = FilesOf(old) \cup UNION {Written(old, d, s, stage = "v22") : d \in Folders}
    BY <1>5 DEF CountChanges, Counting, Backfilling
  <2> HIDE DEF s
  <2>2. old' = Together(old, P)
    BY <2>1 DEF Together, Range
  <2>3. DOMAIN P = Folders /\ \A d \in Folders : RowsOf(P[d], d)
    BY <1>0, WrittenRows
  <2> HIDE DEF P
  <2>4. /\ Proper(old')
        /\ \A f \in Files : Of(old', f) = Of(old, f)
        /\ \A d \in Folders : Of(old', d) = P[d]
    BY <1>0, <2>2, <2>3, Parts
  <2> QED
    BY <1>0, <1>3, <1>4, <2>1, <2>4 DEF Stages
<1>6. CASE Mark
  BY <1>0, <1>6, Elsewhere DEF Mark, Stages
<1>7. CASE EndOfScans
  <2>1. /\ Backfilling /\ Backfilling' /\ UNCHANGED <<seen, early, live, running, merged, old>>
    BY <1>7 DEF EndOfScans, Backfilling
  <2> QED
    BY <1>0, <1>3, <1>4, <2>1 DEF Stages
<1>8. CASE TellAdditions
  <2> DEFINE E(v) == [v EXCEPT !.added = \A p \in Before(old, v.item, v.first) : p.deleted]
             F == [v \in old |-> E(v)]
  <2>1. /\ Backfilling /\ Backfilling' /\ UNCHANGED <<seen, early, live, running, merged>>
        /\ old' = Range(F)
    BY <1>8 DEF TellAdditions, Backfilling, Range
  <2>2. ASSUME NEW v \in old PROVE RowLike(F[v]) /\ F[v].item = v.item /\ Alike(F[v], v)
    <3> DEFINE a == \A p \in Before(old, v.item, v.first) : p.deleted
    <3>1. RowLike(v) /\ F[v] = [v EXCEPT !.added = a]
      BY <1>0 DEF Proper
    <3> HIDE DEF a, F
    <3> QED
      BY <3>1 DEF RowLike, Alike
  <2>5. Retold(F, old)
    BY <2>2 DEF Retold
  <2> HIDE DEF F
  <2>3. Proper(old') /\ \A f \in Files : Past(seen, Of(old, f), f, live) => Past(seen, Of(old', f), f, live)
    <3>1. Proper(Range(F))
      BY <1>0, <2>5, RewrittenProper
    <3>2. \A f \in Files : Past(seen, Of(old, f), f, live) => Past(seen, Of(Range(F), f), f, live)
      BY <1>0, <1>1, <2>5, RewrittenFiles
    <3> QED
      BY <2>1, <3>1, <3>2
  <2>4. \A f \in Files : Past(seen, Of(old', f), f, live)
    BY <1>0, <1>3, <2>1, <2>3
  <2> QED
    BY <1>0, <1>4, <2>1, <2>3, <2>4 DEF Stages
<1>9. CASE CollapseFolders
  <2> DEFINE P == [d \in Folders |-> Collapsed(old, d, FALSE)]
  <2>1. /\ Backfilling /\ Backfilling' /\ UNCHANGED <<seen, early, live, running, merged>>
        /\ old' = Together(old, P)
    BY <1>9 DEF CollapseFolders, Backfilling, Together, Range
  <2>2. DOMAIN P = Folders /\ \A d \in Folders : RowsOf(P[d], d)
    BY <1>0, CollapsedRows
  <2> HIDE DEF P
  <2>3. /\ Proper(old')
        /\ \A f \in Files : Of(old', f) = Of(old, f)
        /\ \A d \in Folders : Of(old', d) = P[d]
    BY <1>0, <2>1, <2>2, Parts
  <2> QED
    BY <1>0, <1>3, <1>4, <2>1, <2>3 DEF Stages
<1>10. CASE RebuildVersions
  <2> DEFINE E(v) == [v EXCEPT !.hashState = IF v.hash = None THEN 0 ELSE 1]
             F == [v \in old |-> E(v)]
  <2>1. /\ Backfilling /\ Backfilling' /\ UNCHANGED <<seen, early, live, running, merged>>
        /\ old' = Range(F)
    BY <1>10 DEF RebuildVersions, Backfilling, Range
  <2>2. ASSUME NEW v \in old PROVE RowLike(F[v]) /\ F[v].item = v.item /\ Alike(F[v], v)
    <3> DEFINE a == IF v.hash = None THEN 0 ELSE 1
    <3>1. RowLike(v) /\ F[v] = [v EXCEPT !.hashState = a]
      BY <1>0 DEF Proper
    <3> HIDE DEF a, F, E
    <3>2. Same([v EXCEPT !.hashState = a], v)
      BY <3>1, OtherFields
    <3> QED
      BY <3>1, <3>2 DEF Same
  <2>5. Retold(F, old)
    BY <2>2 DEF Retold
  <2> HIDE DEF F
  <2>3. Proper(old') /\ \A f \in Files : Past(seen, Of(old, f), f, live) => Past(seen, Of(old', f), f, live)
    <3>1. Proper(Range(F))
      BY <1>0, <2>5, RewrittenProper
    <3>2. \A f \in Files : Past(seen, Of(old, f), f, live) => Past(seen, Of(Range(F), f), f, live)
      BY <1>0, <1>1, <2>5, RewrittenFiles
    <3> QED
      BY <2>1, <3>1, <3>2
  <2>4. \A f \in Files : Past(seen, Of(old', f), f, live)
    BY <1>0, <1>3, <2>1, <2>3
  <2> QED
    BY <1>0, <1>4, <2>1, <2>3, <2>4 DEF Stages
<1>11. CASE CountScanStates
  <2>1. Backfilling /\ Backfilling' /\ UNCHANGED <<seen, early, live, running, merged, old>>
    BY <1>11 DEF CountScanStates, Backfilling
  <2> QED
    BY <1>0, <1>3, <1>4, <2>1 DEF Stages
<1>12. CASE CountFolderStates
  <2> DEFINE s == Min(Uncovered)
             told(v) == v.first = s /\ v.item \in Walked(old, Root, s) \cap Folders
             E(v) == [v EXCEPT !.states = States(old, Walked(old, v.item, s), s)]
             F == [v \in old |-> IF told(v) THEN E(v) ELSE v]
  <2>1. /\ Backfilling /\ Backfilling' /\ UNCHANGED <<seen, early, live, running, merged>>
        /\ old' = Range(F)
    BY <1>12 DEF CountFolderStates, Backfilling, Range
  <2>2. ASSUME NEW v \in old PROVE RowLike(F[v]) /\ F[v].item = v.item /\ Alike(F[v], v)
    <3> DEFINE a == States(old, Walked(old, v.item, s), s)
    <3>1. RowLike(v) /\ (F[v] = [v EXCEPT !.states = a] \/ F[v] = v)
      BY <1>0 DEF Proper
    <3> HIDE DEF a, F, E
    <3>2. Same([v EXCEPT !.states = a], v)
      BY <3>1, OtherFields
    <3> QED
      BY <3>1, <3>2 DEF Same, Alike
  <2>5. Retold(F, old)
    BY <2>2 DEF Retold
  <2> HIDE DEF F
  <2>3. Proper(old') /\ \A f \in Files : Past(seen, Of(old, f), f, live) => Past(seen, Of(old', f), f, live)
    <3>1. Proper(Range(F))
      BY <1>0, <2>5, RewrittenProper
    <3>2. \A f \in Files : Past(seen, Of(old, f), f, live) => Past(seen, Of(Range(F), f), f, live)
      BY <1>0, <1>1, <2>5, RewrittenFiles
    <3> QED
      BY <2>1, <3>1, <3>2
  <2>4. \A f \in Files : Past(seen, Of(old', f), f, live)
    BY <1>0, <1>3, <2>1, <2>3
  <2> QED
    BY <1>0, <1>4, <2>1, <2>3, <2>4 DEF Stages
<1>13. CASE DedupFolder
  <2> DEFINE next == CHOOSE x \in Folders \ merged : TRUE
             H == Collapsed(old, next, TRUE)
  <2>1. /\ Backfilling /\ Backfilling' /\ UNCHANGED <<seen, early, live, running>>
        /\ old' = Exchange(old, next, H) /\ merged # Folders /\ merged' = merged \cup {next}
    BY <1>13 DEF DedupFolder, Backfilling, Exchange
  <2>2. merged \subseteq Folders
    BY <1>0 DEF Stages
  <2>3. next \in Folders
    <3>1. \E x : x \in Folders \ merged
      BY <2>1, <2>2
    <3> QED
      BY <3>1
  <2> HIDE DEF next
  <2>4. RowsOf(H, next) /\ next \in Items
    BY <1>0, <1>2, <2>3, CollapsedRows
  <2> HIDE DEF H
  <2>5. /\ Proper(old') /\ Of(old', next) = H
        /\ \A j \in Items : j # next => Of(old', j) = Of(old, j)
    BY <1>0, <2>1, <2>4, Exchanged
  <2>6. \A f \in Files : Of(old', f) = Of(old, f)
    BY <1>2, <2>3, <2>5
  <2>7. merged' \subseteq Folders
    BY <2>1, <2>2, <2>3
  <2> QED
    BY <1>0, <1>3, <1>4, <2>1, <2>5, <2>6, <2>7
<1>14. CASE RecountScans
  <2>1. /\ Backfilling /\ UNCHANGED <<seen, early, live, running, merged, old>>
        /\ stage' = IF early = LastScan THEN "split" ELSE "live"
    BY <1>14 DEF RecountScans, Backfilling
  <2>2. live = early /\ (running => early < LastScan) /\ early <= LastScan
    BY <1>0, <1>1, <2>1 DEF Stages
  <2>3. BeforeSplit' /\ ~Backfilling' /\ BeforeSplit
    BY <1>3, <2>1 DEF BeforeSplit, Backfilling
  <2>4. Stages'
    BY <1>0, <1>1, <2>1, <2>2, <2>3 DEF Stages
  <2>5. stage' = "split" => ~running
    BY <1>1, <2>1, <2>2
  <2> QED
    BY <1>0, <2>1, <2>3, <2>4, <2>5, StillBefore
<1>15. CASE LiveScan
  <2> DEFINE n == live
             after == LiveRows(old, seen[n + 1], n + 1)
  <2>1. /\ stage = "live" /\ UNCHANGED <<seen, early, running, merged>>
        /\ old' = after /\ live' = n + 1
        /\ undo' = IF n + 1 = LastScan /\ running THEN Logged(old, after) ELSE {}
        /\ stage' = IF n + 1 = LastScan THEN "split" ELSE "live"
    BY <1>15, Zenon DEF LiveScan, Logged
  <2>2. n \in Nat /\ n + 1 <= LastScan /\ BeforeSplit
    BY <1>0, <1>1, <2>1 DEF Stages, BeforeSplit
  <2>3. /\ Proper(after)
        /\ \A i \in Items : Past(seen, Of(old, i), i, n) => Went(old, Of(after, i), seen, i, n)
    BY <1>0, <2>2, LivePast
  <2>4. \A i \in KeptItems : i \in Items /\ Past(seen, Of(old, i), i, n) /\ Went(old, Of(after, i), seen, i, n)
    BY <1>0, <1>1, <2>2, <2>3
  <2>5. BeforeSplit' /\ ~Backfilling'
    BY <2>1 DEF BeforeSplit, Backfilling
  <2>6. Stages'
    BY <1>0, <1>1, <2>1, <2>2, <2>5 DEF Stages
  <2>7. KeptItems' = KeptItems
    BY <2>1 DEF KeptItems
  <2> HIDE DEF after
  <2>8. Proper(old') /\ \A i \in KeptItems : Past(seen, Of(old', i), i, live')
    BY <2>1, <2>3, <2>4 DEF Went
  <2>9. CASE n + 1 = LastScan /\ running
    <3>1. old' = after /\ undo' = Logged(old, after) /\ n = LastScan - 1
      BY <1>1, <2>1, <2>2, <2>9
    <3>2. Proper(Restored(after, Logged(old, after)))
      BY <2>3, RestoredProper
    <3>3. ASSUME NEW i \in KeptItems PROVE Past(seen, Of(Restored(after, Logged(old, after)), i), i, n)
      <4>1. i \in Items /\ Past(seen, Of(old, i), i, n) /\ Went(old, Of(after, i), seen, i, n)
        BY <2>4
      <4> QED
        BY <1>0, <2>2, <2>3, <2>9, <4>1, RestoredPast
    <3>4. /\ Proper(Restored(old', undo'))
          /\ \A i \in KeptItems : Past(seen, Of(Restored(old', undo'), i), i, LastScan - 1)
      BY <3>1, <3>2, <3>3
    <3>5. rows = {} /\ tangled \cap KeptItems = {}
      BY <2>2 DEF IInv, Faithful
    <3>6. ~Recounting' /\ ~Upgraded'
      BY <2>5 DEF BeforeSplit, Backfilling, Recounting, Upgraded
    <3>7. Proper(rows')
      BY <3>5 DEF Proper
    <3>8. Faithful'
      BY <2>1, <2>5, <2>7, <2>8, <3>4, <3>5, <3>6, <3>7 DEF Faithful
    <3> QED
      BY <2>6, <3>8 DEF IInv
  <2>10. CASE ~(n + 1 = LastScan /\ running)
    <3>1. stage' = "split" => ~running
      BY <2>1, <2>10
    <3> QED
      BY <2>1, <2>2, <2>5, <2>6, <2>8, <3>1, StillBefore
  <2> QED
    BY <2>9, <2>10
<1>16. CASE CrashCounting
  BY <1>0, <1>16, Elsewhere DEF CrashCounting, Stages
<1> QED
  BY <1>5, <1>6, <1>7, <1>8, <1>9, <1>10, <1>11, <1>12, <1>13, <1>14, <1>15, <1>16 DEF BackfillNext

-----------------------------------------------------------------------------
\* A step after the split.
LEMMA StillAfter ==
  ASSUME IInv, ~BeforeSplit', stage' = "moving" \/ Recounting' \/ Upgraded',
         UNCHANGED <<seen, early, live, running, merged>>, tangled' \cap KeptItems = {},
         Proper(old'), Proper(rows'), Recounting' \/ Upgraded' => old' = {},
         \A i \in KeptItems : \/ Of(rows', i) = {} /\ Past(seen, Of(old', i), i, LastKept)
                              \/ Of(old', i) = {} /\ Present(seen, Of(rows', i), i, LastKept)
  PROVE  IInv'
<1>1. KeptItems' = KeptItems /\ LastKept' = LastKept
  BY DEF KeptItems, LastKept
<1>2. ~Backfilling' /\ stage' # "live" /\ stage' # "split"
  BY DEF BeforeSplit
<1>3. Stages'
  BY <1>2 DEF IInv, Stages
<1>4. \A i \in KeptItems : Moved(i)'
  BY <1>1 DEF Moved
<1>5. Faithful'
  BY <1>1, <1>2, <1>4 DEF Faithful
<1> QED
  BY <1>3, <1>5 DEF IInv

\* Once all is moved.
LEMMA AllMoved ==
  ASSUME IInv, ~BeforeSplit, old = {}
  PROVE  \A i \in KeptItems : Present(seen, Of(rows, i), i, LastKept)
<1> SUFFICES ASSUME NEW i \in KeptItems PROVE Present(seen, Of(rows, i), i, LastKept)
  OBVIOUS
<1>1. Of(old, i) = {}
  BY DEF Of
<1>2. Moved(i)
  BY DEF IInv, Faithful
<1> QED
  BY <1>1, <1>2 DEF Moved, Past

LEMMA StillMoved ==
  ASSUME IInv, old = {}, old' = {}, ~BeforeSplit', stage' = "moving" \/ Recounting' \/ Upgraded',
         UNCHANGED <<seen, early, live, running, merged>>, tangled' \cap KeptItems = {},
         Proper(rows'), \A i \in KeptItems : Present(seen, Of(rows', i), i, LastKept)
  PROVE  IInv'
<1>1. \A i : Of(old', i) = {}
  BY DEF Of
<1>2. Proper(old')
  BY DEF Proper
<1> QED
  BY <1>1, <1>2, StillAfter

LEMMA SplitStep ==
  ASSUME IInv, SplitTables
  PROVE  IInv'
<1>1. /\ stage = "split" /\ stage' = "moving" /\ rows' = rows /\ tangled' = tangled
      /\ UNCHANGED <<seen, early, live, running, merged>>
      /\ old' = IF running THEN Restored(old, undo) ELSE old
  BY RolledBackIs DEF SplitTables, Settled
<1>2. BeforeSplit /\ ~BeforeSplit' /\ ~Recounting' /\ ~Upgraded'
  BY <1>1 DEF BeforeSplit, Backfilling, Recounting, Upgraded
<1>3. /\ rows = {} /\ tangled \cap KeptItems = {} /\ Proper(old) /\ Proper(rows) /\ live = LastScan
      /\ \A i \in KeptItems : Past(seen, Of(old, i), i, live)
      /\ running => /\ Proper(Restored(old, undo))
                    /\ \A i \in KeptItems : Past(seen, Of(Restored(old, undo), i), i, LastScan - 1)
  BY <1>1, <1>2 DEF IInv, Faithful, Stages
<1>4. Proper(old') /\ \A i \in KeptItems : Past(seen, Of(old', i), i, LastKept)
  <2>1. CASE running
    BY <1>1, <1>3, <2>1 DEF LastKept
  <2>2. CASE ~running
    BY <1>1, <1>3, <2>2 DEF LastKept
  <2> QED
    BY <2>1, <2>2
<1>5. \A i : Of(rows', i) = {}
  BY <1>1, <1>3 DEF Of
<1> QED
  BY <1>1, <1>2, <1>3, <1>4, <1>5, StillAfter

LEMMA MoveStep ==
  ASSUME IInv, MoveItem
  PROVE  IInv'
<1> DEFINE i == NextItem
           M == IF i \in Folders THEN MovedFolder(i) ELSE MovedFile(i)
<1>1. /\ stage = "moving" /\ stage' = "moving" /\ old # {} /\ tangled' = tangled
      /\ UNCHANGED <<seen, early, live, running, merged>>
      /\ rows' = rows \cup M /\ old' = old \ Of(old, i)
  BY DEF MoveItem, Settled
<1>2. ~BeforeSplit /\ ~BeforeSplit' /\ ~Recounting' /\ ~Upgraded'
  BY <1>1 DEF BeforeSplit, Backfilling, Recounting, Upgraded
<1>3. Proper(old) /\ Proper(rows) /\ (\A j \in KeptItems : Moved(j)) /\ tangled \cap KeptItems = {} /\ Stages
  BY <1>2 DEF IInv, Faithful
<1>4. i \in Items /\ Of(old, i) # {}
  <2>1. \E j \in Items : Of(old, j) # {}
    BY <1>1, <1>3 DEF Proper, Of
  <2> QED
    BY <2>1, Zenon DEF NextItem
<1>5. KeptItems \subseteq Items /\ LastKept \in Nat /\ LastKept <= LastScan
  BY <1>3, KeptFacts
<1> HIDE DEF i
<1>6. RowsOf(M, i)
  BY <1>4, MovedRows
<1>7. i \in KeptItems => Present(seen, M, i, LastKept)
  <2> SUFFICES ASSUME i \in KeptItems PROVE Present(seen, M, i, LastKept)
    OBVIOUS
  <2>1. Past(seen, Of(old, i), i, LastKept)
    BY <1>3, <1>4 DEF Moved
  <2>2. CASE i \in Folders
    <3>1. Present(seen, MovedFolder(i), i, LastKept) /\ \A x \in MovedFolder(i) : RowLike(x) /\ x.item = i
      BY <1>4, <1>5, <2>1, MovedFolderPast
    <3> QED
      BY <2>2, <3>1
  <2>3. CASE i \notin Folders
    <3>1. i \in Files
      BY <1>4, <2>3 DEF Items
    <3>2. Present(seen, MovedFile(i), i, LastKept) /\ \A x \in MovedFile(i) : RowLike(x) /\ x.item = i
      BY <1>5, <2>1, <3>1, MovedFilePast
    <3> QED
      BY <2>3, <3>2
  <2> QED
    BY <2>2, <2>3
<1> HIDE DEF M
<1>8. Proper(old') /\ Proper(rows')
  BY <1>1, <1>3, <1>4, <1>6 DEF Proper, RowsOf
<1>9. ASSUME NEW j \in KeptItems
      PROVE  \/ Of(rows', j) = {} /\ Past(seen, Of(old', j), j, LastKept)
             \/ Of(old', j) = {} /\ Present(seen, Of(rows', j), j, LastKept)
  <2>1. CASE j = i
    <3>1. Of(rows, i) = {}
      BY <1>3, <1>4, <2>1 DEF Moved
    <3>2. Of(rows', i) = M
      BY <1>1, <1>6, <3>1 DEF Of, RowsOf
    <3>3. Of(old', i) = {}
      BY <1>1 DEF Of
    <3> QED
      BY <1>7, <2>1, <3>2, <3>3
  <2>2. CASE j # i
    <3>1. Of(rows', j) = Of(rows, j)
      BY <1>1, <1>6, <2>2 DEF Of, RowsOf
    <3>2. Of(old', j) = Of(old, j)
      BY <1>1, <2>2 DEF Of
    <3> QED
      BY <1>3, <3>1, <3>2 DEF Moved
  <2> QED
    BY <2>1, <2>2
<1> QED
  BY <1>1, <1>2, <1>3, <1>8, <1>9, StillAfter

LEMMA BeginStep ==
  ASSUME IInv, BeginRecount
  PROVE  IInv'
<1>1. /\ stage = "moving" /\ old = {} /\ old' = {} /\ rows' = rows
      /\ UNCHANGED <<seen, early, live, running, merged>>
      /\ tangled' = {i \in Items : Overlaps(i)}
      /\ stage' \in {"untangling", "numbering", "recounting"}
  BY DEF BeginRecount, Settled
<1>2. ~BeforeSplit /\ ~BeforeSplit' /\ Recounting'
  BY <1>1 DEF BeforeSplit, Backfilling, Recounting
<1>3. \A i \in KeptItems : Present(seen, Of(rows, i), i, LastKept)
  BY <1>1, <1>2, AllMoved
<1>4. Proper(rows)
  BY DEF IInv, Faithful
<1>5. ASSUME NEW i \in KeptItems PROVE ~Overlaps(i)
  <2>1. /\ \A v \in Of(rows, i) : v.first \in Nat /\ v.last \in Nat
        /\ \A v, w \in Of(rows, i) : v # w => v.last < w.first \/ w.last < v.first
    BY <1>3 DEF Present, Told
  <2> QED
    BY <2>1 DEF Overlaps
<1> QED
  BY <1>1, <1>2, <1>3, <1>4, <1>5, StillMoved

LEMMA ChainStep ==
  ASSUME IInv, NEW i \in Items, Chain(i)
  PROVE  IInv'
<1>1. /\ stage = "untangling" /\ stage' = stage /\ i \in tangled /\ old' = old
      /\ UNCHANGED <<seen, early, live, running, merged>>
      /\ rows' = Exchange(rows, i, Chained(i)) /\ tangled' \subseteq tangled
  BY DEF Chain, Settled, Exchange
<1>2. ~BeforeSplit /\ ~BeforeSplit' /\ Recounting /\ Recounting'
  BY <1>1 DEF BeforeSplit, Backfilling, Recounting
<1>3. old = {} /\ Proper(rows) /\ tangled \cap KeptItems = {} /\ Stages
  BY <1>2 DEF IInv, Faithful
<1>4. \A j \in KeptItems : Present(seen, Of(rows, j), j, LastKept)
  BY <1>2, <1>3, AllMoved
<1>5. RowsOf(Chained(i), i)
  BY <1>3, ChainedRows
<1>6. /\ Proper(Exchange(rows, i, Chained(i))) /\ Of(Exchange(rows, i, Chained(i)), i) = Chained(i)
      /\ \A j \in Items : j # i => Of(Exchange(rows, i, Chained(i)), j) = Of(rows, j)
  BY <1>3, <1>5, Exchanged
<1>7. KeptItems \subseteq Items /\ i \notin KeptItems
  BY <1>1, <1>3, KeptFacts
<1>8. \A j \in KeptItems : Present(seen, Of(rows', j), j, LastKept)
  BY <1>1, <1>4, <1>6, <1>7
<1> QED
  BY <1>1, <1>2, <1>3, <1>6, <1>8, StillMoved

LEMMA DropStep ==
  ASSUME IInv, DropInverted
  PROVE  IInv'
<1>1. /\ stage = "untangling" /\ stage' \in {"numbering", "recounting"} /\ old' = old
      /\ UNCHANGED <<seen, early, live, running, merged, tangled>>
      /\ rows' = {v \in rows : v.item \in Folders => v.first <= v.last}
  BY DEF DropInverted, Settled
<1>2. ~BeforeSplit /\ ~BeforeSplit' /\ Recounting /\ Recounting'
  BY <1>1 DEF BeforeSplit, Backfilling, Recounting
<1>3. old = {} /\ Proper(rows) /\ tangled \cap KeptItems = {}
  BY <1>2 DEF IInv, Faithful
<1>4. \A j \in KeptItems : Present(seen, Of(rows, j), j, LastKept)
  BY <1>2, <1>3, AllMoved
<1>5. Proper(rows')
  BY <1>1, <1>3 DEF Proper
<1>6. ASSUME NEW j \in KeptItems PROVE Present(seen, Of(rows', j), j, LastKept)
  <2>1. \A v \in Of(rows, j) : v.first <= v.last
    BY <1>4 DEF Present, Told
  <2>2. Of(rows', j) = Of(rows, j)
    BY <1>1, <2>1 DEF Of
  <2> QED
    BY <1>4, <2>2
<1> QED
  BY <1>1, <1>2, <1>3, <1>5, <1>6, StillMoved

LEMMA RecountStep ==
  ASSUME IInv, RecountScan
  PROVE  IInv'
<1> DEFINE s == Min(ScansLeft)
           P == [d \in Folders |-> Recounted(d, s)]
<1>1. /\ stage = "recounting" /\ stage' \in {"recounting", "merging"} /\ old' = old /\ ScansLeft # {}
      /\ UNCHANGED <<seen, early, live, running, merged, tangled>>
      /\ rows' = Together(rows, P)
  <2>1. /\ stage = "recounting" /\ old' = old /\ ScansLeft # {}
        /\ UNCHANGED <<seen, early, live, running, merged, tangled>>
        /\ rows' = {v \in rows : v.item \in Files} \cup UNION {Recounted(d, s) : d \in Folders}
    BY DEF RecountScan, Settled
  <2>2. stage' \in {"recounting", "merging"}
    BY DEF RecountScan
  <2> QED
    BY <2>1, <2>2 DEF Together, Range, FilesOf
<1>2. ~BeforeSplit /\ ~BeforeSplit' /\ Recounting /\ Recounting'
  BY <1>1 DEF BeforeSplit, Backfilling, Recounting
<1>3. old = {} /\ Proper(rows) /\ tangled \cap KeptItems = {} /\ Stages
  BY <1>2 DEF IInv, Faithful
<1>4. \A j \in KeptItems : Present(seen, Of(rows, j), j, LastKept)
  BY <1>2, <1>3, AllMoved
<1>5. s \in Nat
  <2>1. ScansLeft \in SUBSET Nat
    BY RowsAssumption DEF ScansLeft, Completed, Scans
  <2>2. \E k \in ScansLeft : \A j \in ScansLeft : k <= j
    BY <1>1, <2>1, Least
  <2>3. s \in ScansLeft
    BY <2>2, Zenon DEF Min
  <2> QED
    BY <2>1, <2>3
<1> HIDE DEF s
<1>6. ASSUME NEW d \in Folders PROVE P[d] = Pruned(rows, d, s) \/ \E c : P[d] = Counted(rows, d, s, c)
  BY DEF Recounted
<1>7. DOMAIN P = Folders /\ \A d \in Folders : RowsOf(P[d], d)
  <2>1. ASSUME NEW d \in Folders PROVE RowsOf(P[d], d)
    <3>1. RowsOf(Pruned(rows, d, s), d) /\ \A c : RowsOf(Counted(rows, d, s, c), d)
      BY <1>3, PrunedRows, CountedRows
    <3> HIDE DEF P
    <3> QED
      BY <1>6, <3>1
  <2> QED
    BY <2>1
<1> HIDE DEF P
<1>8. /\ Proper(Together(rows, P))
      /\ \A f \in Files : Of(Together(rows, P), f) = Of(rows, f)
      /\ \A d \in Folders : Of(Together(rows, P), d) = P[d]
  BY <1>3, <1>7, Parts
<1>9. KeptItems \subseteq Items /\ LastKept \in Nat
  BY <1>3, KeptFacts
<1>10. ASSUME NEW j \in KeptItems PROVE Present(seen, Of(rows', j), j, LastKept)
  <2>1. CASE j \in Files
    BY <1>1, <1>4, <1>8, <2>1
  <2>2. CASE j \in Folders
    <3>1. \A v \in Of(rows, j) : RowLike(v)
      BY <1>3 DEF Proper, Of
    <3>2. Present(seen, Of(rows, j), j, LastKept)
      BY <1>4
    <3>3. Present(seen, Pruned(rows, j, s), j, LastKept) /\ \A x \in Pruned(rows, j, s) : RowLike(x) /\ x.item = j
      BY <1>9, <2>2, <3>1, <3>2, PrunedPresent
    <3>4. ASSUME NEW c
          PROVE  Present(seen, Counted(rows, j, s, c), j, LastKept) /\
                 \A x \in Counted(rows, j, s, c) : RowLike(x) /\ x.item = j
      BY <1>5, <1>9, <2>2, <3>1, <3>2, CountedPresent
    <3>5. Present(seen, P[j], j, LastKept)
      BY <1>6, <2>2, <3>3, <3>4
    <3> QED
      BY <1>1, <1>8, <2>2, <3>5
  <2> QED
    BY <1>9, <2>1, <2>2 DEF Items
<1> QED
  BY <1>1, <1>2, <1>3, <1>8, <1>10, StillMoved

LEMMA MergeStep ==
  ASSUME IInv, NEW d \in Folders, Merge(d)
  PROVE  IInv'
<1>1. /\ stage = "merging" /\ stage' = stage /\ old' = old
      /\ UNCHANGED <<seen, early, live, running, merged, tangled>>
  BY DEF Merge, Settled
<1>2. PICK v \in Of(rows, d), w \in Of(rows, d) :
        Repeats(v, w) /\ rows' = (rows \ {v, w}) \cup {[v EXCEPT !.last = w.last]}
  BY DEF Merge
<1>3. ~BeforeSplit /\ ~BeforeSplit' /\ Recounting /\ Recounting'
  BY <1>1 DEF BeforeSplit, Backfilling, Recounting
<1>4. old = {} /\ Proper(rows) /\ tangled \cap KeptItems = {} /\ Stages
  BY <1>3 DEF IInv, Faithful
<1>5. \A j \in KeptItems : Present(seen, Of(rows, j), j, LastKept)
  BY <1>3, <1>4, AllMoved
<1>6. KeptItems \subseteq Items /\ LastKept \in Nat /\ d \in Items
  BY <1>4, KeptFacts DEF Items
<1>7. /\ Proper(rows')
      /\ Of(rows', d) = (Of(rows, d) \ {v, w}) \cup {[v EXCEPT !.last = w.last]}
      /\ \A j \in Items : j # d => Of(rows', j) = Of(rows, j)
  BY <1>2, <1>4, <1>6, MergedRows
<1>8. ASSUME NEW j \in KeptItems PROVE Present(seen, Of(rows', j), j, LastKept)
  <2>1. CASE j = d
    <3>1. Present(seen, Of(rows, d), d, LastKept)
      BY <1>5, <2>1
    <3>2. Present(seen, (Of(rows, d) \ {v, w}) \cup {[v EXCEPT !.last = w.last]}, d, LastKept)
      BY <1>2, <1>4, <1>6, <3>1, MergedPresent
    <3> QED
      BY <1>7, <2>1, <3>2
  <2>2. CASE j # d
    BY <1>5, <1>6, <1>7, <2>2
  <2> QED
    BY <2>1, <2>2
<1> QED
  BY <1>1, <1>3, <1>4, <1>7, <1>8, StillMoved

LEMMA NumberStep ==
  ASSUME IInv, NumberVersions
  PROVE  IInv'
<1> DEFINE E(v) == [v EXCEPT !.version = Number(v)]
           F == [v \in rows |-> E(v)]
<1>1. /\ stage = "numbering" /\ stage' = "v28" /\ old' = old
      /\ UNCHANGED <<seen, early, live, running, merged, tangled>>
      /\ rows' = Range(F)
  BY DEF NumberVersions, Settled, Range
<1>2. ~BeforeSplit /\ ~BeforeSplit' /\ Recounting /\ Upgraded'
  BY <1>1 DEF BeforeSplit, Backfilling, Recounting, Upgraded
<1>3. old = {} /\ Proper(rows) /\ tangled \cap KeptItems = {} /\ Stages
  BY <1>2 DEF IInv, Faithful
<1>4. \A j \in KeptItems : Present(seen, Of(rows, j), j, LastKept)
  BY <1>2, <1>3, AllMoved
<1>5. DOMAIN F = rows /\ \A v \in rows : Same(F[v], v)
  <2>1. ASSUME NEW v \in rows PROVE Same(F[v], v)
    <3> DEFINE a == Number(v)
    <3>1. RowLike(v) /\ F[v] = [v EXCEPT !.version = a]
      BY <1>3 DEF Proper
    <3> HIDE DEF a, F, E
    <3>2. Same([v EXCEPT !.version = a], v)
      BY <3>1, OtherFields
    <3> QED
      BY <3>1, <3>2
  <2> QED
    BY <2>1
<1> HIDE DEF F
<1>6. Retold(F, rows) /\ \A v \in rows : F[v].added = v.added
  BY <1>5 DEF Retold, Same
<1>7. Proper(Range(F))
  BY <1>3, <1>6, RewrittenProper
<1>8. KeptItems \subseteq Items /\ LastKept \in Nat
  BY <1>3, KeptFacts
<1>9. ASSUME NEW j \in KeptItems PROVE Present(seen, Of(rows', j), j, LastKept)
  <2>1. j \in Items /\ Present(seen, Of(rows, j), j, LastKept)
    BY <1>4, <1>8
  <2>2. /\ Present(seen, Of(Range(F), j), j, LastKept)
        /\ Past(seen, Of(rows, j), j, LastKept) => Past(seen, Of(Range(F), j), j, LastKept)
    BY <1>6, <1>8, <2>1, RewrittenPresent
  <2> QED
    BY <1>1, <2>2
<1> QED
  BY <1>1, <1>2, <1>3, <1>7, <1>9, StillMoved

-----------------------------------------------------------------------------
LEMMA CrashStep ==
  ASSUME IInv, Crash
  PROVE  IInv'
<1>1. /\ stage \in {"moving", "untangling", "recounting", "merging", "numbering"} /\ stage' = "moving"
      /\ UNCHANGED <<seen, early, live, running, merged, old, rows>> /\ tangled' = {}
  BY DEF Crash, Settled
<1>2. ~BeforeSplit /\ ~BeforeSplit' /\ ~Recounting' /\ ~Upgraded'
  BY <1>1 DEF BeforeSplit, Backfilling, Recounting, Upgraded
<1>3. Proper(old) /\ Proper(rows) /\ \A i \in KeptItems : Moved(i)
  BY <1>2 DEF IInv, Faithful
<1> QED
  BY <1>1, <1>2, <1>3, StillAfter DEF Moved

\* A step that leaves the rows.
LEMMA RowsLeft ==
  ASSUME IInv, stage \in {"merging", "v28", "v30"}, stage' \in {"numbering", "v29", "v31"},
         UNCHANGED <<seen, early, live, running, merged, old, rows, tangled>>
  PROVE  IInv'
<1>1. /\ ~BeforeSplit /\ ~BeforeSplit'
      /\ Recounting \/ Upgraded
      /\ Recounting' \/ Upgraded'
  BY DEF BeforeSplit, Backfilling, Recounting, Upgraded
<1>2. old = {} /\ Proper(rows) /\ tangled \cap KeptItems = {}
  BY <1>1 DEF IInv, Faithful
<1>3. \A j \in KeptItems : Present(seen, Of(rows, j), j, LastKept)
  BY <1>1, <1>2, AllMoved
<1> QED
  BY <1>1, <1>2, <1>3, StillMoved

\* No version of a folder that is kept says that it was gone while a file
\* below it was there.
LEMMA NoneContradicted ==
  ASSUME IInv, ~BeforeSplit, old = {}, early = 0
  PROVE  \A v \in rows : ~Contradicted(v)
<1> SUFFICES ASSUME NEW v \in rows, Contradicted(v) PROVE FALSE
  OBVIOUS
<1>0. Stages /\ Proper(rows)
  BY DEF IInv, Faithful
<1>1. KeptItems = Items /\ LastKept \in Nat /\ LastKept <= LastScan /\ LastScan \in Nat
  BY <1>0, KeptFacts
<1>2. \A i \in Items : Present(seen, Of(rows, i), i, LastKept)
  BY <1>1, AllMoved
<1>3. PICK w \in rows : /\ v.item \in Folders /\ v.deleted
                        /\ w.item \in Files /\ w.item \in Below(v.item) /\ ~w.deleted
                        /\ w.first <= v.last /\ w.last >= v.first
  BY DEF Contradicted
<1> DEFINE d == v.item
           f == w.item
<1>4. d \in Items /\ f \in Items /\ d \in Folders /\ v \in Of(rows, d) /\ w \in Of(rows, f) /\ d \in Above[f]
  BY <1>3 DEF Items, Of, Below
<1>5. /\ v.first \in 1..LastKept /\ v.last \in Nat /\ v.first <= v.last
      /\ \A s \in v.first..v.last : ~Found(seen, d, s)
  BY <1>2, <1>3, <1>4 DEF Present, Told, Gone
<1>6. /\ w.first \in 1..LastKept /\ w.last \in Nat /\ w.first <= w.last
      /\ \A s \in w.first..w.last : Found(seen, f, s)
  BY <1>2, <1>3, <1>4 DEF Present, Told
<1> HIDE DEF d, f
<1>7. PICK s \in 1..LastKept : s \in v.first..v.last /\ s \in w.first..w.last
  <2>1. CASE v.first <= w.first
    <3>1. w.first \in v.first..v.last /\ w.first \in w.first..w.last
      BY <1>3, <1>5, <1>6, <2>1
    <3> QED
      BY <1>6, <3>1
  <2>2. CASE ~(v.first <= w.first)
    <3>1. v.first \in v.first..v.last /\ v.first \in w.first..w.last
      BY <1>3, <1>5, <1>6, <2>2
    <3> QED
      BY <1>5, <3>1
  <2> QED
    BY <2>1, <2>2
<1>8. seen[s] \in Findings
  BY <1>0, <1>1 DEF Stages, Scans
<1>9. seen[s][f] # Absent /\ seen[s][d] = Absent
  BY <1>5, <1>6, <1>7 DEF Found
<1> QED
  BY <1>4, <1>8, <1>9, FoundAbove

LEMMA RepairStep ==
  ASSUME IInv, RepairFolders
  PROVE  IInv'
<1> DEFINE E(v) == [v EXCEPT !.deleted = FALSE]
<1>1. /\ stage = "v29" /\ stage' = "v30"
      /\ UNCHANGED <<seen, early, live, running, merged, old, tangled>>
      /\ rows' = {IF Contradicted(v) THEN E(v) ELSE v : v \in rows}
  BY DEF RepairFolders, Settled
<1>2. ~BeforeSplit /\ ~BeforeSplit' /\ Upgraded /\ Upgraded'
  BY <1>1 DEF BeforeSplit, Backfilling, Upgraded
<1>3. old = {} /\ Proper(rows) /\ tangled \cap KeptItems = {} /\ Stages
  BY <1>2 DEF IInv, Faithful
<1>4. \A j \in KeptItems : Present(seen, Of(rows, j), j, LastKept)
  BY <1>2, <1>3, AllMoved
<1>5. \A v \in rows : RowLike(E(v)) /\ E(v).item = v.item
  BY <1>3 DEF Proper, RowLike
<1> HIDE DEF E
<1>6. Proper(rows')
  BY <1>1, <1>3, <1>5 DEF Proper
<1>7. ASSUME NEW j \in KeptItems PROVE Present(seen, Of(rows', j), j, LastKept)
  <2>1. CASE early = 0
    <3>1. \A v \in rows : ~Contradicted(v)
      BY <1>2, <1>3, <2>1, NoneContradicted
    <3>2. rows' = rows
      BY <1>1, <3>1
    <3> QED
      BY <1>4, <3>2
  <2>2. CASE early # 0
    <3>1. j \in Files
      BY <1>3, <2>2, KeptFacts
    <3>2. j \notin Folders
      BY <3>1, RowsAssumption
    <3>3. \A v \in rows : v.item = j => ~Contradicted(v)
      BY <3>2 DEF Contradicted
    <3>4. Of(rows', j) = Of(rows, j)
      BY <1>1, <1>5, <3>3 DEF Of
    <3> QED
      BY <1>4, <3>4
  <2> QED
    BY <2>1, <2>2
<1> QED
  BY <1>1, <1>2, <1>3, <1>6, <1>7, StillMoved

LEMMA NextInv ==
  ASSUME IInv, [Next]_vars
  PROVE  IInv'
<1>1. CASE UNCHANGED vars
  <2>1. UNCHANGED <<seen, early, live, running, stage, old, undo, rows, tangled, merged>>
    BY <1>1 DEF vars, backfillVars
  <2>2. merged' \subseteq Folders
    BY <2>1 DEF IInv, Stages
  <2> QED
    BY <2>1, <2>2, Elsewhere
<1>2. CASE Backfill
  BY <1>2, BackfillStep DEF Backfill
<1>3. CASE SplitTables
  BY <1>3, SplitStep
<1>4. CASE MoveItem
  BY <1>4, MoveStep
<1>5. CASE BeginRecount
  BY <1>5, BeginStep
<1>6. CASE \E i \in Items : Chain(i)
  BY <1>6, ChainStep
<1>7. CASE DropInverted
  BY <1>7, DropStep
<1>8. CASE RecountScan
  BY <1>8, RecountStep
<1>9. CASE \E d \in Folders : Merge(d)
  BY <1>9, MergeStep
<1>10. CASE EndMerge
  BY <1>10, RowsLeft DEF EndMerge, Settled
<1>11. CASE NumberVersions
  BY <1>11, NumberStep
<1>12. CASE Crash
  BY <1>12, CrashStep
<1>13. CASE CountIssues
  BY <1>13, RowsLeft DEF CountIssues, Settled
<1>14. CASE RepairFolders
  BY <1>14, RepairStep
<1>15. CASE RemoveSuspects
  BY <1>15, RowsLeft DEF RemoveSuspects, Settled
<1> QED
  BY <1>1, <1>2, <1>3, <1>4, <1>5, <1>6, <1>7, <1>8, <1>9, <1>10, <1>11, <1>12, <1>13, <1>14, <1>15 DEF Next

\* The version in force says what the scan found.
LEMMA SaysFound ==
  ASSUME NEW S, NEW R, NEW i, NEW n \in Nat, Present(S, Of(R, i), i, n), NEW s \in 1..n
  PROVE  /\ Found(S, i, s) =>
              \E v \in At(R, i, s) : ~v.deleted /\ v.last >= s /\ v.meta = S[s][i].meta
         /\ ~Found(S, i, s) => ~Alive(R, i, s)
<1> DEFINE H == Of(R, i)
<1>0. s \in Nat /\ Told(S, H, i, n)
  BY DEF Present
<1>1. /\ At(R, i, s) \subseteq H
      /\ \A v \in At(R, i, s) : v.first <= s /\ \A w \in H : w # v /\ w.first <= s => w.last < v.first
      /\ \A v, w \in At(R, i, s) : v = w
      /\ (\E w \in H : w.first <= s) => At(R, i, s) # {}
  BY <1>0, InForce
<1>2. /\ \A v \in H : v.first \in Nat /\ v.last \in Nat
      /\ Found(S, i, s) => \E v \in H : ~v.deleted /\ v.first <= s /\ s <= v.last
      /\ \A v \in H : ~v.deleted => \A t \in v.first..v.last : Found(S, i, t) /\ v.meta = S[t][i].meta
  BY <1>0 DEF Told
<1> HIDE DEF H
<1>3. ASSUME Found(S, i, s)
      PROVE  \E v \in At(R, i, s) : ~v.deleted /\ v.last >= s /\ v.meta = S[s][i].meta
  <2>1. PICK v \in H : ~v.deleted /\ v.first <= s /\ s <= v.last
    BY <1>2, <1>3
  <2>2. PICK u \in At(R, i, s) : TRUE
    BY <1>1, <2>1
  <2>3. u = v
    <3>1. u \in H /\ u.first <= s
      BY <1>1
    <3>2. ~ (v.last < u.first)
      BY <1>0, <1>2, <2>1, <3>1
    <3> QED
      BY <1>1, <2>1, <3>2
  <2>4. s \in v.first..v.last
    BY <1>0, <1>2, <2>1
  <2>5. v.meta = S[s][i].meta
    BY <1>2, <2>1, <2>4
  <2>6. v.last >= s
    BY <1>0, <1>2, <2>1
  <2> QED
    BY <2>1, <2>2, <2>3, <2>5, <2>6
<1>4. ASSUME Alive(R, i, s) PROVE Found(S, i, s)
  <2>1. PICK v \in At(R, i, s) : ~v.deleted /\ v.last >= s
    BY <1>4 DEF Alive
  <2>2. v \in H /\ v.first <= s
    BY <1>1
  <2>3. s \in v.first..v.last
    BY <1>0, <1>2, <2>1, <2>2
  <2> QED
    BY <1>2, <2>1, <2>2, <2>3
<1> QED
  BY <1>3, <1>4

LEMMA InvImpliesFound ==
  ASSUME IInv
  PROVE  ItemsAsFound
<1> SUFFICES ASSUME Upgraded
             PROVE  /\ \A f \in Files, s \in Completed :
                         IF There(f, s)
                         THEN \E v \in At(rows, f, s) : ~v.deleted /\ v.last >= s /\ v.meta = seen[s][f].meta
                         ELSE ~Alive(rows, f, s)
                    /\ early = 0 => \A d \in Folders, s \in Completed : Alive(rows, d, s) <=> There(d, s)
  BY DEF ItemsAsFound
<1>1. ~BeforeSplit
  BY DEF BeforeSplit, Backfilling, Upgraded
<1>2. old = {} /\ Stages
  BY <1>1 DEF IInv, Faithful
<1>3. \A j \in KeptItems : Present(seen, Of(rows, j), j, LastKept)
  BY <1>1, <1>2, AllMoved
<1>4. LastKept \in Nat /\ Files \subseteq KeptItems /\ (early = 0 => KeptItems = Items)
  BY <1>2, KeptFacts
<1>5. Completed = 1..LastKept
  BY DEF Completed, LastKept, Scans
<1>6. \A s \in Completed : s # 0
  BY <1>4, <1>5
<1>7. ASSUME NEW f \in Files, NEW s \in Completed
      PROVE  IF There(f, s)
             THEN \E v \in At(rows, f, s) : ~v.deleted /\ v.last >= s /\ v.meta = seen[s][f].meta
             ELSE ~Alive(rows, f, s)
  <2>1. Present(seen, Of(rows, f), f, LastKept) /\ s \in 1..LastKept
    BY <1>3, <1>4, <1>5
  <2>2. /\ Found(seen, f, s) =>
              \E v \in At(rows, f, s) : ~v.deleted /\ v.last >= s /\ v.meta = seen[s][f].meta
        /\ ~Found(seen, f, s) => ~Alive(rows, f, s)
    BY <1>4, <2>1, SaysFound
  <2>3. There(f, s) <=> Found(seen, f, s)
    BY <1>6 DEF There, Found
  <2> QED
    BY <2>2, <2>3
<1>8. ASSUME early = 0, NEW d \in Folders, NEW s \in Completed
      PROVE  Alive(rows, d, s) <=> There(d, s)
  <2>1. Present(seen, Of(rows, d), d, LastKept) /\ s \in 1..LastKept
    BY <1>3, <1>4, <1>5, <1>8 DEF Items
  <2>2. /\ Found(seen, d, s) =>
              \E v \in At(rows, d, s) : ~v.deleted /\ v.last >= s /\ v.meta = seen[s][d].meta
        /\ ~Found(seen, d, s) => ~Alive(rows, d, s)
    BY <1>4, <2>1, SaysFound
  <2>3. There(d, s) <=> Found(seen, d, s)
    BY <1>6 DEF There, Found
  <2> QED
    BY <2>2, <2>3 DEF Alive
<1> QED
  BY <1>7, <1>8

\* Whatever the scans found, and wherever the upgrades from 18 to 31 are
\* killed: the version in force of a file at a completed scan says whether it
\* was there and what it was like, and no folder that no backfill touched is
\* taken for gone or for there against what the scan found.
THEOREM HistoryKept == Spec => []ItemsAsFound
<1>1. Init => IInv
  BY InitInv
<1>2. IInv /\ [Next]_vars => IInv'
  BY NextInv
<1>3. IInv => ItemsAsFound
  BY InvImpliesFound
<1> QED
  BY <1>1, <1>2, <1>3, PTL DEF Spec
-----------------------------------------------------------------------------
\* Hashes: what the old table and the new ones know of each file.

\* A hash of f was found since it last came, as of scan s.
Known(S, f, s) == \E t \in 1..s : (\A u \in t..s : Found(S, f, u)) /\ S[t][f].hash # None

\* A row of the old table has a hash when one is known, from a scan by then.
Readable(v) == {"hash", "hashScan", "hashState"} \subseteq DOMAIN v
Reads(S, f, v) ==
  ~v.deleted => /\ v.hash # None <=> Known(S, f, v.last)
                /\ v.hash # None => v.hashScan \in 1..v.last /\ v.hashState \in {1, 2}
Learned(S, H, f) == \A v \in H : Readable(v) /\ Reads(S, f, v)

\* A version of the new table has one row for a hash when one is known.
HashRows(K, v) == {h \in K : h.item = v.item /\ h.version = v.version}
Noted(S, K, f, v) ==
  ~v.deleted => /\ HashRows(K, v) # {} <=> Known(S, f, v.last)
                /\ \A h \in HashRows(K, v) : h.first \in 1..v.last /\ h.state \in {1, 2}
                /\ \A g, h \in HashRows(K, v) : g = h

Unnumbered == stage = "moving" \/ Recounting

HashInv ==
  /\ BeforeSplit => hashes = {} /\ \A f \in Files : Learned(seen, Of(old, f), f)
  /\ stage = "split" /\ running => \A f \in Files : Learned(seen, Of(Restored(old, undo), f), f)
  /\ stage = "moving" => \A f \in Files : Learned(seen, Of(old, f), f)
  /\ ~BeforeSplit => \A f \in Files : Of(old, f) # {} => \A h \in hashes : h.item # f
  /\ Unnumbered => \A f \in Files : \A v \in Of(rows, f) : "version" \in DOMAIN v /\ v.version = v.first
  /\ stage # "v31" => \A f \in Files : \A v \in Of(rows, f) : Noted(seen, hashes, f, v)
  /\ \A h \in hashes : {"item", "version", "first", "state"} \subseteq DOMAIN h

LEMMA KnownNext ==
  ASSUME NEW S, NEW f, NEW n \in Nat, Found(S, f, n + 1)
  PROVE  Known(S, f, n + 1) <=> S[n + 1][f].hash # None \/ Known(S, f, n)
<1>1. ASSUME Known(S, f, n + 1), S[n + 1][f].hash = None PROVE Known(S, f, n)
  <2>1. PICK t \in 1..(n + 1) : (\A u \in t..(n + 1) : Found(S, f, u)) /\ S[t][f].hash # None
    BY <1>1 DEF Known
  <2>2. t \in 1..n /\ \A u \in t..n : u \in t..(n + 1)
    BY <1>1, <2>1
  <2> QED
    BY <2>1, <2>2 DEF Known
<1>2. ASSUME S[n + 1][f].hash # None PROVE Known(S, f, n + 1)
  <2>1. n + 1 \in 1..(n + 1) /\ \A u \in (n + 1)..(n + 1) : u = n + 1
    OBVIOUS
  <2> QED
    BY <1>2, <2>1 DEF Known
<1>3. ASSUME Known(S, f, n) PROVE Known(S, f, n + 1)
  <2>1. PICK t \in 1..n : (\A u \in t..n : Found(S, f, u)) /\ S[t][f].hash # None
    BY <1>3 DEF Known
  <2>2. t \in 1..(n + 1) /\ \A u \in t..(n + 1) : u \in t..n \/ u = n + 1
    OBVIOUS
  <2> QED
    BY <2>1, <2>2 DEF Known
<1> QED
  BY <1>1, <1>2, <1>3

LEMMA KnownFound ==
  ASSUME NEW S, NEW f, NEW n \in Nat, Known(S, f, n)
  PROVE  n \in 1..n /\ Found(S, f, n)
<1>1. PICK t \in 1..n : \A u \in t..n : Found(S, f, u)
  BY DEF Known
<1> QED
  BY <1>1

\* A hash once known stays known while the file is there.
LEMMA KnownOn ==
  ASSUME NEW S, NEW f, NEW n \in Nat, NEW m \in Nat, n <= m, Known(S, f, n),
         \A u \in n..m : Found(S, f, u)
  PROVE  Known(S, f, m)
<1>1. PICK t \in 1..n : (\A u \in t..n : Found(S, f, u)) /\ S[t][f].hash # None
  BY DEF Known
<1>2. t \in 1..m /\ \A u \in t..m : u \in t..n \/ u \in n..m
  OBVIOUS
<1> QED
  BY <1>1, <1>2 DEF Known

\* What an update leaves of a hash.
KeepsHash(x, v) ==
  Readable(x) /\ x.hash = v.hash /\ x.hashScan = v.hashScan /\ x.hashState = v.hashState

LEMMA KeptHash ==
  ASSUME NEW v, Readable(v), NEW s
  PROVE  /\ KeepsHash(Started(v, s), v)
         /\ KeepsHash([v EXCEPT !.deleted = TRUE], v) /\ KeepsHash([v EXCEPT !.last = s], v)
         /\ KeepsHash([v EXCEPT !.added = s], v) /\ KeepsHash([v EXCEPT !.states = s], v)
BY DEF KeepsHash, Readable, Started

LEMMA AnalysedHash ==
  ASSUME NEW v, Readable(v), NEW o, NEW s
  PROVE  LET u == Analysed(v, o, s)
         IN /\ Readable(u)
            /\ o.hash = None => u.hash = v.hash /\ u.hashScan = v.hashScan /\ u.hashState = v.hashState
            /\ o.hash # None => /\ u.hash = o.hash /\ u.hashScan = s
                                /\ o.hash = v.hash => u.hashState = v.hashState
                                /\ o.hash # v.hash => u.hashState \in {1, 2}
<1> DEFINE state == IF o.hash = v.hash THEN v.hashState
                    ELSE IF v.hash # None /\ v.meta = o.meta THEN 2 ELSE 1
           hashed == IF o.hash = None THEN v
                     ELSE [v EXCEPT !.hash = o.hash, !.hashScan = s, !.hashState = state]
           u == Analysed(v, o, s)
<1>1. /\ o.hash = v.hash => state = v.hashState
      /\ o.hash # v.hash => state \in {1, 2}
  OBVIOUS
<1>2. hashed = IF o.hash = None THEN v
               ELSE [v EXCEPT !.hash = o.hash, !.hashScan = s, !.hashState = state]
  OBVIOUS
<1>3. \/ u = [hashed EXCEPT !.meta = o.meta]
      \/ u = [hashed EXCEPT !.meta = o.meta, !.val = o.val, !.valScan = s]
  BY Zenon DEF Analysed
<1> HIDE DEF state, hashed, u
<1>4. /\ Readable(hashed)
      /\ o.hash = None => hashed = v
      /\ o.hash # None => hashed.hash = o.hash /\ hashed.hashScan = s /\ hashed.hashState = state
  BY <1>2 DEF Readable
<1>5. KeepsHash(u, hashed)
  BY <1>3, <1>4 DEF KeepsHash, Readable
<1>6. /\ Readable(u)
      /\ o.hash = None => u.hash = v.hash /\ u.hashScan = v.hashScan /\ u.hashState = v.hashState
      /\ o.hash # None => /\ u.hash = o.hash /\ u.hashScan = s
                          /\ o.hash = v.hash => u.hashState = v.hashState
                          /\ o.hash # v.hash => u.hashState \in {1, 2}
  BY <1>1, <1>4, <1>5 DEF KeepsHash
<1> QED
  BY <1>6 DEF u

\* A row that reads as another.
LEMMA ReadsAlike ==
  ASSUME NEW S, NEW f, NEW v, Reads(S, f, v), NEW x, x.deleted = v.deleted, x.last = v.last,
         x.hash = v.hash, x.hashScan = v.hashScan,
         v.hash # None => x.hashState \in {v.hashState, 1}
  PROVE  Reads(S, f, x)
BY DEF Reads

\* Of the rows G that finding an item in scan n + 1 leaves, those that go on
\* from rows before keep their hash.
GoesOn(v, x) == Lasting(v, x) /\ x.hash = v.hash /\ x.hashState = v.hashState

LEMMA ObservedLearned ==
  ASSUME NEW S, NEW R, NEW i, NEW n \in Nat, n + 1 <= LastScan, Past(S, Of(R, i), i, n),
         \A v \in Of(R, i) : RowLike(v), Learned(S, Of(R, i), i)
  PROVE  LET G == Observed(R, i, S[n + 1][i], n + 1)
         IN /\ Learned(S, G, i)
            /\ \A x \in G : x.first = n + 1 \/ \E v \in Of(R, i) : GoesOn(v, x)
<1> DEFINE H == Of(R, i)
           o == S[n + 1][i]
           s == n + 1
           G == Observed(R, i, o, s)
           cur == Newest(R, i)
           alive == {v \in cur : ~v.deleted}
<1>0. n <= LastScan /\ s \in Nat /\ s \in 1..s
  BY RowsAssumption
<1>1. /\ cur \subseteq H
      /\ \A v, w \in cur : v = w
      /\ \A v \in H : v.last = n => v \in cur
      /\ \A v \in cur : ~v.deleted => v.last = n
  BY <1>0, Latest
<1>2. /\ \A v \in H : v.first \in 1..n /\ v.last \in Nat /\ v.first <= v.last /\ v.last <= n
      /\ \A t \in 1..n : Found(S, i, t) => \E v \in H : ~v.deleted /\ v.first <= t /\ t <= v.last
  BY DEF Past, Present, Told
<1>3. Found(S, i, s) <=> o # Absent
  BY DEF Found
<1>4. o # Absent => (Known(S, i, s) <=> o.hash # None \/ Known(S, i, n))
  BY <1>3, KnownNext
<1>5. \A v \in H : RowLike(v) /\ Readable(v) /\ Reads(S, i, v) /\ GoesOn(v, v)
  BY DEF Learned, GoesOn, Lasting
<1>6. alive = {} => ~Known(S, i, n)
  <2> SUFFICES ASSUME Known(S, i, n) PROVE alive # {}
    OBVIOUS
  <2>1. n \in 1..n /\ Found(S, i, n)
    BY KnownFound
  <2>2. PICK v \in H : ~v.deleted /\ v.first <= n /\ n <= v.last
    BY <1>2, <2>1
  <2>3. v.last = n
    BY <1>2, <2>2
  <2> QED
    BY <1>1, <2>2, <2>3
<1>7. G = CASE o = Absent -> H \cup {[Started(v, s) EXCEPT !.deleted = TRUE] : v \in alive}
            [] o # Absent /\ alive = {} -> H \cup {Analysed(Fresh(i, s, o.meta), o, s)}
            [] o # Absent /\ \E v \in alive : v.meta # o.meta \/ Learns(v, o) ->
                 H \cup {Analysed(Started(v, s), o, s) : v \in alive}
            [] OTHER -> (H \ cur) \cup {[Analysed(v, o, s) EXCEPT !.last = s] : v \in alive}
  BY Zenon DEF Observed
<1> SUFFICES ASSUME NEW x \in G
             PROVE  /\ Readable(x) /\ Reads(S, i, x)
                    /\ x.first = s \/ \E v \in H : GoesOn(v, x)
  BY DEF Learned
<1> HIDE DEF H, G, s, cur
<1>8. CASE x \in H
  BY <1>5, <1>8
\* Gone.
<1>9. CASE o = Absent /\ x \notin H
  <2>1. PICK v \in alive : x = [Started(v, s) EXCEPT !.deleted = TRUE]
    BY <1>7, <1>9
  <2>2. v \in H
    BY <1>1
  <2>3. x.deleted /\ x.first = s
    BY <1>5, <2>1, <2>2, LostRow
  <2>4. Readable(x)
    <3> DEFINE u == Started(v, s)
    <3>1. Readable(u)
      BY <1>5, <2>2, KeptHash DEF KeepsHash
    <3> HIDE DEF u
    <3>2. KeepsHash([u EXCEPT !.deleted = TRUE], u)
      BY <3>1, KeptHash
    <3> QED
      BY <2>1, <3>2 DEF u, KeepsHash
  <2> QED
    BY <2>3, <2>4 DEF Reads
\* Come.
<1>10. CASE o # Absent /\ alive = {} /\ x \notin H
  <2> DEFINE u == Fresh(i, s, o.meta)
  <2>1. x = Analysed(u, o, s)
    BY <1>7, <1>10
  <2>2. ~x.deleted /\ x.first = s /\ x.last = s
    BY <2>1, FoundRow
  <2>3. Readable(u) /\ u.hash = None
    BY DEF Fresh, Readable
  <2> HIDE DEF u
  <2>4. /\ Readable(x)
        /\ o.hash = None => x.hash = None
        /\ o.hash # None => x.hash = o.hash /\ x.hashScan = s /\ x.hashState \in {1, 2}
    BY <2>1, <2>3, AnalysedHash
  <2>5. x.hash # None <=> Known(S, i, s)
    BY <1>4, <1>6, <1>10, <2>4
  <2>6. Reads(S, i, x)
    BY <1>0, <2>2, <2>4, <2>5 DEF Reads
  <2> QED
    BY <2>2, <2>4, <2>6
\* Changed, or seen again.
<1>11. CASE o # Absent /\ alive # {} /\ x \notin H
  <2>1. PICK v \in alive : \/ x = Analysed(Started(v, s), o, s)
                           \/ x = [Analysed(v, o, s) EXCEPT !.last = s] /\ ~Learns(v, o) /\ v.meta = o.meta
    <3>1. CASE \E v \in alive : v.meta # o.meta \/ Learns(v, o)
      BY <1>7, <1>11, <3>1
    <3>2. CASE ~ \E v \in alive : v.meta # o.meta \/ Learns(v, o)
      BY <1>7, <1>11, <3>2
    <3> QED
      BY <3>1, <3>2
  <2>2. v \in H /\ RowLike(v) /\ Readable(v) /\ Reads(S, i, v) /\ ~v.deleted /\ v.last = n
    BY <1>1, <1>5
  <2>3. /\ v.hash # None <=> Known(S, i, n)
        /\ v.hash # None => v.hashScan \in 1..n /\ v.hashState \in {1, 2}
    BY <2>2 DEF Reads
  <2>4. 1..n \subseteq 1..s
    BY DEF s
  <2>5. CASE x = Analysed(Started(v, s), o, s)
    <3> DEFINE u == Started(v, s)
    <3>1. x.first = s /\ x.last = s
      BY <2>2, <2>5, ChangedRow
    <3>2. KeepsHash(u, v)
      BY <2>2, KeptHash
    <3> HIDE DEF u
    <3>3. /\ Readable(x)
          /\ o.hash = None => x.hash = u.hash /\ x.hashScan = u.hashScan /\ x.hashState = u.hashState
          /\ o.hash # None => /\ x.hash = o.hash /\ x.hashScan = s
                              /\ o.hash = u.hash => x.hashState = u.hashState
                              /\ o.hash # u.hash => x.hashState \in {1, 2}
      BY <2>5, <3>2, AnalysedHash DEF u, KeepsHash
    <3>4. Reads(S, i, x)
      BY <1>0, <1>4, <1>11, <2>3, <2>4, <3>1, <3>2, <3>3 DEF Reads, KeepsHash
    <3> QED
      BY <3>1, <3>3, <3>4
  <2>6. CASE x = [Analysed(v, o, s) EXCEPT !.last = s] /\ ~Learns(v, o) /\ v.meta = o.meta
    <3> DEFINE u == Analysed(v, o, s)
    <3>1. /\ Readable(u) /\ RowLike(u)
          /\ u.first = v.first /\ u.added = v.added /\ u.deleted = v.deleted /\ u.meta = o.meta
          /\ o.hash = None => u.hash = v.hash /\ u.hashScan = v.hashScan /\ u.hashState = v.hashState
          /\ o.hash # None => /\ u.hash = o.hash /\ u.hashScan = s
                              /\ o.hash = v.hash => u.hashState = v.hashState
      BY <2>2, AnalysedHash, AnalysedRow
    <3> HIDE DEF u
    <3>2. x = [u EXCEPT !.last = s]
      BY <2>6 DEF u
    <3>3. /\ x.first = u.first /\ x.last = s /\ x.added = u.added /\ x.deleted = u.deleted /\ x.meta = u.meta
          /\ KeepsHash(x, u)
      <4>1. /\ x.first = u.first /\ x.last = s /\ x.added = u.added /\ x.deleted = u.deleted
            /\ x.meta = u.meta
        BY <3>1, <3>2, NewLast
      <4>2. KeepsHash([u EXCEPT !.last = s], u)
        BY <3>1, KeptHash
      <4> QED
        BY <3>2, <4>1, <4>2
    <3>4. o.hash # None => o.hash = v.hash
      BY <2>6 DEF Learns
    <3>5. Reads(S, i, x)
      BY <1>0, <1>4, <1>11, <2>3, <2>4, <3>1, <3>3, <3>4 DEF Reads, KeepsHash
    <3>6. GoesOn(v, x)
      BY <2>6, <3>1, <3>3, <3>4 DEF GoesOn, Lasting, KeepsHash
    <3> QED
      BY <2>2, <3>3, <3>5, <3>6 DEF KeepsHash
  <2> QED
    BY <2>1, <2>5, <2>6
<1> QED
  BY <1>8, <1>9, <1>10, <1>11
-----------------------------------------------------------------------------
\* The rows of version 18.
LEMMA EachScanLearns ==
  ASSUME NEW S, NEW n \in 0..LastScan, NEW rs, EachScan(rs, S, n)
  PROVE  \A t \in 0..n, i \in Items : Learned(S, Of(rs[t], i), i)
<1> DEFINE Good(t) == \A i \in Items : Learned(S, Of(rs[t], i), i)
           Bad == {t \in 0..n : ~Good(t)}
           Step(R, t) == UNION {Observed(R, i, S[t][i], t) : i \in Items}
<1>0. LastScan \in Nat
  BY RowsAssumption
<1>1. rs[0] = {} /\ \A t \in 1..n : rs[t] = Step(rs[t - 1], t)
  <2>1. rs = [t \in 0..n |-> IF t = 0 THEN {} ELSE Step(rs[t - 1], t)]
    BY DEF EachScan
  <2> HIDE DEF Step
  <2>2. \A t \in 0..n : rs[t] = IF t = 0 THEN {} ELSE Step(rs[t - 1], t)
    BY <2>1
  <2> QED
    BY <2>2
<1>2. Good(0)
  BY <1>1 DEF Of, Learned
<1>3. ASSUME NEW t \in 1..n, Good(t - 1) PROVE Good(t)
  <2> DEFINE m == t - 1
             R == rs[m]
             G(i) == Observed(R, i, S[t][i], t)
  <2>1. m \in Nat /\ m + 1 = t /\ m + 1 <= LastScan /\ m \in 0..n /\ rs[t] = UNION {G(i) : i \in Items}
    <3>1. rs[t] = UNION {G(i) : i \in Items}
      BY <1>1
    <3> QED
      BY <1>0, <3>1
  <2>2. Proper(R) /\ \A i \in Items : Past(S, Of(R, i), i, m)
    BY <2>1, EachScanTells
  <2>3. \A i \in Items : Learned(S, Of(R, i), i)
    BY <1>3
  <2> HIDE DEF m, R
  <2>4. ASSUME NEW i \in Items PROVE Learned(S, G(i), i) /\ \A x \in G(i) : x.item = i
    <3>1. \A v \in Of(R, i) : RowLike(v)
      BY <2>2 DEF Proper, Of
    <3>2. Learned(S, Observed(R, i, S[m + 1][i], m + 1), i)
      BY <2>1, <2>2, <2>3, <3>1, ObservedLearned
    <3>3. \A x \in G(i) : x.item = i
      BY <2>2, ObservedProper
    <3> HIDE DEF G
    <3> QED
      BY <2>1, <3>2, <3>3 DEF G
  <2>5. ASSUME NEW i \in Items PROVE Of(rs[t], i) = G(i)
    <3> HIDE DEF G
    <3> QED
      BY <2>1, <2>4 DEF Of
  <2> HIDE DEF G
  <2> QED
    BY <2>4, <2>5
<1> HIDE DEF Good
<1>4. Bad = {}
  <2> SUFFICES ASSUME Bad # {} PROVE FALSE
    OBVIOUS
  <2>1. Bad \in SUBSET Nat
    OBVIOUS
  <2>2. PICK m \in Bad : \A j \in Bad : m <= j
    <3> HIDE DEF Bad
    <3> QED
      BY <2>1, Least
  <2>3. m \in 1..n /\ m - 1 \in 0..n
    <3>1. m \in 0..n /\ m # 0
      BY <1>2, <2>2
    <3> QED
      BY <3>1
  <2>4. m - 1 \notin Bad
    <3> HIDE DEF Bad
    <3>1. ~ (m <= m - 1)
      BY <2>3
    <3> QED
      BY <2>2, <3>1
  <2>5. Good(m - 1)
    BY <2>3, <2>4
  <2> QED
    BY <1>3, <2>2, <2>3, <2>5
<1> QED
  BY <1>4 DEF Good

LEMMA EarlyLearned ==
  ASSUME NEW S, NEW n \in 0..LastScan
  PROVE  \A f \in Files : Learned(S, Of(EarlyRows(S, n), f), f)
<1>0. n \in Nat /\ n \in 0..n /\ LastScan \in Nat
  BY RowsAssumption
<1> DEFINE rs == CHOOSE g : EachScan(g, S, n)
<1>1. EachScan(rs, S, n)
  BY <1>0, EachScanExists, Zenon
<1>2. EarlyRows(S, n) = {[v EXCEPT !.added = FALSE] : v \in rs[n]}
  BY Zenon DEF EarlyRows, EachScan
<1> HIDE DEF rs
<1>3. Proper(rs[n]) /\ \A i \in Items : Learned(S, Of(rs[n], i), i)
  BY <1>0, <1>1, EachScanTells, EachScanLearns
<1> DEFINE E(v) == [v EXCEPT !.added = FALSE]
<1>4. \A v \in rs[n] : E(v).item = v.item /\ Alike(E(v), v)
  BY <1>3 DEF Proper, RowLike, Alike
<1>5. \A v : Readable(v) => KeepsHash(E(v), v)
  BY KeptHash
<1> HIDE DEF E
<1>6. ASSUME NEW f \in Files, NEW x \in Of(EarlyRows(S, n), f) PROVE Readable(x) /\ Reads(S, f, x)
  <2>1. PICK v \in rs[n] : x = E(v)
    BY <1>2 DEF Of, E
  <2>2. v \in Of(rs[n], f)
    BY <1>4, <2>1 DEF Of
  <2>3. Readable(v) /\ Reads(S, f, v)
    BY <1>3, <2>2 DEF Learned, Items
  <2> QED
    BY <1>4, <1>5, <2>1, <2>3, ReadsAlike DEF KeepsHash, Alike
<1> QED
  BY <1>6 DEF Learned

\* A live scan does to the rows of files what it finds, and no more.
LEMMA LiveFiles ==
  ASSUME NEW R, Proper(R), NEW f \in Files, NEW found, NEW s
  PROVE  Of(LiveRows(R, found, s), f) = Observed(R, f, found[f], s)
<1> DEFINE Own(i) == Observed(R, i, found[i], s)
           own == UNION {Own(i) : i \in Items}
           changed(d) == \E v \in own : v.first = s /\ d \in Above[v.item]
           split(d) == d \in Folders /\ found[d] # Absent /\ StartedBy(own, d, s) = {} /\ changed(d)
           cut(v) == [v EXCEPT !.last = s - 1]
<1>1. LiveRows(R, found, s) =
        {IF split(v.item) /\ v \in Newest(own, v.item) THEN cut(v) ELSE v : v \in own} \cup
        {Started(v, s) : v \in {w \in own : split(w.item) /\ w \in Newest(own, w.item)}}
  BY DEF LiveRows
<1>2. \A i \in Items : \A x \in Own(i) : RowLike(x) /\ x.item = i
  BY ObservedProper
<1>3. ~split(f) /\ f \in Items
  BY RowsAssumption DEF Items
<1>4. \A v : RowLike(v) => cut(v).item = v.item /\ Started(v, s).item = v.item
  BY NewLast, StartedRow
<1> HIDE DEF split, cut, Own
<1>5. \A v \in own : RowLike(v)
  BY <1>2
<1>6. Own(f) = Of(own, f)
  BY <1>2, <1>3 DEF Of
<1> HIDE DEF own
<1>7. Of(LiveRows(R, found, s), f) = Of(own, f)
  BY <1>1, <1>3, <1>4, <1>5 DEF Of
<1> QED
  BY <1>6, <1>7 DEF Own

\* Rolling back gives the rows back with the hashes they had.
LEMMA RestoredLearned ==
  ASSUME NEW S, NEW R, NEW A, Proper(R), Proper(A), NEW n \in Nat, n + 1 = LastScan,
         NEW f \in Items, Past(S, Of(R, f), f, n), Learned(S, Of(R, f), f), Learned(S, Of(A, f), f),
         \A x \in Of(A, f) : x.first = n + 1 \/ \E v \in Of(R, f) : GoesOn(v, x)
  PROVE  Learned(S, Of(Restored(A, Logged(R, A)), f), f)
<1> DEFINE H == Of(R, f)
           U == Logged(R, A)
           E(u) == [u.row EXCEPT !.last = u.was.last, !.hashScan = u.was.hashScan,
                                 !.valScan = u.was.valScan]
<1>1. /\ \A v, w \in H : v.first = w.first => v = w
      /\ \A v \in H : v.first \in Nat /\ v.first # n + 1 /\ v.item = f
  BY DEF Past, Present, Told, Of
<1>2. \A u \in U : /\ u.was \in R /\ u.row \in A
                   /\ u.row.item = u.was.item /\ u.row.first = u.was.first
  <2>1. \A u \in U : \E v \in R, w \in A : /\ w.item = v.item /\ w.first = v.first
                                           /\ u = [was |-> v, row |-> w]
    BY DEF Logged
  <2> HIDE DEF U
  <2> SUFFICES ASSUME NEW u \in U
               PROVE  /\ u.was \in R /\ u.row \in A
                      /\ u.row.item = u.was.item /\ u.row.first = u.was.first
    OBVIOUS
  <2>2. PICK v \in R, w \in A : w.item = v.item /\ w.first = v.first /\ u = [was |-> v, row |-> w]
    BY <2>1
  <2>3. u.was = v /\ u.row = w
    BY <2>2
  <2> QED
    BY <2>2, <2>3
<1>3. \A v \in R, w \in A : w \notin R /\ w.item = v.item /\ w.first = v.first =>
        \E u \in U : u.was = v /\ u.row = w
  <2>1. \A v \in R, w \in A : w \notin R /\ w.item = v.item /\ w.first = v.first =>
          [was |-> v, row |-> w] \in U
    BY DEF Logged
  <2> HIDE DEF U
  <2> QED
    BY <2>1
<1>4. Restored(A, U) = {v \in A : v.first # LastScan /\ Undone(U, v) = {}} \cup {E(u) : u \in U}
  BY DEF Restored
<1>5. \A v \in R : v.item = f => v \in H
  BY DEF Of
<1>7. \A v \in H : Readable(v) /\ Reads(S, f, v)
  BY DEF Learned
<1>8. \A u \in U : E(u).item = u.row.item
  <2> SUFFICES ASSUME NEW u \in U PROVE E(u).item = u.row.item
    OBVIOUS
  <2>1. RowLike(u.row)
    BY <1>2 DEF Proper
  <2>2. RowLike(E(u)) /\ E(u).item = u.row.item /\ E(u).last = u.was.last /\ Lasting(u.row, E(u))
    BY <2>1, RestoredRow
  <2> QED
    BY <2>2
<1>9. \A u \in U : Readable(u.row) => 
        /\ Readable(E(u)) /\ E(u).last = u.was.last /\ E(u).deleted = u.row.deleted
        /\ E(u).hash = u.row.hash /\ E(u).hashScan = u.was.hashScan /\ E(u).hashState = u.row.hashState
  <2> SUFFICES ASSUME NEW u \in U, Readable(u.row)
               PROVE  /\ Readable(E(u)) /\ E(u).last = u.was.last /\ E(u).deleted = u.row.deleted
                      /\ E(u).hash = u.row.hash /\ E(u).hashScan = u.was.hashScan
                      /\ E(u).hashState = u.row.hashState
    OBVIOUS
  <2>1. RowLike(u.row)
    BY <1>2 DEF Proper
  <2>2. /\ Readable(E(u)) /\ E(u).last = u.was.last /\ E(u).deleted = u.row.deleted
        /\ E(u).hash = u.row.hash /\ E(u).hashScan = u.was.hashScan /\ E(u).hashState = u.row.hashState
    <3> DEFINE e == E(u)
               w == u.row
               l == u.was.last
               a == u.was.hashScan
               b == u.was.valScan
    <3>1. e = [w EXCEPT !.last = l, !.hashScan = a, !.valScan = b] /\ RowLike(w) /\ Readable(w)
      BY <2>1
    <3> HIDE DEF e, w, l, a, b
    <3>2. /\ Readable(e) /\ e.last = l /\ e.deleted = w.deleted
          /\ e.hash = w.hash /\ e.hashScan = a /\ e.hashState = w.hashState
      BY <3>1 DEF RowLike, Readable
    <3> HIDE DEF E
    <3> QED
      BY <3>2 DEF e, w, l, a
  <2> QED
    BY <2>2
<1> HIDE DEF H, U, E
<1>10. ASSUME NEW y \in Restored(A, U), y.item = f PROVE Readable(y) /\ Reads(S, f, y)
  <2>1. CASE y \in A /\ y.first # LastScan /\ Undone(U, y) = {}
    <3>1. PICK v \in H : GoesOn(v, y)
      BY <1>10, <2>1 DEF Of, H
    <3>2. v \in R /\ v.item = f /\ v.first = y.first
      BY <1>1, <3>1 DEF GoesOn, Lasting, H, Of
    <3>3. y \in R
      <4> SUFFICES ASSUME y \notin R PROVE FALSE
        OBVIOUS
      <4>1. PICK u \in U : u.was = v /\ u.row = y
        BY <1>3, <1>10, <2>1, <3>2
      <4>2. u \in Undone(U, y)
        BY <1>10, <3>2, <4>1 DEF Undone
      <4> QED
        BY <2>1, <4>2
    <3> QED
      BY <1>5, <1>7, <1>10, <3>3
  <2>2. CASE \E u \in U : y = E(u)
    <3>1. PICK u \in U : y = E(u)
      BY <2>2
    <3>2. u.was \in H /\ u.row \in Of(A, f) /\ u.row.first = u.was.first
      BY <1>2, <1>5, <1>8, <1>10, <3>1 DEF Of
    <3>3. PICK v \in H : GoesOn(v, u.row)
      BY <1>1, <3>2 DEF H
    <3>4. v = u.was
      BY <1>1, <3>2, <3>3 DEF GoesOn, Lasting
    <3>5. Readable(u.row)
      BY <3>2 DEF Learned
    <3>6. /\ Readable(y) /\ y.last = v.last /\ y.deleted = v.deleted
          /\ y.hash = v.hash /\ y.hashScan = v.hashScan /\ y.hashState = v.hashState
      BY <1>9, <3>1, <3>3, <3>4, <3>5 DEF GoesOn, Lasting
    <3> QED
      BY <1>7, <3>6, ReadsAlike
  <2> QED
    BY <1>4, <1>10, <2>1, <2>2
<1> QED
  BY <1>10 DEF Learned, Of, U
-----------------------------------------------------------------------------
\* A version with phantoms has the earliest hash of them all, one row for it.
LEMMA OneHash ==
  ASSUME NEW f \in Items, NEW n \in Nat, NEW v \in Of(old, f), Cluster(v) \subseteq Of(old, f),
         \A w \in Of(old, f) : w.first \in Nat /\ w.first <= n,
         \A w, x \in Of(old, f) : w.first = x.first => w = x,
         \A w \in Cluster(v) : w.hash # None => w.hashScan \in Nat /\ w.hashScan <= n
  PROVE  /\ \A h \in HashesOf(v) :
              /\ {"item", "version"} \subseteq DOMAIN h /\ h.item = f /\ h.version = v.first
              /\ \E w \in Cluster(v) : w.hash # None /\ h.first = w.hashScan
              /\ \E w \in Cluster(v) : w.hash # None /\ h.state = w.hashState
         /\ \A g, h \in HashesOf(v) : g = h
         /\ \A w \in Cluster(v) : w.hash # None => HashesOf(v) # {}
<1> DEFINE hashed == {w \in Cluster(v) : w.hash # None}
           least == {w \in hashed : \A x \in hashed : w.hashScan <= x.hashScan}
           most == {w \in hashed : \A x \in hashed : w.hashScan >= x.hashScan}
           A == {y \in least : \A z \in least : y.first <= z.first}
           B == {y \in most : \A z \in most : y.first >= z.first}
           Made(w, x) == [item |-> v.item, version |-> v.first, first |-> w.hashScan,
                          last |-> EffectiveLast(v), hash |-> w.hash, state |-> x.hashState]
<1>1. \A h : h \in HashesOf(v) <=> \E w \in A, x \in B : h = Made(w, x)
  BY DEF HashesOf
<1>2. v.item = f
  BY DEF Of
<1>3. \A w \in hashed : w \in Of(old, f) /\ w \in Cluster(v) /\ w.hash # None /\
                        w.hashScan \in Nat /\ w.hashScan <= n /\ w.first \in Nat /\ w.first <= n
  OBVIOUS
<1>4. \A w, x \in hashed : w.first = x.first => w = x
  BY <1>3
<1>5. A \subseteq least /\ B \subseteq most /\ least \subseteq hashed /\ most \subseteq hashed
  OBVIOUS
<1>6. \A w, x \in A : w = x
  <2> SUFFICES ASSUME NEW w \in A, NEW x \in A PROVE w = x
    OBVIOUS
  <2>1. w.first <= x.first /\ x.first <= w.first /\ w \in hashed /\ x \in hashed
    BY <1>5
  <2> HIDE DEF hashed, A
  <2> QED
    BY <1>3, <1>4, <2>1
<1>7. \A w, x \in B : w = x
  <2> SUFFICES ASSUME NEW w \in B, NEW x \in B PROVE w = x
    OBVIOUS
  <2>1. w.first >= x.first /\ x.first >= w.first /\ w \in hashed /\ x \in hashed
    BY <1>5
  <2> HIDE DEF hashed, B
  <2> QED
    BY <1>3, <1>4, <2>1
<1>8. ASSUME NEW w \in hashed PROVE A # {} /\ B # {}
  <2>1. PICK a \in hashed : \A x \in hashed : a.hashScan <= x.hashScan
    <3> DEFINE J == {x.hashScan : x \in hashed}
    <3>1. J \in SUBSET Nat /\ J # {}
      BY <1>3
    <3>2. PICK k \in J : \A j \in J : k <= j
      <4> HIDE DEF J
      <4> QED
        BY <3>1, Least
    <3> QED
      BY <3>2
  <2>2. PICK b \in hashed : \A x \in hashed : b.hashScan >= x.hashScan
    <3> DEFINE J == {x.hashScan : x \in hashed}
    <3>1. J \in SUBSET Nat /\ J # {} /\ \A j \in J : j <= n
      BY <1>3
    <3>2. PICK k \in J : \A j \in J : j <= k
      <4> HIDE DEF J
      <4> QED
        BY <3>1, Greatest
    <3>3. PICK b \in hashed : b.hashScan = k
      BY <3>2
    <3> QED
      BY <1>3, <3>2, <3>3
  <2>3. a \in least /\ b \in most
    BY <2>1, <2>2
  <2> HIDE DEF least, most
  <2>4. A # {}
    <3> DEFINE J == {x.first : x \in least}
    <3>1. J \in SUBSET Nat /\ J # {}
      BY <1>3, <1>5, <2>3
    <3>2. PICK k \in J : \A j \in J : k <= j
      <4> HIDE DEF J
      <4> QED
        BY <3>1, Least
    <3>3. PICK y \in least : y.first = k
      BY <3>2
    <3> QED
      BY <3>2, <3>3
  <2>5. B # {}
    <3> DEFINE J == {x.first : x \in most}
    <3>1. J \in SUBSET Nat /\ J # {} /\ \A j \in J : j <= n
      BY <1>3, <1>5, <2>3
    <3>2. PICK k \in J : \A j \in J : j <= k
      <4> HIDE DEF J
      <4> QED
        BY <3>1, Greatest
    <3>3. PICK y \in most : y.first = k
      BY <3>2
    <3>4. \A z \in most : z.first \in Nat
      BY <1>3, <1>5
    <3> QED
      BY <3>2, <3>3, <3>4
  <2> QED
    BY <2>4, <2>5
<1> HIDE DEF A, B, hashed
<1>9. ASSUME NEW h \in HashesOf(v)
      PROVE  /\ {"item", "version"} \subseteq DOMAIN h /\ h.item = f /\ h.version = v.first
             /\ \E w \in Cluster(v) : w.hash # None /\ h.first = w.hashScan
             /\ \E w \in Cluster(v) : w.hash # None /\ h.state = w.hashState
  <2>1. PICK w \in A, x \in B : h = Made(w, x)
    BY <1>1
  <2>2. w \in Cluster(v) /\ w.hash # None /\ x \in Cluster(v) /\ x.hash # None
    BY <1>3, <1>5
  <2>3. /\ {"item", "version"} \subseteq DOMAIN h /\ h.item = v.item /\ h.version = v.first
        /\ h.first = w.hashScan /\ h.state = x.hashState
    BY <2>1
  <2> QED
    BY <1>2, <2>2, <2>3
<1>10. \A g, h \in HashesOf(v) : g = h
  <2> HIDE DEF Made
  <2> QED
    BY <1>1, <1>6, <1>7
<1>11. ASSUME NEW w \in Cluster(v), w.hash # None PROVE HashesOf(v) # {}
  <2>1. w \in hashed
    BY <1>11 DEF hashed
  <2>2. A # {} /\ B # {}
    BY <1>8, <2>1
  <2>3. PICK a \in A, b \in B : TRUE
    BY <2>2
  <2>4. Made(a, b) \in HashesOf(v)
    BY <1>1
  <2> QED
    BY <2>4
<1> QED
  BY <1>9, <1>10, <1>11

LEMMA HashFields ==
  ASSUME NEW v, NEW h \in HashesOf(v)
  PROVE  {"item", "version", "first", "state"} \subseteq DOMAIN h /\ h.item = v.item /\ h.version = v.first
<1>1. \E a, b, c, e : h = [item |-> v.item, version |-> v.first, first |-> a, last |-> b, hash |-> c, state |-> e]
  BY DEF HashesOf
<1> QED
  BY <1>1

\* What moving a file notes of its hashes.
NewHashes(f) == UNION {HashesOf(v) : v \in {w \in Of(old, f) : ~Phantom(w)}}

LEMMA MovedNoted ==
  ASSUME NEW S, NEW f \in Files, NEW n \in Nat, n <= LastScan, Past(S, Of(old, f), f, n),
         Learned(S, Of(old, f), f), NEW K, \A h \in K : h.item # f
  PROVE  /\ \A x \in MovedFile(f) : /\ "version" \in DOMAIN x /\ x.version = x.first
                                    /\ Noted(S, K \cup NewHashes(f), f, x)
         /\ \A h \in NewHashes(f) : {"item", "version", "first", "state"} \subseteq DOMAIN h /\ h.item = f
<1> DEFINE H == Of(old, f)
<1>0. f \in Items
  BY DEF Items
<1>1. /\ \A v \in H : v.first \in 1..n /\ v.last \in Nat /\ v.first <= v.last /\ v.last <= n
      /\ \A v, w \in H : v.first = w.first => v = w
  BY DEF Past, Present, Told
<1>2. \A v \in H :
         /\ Cluster(v) \subseteq H /\ v \in Cluster(v)
         /\ \A w \in Cluster(v) : w.first >= v.first
         /\ \E m \in Cluster(v) : EffectiveLast(v) = m.last
         /\ \A w \in Cluster(v) : w.last <= EffectiveLast(v)
  <2> SUFFICES ASSUME NEW v \in H
               PROVE  /\ Cluster(v) \subseteq H /\ v \in Cluster(v)
                      /\ \A w \in Cluster(v) : w.first >= v.first
                      /\ \E m \in Cluster(v) : EffectiveLast(v) = m.last
                      /\ \A w \in Cluster(v) : w.last <= EffectiveLast(v)
    OBVIOUS
  <2>1. /\ Cluster(v) \subseteq H /\ v \in Cluster(v)
        /\ \A w \in H : w \in Cluster(v) <=>
             /\ w.first >= v.first
             /\ \A x \in H : v.first < x.first /\ x.first <= w.first => Phantom(x)
        /\ \E m \in Cluster(v) : EffectiveLast(v) = m.last
        /\ \A w \in Cluster(v) : w.last <= EffectiveLast(v)
    BY <1>0, ClusterFacts
  <2> QED
    BY <2>1
<1>3. \A v \in H : ~v.deleted => \A w \in Cluster(v) : ~w.deleted
  BY <1>0, ClusterSays
<1>4. \A v \in H : Readable(v) /\ Reads(S, f, v)
  BY DEF Learned
<1>5. Told(S, MovedFile(f), f, n)
  BY MovedFilePast DEF Present
<1>6. \A x \in MovedFile(f) : ~x.deleted => \A s \in x.first..x.last : Found(S, f, s)
  BY <1>5 DEF Told
<1>7. \A w \in H : w.first \in Nat /\ w.first <= n
  BY <1>1
<1>8. \A v \in H : v.item = f
  BY DEF Of
<1>9. ASSUME NEW v \in H, \A w \in Cluster(v) : w.hash # None => w.hashScan \in Nat /\ w.hashScan <= n
      PROVE  /\ \A h \in HashesOf(v) :
                  /\ {"item", "version"} \subseteq DOMAIN h /\ h.item = f /\ h.version = v.first
                  /\ \E w \in Cluster(v) : w.hash # None /\ h.first = w.hashScan
                  /\ \E w \in Cluster(v) : w.hash # None /\ h.state = w.hashState
             /\ \A g, h \in HashesOf(v) : g = h
             /\ \A w \in Cluster(v) : w.hash # None => HashesOf(v) # {}
  BY <1>0, <1>1, <1>2, <1>7, <1>9, OneHash
<1>10. \A v : \A h \in HashesOf(v) : /\ {"item", "version", "first", "state"} \subseteq DOMAIN h
                                     /\ h.item = v.item /\ h.version = v.first
  BY HashFields
<1>11. ASSUME NEW x \in MovedFile(f)
       PROVE  /\ "version" \in DOMAIN x /\ x.version = x.first
              /\ Noted(S, K \cup NewHashes(f), f, x)
  <2> DEFINE E(v) == Row(v, EffectiveLast(v), v.counts, MapThenSumSet(LAMBDA w : w.val, Judged(v)),
                         MapThenSumSet(LAMBDA w : w.valScan, Judged(v)))
  <2>1. PICK v \in H : ~Phantom(v) /\ x = E(v)
    <3>1. MovedFile(f) = {E(v) : v \in {w \in Of(old, f) : ~Phantom(w)}}
      BY Zenon DEF MovedFile
    <3> HIDE DEF E
    <3> QED
      BY <3>1
  <2>2. /\ "version" \in DOMAIN x /\ x.version = v.first /\ x.first = v.first
        /\ x.item = v.item /\ x.last = EffectiveLast(v) /\ x.deleted = v.deleted
    <3> DEFINE l == EffectiveLast(v)
               a == MapThenSumSet(LAMBDA w : w.val, Judged(v))
               b == MapThenSumSet(LAMBDA w : w.valScan, Judged(v))
    <3>1. x = Row(v, l, v.counts, a, b)
      BY <2>1
    <3> HIDE DEF l, a, b, E
    <3>2. /\ "version" \in DOMAIN x /\ x.version = v.first /\ x.first = v.first
          /\ x.item = v.item /\ x.last = l /\ x.deleted = v.deleted
      BY <3>1 DEF Row
    <3> QED
      BY <3>2 DEF l
  <2> HIDE DEF E
  <2>3. HashRows(K \cup NewHashes(f), x) = HashesOf(v)
    <3>1. ASSUME NEW h \in K \cup NewHashes(f), h.item = x.item, h.version = x.version PROVE h \in HashesOf(v)
      <4>1. h \in NewHashes(f)
        BY <1>8, <2>2, <3>1
      <4>2. PICK w \in H : h \in HashesOf(w)
        BY <4>1 DEF NewHashes
      <4>3. w.first = v.first
        BY <1>10, <2>2, <3>1, <4>2
      <4> QED
        BY <1>1, <4>2, <4>3
    <3>2. ASSUME NEW h \in HashesOf(v) PROVE h \in NewHashes(f) /\ h.item = x.item /\ h.version = x.version
      BY <1>10, <2>1, <2>2, <3>2 DEF NewHashes
    <3> QED
      BY <3>1, <3>2 DEF HashRows
  <2>4. ASSUME ~x.deleted
        PROVE  /\ HashesOf(v) # {} <=> Known(S, f, x.last)
               /\ \A h \in HashesOf(v) : h.first \in 1..x.last /\ h.state \in {1, 2}
               /\ \A g, h \in HashesOf(v) : g = h
    <3> DEFINE l == EffectiveLast(v)
    <3>1. \A w \in Cluster(v) : /\ w \in H /\ ~w.deleted /\ v.first <= w.first /\ w.first <= w.last
                                /\ w.last <= l /\ w.last \in Nat /\ w.last <= n
      BY <1>1, <1>2, <1>3, <2>2, <2>4
    <3>2. \A w \in Cluster(v) : /\ w.hash # None <=> Known(S, f, w.last)
                                /\ w.hash # None => w.hashScan \in 1..w.last /\ w.hashState \in {1, 2}
      BY <1>4, <3>1 DEF Reads
    <3>3. PICK m \in Cluster(v) : l = m.last
      BY <1>2
    <3>4. l \in Nat
      BY <3>1, <3>3
    <3> HIDE DEF l
    <3>5. \A w \in Cluster(v) : w.hash # None => /\ w.hashScan \in 1..l /\ w.hashState \in {1, 2}
                                                 /\ w.hashScan \in Nat /\ w.hashScan <= n
      BY <3>1, <3>2, <3>4
    <3>6. /\ \A h \in HashesOf(v) :
                  /\ \E w \in Cluster(v) : w.hash # None /\ h.first = w.hashScan
                  /\ \E w \in Cluster(v) : w.hash # None /\ h.state = w.hashState
          /\ \A g, h \in HashesOf(v) : g = h
          /\ \A w \in Cluster(v) : w.hash # None => HashesOf(v) # {}
      BY <1>9, <3>5
    <3>7. ASSUME NEW w \in Cluster(v), w.hash # None PROVE Known(S, f, l)
      <4>1. \A s \in w.last..l : s \in v.first..l
        BY <1>1, <3>1, <3>4
      <4>2. \A s \in w.last..l : Found(S, f, s)
        BY <1>6, <2>2, <2>4, <4>1 DEF l
      <4> QED
        BY <3>1, <3>2, <3>4, <3>7, <4>2, KnownOn
    <3>8. HashesOf(v) # {} <=> Known(S, f, l)
      BY <3>2, <3>3, <3>6, <3>7
    <3>9. x.last = l
      BY <2>2 DEF l
    <3> QED
      BY <3>5, <3>6, <3>8, <3>9
  <2> QED
    BY <2>2, <2>3, <2>4 DEF Noted
<1>12. \A h \in NewHashes(f) : {"item", "version", "first", "state"} \subseteq DOMAIN h /\ h.item = f
  BY <1>8, <1>10 DEF NewHashes
<1> QED
  BY <1>11, <1>12
-----------------------------------------------------------------------------
\* Questions of the new tables.
LEMMA HashInForce ==
  ASSUME NEW K, NEW v, NEW s \in Nat,
         \A h \in HashRows(K, v) : h.first \in 1..s /\ h.state \in {1, 2},
         \A g, h \in HashRows(K, v) : g = h
  PROVE  HashStateAt(K, v, s) # 0 <=> HashRows(K, v) # {}
<1> DEFINE mine == {h \in K : h.item = v.item /\ h.version = v.version /\ h.first <= s}
           X == {h \in mine : \A g \in mine : g.first <= h.first}
           Sum(I) == (CHOOSE g : g = [r \in SUBSET I |->
                        IF r = {} THEN 0
                        ELSE LET x == CHOOSE x \in r : TRUE IN x.state + g[r \ {x}]])[I]
<1>1. HashStateAt(K, v, s) = Sum(X)
  BY Zenon DEF HashStateAt, MapThenSumSet, MapThenFoldSet
<1>2. mine = HashRows(K, v)
  <2>1. \A h \in HashRows(K, v) : h.first <= s
    OBVIOUS
  <2> QED
    BY <2>1 DEF HashRows
<1>3. X = HashRows(K, v)
  <2>1. \A g, h \in mine : g.first <= h.first
    <3> HIDE DEF mine
    <3> QED
      BY <1>2
  <2>2. X = mine
    <3> HIDE DEF mine
    <3> QED
      BY <2>1
  <2> QED
    BY <1>2, <2>2
<1>4. CASE HashRows(K, v) = {}
  <2> DEFINE G(g) == g = [r \in SUBSET {} |->
                       IF r = {} THEN 0
                       ELSE LET x == CHOOSE x \in r : TRUE IN x.state + g[r \ {x}]]
             k == [r \in SUBSET {} |-> 0]
  <2>1. G(k)
    OBVIOUS
  <2>2. G(CHOOSE g : G(g))
    <3> HIDE DEF G, k
    <3> QED
      BY <2>1
  <2>3. Sum({}) = 0
    BY <2>2
  <2> HIDE DEF Sum, X
  <2> QED
    BY <1>1, <1>3, <1>4, <2>3
<1>5. CASE HashRows(K, v) # {}
  <2>1. PICK h \in HashRows(K, v) : TRUE
    BY <1>5
  <2>2. HashRows(K, v) = {h} /\ h.state \in {1, 2}
    BY <2>1
  <2> DEFINE G(g) == g = [r \in SUBSET {h} |->
                       IF r = {} THEN 0
                       ELSE LET x == CHOOSE x \in r : TRUE IN x.state + g[r \ {x}]]
             k == [r \in SUBSET {h} |-> IF r = {} THEN 0 ELSE h.state]
  <2>3. \A r \in SUBSET {h} : r = {} \/ (r = {h} /\ (CHOOSE x \in r : TRUE) = h)
    OBVIOUS
  <2>4. G(k)
    <3>1. k[{}] = 0
      OBVIOUS
    <3>2. \A r \in SUBSET {h} : k[r] = IF r = {} THEN 0
                                      ELSE LET x == CHOOSE x \in r : TRUE IN x.state + k[r \ {x}]
      <4> SUFFICES ASSUME NEW r \in SUBSET {h}, r # {}
                   PROVE  k[r] = (CHOOSE x \in r : TRUE).state + k[r \ {CHOOSE x \in r : TRUE}]
        OBVIOUS
      <4>1. r = {h} /\ (CHOOSE x \in r : TRUE) = h /\ r \ {h} = {}
        BY <2>3
      <4>2. k[r] = h.state
        OBVIOUS
      <4> HIDE DEF k
      <4> QED
        BY <2>2, <3>1, <4>1, <4>2
    <3> QED
      BY <3>2
  <2>5. G(CHOOSE g : G(g))
    <3> HIDE DEF G, k
    <3> QED
      BY <2>4
  <2> DEFINE c == CHOOSE g : G(g)
  <2>6. c[{}] = 0 /\ c[{h}] = h.state
    <3> HIDE DEF c
    <3>1. c = [r \in SUBSET {h} |->
                 IF r = {} THEN 0
                 ELSE LET x == CHOOSE x \in r : TRUE IN x.state + c[r \ {x}]]
      BY <2>5 DEF c
    <3>2. c[{}] = 0
      BY <3>1
    <3>3. c[{h}] = h.state + c[{h} \ {h}]
      <4>1. {h} \in SUBSET {h} /\ {h} # {} /\ (CHOOSE x \in {h} : TRUE) = h
        OBVIOUS
      <4> QED
        BY <3>1, <4>1
    <3>4. {h} \ {h} = {}
      OBVIOUS
    <3> QED
      BY <2>2, <3>2, <3>3, <3>4
  <2>7. Sum({h}) = c[{h}]
    OBVIOUS
  <2> HIDE DEF Sum, c
  <2> QED
    BY <1>1, <1>3, <2>2, <2>6, <2>7
<1> QED
  BY <1>4, <1>5

\* Versions of one item have different numbers.
LEMMA NumbersDiffer ==
  ASSUME NEW i, NEW n \in Nat, \A v \in Of(rows, i) : v.first \in 1..n,
         \A v, w \in Of(rows, i) : v.first = w.first => v = w
  PROVE  \A v, w \in Of(rows, i) : Number(v) = Number(w) => v = w
<1> DEFINE H == Of(rows, i)
           Upto(v) == {u \in H : u.first <= v.first}
<1>1. \A v \in H : Number(v) = Cardinality(Upto(v))
  BY DEF Number, Of
<1> HIDE DEF H
<1>2. \A v \in H : v.first \in 1..n
  BY DEF H
<1>3. \A v, w \in H : v.first = w.first => v = w
  BY DEF H
<1>4. IsFiniteSet(H)
  <2> DEFINE g == [v \in H |-> v.first]
  <2>1. g \in Injection(H, 1..n)
    <3>1. g \in [H -> 1..n]
      BY <1>2
    <3>2. \A a, b \in H : g[a] = g[b] => a = b
      BY <1>3
    <3> HIDE DEF g
    <3> QED
      BY <3>1, <3>2 DEF Injection, IsInjective
  <2>2. IsFiniteSet(1..n)
    BY FS_Interval
  <2> QED
    BY <2>1, <2>2, FS_Injection
<1>5. ASSUME NEW v \in H, NEW w \in H, v.first < w.first PROVE Number(v) # Number(w)
  <2>1. Upto(w) \in SUBSET H /\ Upto(v) \in SUBSET Upto(w)
    BY <1>2, <1>5
  <2>2. w \in Upto(w) /\ w \notin Upto(v)
    BY <1>2, <1>5
  <2> HIDE DEF Upto
  <2>3. IsFiniteSet(Upto(w))
    BY <1>4, <2>1, FS_Subset
  <2>4. Cardinality(Upto(w)) # Cardinality(Upto(v))
    BY <2>1, <2>2, <2>3, FS_Subset
  <2> QED
    BY <1>1, <2>4
<1>6. ASSUME NEW v \in H, NEW w \in H, Number(v) = Number(w) PROVE v = w
  <2>1. ~(v.first < w.first) /\ ~(w.first < v.first)
    BY <1>5, <1>6
  <2> QED
    BY <1>2, <1>3, <2>1
<1> QED
  BY <1>6 DEF H
-----------------------------------------------------------------------------
\* The steps.
LEMMA HashElsewhere ==
  ASSUME HashInv, UNCHANGED <<seen, running, stage, old, undo, rows, hashes>>
  PROVE  HashInv'
BY DEF HashInv, Unnumbered, Recounting, BeforeSplit, Backfilling

\* A step before the split.
LEMMA HashBefore ==
  ASSUME IInv, HashInv, BeforeSplit, BeforeSplit', UNCHANGED <<seen, rows, hashes>>,
         \A f \in Files : Learned(seen, Of(old', f), f),
         stage' = "split" /\ running' => \A f \in Files : Learned(seen, Of(Restored(old', undo'), f), f)
  PROVE  HashInv'
<1>1. rows = {} /\ hashes = {}
  BY DEF IInv, Faithful, HashInv
<1>2. \A f : Of(rows', f) = {}
  BY <1>1 DEF Of
<1>3. stage' # "moving"
  BY DEF BeforeSplit, Backfilling
<1> QED
  BY <1>1, <1>2, <1>3 DEF HashInv

LEMMA RewrittenLearned ==
  ASSUME NEW R, NEW F, Retold(F, R), NEW S, NEW f, Learned(S, Of(R, f), f),
         \A v \in R : Readable(v) => /\ Readable(F[v]) /\ F[v].hash = v.hash /\ F[v].hashScan = v.hashScan
                                     /\ v.hash # None => F[v].hashState \in {v.hashState, 1}
  PROVE  Learned(S, Of(Range(F), f), f)
<1>1. ASSUME NEW x \in Of(Range(F), f) PROVE Readable(x) /\ Reads(S, f, x)
  <2>1. PICK v \in R : x = F[v]
    BY DEF Of, Range, Retold
  <2>2. v \in Of(R, f) /\ Alike(x, v)
    BY <2>1 DEF Of, Retold
  <2>3. Readable(v) /\ Reads(S, f, v)
    BY <2>2 DEF Learned
  <2>4. /\ Readable(x) /\ x.hash = v.hash /\ x.hashScan = v.hashScan
        /\ v.hash # None => x.hashState \in {v.hashState, 1}
    BY <2>1, <2>3
  <2> QED
    BY <2>2, <2>3, <2>4, ReadsAlike DEF Alike
<1> QED
  BY <1>1 DEF Learned

\* The steps of the upgrades from 18 to 25 that rewrite rows leave hashes.
LEMMA TellLearned ==
  ASSUME Proper(old), TellAdditions, NEW f \in Files, Learned(seen, Of(old, f), f)
  PROVE  Learned(seen, Of(old', f), f)
<1> DEFINE a(v) == \A p \in Before(old, v.item, v.first) : p.deleted
           E(v) == [v EXCEPT !.added = a(v)]
           F == [v \in old |-> E(v)]
<1>1. old' = Range(F)
  BY DEF TellAdditions, Range
<1> HIDE DEF a
<1>2. \A v \in old : F[v] = [v EXCEPT !.added = a(v)]
  OBVIOUS
<1>3. Retold(F, old)
  BY DEF Proper, Retold, RowLike, Alike
<1> HIDE DEF F
<1>4. ASSUME NEW v \in old, Readable(v) PROVE KeepsHash(F[v], v)
  <2> DEFINE b == a(v)
  <2>1. F[v] = [v EXCEPT !.added = b]
    BY <1>2
  <2> HIDE DEF b
  <2>2. KeepsHash([v EXCEPT !.added = b], v)
    BY <1>4, KeptHash
  <2> QED
    BY <2>1, <2>2
<1> QED
  BY <1>1, <1>3, <1>4, RewrittenLearned DEF KeepsHash

LEMMA RebuildLearned ==
  ASSUME Proper(old), RebuildVersions, NEW f \in Files, Learned(seen, Of(old, f), f)
  PROVE  Learned(seen, Of(old', f), f)
<1> DEFINE E(v) == [v EXCEPT !.hashState = IF v.hash = None THEN 0 ELSE 1]
           F == [v \in old |-> E(v)]
<1>1. old' = Range(F)
  BY DEF RebuildVersions, Range
<1>2. Retold(F, old)
  BY DEF Proper, Retold, RowLike, Alike
<1>3. ASSUME NEW v \in old, Readable(v)
      PROVE  /\ Readable(F[v]) /\ F[v].hash = v.hash /\ F[v].hashScan = v.hashScan
             /\ v.hash # None => F[v].hashState \in {v.hashState, 1}
  BY <1>3 DEF Readable
<1> HIDE DEF F
<1> QED
  BY <1>1, <1>2, <1>3, RewrittenLearned

LEMMA StatesLearned ==
  ASSUME Proper(old), CountFolderStates, NEW f \in Files, Learned(seen, Of(old, f), f)
  PROVE  Learned(seen, Of(old', f), f)
<1> DEFINE s == Min(Uncovered)
           told(v) == v.first = s /\ v.item \in Walked(old, Root, s) \cap Folders
           a(v) == States(old, Walked(old, v.item, s), s)
           F == [v \in old |-> IF told(v) THEN [v EXCEPT !.states = a(v)] ELSE v]
<1>1. old' = Range(F)
  BY DEF CountFolderStates, Range
<1> HIDE DEF a, told
<1>2. \A v \in old : F[v] = v \/ F[v] = [v EXCEPT !.states = a(v)]
  OBVIOUS
<1>3. DOMAIN F = old
  OBVIOUS
<1> HIDE DEF F
<1>4. ASSUME NEW v \in old
      PROVE  /\ RowLike(F[v]) /\ F[v].item = v.item /\ Alike(F[v], v)
             /\ Readable(v) => KeepsHash(F[v], v)
  <2> DEFINE b == a(v)
  <2>1. F[v] = v \/ F[v] = [v EXCEPT !.states = b]
    BY <1>2
  <2>2. RowLike(v)
    BY DEF Proper
  <2> HIDE DEF b
  <2>3. Same([v EXCEPT !.states = b], v)
    BY <2>2, OtherFields
  <2>4. Readable(v) => KeepsHash([v EXCEPT !.states = b], v)
    BY KeptHash
  <2> QED
    BY <2>1, <2>2, <2>3, <2>4 DEF Same, Alike, KeepsHash
<1>5. Retold(F, old)
  BY <1>3, <1>4 DEF Retold
<1> QED
  BY <1>1, <1>4, <1>5, RewrittenLearned DEF KeepsHash

\* Those that count or collapse folders leave the rows of files.
LEMMA FilesUncounted ==
  ASSUME Proper(old), CountChanges \/ CollapseFolders \/ DedupFolder, merged \subseteq Folders,
         NEW f \in Files
  PROVE  Of(old', f) = Of(old, f)
<1>0. Files \cap Folders = {} /\ Folders \subseteq Items
  BY RowsAssumption DEF Items
<1>1. CASE CountChanges
  <2> DEFINE s == Min(Uncovered)
             P == [d \in Folders |-> Written(old, d, s, stage = "v22")]
  <2>1. old' = FilesOf(old) \cup UNION {Written(old, d, s, stage = "v22") : d \in Folders}
    BY <1>1 DEF CountChanges
  <2> HIDE DEF s
  <2>2. old' = Together(old, P)
    BY <2>1 DEF Together, Range
  <2>3. DOMAIN P = Folders /\ \A d \in Folders : RowsOf(P[d], d)
    BY WrittenRows
  <2> HIDE DEF P
  <2> QED
    BY <2>2, <2>3, Parts
<1>2. CASE CollapseFolders
  <2> DEFINE P == [d \in Folders |-> Collapsed(old, d, FALSE)]
  <2>1. old' = Together(old, P)
    BY <1>2 DEF CollapseFolders, Together, Range
  <2>2. DOMAIN P = Folders /\ \A d \in Folders : RowsOf(P[d], d)
    BY CollapsedRows
  <2> HIDE DEF P
  <2> QED
    BY <2>1, <2>2, Parts
<1>3. CASE DedupFolder
  <2> DEFINE next == CHOOSE x \in Folders \ merged : TRUE
             H == Collapsed(old, next, TRUE)
  <2>1. old' = Exchange(old, next, H) /\ merged # Folders
    BY <1>3 DEF DedupFolder, Exchange
  <2>2. next \in Folders
    <3>1. \E x : x \in Folders \ merged
      BY <2>1
    <3> QED
      BY <3>1
  <2> HIDE DEF next
  <2>3. RowsOf(H, next) /\ next \in Items
    BY <1>0, <2>2, CollapsedRows
  <2> HIDE DEF H
  <2>4. \A j \in Items : j # next => Of(old', j) = Of(old, j)
    BY <2>1, <2>3, Exchanged
  <2> QED
    BY <1>0, <2>2, <2>4 DEF Items
<1> QED
  BY <1>1, <1>2, <1>3

LEMMA LiveLearned ==
  ASSUME IInv, HashInv, LiveScan, UNCHANGED <<rows, hashes>>
  PROVE  HashInv'
<1> DEFINE n == live
           after == LiveRows(old, seen[n + 1], n + 1)
<1>1. /\ stage = "live" /\ UNCHANGED <<seen, early, running>>
      /\ old' = after
      /\ undo' = IF n + 1 = LastScan /\ running THEN Logged(old, after) ELSE {}
      /\ stage' = IF n + 1 = LastScan THEN "split" ELSE "live"
  BY Zenon DEF LiveScan, Logged
<1>2. Stages /\ Proper(old) /\ BeforeSplit /\ BeforeSplit'
  BY <1>1 DEF IInv, Faithful, BeforeSplit
<1>3. n \in Nat /\ n + 1 <= LastScan /\ LastScan \in Nat /\ Files \subseteq KeptItems /\ Files \subseteq Items
  <2>1. n \in Nat /\ LastScan \in Nat /\ n < LastScan
    BY <1>1, <1>2, KeptFacts DEF Stages
  <2> QED
    BY <1>2, <2>1, KeptFacts DEF Items
<1>4. \A f \in Files : Past(seen, Of(old, f), f, n) /\ Learned(seen, Of(old, f), f)
  BY <1>2, <1>3 DEF IInv, Faithful, HashInv
<1>5. Proper(after)
  BY <1>2, <1>3, LivePast
<1>6. ASSUME NEW f \in Files
      PROVE  /\ Learned(seen, Of(after, f), f)
             /\ \A x \in Of(after, f) : x.first = n + 1 \/ \E v \in Of(old, f) : GoesOn(v, x)
  <2>1. Of(after, f) = Observed(old, f, seen[n + 1][f], n + 1)
    BY <1>2, LiveFiles
  <2>2. \A v \in Of(old, f) : RowLike(v)
    BY <1>2 DEF Proper, Of
  <2> HIDE DEF after, n
  <2> QED
    BY <1>3, <1>4, <2>1, <2>2, ObservedLearned
<1>7. ASSUME stage' = "split", running' PROVE \A f \in Files : Learned(seen, Of(Restored(old', undo'), f), f)
  <2>1. n + 1 = LastScan /\ undo' = Logged(old, after)
    BY <1>1, <1>7
  <2> HIDE DEF after, n
  <2>2. \A f \in Files : Learned(seen, Of(Restored(after, Logged(old, after)), f), f)
    BY <1>2, <1>3, <1>4, <1>5, <1>6, <2>1, RestoredLearned
  <2> QED
    BY <1>1, <2>1, <2>2
<1> QED
  BY <1>1, <1>2, <1>6, <1>7, HashBefore

LEMMA HashBackfill ==
  ASSUME IInv, HashInv, BackfillNext, UNCHANGED <<rows, hashes, tangled>>
  PROVE  HashInv'
<1>0. Stages /\ Proper(old) /\ merged \subseteq Folders
  BY DEF IInv, Faithful, Stages
<1>1. ASSUME Backfilling, BeforeSplit', stage' = "split" => ~running, UNCHANGED <<seen, running>>,
             \A f \in Files : Of(old', f) = Of(old, f) \/ Learned(seen, Of(old', f), f)
      PROVE  HashInv'
  <2>1. BeforeSplit
    BY <1>1 DEF BeforeSplit
  <2>2. \A f \in Files : Learned(seen, Of(old', f), f)
    BY <1>1, <2>1 DEF HashInv
  <2> QED
    BY <1>1, <2>1, <2>2, HashBefore
<1>2. \A f \in Files : Backfilling => Learned(seen, Of(old, f), f)
  BY DEF HashInv, BeforeSplit
<1>3. CASE CountChanges \/ CollapseFolders \/ DedupFolder
  <2>1. \A f \in Files : Of(old', f) = Of(old, f)
    BY <1>0, <1>3, FilesUncounted
  <2>2. Backfilling /\ stage' # "split" /\ UNCHANGED <<seen, running>> /\ BeforeSplit'
    BY <1>3 DEF CountChanges, CollapseFolders, DedupFolder, Counting, Backfilling, BeforeSplit
  <2> QED
    BY <1>1, <2>1, <2>2
<1>4. CASE TellAdditions \/ RebuildVersions \/ CountFolderStates
  <2>1. Backfilling /\ stage' # "split" /\ UNCHANGED <<seen, running>> /\ BeforeSplit'
    BY <1>4 DEF TellAdditions, RebuildVersions, CountFolderStates, Backfilling, BeforeSplit
  <2>2. \A f \in Files : Learned(seen, Of(old', f), f)
    BY <1>0, <1>2, <1>4, <2>1, TellLearned, RebuildLearned, StatesLearned
  <2> QED
    BY <1>1, <2>1, <2>2
<1>5. CASE EndOfScans \/ CountScanStates \/ RecountScans
  <2>1. Backfilling /\ UNCHANGED <<seen, running, old>> /\ BeforeSplit'
    BY <1>5 DEF EndOfScans, CountScanStates, RecountScans, Backfilling, BeforeSplit
  <2>2. stage' = "split" => ~running
    <3>1. stage' = "split" => early = LastScan
      BY <1>5, <2>1 DEF EndOfScans, CountScanStates, RecountScans, Backfilling
    <3>2. running => early < LastScan
      BY <1>0 DEF Stages
    <3> QED
      BY <1>0, <3>1, <3>2, KeptFacts
  <2> QED
    BY <1>1, <2>1, <2>2
<1>6. CASE Mark \/ CrashCounting
  BY <1>6, HashElsewhere DEF Mark, CrashCounting
<1>7. CASE LiveScan
  BY <1>7, LiveLearned
<1> QED
  BY <1>3, <1>4, <1>5, <1>6, <1>7 DEF BackfillNext

LEMMA HashInit ==
  ASSUME Init
  PROVE  HashInv
<1>1. /\ stage = (IF early = 0 THEN "live" ELSE "v18") /\ old = EarlyRows(seen, early)
      /\ early \in 0..LastScan /\ rows = {} /\ hashes = {}
  BY DEF Init, BackfillInit
<1>2. BeforeSplit /\ stage # "split" /\ stage # "moving" /\ ~Unnumbered
  BY <1>1 DEF BeforeSplit, Backfilling, Unnumbered, Recounting
<1>3. \A f \in Files : Learned(seen, Of(old, f), f)
  BY <1>1, EarlyLearned
<1>4. \A f : Of(rows, f) = {}
  BY <1>1 DEF Of
<1> QED
  BY <1>1, <1>2, <1>3, <1>4 DEF HashInv

LEMMA HashSplit ==
  ASSUME IInv, HashInv, SplitTables
  PROVE  HashInv'
<1>1. /\ stage = "split" /\ stage' = "moving" /\ UNCHANGED <<rows, hashes, seen>>
      /\ old' = IF running THEN Restored(old, undo) ELSE old
  BY RolledBackIs DEF SplitTables, Settled
<1>2. BeforeSplit /\ ~BeforeSplit'
  BY <1>1 DEF BeforeSplit, Backfilling
<1>3. rows = {} /\ hashes = {}
  BY <1>2 DEF IInv, Faithful, HashInv
<1>4. \A f \in Files : Learned(seen, Of(old', f), f)
  BY <1>1, <1>2 DEF HashInv
<1>5. \A f : Of(rows', f) = {}
  BY <1>1, <1>3 DEF Of
<1> QED
  BY <1>1, <1>2, <1>3, <1>4, <1>5 DEF HashInv

\* A step that leaves the hashes and the rows of files.
LEMMA HashStays ==
  ASSUME HashInv, ~BeforeSplit, ~BeforeSplit', stage # "v31", UNCHANGED <<seen, old, hashes>>,
         \A f \in Files : Of(rows', f) = Of(rows, f), Unnumbered' => Unnumbered,
         stage' = "moving" => stage = "moving" \/ old = {}
  PROVE  HashInv'
<1>1. stage' # "split"
  BY DEF BeforeSplit
<1>2. ASSUME stage' = "moving" PROVE \A f \in Files : Learned(seen, Of(old, f), f)
  <2>1. CASE stage = "moving"
    BY <2>1 DEF HashInv
  <2>2. CASE old = {}
    BY <2>2 DEF Learned, Of
  <2> QED
    BY <1>2, <2>1, <2>2
<1> QED
  BY <1>1, <1>2 DEF HashInv

\* The batch of an item brings its hashes.
LEMMA HashMove ==
  ASSUME IInv, HashInv, MoveItem
  PROVE  HashInv'
<1> DEFINE i == NextItem
           M == IF i \in Folders THEN MovedFolder(i) ELSE MovedFile(i)
           N == NewHashes(i)
<1>1. /\ stage = "moving" /\ stage' = "moving" /\ old # {} /\ UNCHANGED seen
      /\ rows' = rows \cup M /\ old' = old \ Of(old, i) /\ hashes' = hashes \cup N
  BY DEF MoveItem, Settled, NewHashes
<1>2. ~BeforeSplit /\ ~BeforeSplit' /\ Unnumbered /\ stage # "v31"
  BY <1>1 DEF BeforeSplit, Backfilling, Unnumbered
<1>3. Proper(old) /\ Proper(rows) /\ (\A j \in KeptItems : Moved(j)) /\ Stages
  BY <1>2 DEF IInv, Faithful
<1>4. i \in Items /\ Of(old, i) # {}
  <2>1. \E j \in Items : Of(old, j) # {}
    BY <1>1, <1>3 DEF Proper, Of
  <2> QED
    BY <2>1, Zenon DEF NextItem
<1>5. Files \subseteq KeptItems /\ LastKept \in Nat /\ LastKept <= LastScan /\ Files \cap Folders = {}
  BY <1>3, KeptFacts, RowsAssumption
<1> HIDE DEF i
<1>6. RowsOf(M, i)
  BY <1>4, MovedRows
<1>7. \A h \in N : {"item", "version", "first", "state"} \subseteq DOMAIN h /\ h.item = i
  BY HashFields DEF NewHashes, Of
<1>8. ASSUME i \in Files
      PROVE  /\ Of(rows, i) = {} /\ M = MovedFile(i)
             /\ \A x \in M : "version" \in DOMAIN x /\ x.version = x.first /\ Noted(seen, hashes \cup N, i, x)
  <2>1. Of(rows, i) = {} /\ Past(seen, Of(old, i), i, LastKept)
    BY <1>3, <1>4, <1>5, <1>8 DEF Moved
  <2>2. M = MovedFile(i)
    BY <1>5, <1>8
  <2>3. Learned(seen, Of(old, i), i) /\ \A h \in hashes : h.item # i
    BY <1>1, <1>2, <1>4, <1>8 DEF HashInv
  <2> HIDE DEF M
  <2> QED
    BY <1>5, <1>8, <2>1, <2>2, <2>3, MovedNoted
<1> HIDE DEF M, N
<1>9. ASSUME NEW f \in Files
      PROVE  /\ Learned(seen, Of(old', f), f)
             /\ Of(old', f) # {} => \A h \in hashes' : h.item # f
             /\ \A v \in Of(rows', f) : "version" \in DOMAIN v /\ v.version = v.first /\ Noted(seen, hashes', f, v)
  <2>1. CASE f = i
    <3>1. Of(old', f) = {}
      BY <1>1, <2>1 DEF Of
    <3>2. Of(rows', f) = M
      BY <1>1, <1>6, <1>8, <2>1 DEF Of, RowsOf
    <3> QED
      BY <1>1, <1>8, <2>1, <3>1, <3>2 DEF Learned
  <2>2. CASE f # i
    <3>1. Of(rows', f) = Of(rows, f) /\ Of(old', f) = Of(old, f)
      BY <1>1, <1>6, <2>2 DEF Of, RowsOf
    <3>2. \A v \in Of(rows, f) : HashRows(hashes', v) = HashRows(hashes, v)
      BY <1>1, <1>7, <2>2 DEF HashRows, Of
    <3>3. /\ Learned(seen, Of(old, f), f)
          /\ Of(old, f) # {} => \A h \in hashes : h.item # f
          /\ \A v \in Of(rows, f) : "version" \in DOMAIN v /\ v.version = v.first /\ Noted(seen, hashes, f, v)
      BY <1>1, <1>2 DEF HashInv
    <3>4. \A v \in Of(rows, f) : Noted(seen, hashes', f, v)
      BY <3>2, <3>3 DEF Noted
    <3>5. Of(old', f) # {} => \A h \in hashes' : h.item # f
      BY <1>1, <1>7, <2>2, <3>1, <3>3
    <3>6. Learned(seen, Of(old', f), f)
      BY <3>1, <3>3
    <3>7. \A v \in Of(rows', f) : "version" \in DOMAIN v /\ v.version = v.first /\ Noted(seen, hashes', f, v)
      BY <3>1, <3>3, <3>4
    <3> QED
      BY <3>5, <3>6, <3>7
  <2> QED
    BY <2>1, <2>2
<1>10. \A h \in hashes' : {"item", "version", "first", "state"} \subseteq DOMAIN h
  BY <1>1, <1>7 DEF HashInv
<1> QED
  BY <1>1, <1>2, <1>9, <1>10 DEF HashInv

LEMMA HashRecounting ==
  ASSUME IInv, HashInv, RecountScan
  PROVE  HashInv'
<1> DEFINE s == Min(ScansLeft)
           P == [d \in Folders |-> Recounted(d, s)]
<1>1. /\ stage = "recounting" /\ UNCHANGED <<seen, old, hashes>>
      /\ rows' = FilesOf(rows) \cup UNION {Recounted(d, s) : d \in Folders}
  BY DEF RecountScan, Settled, FilesOf
<1>2. stage' \in {"recounting", "merging"}
  BY <1>1 DEF RecountScan
<1>3. ~BeforeSplit /\ ~BeforeSplit' /\ Unnumbered /\ stage' # "moving"
  BY <1>1, <1>2 DEF BeforeSplit, Backfilling, Recounting, Unnumbered
<1>4. Proper(rows)
  BY DEF IInv, Faithful
<1> HIDE DEF s
<1>5. rows' = Together(rows, P)
  BY <1>1 DEF Together, Range
<1>6. ASSUME NEW d \in Folders PROVE P[d] = Pruned(rows, d, s) \/ \E c : P[d] = Counted(rows, d, s, c)
  BY DEF Recounted
<1>7. DOMAIN P = Folders
  OBVIOUS
<1> HIDE DEF P
<1>8. ASSUME NEW d \in Folders PROVE RowsOf(P[d], d)
  <2>1. RowsOf(Pruned(rows, d, s), d) /\ \A c : RowsOf(Counted(rows, d, s, c), d)
    BY <1>4, PrunedRows, CountedRows
  <2> QED
    BY <1>6, <2>1
<1>9. \A f \in Files : Of(rows', f) = Of(rows, f)
  BY <1>4, <1>5, <1>7, <1>8, Parts
<1> QED
  BY <1>1, <1>3, <1>9, HashStays

LEMMA HashMerging ==
  ASSUME IInv, HashInv, NEW d \in Folders, Merge(d)
  PROVE  HashInv'
<1>1. stage = "merging" /\ stage' = stage /\ UNCHANGED <<seen, old, hashes>>
  BY DEF Merge, Settled
<1>2. ~BeforeSplit /\ ~BeforeSplit' /\ Unnumbered /\ stage # "v31" /\ stage' # "moving"
  BY <1>1 DEF BeforeSplit, Backfilling, Recounting, Unnumbered
<1>3. PICK v \in Of(rows, d), w \in Of(rows, d) :
        Repeats(v, w) /\ rows' = (rows \ {v, w}) \cup {[v EXCEPT !.last = w.last]}
  BY DEF Merge
<1>4. RowLike(v) /\ v.item = d /\ w.item = d
  BY DEF IInv, Faithful, Proper, Of
<1> DEFINE l == w.last
           x == [v EXCEPT !.last = l]
<1>5. x.item = d
  <2> HIDE DEF l
  <2> QED
    BY <1>4, NewLast
<1>6. rows' = (rows \ {v, w}) \cup {x}
  BY <1>3
<1> HIDE DEF x
<1>7. \A f \in Files : f # d
  BY RowsAssumption
<1>8. \A f \in Files : Of(rows', f) = Of(rows, f)
  BY <1>4, <1>5, <1>6, <1>7 DEF Of
<1> QED
  BY <1>1, <1>2, <1>8, HashStays

\* The other steps that leave the rows of files.
LEMMA HashLeft ==
  ASSUME IInv, HashInv,
         \/ BeginRecount \/ (\E i \in Items : Chain(i)) \/ DropInverted \/ (\E d \in Folders : Merge(d))
         \/ EndMerge \/ Crash \/ CountIssues \/ RepairFolders
  PROVE  HashInv'
<1>0. Proper(rows) /\ tangled \cap KeptItems = {} /\ Stages /\ Files \cap Folders = {} /\ Files \subseteq Items
  BY RowsAssumption DEF IInv, Faithful, Items
<1>1. Files \subseteq KeptItems /\ Folders \subseteq Items
  BY <1>0, KeptFacts DEF Items
<1>2. CASE BeginRecount
  <2>1. stage = "moving" /\ stage' \in {"untangling", "numbering", "recounting"} /\ UNCHANGED <<seen, old, hashes, rows>>
    BY <1>2 DEF BeginRecount, Settled
  <2>2. ~BeforeSplit /\ ~BeforeSplit' /\ Unnumbered /\ stage # "v31" /\ stage' # "moving"
    BY <2>1 DEF BeforeSplit, Backfilling, Unnumbered
  <2> QED
    BY <2>1, <2>2, HashStays
<1>3. ASSUME NEW i \in Items, Chain(i) PROVE HashInv'
  <2>1. /\ stage = "untangling" /\ stage' = stage /\ i \in tangled /\ UNCHANGED <<seen, old, hashes>>
        /\ rows' = Exchange(rows, i, Chained(i))
    BY <1>3 DEF Chain, Settled, Exchange
  <2>2. ~BeforeSplit /\ ~BeforeSplit' /\ Unnumbered /\ stage # "v31" /\ stage' # "moving"
    BY <2>1 DEF BeforeSplit, Backfilling, Recounting, Unnumbered
  <2>3. \A j \in Items : j # i => Of(rows', j) = Of(rows, j)
    BY <1>0, <2>1, ChainedRows, Exchanged
  <2>4. \A f \in Files : Of(rows', f) = Of(rows, f)
    BY <1>0, <1>1, <2>1, <2>3
  <2> QED
    BY <2>1, <2>2, <2>4, HashStays
<1>4. CASE DropInverted
  <2>1. /\ stage = "untangling" /\ stage' \in {"numbering", "recounting"} /\ UNCHANGED <<seen, old, hashes>>
        /\ rows' = {v \in rows : v.item \in Folders => v.first <= v.last}
    BY <1>4 DEF DropInverted, Settled
  <2>2. ~BeforeSplit /\ ~BeforeSplit' /\ Unnumbered /\ stage # "v31" /\ stage' # "moving"
    BY <2>1 DEF BeforeSplit, Backfilling, Recounting, Unnumbered
  <2>3. \A f \in Files : Of(rows', f) = Of(rows, f)
    BY <1>0, <2>1 DEF Of
  <2> QED
    BY <2>1, <2>2, <2>3, HashStays
<1>5. CASE \E d \in Folders : Merge(d)
  BY <1>5, HashMerging
<1>6. CASE EndMerge
  <2>1. stage = "merging" /\ stage' = "numbering" /\ UNCHANGED <<seen, old, hashes, rows>>
    BY <1>6 DEF EndMerge, Settled
  <2>2. ~BeforeSplit /\ ~BeforeSplit' /\ Unnumbered /\ stage # "v31" /\ stage' # "moving"
    BY <2>1 DEF BeforeSplit, Backfilling, Recounting, Unnumbered
  <2> QED
    BY <2>1, <2>2, HashStays
<1>7. CASE Crash
  <2>1. /\ stage = "moving" \/ Recounting
        /\ stage' = "moving" /\ UNCHANGED <<seen, old, hashes, rows>>
    BY <1>7 DEF Crash, Settled, Recounting
  <2>2. ~BeforeSplit /\ ~BeforeSplit' /\ Unnumbered /\ stage # "v31"
    BY <2>1 DEF BeforeSplit, Backfilling, Recounting, Unnumbered
  <2>3. stage = "moving" \/ old = {}
    BY <2>1 DEF IInv, Faithful
  <2> QED
    BY <2>1, <2>2, <2>3, HashStays
<1>8. CASE CountIssues
  <2>1. stage = "v28" /\ stage' = "v29" /\ UNCHANGED <<seen, old, hashes, rows>>
    BY <1>8 DEF CountIssues, Settled
  <2>2. ~BeforeSplit /\ ~BeforeSplit' /\ ~Unnumbered' /\ stage # "v31" /\ stage' # "moving"
    BY <2>1 DEF BeforeSplit, Backfilling, Recounting, Unnumbered
  <2> QED
    BY <2>1, <2>2, HashStays
<1>9. CASE RepairFolders
  <2> DEFINE E(v) == [v EXCEPT !.deleted = FALSE]
  <2>1. /\ stage = "v29" /\ stage' = "v30" /\ UNCHANGED <<seen, old, hashes>>
        /\ rows' = {IF Contradicted(v) THEN E(v) ELSE v : v \in rows}
    BY <1>9 DEF RepairFolders, Settled
  <2>2. ~BeforeSplit /\ ~BeforeSplit' /\ ~Unnumbered' /\ stage # "v31" /\ stage' # "moving"
    BY <2>1 DEF BeforeSplit, Backfilling, Recounting, Unnumbered
  <2>3. \A v \in rows : E(v).item = v.item /\ (Contradicted(v) => v.item \in Folders)
    BY <1>0 DEF Proper, RowLike, Contradicted
  <2> HIDE DEF E
  <2>4. \A f \in Files : Of(rows', f) = Of(rows, f)
    BY <1>0, <2>1, <2>3 DEF Of
  <2> QED
    BY <2>1, <2>2, <2>4, HashStays
<1> QED
  BY <1>2, <1>3, <1>4, <1>5, <1>6, <1>7, <1>8, <1>9

\* Numbering takes the hash rows along.
LEMMA NumberedNoted ==
  ASSUME NEW S, NEW f \in Files, NEW n \in Nat, \A v \in Of(rows, f) : v.first \in 1..n,
         \A v, w \in Of(rows, f) : v.first = w.first => v = w,
         \A v \in Of(rows, f) : "version" \in DOMAIN v /\ v.version = v.first /\ RowLike(v),
         \A h \in hashes : {"item", "version", "first", "state"} \subseteq DOMAIN h,
         NEW H, H = UNION {{[h EXCEPT !.version = Number(v)] :
                              v \in {w \in Of(rows, h.item) : w.version = h.version}} : h \in hashes},
         NEW v \in Of(rows, f), Noted(S, hashes, f, v)
  PROVE  Noted(S, H, f, [v EXCEPT !.version = Number(v)])
<1> DEFINE E(h, w) == [h EXCEPT !.version = Number(w)]
           k == Number(v)
           x == [v EXCEPT !.version = k]
<1>1. /\ x.item = f /\ x.version = Number(v) /\ x.last = v.last /\ x.deleted = v.deleted
      /\ v.item = f /\ v.version = v.first
  <2>1. {"version", "item", "last", "deleted"} \subseteq DOMAIN v /\ v.item = f /\ v.version = v.first
    BY DEF RowLike, Of
  <2> HIDE DEF k
  <2>2. x.item = f /\ x.version = k /\ x.last = v.last /\ x.deleted = v.deleted
    BY <2>1
  <2> QED
    BY <2>1, <2>2 DEF k
<1>2. \A h \in hashes : \A w : /\ E(h, w).item = h.item /\ E(h, w).version = Number(w)
                               /\ E(h, w).first = h.first /\ E(h, w).state = h.state
  <2> SUFFICES ASSUME NEW h \in hashes, NEW w
               PROVE  /\ E(h, w).item = h.item /\ E(h, w).version = Number(w)
                      /\ E(h, w).first = h.first /\ E(h, w).state = h.state
    OBVIOUS
  <2> DEFINE a == Number(w)
             g == [h EXCEPT !.version = a]
  <2>1. {"item", "version", "first", "state"} \subseteq DOMAIN h
    OBVIOUS
  <2>2. g.item = h.item /\ g.version = a /\ g.first = h.first /\ g.state = h.state
    <3> HIDE DEF a
    <3> QED
      BY <2>1
  <2> QED
    BY <2>2
<1>3. \A w \in Of(rows, f) : Number(w) = Number(v) => w = v
  BY NumbersDiffer
<1> HIDE DEF E, x, k
<1>4. \A y : y \in H <=> \E h \in hashes : \E w \in Of(rows, h.item) : w.version = h.version /\ y = E(h, w)
  <2>1. H = UNION {{E(h, w) : w \in {u \in Of(rows, h.item) : u.version = h.version}} : h \in hashes}
    BY DEF E
  <2> QED
    BY <2>1
<1>5. \A y : y \in HashRows(H, x) <=> \E h \in HashRows(hashes, v) : y = E(h, v)
  <2>1. ASSUME NEW y \in HashRows(H, x) PROVE \E h \in HashRows(hashes, v) : y = E(h, v)
    <3>1. y \in H /\ y.item = f /\ y.version = Number(v)
      BY <1>1 DEF HashRows
    <3>2. PICK h \in hashes : \E w \in Of(rows, h.item) : w.version = h.version /\ y = E(h, w)
      BY <1>4, <3>1
    <3>3. PICK w \in Of(rows, h.item) : w.version = h.version /\ y = E(h, w)
      BY <3>2
    <3>4. h.item = f /\ Number(w) = Number(v)
      BY <1>2, <3>1, <3>3
    <3>5. w = v
      BY <1>3, <3>3, <3>4
    <3> QED
      BY <1>1, <3>3, <3>4, <3>5 DEF HashRows
  <2>2. ASSUME NEW h \in HashRows(hashes, v) PROVE E(h, v) \in HashRows(H, x)
    <3>1. h \in hashes /\ h.item = f /\ v \in Of(rows, h.item) /\ v.version = h.version
      BY <1>1 DEF HashRows
    <3>2. E(h, v) \in H
      BY <1>4, <3>1
    <3> QED
      BY <1>1, <1>2, <3>1, <3>2 DEF HashRows
  <2> QED
    BY <2>1, <2>2
<1>6. ASSUME ~x.deleted
      PROVE  /\ HashRows(H, x) # {} <=> Known(S, f, x.last)
             /\ \A h \in HashRows(H, x) : h.first \in 1..x.last /\ h.state \in {1, 2}
             /\ \A g, h \in HashRows(H, x) : g = h
  <2>1. /\ HashRows(hashes, v) # {} <=> Known(S, f, v.last)
        /\ \A h \in HashRows(hashes, v) : h.first \in 1..v.last /\ h.state \in {1, 2}
        /\ \A g, h \in HashRows(hashes, v) : g = h
    BY <1>1, <1>6 DEF Noted
  <2>2. \A h \in HashRows(hashes, v) : h \in hashes
    BY DEF HashRows
  <2>3. HashRows(H, x) # {} <=> HashRows(hashes, v) # {}
    BY <1>5
  <2>4. \A g, h \in HashRows(H, x) : g = h
    BY <1>5, <2>1
  <2>5. \A y \in HashRows(H, x) : y.first \in 1..x.last /\ y.state \in {1, 2}
    <3> SUFFICES ASSUME NEW y \in HashRows(H, x) PROVE y.first \in 1..x.last /\ y.state \in {1, 2}
      OBVIOUS
    <3>1. PICK h \in HashRows(hashes, v) : y = E(h, v)
      BY <1>5
    <3>2. y.first = h.first /\ y.state = h.state
      BY <1>2, <2>2, <3>1
    <3> QED
      BY <1>1, <2>1, <3>2
  <2> QED
    BY <1>1, <2>1, <2>3, <2>4, <2>5
<1>7. Noted(S, H, f, x)
  BY <1>6 DEF Noted
<1> QED
  BY <1>7 DEF x, k

LEMMA HashNumber ==
  ASSUME IInv, HashInv, NumberVersions
  PROVE  HashInv'
<1> DEFINE E(v) == [v EXCEPT !.version = Number(v)]
<1>1. /\ stage = "numbering" /\ stage' = "v28" /\ UNCHANGED <<seen, old>>
      /\ rows' = {E(v) : v \in rows}
      /\ hashes' = UNION {{[h EXCEPT !.version = Number(v)] :
                             v \in {w \in Of(rows, h.item) : w.version = h.version}} : h \in hashes}
  BY DEF NumberVersions, Settled
<1>2. ~BeforeSplit /\ ~BeforeSplit' /\ Recounting /\ Unnumbered /\ ~Unnumbered'
  BY <1>1 DEF BeforeSplit, Backfilling, Recounting, Unnumbered
<1>3. old = {} /\ Proper(rows) /\ Stages
  BY <1>2 DEF IInv, Faithful
<1>4. Files \subseteq KeptItems /\ LastKept \in Nat
  BY <1>3, KeptFacts
<1>5. ASSUME NEW f \in Files
      PROVE  /\ \A v \in Of(rows, f) : v.first \in 1..LastKept /\ RowLike(v)
             /\ \A v, w \in Of(rows, f) : v.first = w.first => v = w
  <2>1. Present(seen, Of(rows, f), f, LastKept)
    BY <1>2, <1>3, <1>4, AllMoved
  <2>2. \A v \in Of(rows, f) : RowLike(v) /\ v.first \in 1..LastKept /\ v.last \in Nat /\ v.first <= v.last
    BY <1>3, <2>1 DEF Present, Told, Proper, Of
  <2>3. \A v, w \in Of(rows, f) : v # w => v.last < w.first \/ w.last < v.first
    BY <2>1 DEF Present, Told
  <2> QED
    BY <2>2, <2>3
<1>6. /\ \A f \in Files : \A v \in Of(rows, f) : "version" \in DOMAIN v /\ v.version = v.first
      /\ \A f \in Files : \A v \in Of(rows, f) : Noted(seen, hashes, f, v)
      /\ \A h \in hashes : {"item", "version", "first", "state"} \subseteq DOMAIN h
  BY <1>1, <1>2 DEF HashInv
<1>7. \A v \in rows : E(v).item = v.item
  <2> SUFFICES ASSUME NEW v \in rows PROVE E(v).item = v.item
    OBVIOUS
  <2> DEFINE a == Number(v)
  <2>1. RowLike(v)
    BY <1>3 DEF Proper
  <2>2. [v EXCEPT !.version = a].item = v.item
    <3> HIDE DEF a
    <3> QED
      BY <2>1 DEF RowLike
  <2> QED
    BY <2>2
<1>8. ASSUME NEW f \in Files, NEW v \in Of(rows, f) PROVE Noted(seen, hashes', f, E(v))
  BY <1>1, <1>4, <1>5, <1>6, NumberedNoted
<1> HIDE DEF E
<1>9. ASSUME NEW f \in Files, NEW x \in Of(rows', f) PROVE Noted(seen, hashes', f, x)
  <2>1. PICK v \in rows : x = E(v)
    BY <1>1 DEF Of
  <2>2. v \in Of(rows, f)
    BY <1>7, <2>1 DEF Of
  <2> QED
    BY <1>8, <2>1, <2>2
<1>10. \A h \in hashes' : {"item", "version", "first", "state"} \subseteq DOMAIN h
  <2>1. ASSUME NEW y \in hashes' PROVE {"item", "version", "first", "state"} \subseteq DOMAIN y
    <3>1. PICK h \in hashes : \E n : y = [h EXCEPT !.version = n]
      BY <1>1
    <3> QED
      BY <1>6, <3>1
  <2> QED
    BY <2>1
<1>11. \A f : Of(old', f) = {}
  BY <1>1, <1>3 DEF Of
<1>12. stage' # "split" /\ stage' # "moving"
  BY <1>1
<1> QED
  BY <1>1, <1>2, <1>9, <1>10, <1>11, <1>12 DEF HashInv

\* The last step removes hashes; what it leaves of the invariant is little.
LEMMA HashSuspects ==
  ASSUME IInv, HashInv, RemoveSuspects
  PROVE  HashInv'
<1>1. stage = "v30" /\ stage' = "v31" /\ UNCHANGED <<seen, old>> /\ hashes' \subseteq hashes
  BY DEF RemoveSuspects, Settled
<1>2. Upgraded /\ ~BeforeSplit' /\ ~Unnumbered'
  BY <1>1 DEF Upgraded, BeforeSplit, Backfilling, Recounting, Unnumbered
<1>3. \A f : Of(old', f) = {}
  BY <1>1, <1>2 DEF IInv, Faithful, Of
<1>4. \A h \in hashes' : {"item", "version", "first", "state"} \subseteq DOMAIN h
  BY <1>1 DEF HashInv
<1> QED
  BY <1>1, <1>2, <1>3, <1>4 DEF HashInv

LEMMA HashNext ==
  ASSUME IInv, HashInv, [Next]_vars
  PROVE  HashInv'
<1>1. CASE UNCHANGED vars
  BY <1>1, HashElsewhere DEF vars, backfillVars
<1>2. CASE Backfill
  BY <1>2, HashBackfill DEF Backfill
<1>3. CASE SplitTables \/ MoveItem \/ RecountScan \/ NumberVersions \/ RemoveSuspects
  BY <1>3, HashSplit, HashMove, HashRecounting, HashNumber, HashSuspects
<1>4. CASE \/ BeginRecount \/ (\E i \in Items : Chain(i)) \/ DropInverted \/ (\E d \in Folders : Merge(d))
           \/ EndMerge \/ Crash \/ CountIssues \/ RepairFolders
  BY <1>4, HashLeft
<1> QED
  BY <1>1, <1>2, <1>3, <1>4 DEF Next

LEMMA HashRowOfLast ==
  ASSUME IInv, HashInv, stage \in {"v28", "v29", "v30"}, NEW f \in Files, LastKept \in 1..LastKept,
         Found(seen, f, LastKept)
  PROVE  (\E v \in At(rows, f, LastKept) : HashStateAt(hashes, v, LastKept) # 0) <=> Known(seen, f, LastKept)
<1> DEFINE n == LastKept
<1>1. ~BeforeSplit /\ Upgraded /\ stage # "v31"
  BY DEF BeforeSplit, Backfilling, Upgraded
<1>2. old = {} /\ Stages
  BY <1>1 DEF IInv, Faithful
<1>3. n \in Nat /\ f \in KeptItems
  BY <1>2, KeptFacts
<1>4. Present(seen, Of(rows, f), f, n)
  BY <1>1, <1>2, <1>3, AllMoved
<1>5. Told(seen, Of(rows, f), f, n)
  BY <1>4 DEF Present
<1>6. PICK v \in At(rows, f, n) : ~v.deleted /\ v.last >= n
  BY <1>3, <1>4, SaysFound
<1>7. /\ At(rows, f, n) \subseteq Of(rows, f)
      /\ \A x, y \in At(rows, f, n) : x = y
  BY <1>3, <1>5, InForce
<1>8. v \in Of(rows, f) /\ v.last = n
  <2>1. v.last \in Nat /\ v.last <= n
    BY <1>5, <1>7 DEF Told
  <2> QED
    BY <1>3, <1>6, <1>7, <2>1
<1>9. Noted(seen, hashes, f, v)
  BY <1>1, <1>8 DEF HashInv
<1> HIDE DEF n
<1>10. /\ HashRows(hashes, v) # {} <=> Known(seen, f, n)
       /\ \A h \in HashRows(hashes, v) : h.first \in 1..n /\ h.state \in {1, 2}
       /\ \A g, h \in HashRows(hashes, v) : g = h
  BY <1>6, <1>8, <1>9 DEF Noted
<1>11. HashStateAt(hashes, v, n) # 0 <=> HashRows(hashes, v) # {}
  BY <1>3, <1>10, HashInForce
<1>12. (\E u \in At(rows, f, n) : HashStateAt(hashes, u, n) # 0) <=> Known(seen, f, n)
  BY <1>6, <1>7, <1>10, <1>11
<1> QED
  BY <1>12 DEF n

LEMMA InvImpliesHashes ==
  ASSUME IInv, HashInv
  PROVE  HashesKept
<1> SUFFICES ASSUME stage \in {"v28", "v29", "v30"}, NEW f \in Files, There(f, LastDone)
             PROVE  HashKnown(f) <=> HasHashRow(f)
  BY DEF HashesKept
<1> DEFINE n == LastKept
<1>1. n \in Nat
  BY KeptFacts DEF IInv
<1>2. Completed = 1..n
  BY DEF Completed, LastKept, Scans
<1> HIDE DEF n
<1>3. LastDone = n
  <2>1. Cardinality(1..n) = n
    BY <1>1, FS_Interval
  <2> QED
    BY <1>2, <2>1 DEF LastDone
<1>4. n \in 1..n /\ Found(seen, f, n)
  BY <1>1, <1>3 DEF There, Found
<1>5. \A t \in 1..n : \A u \in t..n : There(f, u) <=> Found(seen, f, u)
  <2>1. \A t \in 1..n : \A u \in t..n : u # 0
    BY <1>1
  <2> QED
    BY <2>1 DEF There, Found
<1>6. HashKnown(f) <=> Known(seen, f, n)
  BY <1>2, <1>3, <1>5 DEF HashKnown, Known
<1>7. HasHashRow(f) <=> Known(seen, f, n)
  BY <1>3, <1>4, HashRowOfLast DEF HasHashRow, n
<1> QED
  BY <1>6, <1>7

\* A file whose hash a scan found since the file last came has a row for it
\* after the tables are split and the versions numbered, and no other file
\* has: whichever phantom of a cluster recorded it, and whatever scan was
\* rolled back or step killed.
THEOREM HashesSurvive == Spec => []HashesKept
<1>1. Init => IInv /\ HashInv
  BY InitInv, HashInit
<1>2. IInv /\ HashInv /\ [Next]_vars => (IInv /\ HashInv)'
  BY NextInv, HashNext
<1>3. IInv /\ HashInv => HashesKept
  BY InvImpliesHashes
<1> QED
  BY <1>1, <1>2, <1>3, PTL DEF Spec
-----------------------------------------------------------------------------
(***************************************************************************)
(* Keys and numbers of versions.                                           *)
(***************************************************************************)
\* A version is told by its item and its first scan.
Keyed(R, n) == \A v \in R : v.first \in 1..n /\ \A w \in R : w.item = v.item /\ w.first = v.first => w = v

Versioned(R) == \A v \in R : "version" \in DOMAIN v

\* Folders are moved whole, too.
KeyMoved(d) ==
  \/ Of(rows, d) = {} /\ Keyed(Of(old, d), LastScan)
  \/ Of(old, d) = {} /\ Keyed(Of(rows, d), LastScan)

KeyInv ==
  /\ BeforeSplit => \A d \in Folders : Keyed(Of(old, d), live)
  /\ stage = "split" /\ running => \A d \in Folders : Keyed(Of(Restored(old, undo), d), LastScan)
  /\ ~BeforeSplit => \A d \in Folders : KeyMoved(d)
  /\ Versioned(rows)
  /\ Upgraded => \A v \in rows : v.version = Number(v)
  /\ Upgraded => \A h \in hashes : \E v \in rows : v.item = h.item /\ v.version = h.version
-----------------------------------------------------------------------------
LEMMA KeyedSub ==
  ASSUME NEW R, NEW n, Keyed(R, n), NEW G, G \subseteq R
  PROVE  Keyed(G, n)
BY DEF Keyed

LEMMA KeyedLater ==
  ASSUME NEW R, NEW n \in Nat, Keyed(R, n), NEW m \in Nat, n <= m
  PROVE  Keyed(R, m)
BY DEF Keyed

\* Rows in another form with the keys they had.
LEMMA KeyedImage ==
  ASSUME NEW R, NEW n, Keyed(R, n), NEW F, DOMAIN F \subseteq R,
         \A v \in DOMAIN F : F[v].item = v.item /\ F[v].first = v.first
  PROVE  Keyed(Range(F), n)
<1> SUFFICES ASSUME NEW x \in Range(F)
             PROVE  x.first \in 1..n /\ \A y \in Range(F) : y.item = x.item /\ y.first = x.first => y = x
  BY DEF Keyed
<1>1. PICK v \in DOMAIN F : x = F[v]
  BY DEF Range
<1>2. x.first \in 1..n
  BY <1>1 DEF Keyed
<1>3. ASSUME NEW y \in Range(F), y.item = x.item, y.first = x.first PROVE y = x
  <2>1. PICK w \in DOMAIN F : y = F[w]
    BY DEF Range
  <2>2. w.item = v.item /\ w.first = v.first /\ v \in R /\ w \in R
    BY <1>1, <1>3, <2>1
  <2>3. w = v
    BY <2>2 DEF Keyed
  <2> QED
    BY <1>1, <2>1, <2>3
<1> QED
  BY <1>2, <1>3

\* Rows of a scan of which there was none.
LEMMA KeyedMore ==
  ASSUME NEW H, NEW n \in Nat, Keyed(H, n), NEW m \in Nat, n <= m, NEW s \in 1..m,
         \A v \in H : v.first # s, NEW G, \A x \in G : x.first = s, \A x, y \in G : x = y
  PROVE  Keyed(H \cup G, m)
BY DEF Keyed

LEMMA NewestOne ==
  ASSUME NEW R, NEW i, NEW n \in Nat, Keyed(Of(R, i), n)
  PROVE  Newest(R, i) \subseteq Of(R, i) /\ \A v, w \in Newest(R, i) : v = w
<1>1. \A v \in Of(R, i) : v.item = i
  BY DEF Of
<1>2. Newest(R, i) \subseteq Of(R, i)
  BY DEF Newest, At
<1>3. ASSUME NEW v \in Newest(R, i), NEW w \in Newest(R, i) PROVE v = w
  <2>1. v.first <= w.first /\ w.first <= v.first
    BY DEF Newest, At
  <2>2. v.first \in Nat /\ w.first \in Nat
    BY <1>2 DEF Keyed
  <2>3. v.first = w.first
    BY <2>1, <2>2
  <2> QED
    BY <1>1, <1>2, <2>3 DEF Keyed
<1> QED
  BY <1>2, <1>3

LEMMA WithCountsKeyed ==
  ASSUME NEW R, Proper(R), NEW d \in Folders, NEW n \in Nat, Keyed(Of(R, d), n), NEW s \in 1..n, NEW c
  PROVE  Keyed(WithCounts(R, d, s, c), n)
<1> DEFINE H == Of(R, d)
           own == StartedBy(R, d, s)
           newest == Newest(R, d)
           copy(v) == [v EXCEPT !.first = s, !.last = s, !.added = FALSE, !.counts = c]
           E(v) == [v EXCEPT !.counts = c]
           cut(v) == [v EXCEPT !.last = s - 1]
           last(v) == IF s > 1 THEN cut(v) ELSE v
<1>1. \A v \in H : RowLike(v) /\ v.item = d
  BY OfProper DEF Items, RowsOf
<1>2. own \subseteq H /\ newest \subseteq H /\ \A v, w \in newest : v = w
  BY NewestOne DEF StartedBy
<1>3. \A v \in H : E(v).item = d /\ E(v).first = v.first
  BY <1>1, OtherFields DEF Same, Alike
<1>4. \A v \in H : copy(v).first = s
  <2> SUFFICES ASSUME NEW v \in H PROVE copy(v).first = s
    OBVIOUS
  <2>1. "first" \in DOMAIN v
    BY <1>1 DEF RowLike
  <2> HIDE DEF H
  <2> QED
    BY <2>1
<1>5. \A v \in H : cut(v).item = d /\ cut(v).first = v.first
  BY <1>1, NewLast
<1>6. WithCounts(R, d, s, c) =
        IF own # {} THEN (H \ own) \cup {E(v) : v \in own}
        ELSE (H \ newest) \cup {copy(v) : v \in newest} \cup
             IF s > 1 THEN {cut(v) : v \in newest} ELSE newest
  BY Zenon DEF WithCounts
<1>7. own = {v \in H : v.first = s}
  BY DEF StartedBy
<1>8. Keyed(H, n)
  OBVIOUS
<1>9. \A v \in H : last(v).item = d /\ last(v).first = v.first
  BY <1>1, <1>5
<1>10. (IF s > 1 THEN {cut(v) : v \in newest} ELSE newest) = {last(v) : v \in newest}
  OBVIOUS
<1> HIDE DEF H, own, newest, copy, E, cut, last
<1>11. CASE own # {}
  <2> DEFINE F == [v \in H |-> IF v \in own THEN E(v) ELSE v]
  <2>1. Keyed(Range(F), n)
    <3>1. \A v \in DOMAIN F : F[v].item = v.item /\ F[v].first = v.first
      BY <1>1, <1>3
    <3>2. DOMAIN F \subseteq H
      OBVIOUS
    <3> HIDE DEF F
    <3> QED
      BY <1>8, <3>1, <3>2, KeyedImage
  <2>2. Range(F) = (H \ own) \cup {E(v) : v \in own}
    BY <1>2 DEF Range
  <2> QED
    BY <1>6, <1>11, <2>1, <2>2
<1>12. CASE own = {}
  <2> DEFINE F == [v \in H |-> IF v \in newest THEN last(v) ELSE v]
             G == {copy(v) : v \in newest}
  <2>1. Keyed(Range(F), n)
    <3>1. \A v \in DOMAIN F : F[v].item = v.item /\ F[v].first = v.first
      BY <1>1, <1>9
    <3>2. DOMAIN F \subseteq H
      OBVIOUS
    <3> HIDE DEF F
    <3> QED
      BY <1>8, <3>1, <3>2, KeyedImage
  <2>2. Range(F) = (H \ newest) \cup {last(v) : v \in newest}
    BY <1>2 DEF Range
  <2>3. \A x \in Range(F) : x.first # s
    BY <1>1, <1>7, <1>9, <1>12 DEF Range
  <2>4. (\A x \in G : x.first = s) /\ \A x, y \in G : x = y
    BY <1>2, <1>4
  <2> HIDE DEF F, G
  <2>5. Keyed(Range(F) \cup G, n)
    BY <2>1, <2>3, <2>4, KeyedMore
  <2>6. WithCounts(R, d, s, c) = Range(F) \cup G
    BY <1>6, <1>10, <1>12, <2>2 DEF G
  <2> QED
    BY <2>5, <2>6
<1> QED
  BY <1>11, <1>12

LEMMA WrittenKeyed ==
  ASSUME NEW R, Proper(R), NEW d \in Folders, NEW n \in Nat, Keyed(Of(R, d), n), NEW s \in 1..n, NEW b
  PROVE  Keyed(Written(R, d, s, b), n)
<1>1. \A c : Keyed(WithCounts(R, d, s, c), n)
  BY WithCountsKeyed
<1>2. \/ Written(R, d, s, b) = Of(R, d)
      \/ \E c : Written(R, d, s, b) = WithCounts(R, d, s, c)
  BY Zenon DEF Written
<1> QED
  BY <1>1, <1>2
-----------------------------------------------------------------------------
\* Each row in another form with its key.
LEMMA RetoldKeyed ==
  ASSUME NEW R, NEW F, DOMAIN F = R, \A v \in R : F[v].item = v.item /\ F[v].first = v.first,
         NEW d, NEW n, Keyed(Of(R, d), n)
  PROVE  Keyed(Of(Range(F), d), n)
<1> DEFINE H == Of(R, d)
           K == [v \in H |-> F[v]]
<1>1. Of(Range(F), d) = Range(K)
  BY DEF Of, Range
<1>2. DOMAIN K \subseteq H /\ \A v \in DOMAIN K : K[v].item = v.item /\ K[v].first = v.first
  BY DEF Of
<1>3. Keyed(H, n)
  OBVIOUS
<1> HIDE DEF K, H
<1>4. Keyed(Range(K), n)
  BY <1>2, <1>3, KeyedImage
<1> QED
  BY <1>1, <1>4

\* A scan adds rows of its own or extends one.
LEMMA ObservedKeyed ==
  ASSUME NEW R, Proper(R), NEW i \in Items, NEW n \in Nat, Keyed(Of(R, i), n), NEW o
  PROVE  Keyed(Observed(R, i, o, n + 1), n + 1)
<1> DEFINE H == Of(R, i)
           s == n + 1
           cur == Newest(R, i)
           alive == {v \in cur : ~v.deleted}
           A(v) == [Started(v, s) EXCEPT !.deleted = TRUE]
           x == Analysed(Fresh(i, s, o.meta), o, s)
           B(v) == Analysed(Started(v, s), o, s)
           C(v) == [Analysed(v, o, s) EXCEPT !.last = s]
<1>1. \A v \in H : RowLike(v) /\ v.item = i
  BY DEF Proper, Of
<1>2. /\ cur \subseteq H /\ alive \subseteq cur
      /\ \A v, w \in cur : v = w
  BY NewestOne
<1>3. \/ Observed(R, i, o, s) = H \cup {A(v) : v \in alive}
      \/ Observed(R, i, o, s) = H \cup {x}
      \/ Observed(R, i, o, s) = H \cup {B(v) : v \in alive}
      \/ Observed(R, i, o, s) = (H \ cur) \cup {C(v) : v \in alive}
  BY Zenon DEF Observed
<1>4. x.first = s /\ \A v \in alive : A(v).first = s /\ B(v).first = s
  <2>1. x.first = s
    BY FoundRow
  <2>2. \A v \in alive : A(v).first = s
    BY <1>1, <1>2, LostRow
  <2>3. \A v \in alive : B(v).first = s
    BY <1>1, <1>2, ChangedRow
  <2> QED
    BY <2>1, <2>2, <2>3
<1>5. \A v \in H : C(v).item = v.item /\ C(v).first = v.first
  <2> SUFFICES ASSUME NEW v \in H PROVE C(v).item = v.item /\ C(v).first = v.first
    OBVIOUS
  <2> DEFINE u == Analysed(v, o, s)
  <2>1. RowLike(u) /\ u.item = v.item /\ u.first = v.first
    BY <1>1, AnalysedRow
  <2> HIDE DEF u, s
  <2>2. [u EXCEPT !.last = s].item = u.item /\ [u EXCEPT !.last = s].first = u.first
    BY <2>1, NewLast
  <2> QED
    BY <2>1, <2>2 DEF u
<1>6. Keyed(H, n) /\ s \in Nat /\ s \in 1..s /\ n <= s /\ \A v \in H : v.first # s
  BY DEF Keyed
<1> HIDE DEF H, s, cur, alive, A, B, C, x
<1>7. ASSUME NEW G, \A y \in G : y.first = s, \A y, z \in G : y = z
      PROVE  Keyed(H \cup G, s)
  BY <1>6, <1>7, KeyedMore
<1>8. Keyed(H \cup {A(v) : v \in alive}, s)
  <2> DEFINE G == {A(v) : v \in alive}
  <2>1. (\A y \in G : y.first = s) /\ \A y, z \in G : y = z
    BY <1>2, <1>4
  <2> HIDE DEF G
  <2>2. Keyed(H \cup G, s)
    BY <1>7, <2>1
  <2> QED
    BY <2>2 DEF G
<1>9. Keyed(H \cup {x}, s)
  BY <1>4, <1>7
<1>10. Keyed(H \cup {B(v) : v \in alive}, s)
  <2> DEFINE G == {B(v) : v \in alive}
  <2>1. (\A y \in G : y.first = s) /\ \A y, z \in G : y = z
    BY <1>2, <1>4
  <2> HIDE DEF G
  <2>2. Keyed(H \cup G, s)
    BY <1>7, <2>1
  <2> QED
    BY <2>2 DEF G
<1>11. Keyed((H \ cur) \cup {C(v) : v \in alive}, s)
  <2> DEFINE F == [v \in (H \ cur) \cup alive |-> IF v \in cur THEN C(v) ELSE v]
  <2>1. DOMAIN F \subseteq H /\ \A v \in DOMAIN F : F[v].item = v.item /\ F[v].first = v.first
    BY <1>2, <1>5
  <2>2. Range(F) = (H \ cur) \cup {C(v) : v \in alive}
    BY <1>2 DEF Range
  <2> HIDE DEF F
  <2>3. Keyed(Range(F), n)
    BY <1>6, <2>1, KeyedImage
  <2>4. Keyed(Range(F), s)
    BY <1>6, <2>3, KeyedLater
  <2> QED
    BY <2>2, <2>4
<1>12. Keyed(Observed(R, i, o, s), s)
  BY <1>3, <1>8, <1>9, <1>10, <1>11
<1> QED
  BY <1>12 DEF s

LEMMA LiveKeyed ==
  ASSUME NEW R, Proper(R), NEW found, NEW n \in Nat, n + 1 <= LastScan,
         NEW d \in Folders, Keyed(Of(R, d), n)
  PROVE  Keyed(Of(LiveRows(R, found, n + 1), d), n + 1)
<1> DEFINE s == n + 1
           Own(i) == Observed(R, i, found[i], s)
           own == UNION {Own(i) : i \in Items}
           changed(e) == \E v \in own : v.first = s /\ e \in Above[v.item]
           split(e) == e \in Folders /\ found[e] # Absent /\ StartedBy(own, e, s) = {} /\ changed(e)
           cut(v) == [v EXCEPT !.last = s - 1]
           after == LiveRows(R, found, n + 1)
<1>1. after = {IF split(v.item) /\ v \in Newest(own, v.item) THEN cut(v) ELSE v : v \in own} \cup
              {Started(v, s) : v \in {w \in own : split(w.item) /\ w \in Newest(own, w.item)}}
  BY Zenon DEF LiveRows
<1>2. \A i \in Items : \A x \in Own(i) : RowLike(x) /\ x.item = i
  BY ObservedProper
<1>3. d \in Items /\ s \in Nat /\ s \in 1..s
  BY DEF Items
<1>4. Keyed(Own(d), s)
  BY <1>3, ObservedKeyed
<1>5. split(d) => StartedBy(own, d, s) = {}
  OBVIOUS
<1> HIDE DEF Own, split, after, s
<1>6. Proper(own) /\ Of(own, d) = Own(d)
  BY <1>2, <1>3 DEF Proper, Of
<1>7. \A v \in own : /\ cut(v).item = v.item /\ cut(v).first = v.first
                     /\ Started(v, s).item = v.item /\ Started(v, s).first = s
  BY <1>6, NewLast, StartedRow DEF Proper
<1> HIDE DEF own, cut
<1> DEFINE H == Own(d)
           new == Newest(own, d)
           F == [v \in H |-> IF split(d) /\ v \in new THEN cut(v) ELSE v]
           G == {Started(v, s) : v \in {w \in new : split(d)}}
<1>8. \A v : v \in H <=> v \in own /\ v.item = d
  BY <1>6 DEF Of
<1>9. new \subseteq H /\ \A v, w \in new : v = w
  BY <1>3, <1>4, <1>6, NewestOne
<1>10. Of(after, d) = Range(F) \cup G
  <2>1. ASSUME NEW y \in Of(after, d) PROVE y \in Range(F) \cup G
    <3>1. y \in after /\ y.item = d
      BY DEF Of
    <3>2. CASE \E w \in own : y = IF split(w.item) /\ w \in Newest(own, w.item) THEN cut(w) ELSE w
      <4>1. PICK w \in own : y = IF split(w.item) /\ w \in Newest(own, w.item) THEN cut(w) ELSE w
        BY <3>2
      <4>2. w.item = d
        BY <1>7, <3>1, <4>1
      <4>3. w \in H /\ y = F[w]
        BY <1>8, <4>1, <4>2
      <4> QED
        BY <4>3 DEF Range
    <3>3. CASE \E w \in own : split(w.item) /\ w \in Newest(own, w.item) /\ y = Started(w, s)
      <4>1. PICK w \in own : split(w.item) /\ w \in Newest(own, w.item) /\ y = Started(w, s)
        BY <3>3
      <4>2. w.item = d
        BY <1>7, <3>1, <4>1
      <4> QED
        BY <4>1, <4>2
    <3> QED
      BY <1>1, <3>1, <3>2, <3>3
  <2>2. ASSUME NEW y \in Range(F) PROVE y \in Of(after, d)
    <3>1. PICK w \in H : y = F[w]
      BY DEF Range
    <3>2. w \in own /\ w.item = d
      BY <1>8, <3>1
    <3>3. y = IF split(w.item) /\ w \in Newest(own, w.item) THEN cut(w) ELSE w
      BY <3>1, <3>2
    <3>4. y \in after
      BY <1>1, <3>2, <3>3
    <3>5. y.item = d
      BY <1>7, <3>2, <3>3
    <3> QED
      BY <3>4, <3>5 DEF Of
  <2>3. ASSUME NEW y \in G PROVE y \in Of(after, d)
    <3>1. PICK w \in new : split(d) /\ y = Started(w, s)
      OBVIOUS
    <3>2. w \in own /\ w.item = d
      BY <1>8, <1>9, <3>1
    <3>3. y \in after
      BY <1>1, <3>1, <3>2
    <3>4. y.item = d
      BY <1>7, <3>1, <3>2
    <3> QED
      BY <3>3, <3>4 DEF Of
  <2> HIDE DEF F, G
  <2> QED
    BY <2>1, <2>2, <2>3
<1>11. DOMAIN F \subseteq H /\ \A v \in DOMAIN F : F[v].item = v.item /\ F[v].first = v.first
  BY <1>7, <1>8
<1>12. (\A x \in G : x.first = s) /\ (\A x, y \in G : x = y) /\ (~split(d) => G = {})
  BY <1>7, <1>8, <1>9
<1>13. Keyed(H, s)
  BY <1>4
<1>14. split(d) => \A v \in H : v.first # s
  BY <1>5, <1>6 DEF StartedBy
<1> HIDE DEF F, G, H
<1>15. Keyed(Range(F), s)
  BY <1>11, <1>13, KeyedImage
<1>16. split(d) => \A v \in Range(F) : v.first # s
  BY <1>11, <1>14 DEF Range
<1>17. Keyed(Range(F) \cup G, s)
  <2>1. CASE split(d)
    <3>1. (\A v \in Range(F) : v.first # s) /\ s <= s
      BY <1>3, <1>16, <2>1
    <3> QED
      BY <1>3, <1>12, <1>15, <3>1, KeyedMore
  <2>2. CASE ~split(d)
    <3>1. Range(F) \cup G = Range(F)
      BY <1>12, <2>2
    <3> QED
      BY <1>15, <3>1
  <2> QED
    BY <2>1, <2>2
<1> QED
  BY <1>10, <1>17 DEF after, s

\* Rows of scans of version 18.
LEMMA EarlyKeyed ==
  ASSUME NEW S, NEW n \in 0..LastScan, NEW d \in Folders
  PROVE  Keyed(Of(EarlyRows(S, n), d), n)
<1>0. n \in Nat /\ n \in 0..n /\ d \in Items
  BY RowsAssumption DEF Items
<1> DEFINE rs == CHOOSE g : EachScan(g, S, n)
           E(v) == [v EXCEPT !.added = FALSE]
<1>1. EachScan(rs, S, n)
  BY <1>0, EachScanExists, Zenon
<1>2. EarlyRows(S, n) = {E(v) : v \in rs[n]}
  BY Zenon DEF EarlyRows, EachScan
<1> HIDE DEF rs
<1>3. Proper(rs[n]) /\ Past(S, Of(rs[n], d), d, n)
  BY <1>0, <1>1, EachScanTells
<1>4. Keyed(Of(rs[n], d), n)
  <2> DEFINE H == Of(rs[n], d)
  <2>1. Told(S, H, d, n)
    BY <1>3 DEF Past, Present
  <2> HIDE DEF H
  <2>2. \A v \in H : v.first \in 1..n /\ v.last \in Nat /\ v.first <= v.last
    BY <2>1 DEF Told
  <2>3. \A v, w \in H : v # w => v.last < w.first \/ w.last < v.first
    BY <2>1 DEF Told
  <2>4. Keyed(H, n)
    BY <2>2, <2>3 DEF Keyed
  <2> QED
    BY <2>4 DEF H
<1> DEFINE F == [v \in rs[n] |-> E(v)]
<1>5. \A v \in rs[n] : E(v).item = v.item /\ E(v).first = v.first
  BY <1>3 DEF Proper, RowLike
<1>6. EarlyRows(S, n) = Range(F) /\ DOMAIN F = rs[n] /\ \A v \in rs[n] : F[v].item = v.item /\ F[v].first = v.first
  BY <1>2, <1>5 DEF Range
<1> HIDE DEF F
<1> QED
  BY <1>4, <1>6, RetoldKeyed

\* What rolling a scan back leaves.
LEMMA RestoredKeyed ==
  ASSUME NEW R, Proper(R), NEW A, Proper(A), NEW d \in Folders, NEW n, Keyed(Of(R, d), n),
         NEW m, Keyed(Of(A, d), m)
  PROVE  Keyed(Of(Restored(A, Logged(R, A)), d), m)
<1> DEFINE U == Logged(R, A)
           K == Restored(A, U)
           E(u) == [u.row EXCEPT !.last = u.was.last, !.hashScan = u.was.hashScan,
                                 !.valScan = u.was.valScan]
<1>1. K = {v \in A : v.first # LastScan /\ Undone(U, v) = {}} \cup {E(u) : u \in U}
  BY DEF Restored
<1>2. \A u \in U : \E v \in R : \E w \in A : /\ u = [was |-> v, row |-> w]
                                             /\ w.item = v.item /\ w.first = v.first
  BY DEF Logged
<1>3. \A u \in U : u.row \in A /\ u.was \in R /\ u.row.item = u.was.item /\ u.row.first = u.was.first
  BY <1>2
<1>4. \A u \in U : E(u).item = u.row.item /\ E(u).first = u.row.first
  <2> SUFFICES ASSUME NEW u \in U PROVE E(u).item = u.row.item /\ E(u).first = u.row.first
    OBVIOUS
  <2> DEFINE w == u.row
             l == u.was.last
             a == u.was.hashScan
             b == u.was.valScan
             x == [w EXCEPT !.last = l, !.hashScan = a, !.valScan = b]
  <2>1. RowLike(w)
    BY <1>3 DEF Proper
  <2> HIDE DEF w, l, a, b
  <2>2. x.item = w.item /\ x.first = w.first
    BY <2>1 DEF RowLike
  <2> QED
    BY <2>2 DEF w, l, a, b
<1>5. \A u, w \in U : u.was = w.was /\ u.row = w.row => u = w
  BY <1>2
<1> HIDE DEF U, E, K
<1>6. ASSUME NEW x \in Of(K, d)
      PROVE  /\ x.first \in 1..m
             /\ \/ x \in A /\ Undone(U, x) = {}
                \/ \E u \in U : x = E(u)
  <2>0. x \in K /\ x.item = d
    BY DEF Of
  <2>1. CASE x \in A /\ Undone(U, x) = {}
    <3>1. x \in Of(A, d)
      BY <2>0, <2>1 DEF Of
    <3> QED
      BY <2>1, <3>1 DEF Keyed
  <2>2. CASE \E u \in U : x = E(u)
    <3>1. PICK u \in U : x = E(u)
      BY <2>2
    <3>2. u.row \in Of(A, d) /\ x.first = u.row.first
      BY <1>3, <1>4, <2>0, <3>1 DEF Of
    <3> QED
      BY <3>1, <3>2 DEF Keyed
  <2> QED
    BY <1>1, <2>0, <2>1, <2>2
<1>7. ASSUME NEW u \in U, E(u).item = d,
             NEW x \in A, Undone(U, x) = {}, x.item = d, x.first = E(u).first
      PROVE  FALSE
  <2>1. u \in Undone(U, x)
    BY <1>3, <1>4, <1>7 DEF Undone
  <2> QED
    BY <1>7, <2>1
<1>8. ASSUME NEW u \in U, NEW w \in U, E(u).item = d, E(w).item = d, E(u).first = E(w).first
      PROVE  u = w
  <2>1. /\ u.row \in Of(A, d) /\ w.row \in Of(A, d) /\ u.row.item = w.row.item /\ u.row.first = w.row.first
        /\ u.was \in Of(R, d) /\ w.was \in Of(R, d) /\ u.was.item = w.was.item /\ u.was.first = w.was.first
    BY <1>3, <1>4, <1>8 DEF Of
  <2>2. u.row = w.row /\ u.was = w.was
    BY <2>1 DEF Keyed
  <2> QED
    BY <1>5, <2>2
<1>9. ASSUME NEW x \in Of(K, d), NEW y \in Of(K, d), y.first = x.first PROVE y = x
  <2>1. x.item = d /\ y.item = d
    BY DEF Of
  <2>2. CASE x \in A /\ Undone(U, x) = {} /\ y \in A /\ Undone(U, y) = {}
    <3>1. x \in Of(A, d) /\ y \in Of(A, d)
      BY <2>1, <2>2 DEF Of
    <3> QED
      BY <1>9, <2>1, <3>1 DEF Keyed
  <2>3. CASE \E u, w \in U : x = E(u) /\ y = E(w)
    BY <1>8, <1>9, <2>1, <2>3
  <2>4. CASE \E u \in U : x = E(u) /\ y \in A /\ Undone(U, y) = {}
    BY <1>7, <1>9, <2>1, <2>4
  <2>5. CASE \E u \in U : y = E(u) /\ x \in A /\ Undone(U, x) = {}
    BY <1>7, <1>9, <2>1, <2>5
  <2> QED
    BY <1>6, <2>2, <2>3, <2>4, <2>5
<1>10. Keyed(Of(K, d), m)
  BY <1>6, <1>9 DEF Keyed
<1> QED
  BY <1>10 DEF K, U

\* Collapsing keeps the first of the rows it joins.
LEMMA CollapsedKeyed ==
  ASSUME NEW R, Proper(R), NEW d \in Folders, NEW dedup, NEW n \in Nat, Keyed(Of(R, d), n)
  PROVE  Keyed(Collapsed(R, d, dedup), n)
<1> DEFINE N == LastScan
           kept == CHOOSE g : Collapsing(g, R, d, dedup, N)
           Step(K, t) ==
             LET keeper == Newest(K, d)
                 next == StartedBy(R, d, t)
             IN IF \E v \in keeper, w \in next : Mergeable(v, w, dedup)
                THEN (K \ keeper) \cup
                     {[v EXCEPT !.last = Max({w.last : w \in next})] : v \in keeper}
                ELSE K \cup next
           Good(K, t) == /\ RowsOf(K, d) /\ Keyed(K, t)
                         /\ \A x \in K : \E v \in Of(R, d) : v.first = x.first
<1>0. N \in Nat
  BY RowsAssumption
<1>1. Collapsing(kept, R, d, dedup, N)
  BY <1>0, CollapsingExists, Zenon
<1>2. Collapsed(R, d, dedup) = kept[N]
  BY Zenon DEF Collapsed, Collapsing
<1> HIDE DEF kept, N
<1>3. kept[0] = {} /\ \A t \in 1..N : kept[t] = Step(kept[t - 1], t)
  <2>1. kept = [t \in 0..N |-> IF t = 0 THEN {} ELSE Step(kept[t - 1], t)]
    BY <1>1 DEF Collapsing
  <2> HIDE DEF Step
  <2>2. \A t \in 0..N : kept[t] = IF t = 0 THEN {} ELSE Step(kept[t - 1], t)
    BY <2>1
  <2> QED
    BY <1>0, <2>2
<1>4. ASSUME NEW t \in 1..N, NEW K, Good(K, t - 1) PROVE Good(Step(K, t), t)
  <2> DEFINE keeper == Newest(K, d)
             next == StartedBy(R, d, t)
             l == Max({w.last : w \in next})
             E(v) == [v EXCEPT !.last = l]
             F == [v \in K |-> IF v \in keeper THEN E(v) ELSE v]
  <2>0. t \in Nat /\ t - 1 \in Nat /\ t - 1 <= t /\ t \in 1..t
    BY <1>0
  <2>1. keeper \subseteq K
    BY DEF Newest, At, Of
  <2>2. /\ \A w \in next : RowLike(w) /\ w.item = d /\ w.first = t /\ w \in Of(R, d)
        /\ \A v, w \in next : v = w
    BY DEF Proper, StartedBy, Of, Keyed
  <2>3. \A v \in K : RowLike(E(v)) /\ E(v).item = v.item /\ v.item = d /\ E(v).first = v.first
    <3> HIDE DEF l
    <3> QED
      BY <1>4, NewLast DEF RowsOf
  <2>4. \/ Step(K, t) = (K \ keeper) \cup {E(v) : v \in keeper}
        \/ Step(K, t) = K \cup next
    BY Zenon
  <2>5. DOMAIN F \subseteq K /\ \A v \in DOMAIN F : F[v].item = v.item /\ F[v].first = v.first
    BY <2>3
  <2>6. Range(F) = (K \ keeper) \cup {E(v) : v \in keeper}
    BY <2>1 DEF Range
  <2> HIDE DEF keeper, next, E, F, Step
  <2>7. \A x \in Range(F) : RowLike(x) /\ x.item = d /\ \E v \in K : v.first = x.first
    BY <1>4, <2>1, <2>3, <2>6 DEF RowsOf
  <2>8. Good(Range(F), t)
    <3>1. Keyed(Range(F), t - 1)
      BY <1>4, <2>5, KeyedImage
    <3>2. Keyed(Range(F), t)
      BY <2>0, <3>1, KeyedLater
    <3> QED
      BY <1>4, <2>7, <3>2 DEF RowsOf
  <2>9. Good(K \cup next, t)
    <3>1. \A v \in K : v.first # t
      BY <1>4, <2>0 DEF Keyed
    <3>2. Keyed(K \cup next, t)
      BY <1>4, <2>0, <2>2, <3>1, KeyedMore
    <3> QED
      BY <1>4, <2>2, <3>2 DEF RowsOf
  <2> QED
    BY <2>4, <2>6, <2>8, <2>9
<1> HIDE DEF Step
<1> DEFINE Bad == {t \in 0..N : ~Good(kept[t], t)}
<1>5. Good(kept[0], 0)
  BY <1>3 DEF RowsOf, Keyed
<1> HIDE DEF Good
<1>6. Bad = {}
  <2> SUFFICES ASSUME Bad # {} PROVE FALSE
    OBVIOUS
  <2>1. Bad \in SUBSET Nat
    OBVIOUS
  <2>2. PICK m \in Bad : \A j \in Bad : m <= j
    <3> HIDE DEF Bad
    <3> QED
      BY <2>1, Least
  <2>3. m \in 1..N /\ m - 1 \in 0..N /\ ~Good(kept[m], m)
    <3>1. m \in 0..N /\ ~Good(kept[m], m) /\ m # 0
      BY <1>5, <2>2
    <3> QED
      BY <1>0, <3>1
  <2>4. m - 1 \notin Bad
    <3> HIDE DEF Bad
    <3>1. ~ (m <= m - 1)
      BY <2>3
    <3> QED
      BY <2>2, <3>1
  <2>5. Good(kept[m - 1], m - 1)
    BY <2>3, <2>4
  <2>6. Good(Step(kept[m - 1], m), m)
    BY <1>4, <2>3, <2>5
  <2> QED
    BY <1>3, <2>3, <2>6
<1>7. Good(kept[N], N)
  BY <1>0, <1>6
<1>8. \A x \in kept[N] : x.first \in 1..n
  BY <1>7 DEF Good, Keyed
<1>9. Keyed(kept[N], n)
  BY <1>7, <1>8 DEF Good, Keyed
<1> QED
  BY <1>2, <1>9
-----------------------------------------------------------------------------
\* Rows of the new table: what the upgrades do to those of one item keeps the
\* keys and the columns.
Columns(G, H) == \A x \in G : \E v \in H : DOMAIN x = DOMAIN v

LEMMA ChainedKeyed ==
  ASSUME Proper(rows), NEW i \in Items, NEW n, Keyed(Of(rows, i), n)
  PROVE  Keyed(Chained(i), n) /\ Columns(Chained(i), Of(rows, i))
<1> DEFINE H == Of(rows, i)
           end(v) == IF After(rows, v) = {} THEN Max({w.last : w \in H})
                     ELSE Min({w.first : w \in After(rows, v)}) - 1
           E(v) == [v EXCEPT !.last = end(v)]
           F == [v \in H |-> E(v)]
<1>1. \A v \in H : RowLike(v)
  BY OfProper DEF RowsOf
<1>2. Chained(i) = {E(v) : v \in H}
  BY Zenon DEF Chained
<1>3. \A v \in H : E(v).item = v.item /\ E(v).first = v.first /\ DOMAIN E(v) = DOMAIN v
  <2> SUFFICES ASSUME NEW v \in H PROVE E(v).item = v.item /\ E(v).first = v.first /\ DOMAIN E(v) = DOMAIN v
    OBVIOUS
  <2> DEFINE l == end(v)
             x == [v EXCEPT !.last = l]
  <2>1. RowLike(v)
    BY <1>1
  <2>2. x.item = v.item /\ x.first = v.first /\ DOMAIN x = DOMAIN v
    <3> HIDE DEF l
    <3> QED
      BY <2>1 DEF RowLike
  <2> QED
    BY <2>2
<1>4. Keyed(H, n)
  OBVIOUS
<1> HIDE DEF H, E
<1>5. Chained(i) = Range(F) /\ DOMAIN F \subseteq H /\ \A v \in DOMAIN F : F[v].item = v.item /\ F[v].first = v.first
  BY <1>2, <1>3 DEF Range
<1>6. Columns(Chained(i), H)
  BY <1>2, <1>3 DEF Columns
<1> HIDE DEF F
<1>7. Keyed(Range(F), n)
  BY <1>4, <1>5, KeyedImage
<1> QED
  BY <1>5, <1>6, <1>7 DEF H

LEMMA CountedKeyed ==
  ASSUME NEW R, Proper(R), NEW d \in Folders, NEW n \in Nat, Keyed(Of(R, d), n), NEW s \in 1..n, NEW c
  PROVE  Keyed(Counted(R, d, s, c), n) /\ Columns(Counted(R, d, s, c), Of(R, d))
<1> DEFINE H == Of(R, d)
           own == {v \in H : v.first = s}
           cover == {v \in H : v.first < s /\ v.last >= s}
           span == {v \in cover : \A w \in cover : w.first <= v.first}
           E(v) == [v EXCEPT !.counts = c]
           a(v) == [v EXCEPT !.last = s - 1]
           b(v) == [v EXCEPT !.version = s, !.first = s, !.added = FALSE, !.counts = c]
<1>1. \A v \in H : RowLike(v) /\ v.item = d /\ v.first \in 1..n
  BY OfProper DEF RowsOf, Items, Keyed
<1>2. own \subseteq H /\ span \subseteq H /\ \A v, w \in span : v = w
  <2>1. own \subseteq H /\ span \subseteq H
    OBVIOUS
  <2>2. \A v, w \in span : v.first = w.first
    BY <1>1
  <2>3. \A v, w \in H : v.item = w.item /\ v.first = w.first => v = w
    BY DEF Keyed
  <2>4. \A v \in H : v.item = d
    BY <1>1
  <2> HIDE DEF span, H
  <2> QED
    BY <2>1, <2>2, <2>3, <2>4
<1>3. \A v \in H : E(v).item = v.item /\ E(v).first = v.first /\ DOMAIN E(v) = DOMAIN v
  BY <1>1, OtherFields DEF Same, Alike
<1>4. \A v \in H : a(v).item = v.item /\ a(v).first = v.first /\ DOMAIN a(v) = DOMAIN v
  BY <1>1, NewLast
<1>5. \A v \in H : b(v).first = s /\ DOMAIN b(v) = DOMAIN v
  <2> SUFFICES ASSUME NEW v \in H PROVE b(v).first = s /\ DOMAIN b(v) = DOMAIN v
    OBVIOUS
  <2>1. RowLike(v)
    BY <1>1
  <2> HIDE DEF H, own, cover, span, E, a
  <2> QED
    BY <2>1 DEF RowLike
<1>6. Counted(R, d, s, c) =
        IF own # {} THEN (H \ own) \cup {E(v) : v \in own}
        ELSE (H \ span) \cup {a(v) : v \in span} \cup {b(v) : v \in span}
  BY Zenon DEF Counted
<1>7. Keyed(H, n)
  OBVIOUS
<1>8. \A v \in H : v.first = s => v \in own
  OBVIOUS
<1> HIDE DEF H, own, span, a, E, b
<1>9. Columns(Counted(R, d, s, c), H)
  BY <1>2, <1>3, <1>4, <1>5, <1>6 DEF Columns
<1>10. CASE own # {}
  <2> DEFINE F == [v \in H |-> IF v \in own THEN E(v) ELSE v]
  <2>1. DOMAIN F \subseteq H /\ \A v \in DOMAIN F : F[v].item = v.item /\ F[v].first = v.first
    BY <1>3
  <2>2. Range(F) = (H \ own) \cup {E(v) : v \in own}
    BY <1>2 DEF Range
  <2> HIDE DEF F
  <2>3. Keyed(Range(F), n)
    BY <1>7, <2>1, KeyedImage
  <2> QED
    BY <1>6, <1>9, <1>10, <2>2, <2>3 DEF H
<1>11. CASE own = {}
  <2> DEFINE F == [v \in H |-> IF v \in span THEN a(v) ELSE v]
             G == {b(v) : v \in span}
  <2>1. DOMAIN F \subseteq H /\ \A v \in DOMAIN F : F[v].item = v.item /\ F[v].first = v.first
    BY <1>4
  <2>2. Range(F) = (H \ span) \cup {a(v) : v \in span}
    BY <1>2 DEF Range
  <2>3. (\A x \in G : x.first = s) /\ \A x, y \in G : x = y
    BY <1>2, <1>5
  <2>4. \A x \in Range(F) : x.first # s
    BY <1>4, <1>8, <1>11 DEF Range
  <2> HIDE DEF F, G
  <2>5. Keyed(Range(F), n) /\ n <= n
    BY <1>7, <2>1, KeyedImage
  <2>6. Keyed(Range(F) \cup G, n)
    BY <2>3, <2>4, <2>5, KeyedMore
  <2> QED
    BY <1>6, <1>9, <1>11, <2>2, <2>6 DEF G, H
<1> QED
  BY <1>10, <1>11

LEMMA PrunedKeyed ==
  ASSUME NEW R, Proper(R), NEW d \in Folders, NEW n, Keyed(Of(R, d), n), NEW s
  PROVE  Keyed(Pruned(R, d, s), n) /\ Columns(Pruned(R, d, s), Of(R, d))
<1> DEFINE H == Of(R, d)
           own == {v \in H : v.first = s}
           repeats(v) == /\ ~v.added /\ ~v.deleted
                         /\ \E p \in Before(R, d, s) : p.meta = v.meta
           still == [Zero EXCEPT !.unchanged = PrevAlive(R, d, s)]
           rest == H \ own
           l == Max({v.last : v \in own})
           E(v) == [v EXCEPT !.counts = still]
           a(p) == [p EXCEPT !.last = l]
           prev == Before(R, d, s)
<1>1. \A v \in H : RowLike(v)
  BY OfProper DEF RowsOf, Items
<1>2. own \subseteq H /\ rest = H \ own
  OBVIOUS
<1>3. \A v \in H : E(v).item = v.item /\ E(v).first = v.first /\ DOMAIN E(v) = DOMAIN v
  <2> HIDE DEF still
  <2> QED
    BY <1>1, OtherFields DEF Same, Alike
<1>4. \A v \in H : a(v).item = v.item /\ a(v).first = v.first /\ DOMAIN a(v) = DOMAIN v
  <2> HIDE DEF l
  <2> QED
    BY <1>1, NewLast
<1>5. \/ Pruned(R, d, s) = rest
      \/ Pruned(R, d, s) = {IF p \in prev THEN a(p) ELSE p : p \in rest}
      \/ Pruned(R, d, s) = rest \cup {E(v) : v \in own}
  BY Zenon DEF Pruned
<1>6. Keyed(H, n)
  OBVIOUS
<1> HIDE DEF H, own, rest, repeats, E, a, prev
<1>7. CASE Pruned(R, d, s) = rest
  <2>1. Keyed(rest, n)
    BY <1>2, <1>6, KeyedSub
  <2>2. Columns(rest, H)
    BY <1>2 DEF Columns
  <2> QED
    BY <1>7, <2>1, <2>2 DEF H
<1>8. CASE Pruned(R, d, s) = {IF p \in prev THEN a(p) ELSE p : p \in rest}
  <2> DEFINE F == [p \in rest |-> IF p \in prev THEN a(p) ELSE p]
  <2>1. DOMAIN F \subseteq H /\ \A v \in DOMAIN F : F[v].item = v.item /\ F[v].first = v.first
    BY <1>2, <1>4
  <2>2. Range(F) = {IF p \in prev THEN a(p) ELSE p : p \in rest}
    BY DEF Range
  <2>3. Columns(Range(F), H)
    BY <1>2, <1>4 DEF Range, Columns
  <2> HIDE DEF F
  <2>4. Keyed(Range(F), n)
    BY <1>6, <2>1, KeyedImage
  <2> QED
    BY <1>8, <2>2, <2>3, <2>4 DEF H
<1>9. CASE Pruned(R, d, s) = rest \cup {E(v) : v \in own}
  <2> DEFINE F == [v \in H |-> IF v \in own THEN E(v) ELSE v]
  <2>1. DOMAIN F \subseteq H /\ \A v \in DOMAIN F : F[v].item = v.item /\ F[v].first = v.first
    BY <1>3
  <2>2. Range(F) = rest \cup {E(v) : v \in own}
    BY <1>2 DEF Range
  <2>3. Columns(Range(F), H)
    BY <1>3 DEF Range, Columns
  <2> HIDE DEF F
  <2>4. Keyed(Range(F), n)
    BY <1>6, <2>1, KeyedImage
  <2> QED
    BY <1>9, <2>2, <2>3, <2>4 DEF H
<1> QED
  BY <1>5, <1>7, <1>8, <1>9

LEMMA MergedKeyed ==
  ASSUME Proper(rows), NEW d \in Folders, NEW n \in Nat, Keyed(Of(rows, d), n),
         NEW v \in Of(rows, d), NEW w \in Of(rows, d), Repeats(v, w)
  PROVE  LET G == (Of(rows, d) \ {v, w}) \cup {[v EXCEPT !.last = w.last]}
         IN Keyed(G, n) /\ Columns(G, Of(rows, d))
<1> DEFINE H == Of(rows, d)
           l == w.last
           x == [v EXCEPT !.last = l]
           F == [u \in H \ {w} |-> IF u = v THEN x ELSE u]
<1>1. RowLike(v) /\ v.item = d
  BY OfProper DEF RowsOf, Items
<1>2. x.item = v.item /\ x.first = v.first /\ DOMAIN x = DOMAIN v
  <2> HIDE DEF l
  <2> QED
    BY <1>1, NewLast
<1>3. v # w
  <2>1. w.first > v.first /\ v.first \in Nat
    BY <1>1 DEF Repeats, After, Keyed
  <2> QED
    BY <2>1
<1>4. Keyed(H, n) /\ v \in H
  OBVIOUS
<1> HIDE DEF H, x
<1>5. DOMAIN F \subseteq H /\ \A u \in DOMAIN F : F[u].item = u.item /\ F[u].first = u.first
  BY <1>2
<1>6. Range(F) = (H \ {v, w}) \cup {x}
  BY <1>3, <1>4 DEF Range
<1>7. Columns((H \ {v, w}) \cup {x}, H)
  BY <1>2, <1>4 DEF Columns
<1> HIDE DEF F
<1>8. Keyed(Range(F), n)
  BY <1>4, <1>5, KeyedImage
<1> QED
  BY <1>6, <1>7, <1>8 DEF H, x

\* Moving a folder; and every row of the new table has a version.
LEMMA MovedKeyed ==
  ASSUME NEW d, NEW n, Keyed(Of(old, d), n)
  PROVE  Keyed(MovedFolder(d), n)
<1> DEFINE H == Of(old, d)
           F == [v \in H |-> Row(v, v.last, v.counts, 0, 0)]
<1>1. MovedFolder(d) = Range(F)
  BY DEF MovedFolder, Range
<1>2. DOMAIN F \subseteq H /\ \A v \in DOMAIN F : F[v].item = v.item /\ F[v].first = v.first
  BY DEF Row
<1>3. Keyed(H, n)
  OBVIOUS
<1> HIDE DEF F, H
<1> QED
  BY <1>1, <1>2, <1>3, KeyedImage

LEMMA MovedVersioned ==
  ASSUME NEW i
  PROVE  Versioned(MovedFolder(i)) /\ Versioned(MovedFile(i))
<1>1. \A v, l, c, a, b : "version" \in DOMAIN Row(v, l, c, a, b)
  BY DEF Row
<1>2. Versioned(MovedFolder(i))
  BY <1>1 DEF MovedFolder, Versioned
<1>3. Versioned(MovedFile(i))
  <2> DEFINE E(v) == Row(v, EffectiveLast(v), v.counts, MapThenSumSet(LAMBDA w : w.val, Judged(v)),
                         MapThenSumSet(LAMBDA w : w.valScan, Judged(v)))
  <2>1. MovedFile(i) = {E(v) : v \in {w \in Of(old, i) : ~Phantom(w)}}
    BY Zenon DEF MovedFile
  <2>2. \A v : "version" \in DOMAIN E(v)
    BY <1>1
  <2> HIDE DEF E
  <2> QED
    BY <2>1, <2>2 DEF Versioned
<1> QED
  BY <1>2, <1>3
-----------------------------------------------------------------------------
\* The steps.
LEMMA KeyElsewhere ==
  ASSUME KeyInv, UNCHANGED <<live, running, stage, old, undo, rows, hashes>>
  PROVE  KeyInv'
BY DEF KeyInv, KeyMoved, BeforeSplit, Backfilling, Upgraded, Number

\* A step before the split.
LEMMA KeyBefore ==
  ASSUME IInv, BeforeSplit, BeforeSplit', UNCHANGED rows,
         \A d \in Folders : Keyed(Of(old', d), live'),
         stage' = "split" /\ running' => \A d \in Folders : Keyed(Of(Restored(old', undo'), d), LastScan)
  PROVE  KeyInv'
<1>1. rows = {}
  BY DEF IInv, Faithful
<1>2. Versioned(rows)
  BY <1>1 DEF Versioned
<1>3. ~Upgraded'
  BY DEF BeforeSplit, Backfilling, Upgraded
<1> QED
  BY <1>2, <1>3 DEF KeyInv

LEMMA KeyInit ==
  ASSUME Init
  PROVE  KeyInv
<1>1. /\ early \in 0..LastScan /\ live = early
      /\ stage = (IF early = 0 THEN "live" ELSE "v18") /\ old = EarlyRows(seen, early)
      /\ rows = {}
  BY DEF Init, BackfillInit
<1>2. BeforeSplit /\ stage # "split" /\ ~Upgraded
  BY <1>1 DEF BeforeSplit, Backfilling, Upgraded
<1>3. \A d \in Folders : Keyed(Of(old, d), live)
  BY <1>1, EarlyKeyed
<1>4. Versioned(rows)
  BY <1>1 DEF Versioned
<1> QED
  BY <1>2, <1>3, <1>4 DEF KeyInv

LEMMA KeyBackfill ==
  ASSUME IInv, KeyInv, BackfillNext, UNCHANGED <<rows, hashes, tangled>>
  PROVE  KeyInv'
<1>0. /\ Stages /\ Proper(old)
      /\ BeforeSplit => \A d \in Folders : Keyed(Of(old, d), live)
  BY DEF IInv, Faithful, KeyInv
<1>1. early \in Nat /\ live \in Nat /\ LastScan \in Nat \ {0} /\ live <= LastScan /\ Folders \subseteq Items
  BY <1>0, KeptFacts DEF Items
<1>2. Backfilling => BeforeSplit /\ early > 0 /\ live = early
  BY <1>0 DEF BeforeSplit, Stages
<1>3. ASSUME Backfilling, Backfilling', live' = live,
             \A d \in Folders : Keyed(Of(old', d), live)
      PROVE  KeyInv'
  <2>1. BeforeSplit' /\ stage' # "split"
    BY <1>3 DEF BeforeSplit, Backfilling
  <2> QED
    BY <1>2, <1>3, <2>1, KeyBefore
<1>4. ASSUME Backfilling, Backfilling', live' = live,
             NEW F, DOMAIN F = old, \A v \in old : F[v].item = v.item /\ F[v].first = v.first,
             old' = Range(F)
      PROVE  KeyInv'
  <2>1. ASSUME NEW d \in Folders PROVE Keyed(Of(Range(F), d), live)
    <3>1. Keyed(Of(old, d), live)
      BY <1>0, <1>2, <1>4
    <3> QED
      BY <1>4, <3>1, RetoldKeyed
  <2> QED
    BY <1>3, <1>4, <2>1
<1>5. CASE CountChanges
  <2> DEFINE s == Min(Uncovered)
             P == [d \in Folders |-> Written(old, d, s, stage = "v22")]
  <2>1. /\ Backfilling /\ Backfilling' /\ live' = live /\ Uncovered # {}
        /\ old' = FilesOf(old) \cup UNION {Written(old, d, s, stage = "v22") : d \in Folders}
    BY <1>5 DEF CountChanges, Counting, Backfilling
  <2>2. s \in 1..live
    <3>1. Uncovered \in SUBSET Nat /\ Uncovered \subseteq 1..early
      BY <1>1 DEF Uncovered
    <3>2. \E k \in Uncovered : \A j \in Uncovered : k <= j
      BY <2>1, <3>1, Least
    <3>3. s \in Uncovered
      BY <3>2, Zenon DEF Min
    <3> QED
      BY <1>2, <2>1, <3>1, <3>3
  <2> HIDE DEF s
  <2>3. old' = Together(old, P)
    BY <2>1 DEF Together, Range
  <2>4. DOMAIN P = Folders /\ \A d \in Folders : RowsOf(P[d], d)
    BY <1>0, WrittenRows
  <2>5. ASSUME NEW d \in Folders PROVE Keyed(P[d], live)
    <3> DEFINE b == stage = "v22"
    <3>1. Keyed(Of(old, d), live) /\ P[d] = Written(old, d, s, b)
      BY <1>0, <1>2, <2>1
    <3> HIDE DEF P, b
    <3>2. Keyed(Written(old, d, s, b), live)
      BY <1>0, <1>1, <2>2, <3>1, WrittenKeyed
    <3> QED
      BY <3>1, <3>2
  <2> HIDE DEF P
  <2>6. \A d \in Folders : Of(old', d) = P[d]
    BY <1>0, <2>3, <2>4, Parts
  <2> QED
    BY <1>3, <2>1, <2>5, <2>6
<1>6. CASE Mark \/ CrashCounting
  BY <1>6, KeyElsewhere DEF Mark, CrashCounting
<1>7. CASE EndOfScans \/ CountScanStates
  <2>1. Backfilling /\ Backfilling' /\ UNCHANGED <<live, old>>
    BY <1>7 DEF EndOfScans, CountScanStates, Backfilling
  <2> QED
    BY <1>0, <1>2, <1>3, <2>1
<1>8. CASE TellAdditions
  <2> DEFINE F == [v \in old |-> [v EXCEPT !.added = \A p \in Before(old, v.item, v.first) : p.deleted]]
  <2>1. Backfilling /\ Backfilling' /\ live' = live /\ old' = Range(F) /\ DOMAIN F = old
    BY <1>8 DEF TellAdditions, Backfilling, Range
  <2>2. ASSUME NEW v \in old PROVE F[v].item = v.item /\ F[v].first = v.first
    <3> DEFINE a == \A p \in Before(old, v.item, v.first) : p.deleted
    <3>1. RowLike(v) /\ F[v] = [v EXCEPT !.added = a]
      BY <1>0 DEF Proper
    <3> HIDE DEF a, F
    <3> QED
      BY <3>1 DEF RowLike
  <2> HIDE DEF F
  <2> QED
    BY <1>4, <2>1, <2>2
<1>9. CASE CollapseFolders
  <2> DEFINE P == [d \in Folders |-> Collapsed(old, d, FALSE)]
  <2>1. /\ Backfilling /\ Backfilling' /\ live' = live /\ old' = Together(old, P)
    BY <1>9 DEF CollapseFolders, Backfilling, Together, Range
  <2>2. DOMAIN P = Folders /\ \A d \in Folders : RowsOf(P[d], d)
    BY <1>0, CollapsedRows
  <2>3. \A d \in Folders : Keyed(P[d], live)
    BY <1>0, <1>1, <1>2, <2>1, CollapsedKeyed
  <2> HIDE DEF P
  <2>4. \A d \in Folders : Of(old', d) = P[d]
    BY <1>0, <2>1, <2>2, Parts
  <2> QED
    BY <1>3, <2>1, <2>3, <2>4
<1>10. CASE RebuildVersions
  <2> DEFINE F == [v \in old |-> [v EXCEPT !.hashState = IF v.hash = None THEN 0 ELSE 1]]
  <2>1. Backfilling /\ Backfilling' /\ live' = live /\ old' = Range(F) /\ DOMAIN F = old
    BY <1>10 DEF RebuildVersions, Backfilling, Range
  <2>2. ASSUME NEW v \in old PROVE F[v].item = v.item /\ F[v].first = v.first
    <3> DEFINE a == IF v.hash = None THEN 0 ELSE 1
    <3>1. RowLike(v) /\ F[v] = [v EXCEPT !.hashState = a]
      BY <1>0 DEF Proper
    <3> HIDE DEF a, F
    <3> QED
      BY <3>1, OtherFields DEF Same, Alike
  <2> HIDE DEF F
  <2> QED
    BY <1>4, <2>1, <2>2
<1>11. CASE CountFolderStates
  <2> DEFINE s == Min(Uncovered)
             told(v) == v.first = s /\ v.item \in Walked(old, Root, s) \cap Folders
             E(v) == [v EXCEPT !.states = States(old, Walked(old, v.item, s), s)]
             F == [v \in old |-> IF told(v) THEN E(v) ELSE v]
  <2>1. Backfilling /\ Backfilling' /\ live' = live /\ old' = Range(F) /\ DOMAIN F = old
    BY <1>11 DEF CountFolderStates, Backfilling, Range
  <2>2. ASSUME NEW v \in old PROVE F[v].item = v.item /\ F[v].first = v.first
    <3> DEFINE a == States(old, Walked(old, v.item, s), s)
    <3>1. RowLike(v)
      BY <1>0 DEF Proper
    <3>2. F[v] = [v EXCEPT !.states = a] \/ F[v] = v
      OBVIOUS
    <3> HIDE DEF a, F, E, told, s
    <3>3. Same([v EXCEPT !.states = a], v)
      BY <3>1, OtherFields
    <3> QED
      BY <3>2, <3>3 DEF Same, Alike
  <2> HIDE DEF F
  <2> QED
    BY <1>4, <2>1, <2>2
<1>12. CASE DedupFolder
  <2> DEFINE next == CHOOSE x \in Folders \ merged : TRUE
             H == Collapsed(old, next, TRUE)
  <2>1. /\ Backfilling /\ Backfilling' /\ live' = live
        /\ old' = Exchange(old, next, H) /\ merged # Folders
    BY <1>12 DEF DedupFolder, Backfilling, Exchange
  <2>2. next \in Folders
    <3>1. \E x : x \in Folders \ merged
      BY <1>0, <2>1 DEF Stages
    <3> QED
      BY <3>1
  <2> HIDE DEF next
  <2>3. RowsOf(H, next) /\ Keyed(H, live) /\ next \in Items
    BY <1>0, <1>1, <1>2, <2>1, <2>2, CollapsedRows, CollapsedKeyed
  <2> HIDE DEF H
  <2>4. /\ Of(old', next) = H
        /\ \A j \in Items : j # next => Of(old', j) = Of(old, j)
    BY <1>0, <2>1, <2>3, Exchanged
  <2> QED
    BY <1>0, <1>1, <1>2, <1>3, <2>1, <2>3, <2>4
<1>13. CASE RecountScans
  <2>1. /\ Backfilling /\ UNCHANGED <<live, running, old>>
        /\ stage' = IF early = LastScan THEN "split" ELSE "live"
    BY <1>13 DEF RecountScans, Backfilling
  <2>2. BeforeSplit' /\ BeforeSplit /\ ~(stage' = "split" /\ running')
    <3>1. running => early < LastScan
      BY <1>0 DEF Stages
    <3> QED
      BY <1>1, <1>2, <2>1, <3>1 DEF BeforeSplit, Backfilling
  <2> QED
    BY <1>0, <2>1, <2>2, KeyBefore
<1>14. CASE LiveScan
  <2> DEFINE n == live
             found == seen[n + 1]
             after == LiveRows(old, found, n + 1)
  <2>1. /\ stage = "live" /\ running' = running
        /\ old' = after /\ live' = n + 1
        /\ undo' = IF n + 1 = LastScan /\ running THEN Logged(old, after) ELSE {}
        /\ stage' = IF n + 1 = LastScan THEN "split" ELSE "live"
    BY <1>14, Zenon DEF LiveScan, Logged
  <2>2. n \in Nat /\ n + 1 <= LastScan /\ BeforeSplit /\ BeforeSplit'
    BY <1>0, <1>1, <2>1 DEF Stages, BeforeSplit
  <2>3. Proper(after)
    BY <1>0, <2>2, LivePast
  <2> HIDE DEF found
  <2>4. \A d \in Folders : Keyed(Of(after, d), n + 1)
    BY <1>0, <2>2, LiveKeyed
  <2> HIDE DEF after
  <2>5. stage' = "split" /\ running' => \A d \in Folders : Keyed(Of(Restored(old', undo'), d), LastScan)
    <3> SUFFICES ASSUME stage' = "split", running, NEW d \in Folders
                 PROVE  Keyed(Of(Restored(after, Logged(old, after)), d), LastScan)
      BY <2>1
    <3>1. n + 1 = LastScan
      BY <2>1
    <3>2. Keyed(Of(old, d), n) /\ Keyed(Of(after, d), LastScan)
      BY <1>0, <2>2, <2>4, <3>1
    <3> QED
      BY <1>0, <2>3, <3>2, RestoredKeyed
  <2> QED
    BY <2>1, <2>2, <2>4, <2>5, KeyBefore
<1> QED
  BY <1>5, <1>6, <1>7, <1>8, <1>9, <1>10, <1>11, <1>12, <1>13, <1>14 DEF BackfillNext

\* Once all is moved.
LEMMA KeyAll ==
  ASSUME KeyInv, ~BeforeSplit, old = {}
  PROVE  \A d \in Folders : Keyed(Of(rows, d), LastScan)
BY DEF KeyInv, KeyMoved, Keyed

\* A step after the split and before the numbers.
LEMMA KeyRows ==
  ASSUME KeyInv, ~BeforeSplit', ~Upgraded', old' = {}, Versioned(rows'),
         \A d \in Folders : Keyed(Of(rows', d), LastScan)
  PROVE  KeyInv'
<1>1. \A d : Of(old', d) = {}
  BY DEF Of
<1>2. \A d \in Folders : KeyMoved(d)'
  BY <1>1 DEF KeyMoved
<1>3. stage' # "split"
  BY DEF BeforeSplit
<1> QED
  BY <1>2, <1>3 DEF KeyInv

LEMMA KeyLeft ==
  ASSUME KeyInv, ~BeforeSplit, ~BeforeSplit', ~Upgraded', UNCHANGED <<old, rows>>
  PROVE  KeyInv'
<1>1. stage' # "split"
  BY DEF BeforeSplit
<1> QED
  BY <1>1 DEF KeyInv, KeyMoved

LEMMA KeySplit ==
  ASSUME IInv, KeyInv, SplitTables
  PROVE  KeyInv'
<1>1. /\ stage = "split" /\ stage' = "moving" /\ UNCHANGED rows
      /\ old' = IF running THEN Restored(old, undo) ELSE old
  BY RolledBackIs DEF SplitTables, Settled
<1>2. BeforeSplit /\ ~BeforeSplit' /\ ~Upgraded'
  BY <1>1 DEF BeforeSplit, Backfilling, Upgraded
<1>3. rows = {} /\ live = LastScan
  BY <1>1, <1>2 DEF IInv, Faithful, Stages
<1>4. \A d \in Folders : Keyed(Of(old', d), LastScan)
  BY <1>1, <1>2, <1>3 DEF KeyInv
<1>5. \A d : Of(rows', d) = {}
  BY <1>1, <1>3 DEF Of
<1>6. \A d \in Folders : KeyMoved(d)'
  BY <1>4, <1>5 DEF KeyMoved
<1>7. Versioned(rows')
  BY <1>1, <1>3 DEF Versioned
<1> QED
  BY <1>1, <1>2, <1>6, <1>7 DEF KeyInv

LEMMA KeyMove ==
  ASSUME IInv, KeyInv, MoveItem
  PROVE  KeyInv'
<1> DEFINE i == NextItem
           M == IF i \in Folders THEN MovedFolder(i) ELSE MovedFile(i)
<1>1. /\ stage = "moving" /\ stage' = "moving" /\ old # {}
      /\ rows' = rows \cup M /\ old' = old \ Of(old, i)
  BY DEF MoveItem, Settled
<1>2. ~BeforeSplit /\ ~BeforeSplit' /\ ~Upgraded'
  BY <1>1 DEF BeforeSplit, Backfilling, Upgraded
<1>3. Proper(old) /\ Proper(rows) /\ Versioned(rows) /\ \A d \in Folders : KeyMoved(d)
  BY <1>2 DEF IInv, Faithful, KeyInv
<1>4. i \in Items /\ Of(old, i) # {}
  <2>1. \E j \in Items : Of(old, j) # {}
    BY <1>1, <1>3 DEF Proper, Of
  <2> QED
    BY <2>1, Zenon DEF NextItem
<1> HIDE DEF i
<1>5. RowsOf(M, i) /\ Versioned(M)
  BY <1>4, MovedRows, MovedVersioned
<1>6. i \in Folders => Keyed(M, LastScan)
  BY <1>3, <1>4, MovedKeyed DEF KeyMoved
<1> HIDE DEF M
<1>7. Versioned(rows')
  BY <1>1, <1>3, <1>5 DEF Versioned
<1>8. ASSUME NEW d \in Folders PROVE KeyMoved(d)'
  <2>1. CASE d = i
    <3>1. Of(rows, d) = {}
      BY <1>3, <1>4, <2>1 DEF KeyMoved
    <3>2. Of(rows', d) = M
      BY <1>1, <1>5, <2>1, <3>1 DEF Of, RowsOf
    <3>3. Of(old', d) = {}
      BY <1>1, <2>1 DEF Of
    <3> QED
      BY <1>6, <2>1, <3>2, <3>3 DEF KeyMoved
  <2>2. CASE d # i
    <3>1. Of(rows', d) = Of(rows, d)
      BY <1>1, <1>5, <2>2 DEF Of, RowsOf
    <3>2. Of(old', d) = Of(old, d)
      BY <1>1, <2>2 DEF Of
    <3> QED
      BY <1>3, <3>1, <3>2 DEF KeyMoved
  <2> QED
    BY <2>1, <2>2
<1> QED
  BY <1>1, <1>2, <1>7, <1>8 DEF KeyInv

LEMMA KeyChain ==
  ASSUME IInv, KeyInv, NEW i \in Items, Chain(i)
  PROVE  KeyInv'
<1>1. /\ stage = "untangling" /\ stage' = stage /\ i \in tangled /\ old' = old
      /\ rows' = Exchange(rows, i, Chained(i))
  BY DEF Chain, Settled, Exchange
<1>2. ~BeforeSplit /\ ~BeforeSplit' /\ ~Upgraded' /\ Recounting
  BY <1>1 DEF BeforeSplit, Backfilling, Recounting, Upgraded
<1>3. old = {} /\ Proper(rows) /\ Versioned(rows) /\ tangled \cap KeptItems = {} /\ Stages
  BY <1>2 DEF IInv, Faithful, KeyInv
<1>4. \A d \in Folders : Keyed(Of(rows, d), LastScan)
  BY <1>2, <1>3, KeyAll
<1>5. i \in Folders
  BY <1>1, <1>3, KeptFacts DEF Items
<1>6. Keyed(Chained(i), LastScan) /\ Columns(Chained(i), Of(rows, i)) /\ RowsOf(Chained(i), i)
  BY <1>3, <1>4, <1>5, ChainedKeyed, ChainedRows
<1>7. /\ Of(rows', i) = Chained(i)
      /\ \A j \in Items : j # i => Of(rows', j) = Of(rows, j)
  BY <1>1, <1>3, <1>6, Exchanged
<1>8. ASSUME NEW d \in Folders PROVE Keyed(Of(rows', d), LastScan)
  BY <1>4, <1>6, <1>7 DEF Items
<1>9. Versioned(rows')
  BY <1>1, <1>3, <1>6 DEF Versioned, Columns, Exchange, Of
<1> QED
  BY <1>1, <1>2, <1>3, <1>8, <1>9, KeyRows

LEMMA KeyDrop ==
  ASSUME IInv, KeyInv, DropInverted
  PROVE  KeyInv'
<1>1. /\ stage = "untangling" /\ stage' \in {"numbering", "recounting"} /\ old' = old
      /\ rows' = {v \in rows : v.item \in Folders => v.first <= v.last}
  BY DEF DropInverted, Settled
<1>2. ~BeforeSplit /\ ~BeforeSplit' /\ ~Upgraded' /\ Recounting
  BY <1>1 DEF BeforeSplit, Backfilling, Recounting, Upgraded
<1>3. old = {} /\ Versioned(rows)
  BY <1>2 DEF IInv, Faithful, KeyInv
<1>4. ASSUME NEW d \in Folders PROVE Keyed(Of(rows', d), LastScan)
  <2>1. Keyed(Of(rows, d), LastScan)
    BY <1>2, <1>3, KeyAll
  <2>2. Of(rows', d) \subseteq Of(rows, d)
    BY <1>1 DEF Of
  <2> QED
    BY <2>1, <2>2, KeyedSub
<1>5. Versioned(rows')
  BY <1>1, <1>3 DEF Versioned
<1> QED
  BY <1>1, <1>2, <1>3, <1>4, <1>5, KeyRows

LEMMA KeyRecount ==
  ASSUME IInv, KeyInv, RecountScan
  PROVE  KeyInv'
<1> DEFINE s == Min(ScansLeft)
           P == [d \in Folders |-> Recounted(d, s)]
<1>1. /\ stage = "recounting" /\ old' = old /\ ScansLeft # {}
      /\ rows' = FilesOf(rows) \cup UNION {Recounted(d, s) : d \in Folders}
  BY DEF RecountScan, Settled, FilesOf
<1>2. stage' \in {"recounting", "merging"}
  BY <1>1 DEF RecountScan
<1>3. ~BeforeSplit /\ ~BeforeSplit' /\ ~Upgraded' /\ Recounting
  BY <1>1, <1>2 DEF BeforeSplit, Backfilling, Recounting, Upgraded
<1>4. old = {} /\ Proper(rows) /\ Versioned(rows) /\ LastScan \in Nat
  BY <1>3, RowsAssumption DEF IInv, Faithful, KeyInv
<1>5. \A d \in Folders : Keyed(Of(rows, d), LastScan)
  BY <1>3, <1>4, KeyAll
<1>6. s \in 1..LastScan
  <2>1. ScansLeft \in SUBSET Nat /\ ScansLeft \subseteq 1..LastScan
    BY RowsAssumption DEF ScansLeft, Completed, Scans
  <2>2. \E k \in ScansLeft : \A j \in ScansLeft : k <= j
    BY <1>1, <2>1, Least
  <2>3. s \in ScansLeft
    BY <2>2, Zenon DEF Min
  <2> QED
    BY <2>1, <2>3
<1> HIDE DEF s
<1>7. rows' = Together(rows, P)
  BY <1>1 DEF Together, Range
<1>8. ASSUME NEW d \in Folders PROVE P[d] = Pruned(rows, d, s) \/ \E c : P[d] = Counted(rows, d, s, c)
  BY DEF Recounted
<1>9. DOMAIN P = Folders
  OBVIOUS
<1> HIDE DEF P
<1>10. ASSUME NEW d \in Folders
       PROVE  RowsOf(P[d], d) /\ Keyed(P[d], LastScan) /\ Columns(P[d], Of(rows, d))
  <2>1. RowsOf(Pruned(rows, d, s), d) /\ \A c : RowsOf(Counted(rows, d, s, c), d)
    BY <1>4, PrunedRows, CountedRows
  <2>2. Keyed(Pruned(rows, d, s), LastScan) /\ Columns(Pruned(rows, d, s), Of(rows, d))
    BY <1>4, <1>5, PrunedKeyed
  <2>3. \A c : Keyed(Counted(rows, d, s, c), LastScan) /\ Columns(Counted(rows, d, s, c), Of(rows, d))
    BY <1>4, <1>5, <1>6, CountedKeyed
  <2> QED
    BY <1>8, <2>1, <2>2, <2>3
<1>11. \A d \in Folders : Of(rows', d) = P[d]
  BY <1>4, <1>7, <1>9, <1>10, Parts
<1>12. Versioned(rows')
  <2>1. ASSUME NEW v \in rows' PROVE "version" \in DOMAIN v
    <3>1. CASE v \in FilesOf(rows)
      BY <1>4, <3>1 DEF FilesOf, Versioned
    <3>2. CASE v \notin FilesOf(rows)
      <4>1. PICK d \in Folders : v \in P[d]
        BY <1>7, <1>9, <3>2 DEF Together, Range
      <4>2. PICK w \in Of(rows, d) : DOMAIN v = DOMAIN w
        BY <1>10, <4>1 DEF Columns
      <4> QED
        BY <1>4, <4>2 DEF Versioned, Of
    <3> QED
      BY <3>1, <3>2
  <2> QED
    BY <2>1 DEF Versioned
<1> QED
  BY <1>1, <1>3, <1>4, <1>10, <1>11, <1>12, KeyRows

LEMMA KeyMerge ==
  ASSUME IInv, KeyInv, NEW d \in Folders, Merge(d)
  PROVE  KeyInv'
<1>1. stage = "merging" /\ stage' = stage /\ old' = old
  BY DEF Merge, Settled
<1>2. PICK v \in Of(rows, d), w \in Of(rows, d) :
        Repeats(v, w) /\ rows' = (rows \ {v, w}) \cup {[v EXCEPT !.last = w.last]}
  BY DEF Merge
<1>3. ~BeforeSplit /\ ~BeforeSplit' /\ ~Upgraded' /\ Recounting
  BY <1>1 DEF BeforeSplit, Backfilling, Recounting, Upgraded
<1>4. old = {} /\ Proper(rows) /\ Versioned(rows) /\ d \in Items /\ LastScan \in Nat
  BY <1>3, RowsAssumption DEF IInv, Faithful, KeyInv, Items
<1>5. \A e \in Folders : Keyed(Of(rows, e), LastScan)
  BY <1>3, <1>4, KeyAll
<1> DEFINE G == (Of(rows, d) \ {v, w}) \cup {[v EXCEPT !.last = w.last]}
<1>6. Of(rows', d) = G /\ \A j \in Items : j # d => Of(rows', j) = Of(rows, j)
  <2> DEFINE G0 == (rows \ {v, w}) \cup {[v EXCEPT !.last = w.last]}
  <2>1. /\ Of(G0, d) = (Of(rows, d) \ {v, w}) \cup {[v EXCEPT !.last = w.last]}
        /\ \A j \in Items : j # d => Of(G0, j) = Of(rows, j)
    <3>1. v \in Of(rows, d) /\ w \in Of(rows, d) /\ Proper(rows) /\ d \in Items
      BY <1>4
    <3> QED
      BY ONLY <3>1, MergedRows
  <2>2. rows' = G0
    BY <1>2
  <2> HIDE DEF G0
  <2> QED
    BY <2>1, <2>2
<1>7. Keyed(G, LastScan) /\ Columns(G, Of(rows, d))
  BY <1>2, <1>4, <1>5, MergedKeyed
<1>8. [v EXCEPT !.last = w.last] \in G
  OBVIOUS
<1> HIDE DEF G
<1>9. ASSUME NEW e \in Folders PROVE Keyed(Of(rows', e), LastScan)
  BY <1>5, <1>6, <1>7 DEF Items
<1>10. Versioned(rows')
  BY <1>2, <1>4, <1>7, <1>8 DEF Versioned, Columns, Of
<1> QED
  BY <1>1, <1>3, <1>4, <1>9, <1>10, KeyRows
-----------------------------------------------------------------------------
\* Numbers.  All rows of one item are told by their first scans.
LEMMA AllKeyed ==
  ASSUME IInv, KeyInv, ~BeforeSplit, old = {}
  PROVE  \A i \in Items : Keyed(Of(rows, i), LastScan)
<1>1. Stages /\ \A d \in Folders : Keyed(Of(rows, d), LastScan)
  BY KeyAll DEF IInv
<1>2. LastKept \in Nat /\ LastKept <= LastScan /\ LastScan \in Nat /\ Files \subseteq KeptItems
  BY <1>1, KeptFacts
<1>3. ASSUME NEW f \in Files PROVE Keyed(Of(rows, f), LastScan)
  <2> DEFINE H == Of(rows, f)
  <2>1. Told(seen, H, f, LastKept)
    BY <1>2, AllMoved DEF Present
  <2> HIDE DEF H
  <2>2. \A v \in H : v.first \in 1..LastKept /\ v.last \in Nat /\ v.first <= v.last
    BY <2>1 DEF Told
  <2>3. \A v, w \in H : v # w => v.last < w.first \/ w.last < v.first
    BY <2>1 DEF Told
  <2>4. Keyed(H, LastScan)
    BY <1>2, <2>2, <2>3 DEF Keyed
  <2> QED
    BY <2>4 DEF H
<1> QED
  BY <1>1, <1>3 DEF Items

\* How many rows of one item start by scan k.
Upto(H, k) == {w \in H : w.first <= k}

LEMMA NumberIs == ASSUME NEW v PROVE Number(v) = Cardinality(Upto(Of(rows, v.item), v.first))
BY DEF Number, Upto

LEMMA FewRows ==
  ASSUME NEW R, NEW i, NEW n \in Nat, Keyed(Of(R, i), n)
  PROVE  IsFiniteSet(Of(R, i))
<1> DEFINE H == Of(R, i)
           g == [v \in H |-> v.first]
<1>1. \A v \in H : v.item = i /\ v.first \in 1..n
  BY DEF Of, Keyed
<1>2. \A v, w \in H : v.first = w.first => v = w
  BY <1>1 DEF Keyed
<1> HIDE DEF H
<1>3. g \in Injection(H, 1..n)
  <2>1. g \in [H -> 1..n]
    BY <1>1
  <2>2. \A a, b \in H : g[a] = g[b] => a = b
    BY <1>2
  <2> HIDE DEF g
  <2> QED
    BY <2>1, <2>2 DEF Injection, IsInjective
<1>4. IsFiniteSet(1..n)
  BY FS_Interval
<1>5. IsFiniteSet(H)
  BY <1>3, <1>4, FS_Injection
<1> QED
  BY <1>5 DEF H

\* As many whatever else is written into the rows.
LEMMA SameNumber ==
  ASSUME NEW R, NEW F, DOMAIN F = R, \A v \in R : F[v].item = v.item /\ F[v].first = v.first,
         NEW i, NEW n \in Nat, Keyed(Of(R, i), n), NEW k
  PROVE  Cardinality(Upto(Of(Range(F), i), k)) = Cardinality(Upto(Of(R, i), k))
<1> DEFINE A == Upto(Of(R, i), k)
           B == Upto(Of(Range(F), i), k)
           g == [v \in A |-> F[v]]
<1>1. IsFiniteSet(A)
  <2>1. IsFiniteSet(Of(R, i)) /\ A \in SUBSET Of(R, i)
    BY FewRows DEF Upto
  <2> HIDE DEF A
  <2> QED
    BY <2>1, FS_Subset
<1>2. \A v \in A : v \in R /\ v.item = i /\ v.first <= k
  BY DEF Upto, Of
<1>3. \A v \in A : F[v] \in B
  BY <1>2 DEF Upto, Of, Range
<1>4. \A y \in B : \E v \in A : F[v] = y
  BY DEF Upto, Of, Range
<1>5. \A v, w \in A : F[v] = F[w] => v = w
  <2> SUFFICES ASSUME NEW v \in A, NEW w \in A, F[v] = F[w] PROVE v = w
    OBVIOUS
  <2>1. v \in Of(R, i) /\ w \in Of(R, i) /\ v.item = w.item /\ v.first = w.first
    BY <1>2 DEF Of
  <2> QED
    BY <2>1 DEF Keyed
<1> HIDE DEF A, B
<1>6. g \in Bijection(A, B)
  <2>1. g \in [A -> B]
    BY <1>3
  <2>2. \A a, b \in A : g[a] = g[b] => a = b
    BY <1>5
  <2>3. \A y \in B : \E a \in A : g[a] = y
    BY <1>4
  <2> HIDE DEF g
  <2> QED
    BY <2>1, <2>2, <2>3 DEF Bijection, Injection, IsInjective, Surjection
<1>7. Cardinality(B) = Cardinality(A)
  BY <1>1, <1>6, FS_Bijection DEF ExistsBijection
<1> QED
  BY <1>7 DEF A, B

\* The numbers are 1 and on, without a gap, in the order of the first scans.
LEMMA NumbersFill ==
  ASSUME NEW i, NEW n \in Nat, Keyed(Of(rows, i), n)
  PROVE  /\ {Number(v) : v \in Of(rows, i)} = 1..Cardinality(Of(rows, i))
         /\ \A v, w \in Of(rows, i) : Number(v) < Number(w) => v.first < w.first
<1> DEFINE H == Of(rows, i)
           c == Cardinality(H)
           N == {Number(v) : v \in H}
           g == [v \in H |-> Number(v)]
<1>1. /\ \A v \in H : v.first \in 1..n /\ Number(v) = Cardinality(Upto(H, v.first))
      /\ \A v, w \in H : v.first = w.first => v = w
  <2>1. \A v \in H : v.item = i
    BY DEF Of
  <2> QED
    BY <2>1, NumberIs DEF Keyed
<1>2. IsFiniteSet(H)
  BY FewRows
<1>3. c \in Nat
  BY <1>2, FS_CardinalityType
<1>4. \A v, w \in H : Number(v) = Number(w) => v = w
  BY <1>1, NumbersDiffer
<1> HIDE DEF H
<1>0. \A v \in H : v.first \in 1..n
  BY <1>1
<1>5. ASSUME NEW v \in H PROVE Number(v) \in 1..c
  <2>0. v.first \in 1..n
    BY <1>0
  <2>1. Upto(H, v.first) \in SUBSET H /\ v \in Upto(H, v.first)
    BY <2>0 DEF Upto
  <2>2. IsFiniteSet(Upto(H, v.first)) /\ Cardinality(Upto(H, v.first)) <= c
    BY <1>2, <2>1, FS_Subset
  <2>3. Cardinality(Upto(H, v.first)) \in Nat /\ Cardinality(Upto(H, v.first)) # 0
    BY <2>1, <2>2, FS_CardinalityType, FS_EmptySet
  <2> HIDE DEF c
  <2> QED
    BY <1>1, <1>3, <2>2, <2>3
<1>6. ASSUME NEW v \in H, NEW w \in H, Number(v) < Number(w) PROVE v.first < w.first
  <2> SUFFICES ASSUME w.first <= v.first PROVE FALSE
    BY <1>1
  <2>1. Upto(H, v.first) \in SUBSET H /\ Upto(H, w.first) \in SUBSET Upto(H, v.first)
    <3>1. \A u \in H : u.first <= w.first => u.first <= v.first
      BY <1>0
    <3> QED
      BY <3>1 DEF Upto
  <2>2. IsFiniteSet(Upto(H, v.first))
    BY <1>2, <2>1, FS_Subset
  <2>3. Cardinality(Upto(H, w.first)) <= Cardinality(Upto(H, v.first))
    BY <2>1, <2>2, FS_Subset
  <2>4. Number(v) \in Nat /\ Number(w) \in Nat
    BY <1>3, <1>5
  <2> QED
    BY <1>1, <1>6, <2>3, <2>4
<1>7. g \in Bijection(H, N)
  <2>1. g \in [H -> N]
    OBVIOUS
  <2>2. \A a, b \in H : g[a] = g[b] => a = b
    BY <1>4
  <2>3. \A y \in N : \E a \in H : g[a] = y
    OBVIOUS
  <2> HIDE DEF g, N
  <2> QED
    BY <2>1, <2>2, <2>3 DEF Bijection, Injection, IsInjective, Surjection
<1>8. Cardinality(N) = c
  BY <1>2, <1>7, FS_Bijection DEF ExistsBijection
<1>9. N \in SUBSET (1..c)
  BY <1>5
<1>10. IsFiniteSet(1..c) /\ Cardinality(1..c) = c
  BY <1>3, FS_Interval
<1> HIDE DEF N, c
<1>11. N = 1..c
  BY <1>8, <1>9, <1>10, FS_Subset
<1> QED
  BY <1>6, <1>11 DEF N, c, H
-----------------------------------------------------------------------------
\* Rows in another form are told the same numbers.
LEMMA NumberRetold ==
  ASSUME NEW F, DOMAIN F = rows, \A v \in rows : F[v].item = v.item /\ F[v].first = v.first,
         Proper(rows), \A i \in Items : Keyed(Of(rows, i), LastScan)
  PROVE  /\ \A i \in Items : Keyed(Of(Range(F), i), LastScan)
         /\ \A v \in rows : \A x : x.item = v.item /\ x.first = v.first =>
              Cardinality(Upto(Of(Range(F), x.item), x.first)) = Number(v)
<1>1. LastScan \in Nat
  BY RowsAssumption
<1>2. \A i \in Items : Keyed(Of(Range(F), i), LastScan)
  BY RetoldKeyed
<1>3. ASSUME NEW v \in rows PROVE Cardinality(Upto(Of(Range(F), v.item), v.first)) = Number(v)
  <2>1. v.item \in Items
    BY DEF Proper
  <2>2. Cardinality(Upto(Of(Range(F), v.item), v.first)) = Cardinality(Upto(Of(rows, v.item), v.first))
    BY <1>1, <2>1, SameNumber
  <2> QED
    BY <2>2, NumberIs
<1> QED
  BY <1>2, <1>3

LEMMA KeyUpgraded ==
  ASSUME ~BeforeSplit', stage' # "moving", old' = {}, Versioned(rows'),
         \A i \in Items : Keyed(Of(rows', i), LastScan),
         \A v \in rows' : v.version = Number(v)',
         \A h \in hashes' : \E v \in rows' : v.item = h.item /\ v.version = h.version
  PROVE  KeyInv'
<1>1. \A d : Of(old', d) = {}
  BY DEF Of
<1>2. \A d \in Folders : KeyMoved(d)'
  BY <1>1 DEF KeyMoved, Items
<1>3. stage' # "split"
  BY DEF BeforeSplit
<1> QED
  BY <1>2, <1>3 DEF KeyInv

LEMMA KeyNumber ==
  ASSUME IInv, HashInv, KeyInv, NumberVersions
  PROVE  KeyInv'
<1> DEFINE E(v) == [v EXCEPT !.version = Number(v)]
           F == [v \in rows |-> E(v)]
           own(h) == {w \in Of(rows, h.item) : w.version = h.version}
           e(h, v) == [h EXCEPT !.version = Number(v)]
<1>1. /\ stage = "numbering" /\ stage' = "v28" /\ old' = old /\ rows' = Range(F)
      /\ hashes' = UNION {{e(h, v) : v \in own(h)} : h \in hashes}
  BY DEF NumberVersions, Settled, Range
<1>2. ~BeforeSplit /\ ~BeforeSplit' /\ Recounting
  BY <1>1 DEF BeforeSplit, Backfilling, Recounting
<1>3. old = {} /\ Proper(rows) /\ Versioned(rows)
  BY <1>2 DEF IInv, Faithful, KeyInv
<1>4. \A i \in Items : Keyed(Of(rows, i), LastScan)
  BY <1>2, <1>3, AllKeyed
<1>5. ASSUME NEW v \in rows
      PROVE  /\ F[v].item = v.item /\ F[v].first = v.first
             /\ F[v].version = Number(v) /\ "version" \in DOMAIN F[v]
  <2> DEFINE a == Number(v)
  <2>1. RowLike(v) /\ "version" \in DOMAIN v /\ F[v] = [v EXCEPT !.version = a]
    BY <1>3 DEF Proper, Versioned
  <2> HIDE DEF a, F, E
  <2>2. /\ F[v].item = v.item /\ F[v].first = v.first
        /\ F[v].version = a /\ "version" \in DOMAIN F[v]
    BY <2>1 DEF RowLike
  <2> QED
    BY <2>2 DEF a
<1>6. ASSUME NEW h \in hashes, NEW v \in rows PROVE e(h, v).item = h.item /\ e(h, v).version = Number(v)
  <2> DEFINE a == Number(v)
  <2>1. {"item", "version"} \subseteq DOMAIN h
    BY DEF HashInv
  <2> HIDE DEF a
  <2>2. [h EXCEPT !.version = a].item = h.item /\ [h EXCEPT !.version = a].version = a
    BY <2>1
  <2> QED
    BY <2>2 DEF a
<1>7. DOMAIN F = rows
  OBVIOUS
<1> HIDE DEF F, E, e
<1>8. /\ \A i \in Items : Keyed(Of(rows', i), LastScan)
      /\ \A v \in rows : \A x : x.item = v.item /\ x.first = v.first =>
           Cardinality(Upto(Of(rows', x.item), x.first)) = Number(v)
  BY <1>1, <1>3, <1>4, <1>5, <1>7, NumberRetold
<1>9. \A x \in rows' : x.version = Number(x)'
  <2> SUFFICES ASSUME NEW x \in rows' PROVE x.version = Number(x)'
    OBVIOUS
  <2>1. PICK v \in rows : x = F[v]
    BY <1>1, <1>7 DEF Range
  <2>2. x.version = Number(v) /\ x.item = v.item /\ x.first = v.first
    BY <1>5, <2>1
  <2>3. Cardinality(Upto(Of(rows', x.item), x.first)) = Number(v)
    BY <1>8, <2>2
  <2>4. Number(x)' = Cardinality(Upto(Of(rows', x.item), x.first))
    BY DEF Number, Upto
  <2> QED
    BY <2>2, <2>3, <2>4
<1>10. Versioned(rows')
  BY <1>1, <1>5, <1>7 DEF Versioned, Range
<1>11. ASSUME NEW x \in hashes' PROVE \E v \in rows' : v.item = x.item /\ v.version = x.version
  <2>0. PICK h \in hashes : \E v \in own(h) : x = e(h, v)
    BY <1>1
  <2>1. PICK v \in own(h) : x = e(h, v)
    BY <2>0
  <2>2. v \in rows /\ v.item = h.item
    BY DEF Of
  <2>3. F[v] \in rows' /\ F[v].item = x.item /\ F[v].version = x.version
    BY <1>1, <1>5, <1>6, <1>7, <2>1, <2>2 DEF Range
  <2> QED
    BY <2>3
<1> QED
  BY <1>1, <1>2, <1>3, <1>8, <1>9, <1>10, <1>11, KeyUpgraded

LEMMA KeyRepair ==
  ASSUME IInv, KeyInv, RepairFolders
  PROVE  KeyInv'
<1> DEFINE E(v) == IF Contradicted(v) THEN [v EXCEPT !.deleted = FALSE] ELSE v
           F == [v \in rows |-> E(v)]
<1>1. stage = "v29" /\ stage' = "v30" /\ old' = old /\ hashes' = hashes /\ rows' = Range(F)
  BY DEF RepairFolders, Settled, Range
<1>2. ~BeforeSplit /\ ~BeforeSplit' /\ Upgraded
  BY <1>1 DEF BeforeSplit, Backfilling, Upgraded
<1>3. old = {} /\ Proper(rows) /\ Versioned(rows)
  BY <1>2 DEF IInv, Faithful, KeyInv
<1>4. \A i \in Items : Keyed(Of(rows, i), LastScan)
  BY <1>2, <1>3, AllKeyed
<1>5. ASSUME NEW v \in rows
      PROVE  /\ F[v].item = v.item /\ F[v].first = v.first
             /\ F[v].version = v.version /\ "version" \in DOMAIN F[v]
  <2>1. RowLike(v) /\ "version" \in DOMAIN v /\ (F[v] = [v EXCEPT !.deleted = FALSE] \/ F[v] = v)
    BY <1>3 DEF Proper, Versioned
  <2> HIDE DEF F, E
  <2>2. CASE F[v] = [v EXCEPT !.deleted = FALSE]
    BY <2>1, <2>2 DEF RowLike
  <2>3. CASE F[v] = v
    BY <2>1, <2>3
  <2> QED
    BY <2>1, <2>2, <2>3
<1>6. DOMAIN F = rows
  OBVIOUS
<1> HIDE DEF F, E
<1>7. /\ \A i \in Items : Keyed(Of(rows', i), LastScan)
      /\ \A v \in rows : \A x : x.item = v.item /\ x.first = v.first =>
           Cardinality(Upto(Of(rows', x.item), x.first)) = Number(v)
  BY <1>1, <1>3, <1>4, <1>5, <1>6, NumberRetold
<1>8. \A x \in rows' : x.version = Number(x)'
  <2> SUFFICES ASSUME NEW x \in rows' PROVE x.version = Number(x)'
    OBVIOUS
  <2>1. PICK v \in rows : x = F[v]
    BY <1>1, <1>6 DEF Range
  <2>2. x.version = Number(v) /\ x.item = v.item /\ x.first = v.first
    BY <1>2, <1>5, <2>1 DEF KeyInv
  <2>3. Cardinality(Upto(Of(rows', x.item), x.first)) = Number(v)
    BY <1>7, <2>2
  <2>4. Number(x)' = Cardinality(Upto(Of(rows', x.item), x.first))
    BY DEF Number, Upto
  <2> QED
    BY <2>2, <2>3, <2>4
<1>9. Versioned(rows')
  BY <1>1, <1>5, <1>6 DEF Versioned, Range
<1>10. ASSUME NEW x \in hashes' PROVE \E v \in rows' : v.item = x.item /\ v.version = x.version
  <2>1. PICK v \in rows : v.item = x.item /\ v.version = x.version
    BY <1>1, <1>2 DEF KeyInv
  <2>2. F[v] \in rows' /\ F[v].item = x.item /\ F[v].version = x.version
    BY <1>1, <1>5, <1>6, <2>1 DEF Range
  <2> QED
    BY <2>2
<1> QED
  BY <1>1, <1>2, <1>3, <1>7, <1>8, <1>9, <1>10, KeyUpgraded

\* The steps that leave the rows.
LEMMA KeyRest ==
  ASSUME IInv, KeyInv, BeginRecount \/ EndMerge \/ Crash \/ CountIssues \/ RemoveSuspects
  PROVE  KeyInv'
<1>1. CASE BeginRecount \/ EndMerge \/ Crash
  <2>1. /\ stage \in {"moving", "untangling", "recounting", "merging", "numbering"}
        /\ stage' \in {"moving", "untangling", "recounting", "merging", "numbering"}
        /\ UNCHANGED <<old, rows>>
    BY <1>1 DEF BeginRecount, EndMerge, Crash, Settled
  <2>2. ~BeforeSplit /\ ~BeforeSplit' /\ ~Upgraded'
    BY <2>1 DEF BeforeSplit, Backfilling, Upgraded
  <2> QED
    BY <2>1, <2>2, KeyLeft
<1>2. CASE CountIssues \/ RemoveSuspects
  <2>1. /\ stage \in {"v28", "v30"} /\ stage' \in {"v29", "v31"} /\ UNCHANGED <<old, rows>>
        /\ hashes' \subseteq hashes
    BY <1>2 DEF CountIssues, RemoveSuspects, Settled
  <2>2. ~BeforeSplit /\ ~BeforeSplit' /\ Upgraded
    BY <2>1 DEF BeforeSplit, Backfilling, Upgraded
  <2>3. old = {} /\ Versioned(rows)
    BY <2>2 DEF IInv, Faithful, KeyInv
  <2>4. \A i \in Items : Keyed(Of(rows, i), LastScan)
    BY <2>2, <2>3, AllKeyed
  <2>5. \A v \in rows' : v.version = Number(v)'
    <3>1. \A v \in rows : v.version = Number(v)
      BY <2>2 DEF KeyInv
    <3> QED
      BY <2>1, <3>1 DEF Number
  <2>6. \A h \in hashes' : \E v \in rows' : v.item = h.item /\ v.version = h.version
    BY <2>1, <2>2 DEF KeyInv
  <2> QED
    BY <2>1, <2>2, <2>3, <2>4, <2>5, <2>6, KeyUpgraded
<1> QED
  BY <1>1, <1>2

LEMMA KeyNext ==
  ASSUME IInv, HashInv, KeyInv, [Next]_vars
  PROVE  KeyInv'
<1>1. CASE UNCHANGED vars
  BY <1>1, KeyElsewhere DEF vars, backfillVars
<1>2. CASE Backfill
  BY <1>2, KeyBackfill DEF Backfill
<1>3. CASE SplitTables \/ MoveItem \/ DropInverted \/ RecountScan \/ NumberVersions \/ RepairFolders
  BY <1>3, KeySplit, KeyMove, KeyDrop, KeyRecount, KeyNumber, KeyRepair
<1>4. CASE (\E i \in Items : Chain(i)) \/ (\E d \in Folders : Merge(d))
  BY <1>4, KeyChain, KeyMerge
<1>5. CASE BeginRecount \/ EndMerge \/ Crash \/ CountIssues \/ RemoveSuspects
  BY <1>5, KeyRest
<1> QED
  BY <1>1, <1>2, <1>3, <1>4, <1>5 DEF Next

LEMMA InvImpliesOrder ==
  ASSUME IInv, KeyInv
  PROVE  VersionsInOrder
<1> SUFFICES ASSUME Upgraded
             PROVE  /\ \A i \in Items : {v.version : v \in Of(rows, i)} = 1..Cardinality(Of(rows, i))
                    /\ \A v, w \in rows :
                         v.item = w.item /\ v.version < w.version =>
                           v.first < w.first /\ (v.item \in Files \/ early = 0 => v.last < w.first)
                    /\ \A h \in hashes : \E v \in rows : v.item = h.item /\ v.version = h.version
  BY DEF VersionsInOrder
<1>1. ~BeforeSplit
  BY DEF BeforeSplit, Backfilling, Upgraded
<1>2. old = {} /\ Proper(rows) /\ Stages /\ LastScan \in Nat
  BY RowsAssumption DEF IInv, Faithful
<1>3. \A i \in Items : Keyed(Of(rows, i), LastScan)
  BY <1>1, <1>2, AllKeyed
<1>4. \A v \in rows : v.version = Number(v)
  BY DEF KeyInv
<1>5. ASSUME NEW i \in Items
      PROVE  /\ {v.version : v \in Of(rows, i)} = 1..Cardinality(Of(rows, i))
             /\ \A v, w \in Of(rows, i) : v.version < w.version => v.first < w.first
  <2>1. \A v \in Of(rows, i) : v.version = Number(v)
    BY <1>4 DEF Of
  <2>2. /\ {Number(v) : v \in Of(rows, i)} = 1..Cardinality(Of(rows, i))
        /\ \A v, w \in Of(rows, i) : Number(v) < Number(w) => v.first < w.first
    BY <1>2, <1>3, NumbersFill
  <2> QED
    BY <2>1, <2>2
<1>6. ASSUME NEW v \in rows, NEW w \in rows, v.item = w.item, v.version < w.version
      PROVE  v.first < w.first /\ (v.item \in Files \/ early = 0 => v.last < w.first)
  <2> DEFINE i == v.item
             H == Of(rows, i)
  <2>1. i \in Items /\ v \in H /\ w \in H
    BY <1>2, <1>6 DEF Proper, Of
  <2>2. v.first < w.first
    BY <1>5, <1>6, <2>1
  <2>3. ASSUME i \in Files \/ early = 0 PROVE v.last < w.first
    <3>1. i \in KeptItems
      BY <1>2, <2>1, <2>3, KeptFacts
    <3>2. Told(seen, H, i, LastKept)
      BY <1>1, <1>2, <3>1, AllMoved DEF Present
    <3> HIDE DEF H
    <3>3. v.first \in Nat /\ w.first \in Nat /\ w.last \in Nat /\ w.first <= w.last
      BY <1>2, <2>1, <3>2, KeptFacts DEF Told
    <3>4. v # w
      BY <2>2, <3>3
    <3>5. v.last < w.first \/ w.last < v.first
      BY <2>1, <3>2, <3>4 DEF Told
    <3> QED
      BY <2>2, <3>3, <3>5
  <2> QED
    BY <2>2, <2>3
<1>7. \A h \in hashes : \E v \in rows : v.item = h.item /\ v.version = h.version
  BY DEF KeyInv
<1> QED
  BY <1>5, <1>6, <1>7

\* After the upgrade from 27 the versions of every item are numbered 1, 2, ...
\* in the order of their first scans, whatever the backfills tangled and
\* whichever were chained, cut, pruned or merged before; no row for a hash is
\* left without its version; and versions of a file never overlap.
THEOREM VersionsNumbered == Spec => []VersionsInOrder
<1>1. Init => IInv /\ HashInv /\ KeyInv
  BY InitInv, HashInit, KeyInit
<1>2. IInv /\ HashInv /\ KeyInv /\ [Next]_vars => (IInv /\ HashInv /\ KeyInv)'
  BY NextInv, HashNext, KeyNext
<1>3. IInv /\ KeyInv => VersionsInOrder
  BY InvImpliesOrder
<1> QED
  BY <1>1, <1>2, <1>3, PTL DEF Spec
=============================================================================
