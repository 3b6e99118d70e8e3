---------------------------- MODULE FolderProofs ----------------------------
(***************************************************************************)
(* The counts of folders are right for every tree: any number of folders   *)
(* in each other, files, scans and interrupts.                             *)
(***************************************************************************)
EXTENDS FolderCounts, FiniteSetTheorems, TLAPS

(* Sums *)

Least(s) == CHOOSE x \in s : TRUE

\* f adds g up over the subsets of S, an element after the other.
Adds(f, g, S) ==
  f = [s \in SUBSET S |-> IF s = {} THEN 0 ELSE g[Least(s)] + f[s \ {Least(s)}]]

LEMMA SumIs ==
  ASSUME NEW g, NEW S
  PROVE  SumFunctionOnSet(g, S) = (CHOOSE f : Adds(f, g, S))[S]
BY DEF SumFunctionOnSet, FoldFunctionOnSet, MapThenFoldSet, Adds, Least

\* A property of finite sets that fails has a least set it fails of.
LEMMA LeastSet ==
  ASSUME NEW S, IsFiniteSet(S), NEW C \in SUBSET SUBSET S, C # {}
  PROVE  \E s \in C : \A t \in C : t \subseteq s => t = s
<1>1. PICK R : IsWellFoundedOn(R, FiniteSubsetsOf(S)) /\ R = StrictSubsetOrdering(S)
  BY FS_StrictSubsetOrderingWellFounded
<1>2. C \subseteq FiniteSubsetsOf(S)
  BY FS_Subset DEF FiniteSubsetsOf
<1>3. PICK s \in C : \A t \in C : ~ (<<t, s>> \in R)
  BY <1>1, <1>2, WFMin, Zenon
<1>4. ASSUME NEW t \in C, t \subseteq s PROVE t = s
  BY <1>1, <1>3, <1>4 DEF StrictSubsetOrdering
<1> QED
  BY <1>3, <1>4

LEMMA LeastIn == ASSUME NEW s, s # {} PROVE Least(s) \in s
BY DEF Least

LEMMA AddsStep ==
  ASSUME NEW f, NEW g, NEW S, Adds(f, g, S), NEW s \in SUBSET S
  PROVE  /\ s = {} => f[s] = 0
         /\ s # {} => f[s] = g[Least(s)] + f[s \ {Least(s)}]
BY DEF Adds

LEMMA AddsAgree ==
  ASSUME NEW g, NEW A, IsFiniteSet(A), NEW B, NEW f, NEW h, Adds(f, g, A), Adds(h, g, B),
         NEW T \in SUBSET A, T \in SUBSET B
  PROVE  f[T] = h[T]
<1> SUFFICES ASSUME f[T] # h[T] PROVE FALSE
  OBVIOUS
<1> DEFINE C == {s \in SUBSET A : s \in SUBSET B /\ f[s] # h[s]}
<1>1. PICK s \in C : \A t \in C : t \subseteq s => t = s
  <2>1. C \in SUBSET SUBSET A /\ C # {}
    OBVIOUS
  <2> HIDE DEF C
  <2> QED
    BY <2>1, LeastSet
<1>2. s \in SUBSET A /\ s \in SUBSET B /\ f[s] # h[s]
  BY <1>1
<1>3. CASE s = {}
  BY <1>2, <1>3, AddsStep
<1>4. CASE s # {}
  <2>1. PICK x : x = Least(s) /\ x \in s
    BY <1>4, LeastIn
  <2>2. f[s] = g[x] + f[s \ {x}] /\ h[s] = g[x] + h[s \ {x}]
    <3> HIDE DEF C
    <3>1. f[s] = g[Least(s)] + f[s \ {Least(s)}]
      BY <1>2, <1>4, AddsStep
    <3>2. h[s] = g[Least(s)] + h[s \ {Least(s)}]
      BY ONLY Adds(h, g, B), <1>2, <1>4, AddsStep
    <3> QED
      BY <2>1, <3>1, <3>2
  <2>3. f[s \ {x}] # h[s \ {x}]
    BY <1>2, <2>2
  <2>4. s \ {x} \in C
    BY <1>2, <2>3
  <2> QED
    BY <1>1, <2>1, <2>4
<1> QED
  BY <1>3, <1>4

LEMMA AddsExists ==
  ASSUME NEW g, NEW S, IsFiniteSet(S)
  PROVE  \E f : Adds(f, g, S)
<1> SUFFICES ASSUME ~ \E f : Adds(f, g, S) PROVE FALSE
  OBVIOUS
<1> DEFINE C == {s \in SUBSET S : ~ \E f : Adds(f, g, s)}
<1>1. PICK s \in C : \A t \in C : t \subseteq s => t = s
  <2>1. C \in SUBSET SUBSET S /\ C # {}
    OBVIOUS
  <2> HIDE DEF C
  <2> QED
    BY <2>1, LeastSet
<1>2. s \in SUBSET S /\ IsFiniteSet(s)
  BY <1>1, FS_Subset
<1>3. \A t \in SUBSET s : t # s => \E f : Adds(f, g, t)
  BY <1>1, <1>2
<1> DEFINE part(t) == CHOOSE f : Adds(f, g, t)
           less(t) == part(t)[t]
           whole == [t \in SUBSET s |->
                       IF t # s THEN less(t)
                       ELSE IF s = {} THEN 0 ELSE g[Least(s)] + less(s \ {Least(s)})]
<1>4. \A t \in SUBSET s : t # s => Adds(part(t), g, t)
  BY <1>3
<1>5. ASSUME NEW t \in SUBSET s
      PROVE  whole[t] = IF t = {} THEN 0 ELSE g[Least(t)] + whole[t \ {Least(t)}]
  <2>1. CASE t = {} /\ t = s
    BY <2>1
  <2>2. CASE t = {} /\ t # s
    <3>1. Adds(part(t), g, t)
      BY <1>4, <2>2
    <3>2. part(t)[t] = 0
      BY <2>2, <3>1, AddsStep
    <3> QED
      BY <2>2, <3>2
  <2>3. CASE t # {} /\ t = s
    <3>1. Least(t) \in t
      BY <2>3, LeastIn
    <3>2. t \ {Least(t)} # s /\ t \ {Least(t)} \in SUBSET s
      BY <2>3, <3>1
    <3>3. whole[t \ {Least(t)}] = less(t \ {Least(t)})
      BY <3>2
    <3>4. whole[t] = g[Least(t)] + less(t \ {Least(t)})
      BY <2>3
    <3> QED
      BY <2>3, <3>3, <3>4
  <2>4. CASE t # {} /\ t # s
    <3>1. PICK x : x = Least(t) /\ x \in t
      BY <2>4, LeastIn
    <3>2. t \ {x} # s /\ t \ {x} \in SUBSET s /\ t \ {x} \in SUBSET t
      BY <3>1
    <3>3. PICK F : F = part(t)
      OBVIOUS
    <3>4. PICK H : H = part(t \ {x})
      OBVIOUS
    <3>5. Adds(F, g, t) /\ Adds(H, g, t \ {x})
      BY <1>4, <2>4, <3>2, <3>3, <3>4
    <3>6. F[t] = g[x] + F[t \ {x}]
      BY <2>4, <3>1, <3>5, AddsStep
    <3>7. F[t \ {x}] = H[t \ {x}]
      <4>1. IsFiniteSet(t)
        BY <1>2, FS_Subset
      <4>2. t \ {x} \in SUBSET (t \ {x})
        OBVIOUS
      <4> QED
        BY <3>2, <3>5, <4>1, <4>2, AddsAgree
    <3>8. whole[t] = F[t] /\ whole[t \ {x}] = H[t \ {x}]
      BY <2>4, <3>2, <3>3, <3>4
    <3> QED
      BY <2>4, <3>1, <3>6, <3>7, <3>8
  <2> QED
    BY <2>1, <2>2, <2>3, <2>4
<1>6. Adds(whole, g, s)
  <2>1. whole = [t \in SUBSET s |-> whole[t]]
    OBVIOUS
  <2> HIDE DEF whole
  <2> QED
    BY <1>5, <2>1 DEF Adds
<1> QED
  BY <1>1, <1>6

\* What a sum over a set is: nothing of the empty set, and an element less at a time.
LEMMA SumStep ==
  ASSUME NEW g, NEW S, IsFiniteSet(S)
  PROVE  /\ S = {} => SumFunctionOnSet(g, S) = 0
         /\ S # {} => SumFunctionOnSet(g, S) = g[Least(S)] + SumFunctionOnSet(g, S \ {Least(S)})
<1>1. PICK f : f = (CHOOSE h : Adds(h, g, S))
  OBVIOUS
<1>2. Adds(f, g, S)
  BY <1>1, AddsExists
<1>3. SumFunctionOnSet(g, S) = f[S]
  BY <1>1, SumIs
<1>4. ASSUME S # {}
      PROVE  SumFunctionOnSet(g, S \ {Least(S)}) = f[S \ {Least(S)}]
  <2>1. PICK t : t = S \ {Least(S)}
    OBVIOUS
  <2>2. IsFiniteSet(t) /\ t \in SUBSET S /\ t \in SUBSET t
    BY <2>1, FS_Subset
  <2>3. PICK k : k = (CHOOSE h : Adds(h, g, t))
    OBVIOUS
  <2>4. Adds(k, g, t)
    BY <2>2, <2>3, AddsExists
  <2>5. k[t] = f[t]
    BY <1>2, <2>2, <2>4, AddsAgree
  <2>6. SumFunctionOnSet(g, t) = k[t]
    BY <2>3, SumIs
  <2> QED
    BY <2>1, <2>5, <2>6
<1> QED
  BY <1>2, <1>3, <1>4, AddsStep

\* The sum of one value is that value.
LEMMA SumOne ==
  ASSUME NEW g, NEW x, g[x] \in Int
  PROVE  SumFunctionOnSet(g, {x}) = g[x]
<1>1. IsFiniteSet({x}) /\ Least({x}) = x
  BY FS_Singleton DEF Least
<1>2. SumFunctionOnSet(g, {}) = 0
  BY FS_EmptySet, SumStep
<1>3. SumFunctionOnSet(g, {x}) = g[Least({x})] + SumFunctionOnSet(g, {x} \ {Least({x})})
  BY <1>1, SumStep
<1>4. {x} \ {Least({x})} = {}
  BY <1>1
<1> QED
  BY <1>1, <1>2, <1>3, <1>4

\* The parts of a set that do not meet have as many elements together as one by one.
LEMMA SumOfParts ==
  ASSUME NEW U, IsFiniteSet(U), NEW C, IsFiniteSet(C), NEW F \in [C -> SUBSET U],
         \A c, e \in C : c # e => F[c] \cap F[e] = {},
         NEW g, \A c \in C : g[c] = Cardinality(F[c])
  PROVE  SumFunctionOnSet(g, C) = Cardinality(UNION {F[c] : c \in C})
<1> DEFINE all(T) == UNION {F[c] : c \in T}
           wrong == {T \in SUBSET C : SumFunctionOnSet(g, T) # Cardinality(all(T))}
<1> SUFFICES ASSUME C \in wrong PROVE FALSE
  OBVIOUS
<1>1. PICK T \in wrong : \A t \in wrong : t \subseteq T => t = T
  <2>1. wrong \in SUBSET SUBSET C /\ wrong # {}
    OBVIOUS
  <2> HIDE DEF wrong
  <2> QED
    BY <2>1, LeastSet
<1>2. T \in SUBSET C /\ IsFiniteSet(T) /\ SumFunctionOnSet(g, T) # Cardinality(all(T))
  BY <1>1, FS_Subset
<1>3. CASE T = {}
  <2>1. all(T) = {}
    BY <1>3
  <2> QED
    BY <1>2, <1>3, <2>1, FS_EmptySet, SumStep
<1>4. CASE T # {}
  <2>1. PICK x : x = Least(T) /\ x \in T
    BY <1>4, LeastIn
  <2>2. PICK t : t = T \ {x}
    OBVIOUS
  <2>3. t \in SUBSET C /\ t # T /\ t \subseteq T /\ x \notin t
    BY <1>2, <2>1, <2>2
  <2>4. SumFunctionOnSet(g, t) = Cardinality(all(t))
    BY <1>1, <2>3
  <2>5. all(T) = F[x] \cup all(t) /\ F[x] \cap all(t) = {}
    BY <1>2, <2>1, <2>2, <2>3
  <2>6. IsFiniteSet(F[x]) /\ IsFiniteSet(all(t))
    <3>1. F[x] \in SUBSET U /\ all(t) \in SUBSET U
      BY <1>2, <2>1, <2>3
    <3> QED
      BY <3>1, FS_Subset
  <2>7. Cardinality(all(T)) = Cardinality(F[x]) + Cardinality(all(t))
    <3> HIDE DEF all
    <3>1. Cardinality(F[x] \cup all(t)) =
            Cardinality(F[x]) + Cardinality(all(t)) - Cardinality(F[x] \cap all(t))
      BY <2>6, FS_Union
    <3>2. Cardinality(F[x]) \in Nat /\ Cardinality(all(t)) \in Nat
      BY <2>6, FS_CardinalityType
    <3>3. Cardinality(F[x] \cap all(t)) = 0
      BY <2>5, FS_EmptySet
    <3>4. Cardinality(all(T)) = Cardinality(F[x] \cup all(t))
      BY <2>5
    <3> QED
      BY <3>1, <3>2, <3>3, <3>4
  <2>8. SumFunctionOnSet(g, T) = g[x] + SumFunctionOnSet(g, t)
    BY <1>2, <1>4, <2>1, <2>2, SumStep
  <2>9. g[x] = Cardinality(F[x])
    BY <1>2, <2>1
  <2> QED
    BY <1>2, <2>4, <2>7, <2>8, <2>9
<1> QED
  BY <1>3, <1>4
-----------------------------------------------------------------------------
(* The tree *)

LEMMA LeastNat ==
  ASSUME NEW S \in SUBSET Nat, S # {}
  PROVE  \E k \in S : \A n \in S : k <= n
<1>1. \A n, k \in Nat : n < k => <<n, k>> \in OpToRel(<, Nat)
  BY Zenon DEF OpToRel
<1>2. PICK R : IsWellFoundedOn(R, Nat) /\ \A n, k \in Nat : n < k => <<n, k>> \in R
  BY <1>1, NatLessThanWellFounded, Zenon
<1>3. IsWellFoundedOn(R, Nat)
  BY <1>2
<1>4. PICK k \in S : \A n \in S : ~ (<<n, k>> \in R)
  BY <1>3, WFMin, Zenon
<1>5. ASSUME NEW n \in S PROVE k <= n
  <2>1. n \in Nat /\ k \in Nat /\ ~ (n < k)
    BY <1>2, <1>4
  <2> QED
    BY <2>1
<1> QED
  BY <1>4, <1>5

Places == Dirs \cup {Top}

LEMMA Parents ==
  /\ \A i \in Items : Parent[i] \in Places /\ (Parent[i] # Top => Parent[i] \in Dirs)
  /\ Dirs \subseteq Items /\ Top \notin Items /\ Top \notin Dirs
BY FolderAssumption DEF Places

LEMMA Depths ==
  \E depth \in [Items -> Nat], N \in Nat :
    /\ \A i \in Items : depth[i] <= N
    /\ \A i \in Items : Parent[i] # Top => depth[Parent[i]] < depth[i]
<1>1. Cardinality(Items) \in Nat
  BY TreeAssumption, FS_CardinalityType
<1>2. PICK depth \in [Items -> 0 .. Cardinality(Items)] :
        \A i \in Items : Parent[i] # Top => depth[Parent[i]] < depth[i]
  BY TreeAssumption
<1>3. depth \in [Items -> Nat] /\ \A i \in Items : depth[i] <= Cardinality(Items)
  BY <1>1, <1>2
<1> QED
  BY <1>1, <1>2, <1>3

\* Induction down the tree: what fails of an item fails of one whose folder it does not
\* fail of,
LEMMA Highest ==
  ASSUME NEW C \in SUBSET Items, C # {}
  PROVE  \E i \in C : Parent[i] \notin C
<1>1. PICK depth \in [Items -> Nat] :
        \A i \in Items : Parent[i] # Top => depth[Parent[i]] < depth[i]
  BY Depths
<1>2. PICK k \in {depth[i] : i \in C} : \A n \in {depth[i] : i \in C} : k <= n
  <2>1. {depth[i] : i \in C} \in SUBSET Nat /\ {depth[i] : i \in C} # {}
    OBVIOUS
  <2> QED
    BY <2>1, LeastNat
<1>3. PICK i \in C : k = depth[i]
  BY <1>2
<1>4. ASSUME Parent[i] \in C PROVE FALSE
  <2>1. depth[Parent[i]] < depth[i]
    BY <1>1, <1>4, Parents
  <2>2. depth[i] <= depth[Parent[i]] /\ depth[i] \in Nat /\ depth[Parent[i]] \in Nat
    BY <1>2, <1>3, <1>4
  <2> QED
    BY <2>1, <2>2
<1> QED
  BY <1>4

\* and up the tree: what fails of a place fails of one where it fails of no folder in it.
LEMMA Lowest ==
  ASSUME NEW C \in SUBSET Places, C # {}
  PROVE  \E d \in C : \A c \in Dirs : Parent[c] = d => c \notin C
<1>1. PICK depth \in [Items -> Nat], N \in Nat :
        /\ \A i \in Items : depth[i] <= N
        /\ \A i \in Items : Parent[i] # Top => depth[Parent[i]] < depth[i]
  BY Depths
<1>2. CASE C \cap Dirs = {}
  BY <1>2
<1>3. CASE C \cap Dirs # {}
  <2> DEFINE H == {N - depth[i] : i \in C \cap Dirs}
  <2>1. PICK k \in H : \A n \in H : k <= n
    <3>1. H \in SUBSET Nat
      <4>1. ASSUME NEW i \in C \cap Dirs PROVE N - depth[i] \in Nat
        <5>1. depth[i] \in Nat /\ depth[i] <= N
          BY <1>1, Parents
        <5> QED
          BY <5>1
      <4> QED
        BY <4>1
    <3>2. H # {}
      BY <1>3
    <3> HIDE DEF H
    <3> QED
      BY <3>1, <3>2, LeastNat
  <2>2. PICK d \in C \cap Dirs : k = N - depth[d]
    BY <2>1
  <2>3. ASSUME NEW c \in Dirs, Parent[c] = d, c \in C
        PROVE  FALSE
    <3>1. d # Top /\ depth[d] < depth[c]
      BY <1>1, <2>3, Parents
    <3>2. N - depth[d] <= N - depth[c]
      BY <2>1, <2>2, <2>3
    <3>3. depth[d] \in Nat /\ depth[c] \in Nat
      BY Parents
    <3> QED
      BY <3>1, <3>2, <3>3
  <2> QED
    BY <2>3
<1> QED
  BY <1>2, <1>3

\* The folders above an item are its own and those above that one.
LEMMA AboveStep ==
  ASSUME NEW i \in Items
  PROVE  Above[i] = IF Parent[i] = Top THEN {} ELSE {Parent[i]} \cup Above[Parent[i]]
<1> DEFINE from(j) == {U \in SUBSET Items : /\ Parent[j] # Top => Parent[j] \in U
                                            /\ \A u \in U : Parent[u] # Top => Parent[u] \in U}
           up == [j \in Items |-> {x \in Items : \A U \in from(j) : x \in U}]
<1>1. ASSUME NEW j \in Items
      PROVE  up[j] = IF Parent[j] = Top THEN {} ELSE {Parent[j]} \cup up[Parent[j]]
  <2>1. CASE Parent[j] = Top
    <3>1. {} \in from(j)
      BY <2>1
    <3> QED
      BY <2>1, <3>1
  <2>2. CASE Parent[j] # Top
    <3>1. PICK p \in Items : p = Parent[j]
      BY <2>2, Parents
    <3>2. ASSUME NEW U \in from(j) PROVE p \in U /\ U \in from(p)
      BY <2>2, <3>1, <3>2
    <3>3. {p} \cup up[p] \subseteq up[j]
      BY <3>2
    <3>4. {p} \cup up[p] \in from(j)
      <4>1. \A u \in up[p] : Parent[u] # Top => Parent[u] \in up[p]
        BY Parents
      <4>2. Parent[p] # Top => Parent[p] \in up[p]
        BY Parents
      <4> QED
        BY <3>1, <4>1, <4>2
    <3>5. up[j] \subseteq {p} \cup up[p]
      BY <3>4
    <3>6. up[j] = {p} \cup up[p]
      BY <3>3, <3>5
    <3> HIDE DEF up
    <3> QED
      BY <2>2, <3>1, <3>6
  <2> QED
    BY <2>1, <2>2
<1>2. up = [j \in Items |-> IF Parent[j] = Top THEN {} ELSE {Parent[j]} \cup up[Parent[j]]]
  <2>1. up = [j \in Items |-> up[j]]
    OBVIOUS
  <2> HIDE DEF up
  <2> QED
    BY <1>1, <2>1
<1> HIDE DEF up
<1>3. Above = [j \in Items |-> IF Parent[j] = Top THEN {} ELSE {Parent[j]} \cup Above[Parent[j]]]
  BY <1>2 DEF Above
<1> QED
  BY <1>3

LEMMA AboveParent ==
  ASSUME NEW i \in Items, NEW d
  PROVE  d \in Above[i] <=> Parent[i] # Top /\ (d = Parent[i] \/ d \in Above[Parent[i]])
BY AboveStep

\* What is above something above i is above i.
LEMMA AboveTrans ==
  ASSUME NEW i \in Items, NEW c \in Items, NEW d, c \in Above[i], d \in Above[c]
  PROVE  d \in Above[i]
<1> SUFFICES ASSUME d \notin Above[i] PROVE FALSE
  OBVIOUS
<1> DEFINE C == {j \in Items : c \in Above[j] /\ d \notin Above[j]}
<1>1. PICK j \in C : Parent[j] \notin C
  <2>1. C \in SUBSET Items /\ C # {}
    OBVIOUS
  <2> HIDE DEF C
  <2> QED
    BY <2>1, Highest
<1>2. Parent[j] # Top /\ Parent[j] \in Items /\ (c = Parent[j] \/ c \in Above[Parent[j]])
  BY AboveParent, Parents
<1>3. d \in Above[Parent[j]]
  BY <1>1, <1>2
<1> QED
  BY <1>2, <1>3, AboveParent

\* Nothing is above itself.
LEMMA NotAboveItself ==
  ASSUME NEW d \in Items
  PROVE  d \notin Above[d]
<1>1. PICK depth \in [Items -> Nat] :
        \A i \in Items : Parent[i] # Top => depth[Parent[i]] < depth[i]
  BY Depths
<1> DEFINE C == {i \in Items : \E x \in Items : x \in Above[i] /\ ~ (depth[x] < depth[i])}
<1>2. C = {}
  <2> SUFFICES ASSUME C # {} PROVE FALSE
    OBVIOUS
  <2>1. PICK i \in C : Parent[i] \notin C
    <3>1. C \in SUBSET Items
      OBVIOUS
    <3> HIDE DEF C
    <3> QED
      BY <3>1, Highest
  <2>2. PICK x \in Items : x \in Above[i] /\ ~ (depth[x] < depth[i])
    OBVIOUS
  <2>3. PICK p \in Items : p = Parent[i] /\ p # Top /\ (x = p \/ x \in Above[p])
    BY <2>2, AboveParent, Parents
  <2>4. depth[p] < depth[i]
    BY <1>1, <2>3
  <2>5. x \in Above[p] => depth[x] < depth[p]
    BY <2>1, <2>3
  <2>6. depth[x] \in Nat /\ depth[p] \in Nat /\ depth[i] \in Nat
    OBVIOUS
  <2> HIDE DEF C
  <2> QED
    BY <2>2, <2>3, <2>4, <2>5, <2>6
<1>3. d \in Above[d] => ~ (depth[d] < depth[d])
  <2>1. depth[d] \in Nat
    OBVIOUS
  <2> QED
    BY <2>1
<1> QED
  BY <1>2, <1>3

\* All that is in a place, the root included.
Under(d) == {i \in Items : d = Top \/ d \in Above[i]}
Kids(d) == {c \in Dirs : Parent[c] = d}

\* What is under a place is directly in it, or under one of the folders directly in it.
LEMMA UnderSplit ==
  ASSUME NEW d \in Places
  PROVE  Under(d) = ChildrenOf(d) \cup UNION {Under(c) : c \in Kids(d)}
<1>1. ASSUME NEW i \in Items, Parent[i] = d
      PROVE  i \in Under(d)
  BY <1>1, AboveParent DEF Under
<1>2. ASSUME NEW c \in Kids(d), NEW i \in Under(c)
      PROVE  i \in Under(d)
  <2>1. c \in Items /\ c # Top /\ c \in Above[i] /\ i \in Items /\ Parent[c] = d
    BY Parents DEF Under, Kids
  <2>2. d # Top => d \in Above[c]
    BY <2>1, AboveParent
  <2> QED
    BY <2>1, <2>2, AboveTrans DEF Under
<1> DEFINE C == {i \in Under(d) : Parent[i] # d /\ \A c \in Kids(d) : i \notin Under(c)}
<1>3. C = {}
  <2> SUFFICES ASSUME C # {} PROVE FALSE
    OBVIOUS
  <2>1. PICK i \in C : Parent[i] \notin C
    <3>1. C \in SUBSET Items
      BY DEF Under
    <3> HIDE DEF C
    <3> QED
      BY <3>1, Highest
  <2>2. i \in Items /\ i \in Under(d) /\ Parent[i] # d /\ \A c \in Kids(d) : i \notin Under(c)
    BY DEF Under
  <2>3. PICK p \in Dirs : p = Parent[i] /\ p \in Items /\ p # Top
    <3>1. Parent[i] # Top
      BY <2>2, AboveParent DEF Under
    <3> QED
      BY <2>2, <3>1, Parents
  <2>4. p \in Under(d)
    BY <2>2, <2>3, AboveParent DEF Under
  <2>5. p \in Kids(d) => i \in Under(p)
    BY <2>2, <2>3, AboveParent DEF Under
  <2>6. Parent[p] # d
    BY <2>2, <2>5 DEF Kids
  <2>7. PICK c \in Kids(d) : p \in Under(c)
    BY <2>1, <2>3, <2>4, <2>6
  <2>8. c # Top /\ c \in Above[p]
    BY <2>7, Parents DEF Under, Kids
  <2>9. i \in Under(c)
    BY <2>2, <2>3, <2>8, AboveParent DEF Under
  <2> QED
    BY <2>2, <2>9
<1>4. ASSUME NEW i \in Under(d)
      PROVE  i \in ChildrenOf(d) \cup UNION {Under(c) : c \in Kids(d)}
  BY <1>3 DEF Under, ChildrenOf
<1> QED
  BY <1>1, <1>2, <1>4 DEF ChildrenOf

\* Those parts do not meet.
LEMMA UnderApart ==
  ASSUME NEW d \in Places, NEW c \in Kids(d)
  PROVE  /\ ChildrenOf(d) \cap Under(c) = {}
         /\ \A e \in Kids(d) : e # c => Under(e) \cap Under(c) = {}
<1>0. c \in Items /\ c # Top /\ Parent[c] = d
  BY Parents DEF Kids
<1>1. ASSUME NEW i \in Items, i \in ChildrenOf(d), i \in Under(c)
      PROVE  FALSE
  <2>1. d # Top /\ (c = d \/ c \in Above[d]) /\ Parent[i] = d
    BY <1>0, <1>1, AboveParent DEF ChildrenOf, Under
  <2>2. d \in Items /\ d \in Above[c]
    BY <1>0, <2>1, AboveParent, Parents
  <2> QED
    BY <1>0, <2>1, <2>2, AboveTrans, NotAboveItself
<1>2. ASSUME NEW e \in Kids(d), e # c
      PROVE  Under(e) \cap Under(c) = {}
  <2> DEFINE C == {i \in Items : e \in Above[i] /\ c \in Above[i]}
  <2>1. e \in Items /\ e # Top /\ Parent[e] = d
    BY Parents DEF Kids
  <2>2. C = {}
    <3> SUFFICES ASSUME C # {} PROVE FALSE
      OBVIOUS
    <3>1. PICK i \in C : Parent[i] \notin C
      <4>1. C \in SUBSET Items
        OBVIOUS
      <4> HIDE DEF C
      <4> QED
        BY <4>1, Highest
    <3>2. PICK p \in Items : /\ p = Parent[i] /\ p # Top
                             /\ e = p \/ e \in Above[p]
                             /\ c = p \/ c \in Above[p]
      BY AboveParent, Parents
    <3>3. (e = p /\ c \in Above[e]) \/ (c = p /\ e \in Above[c])
      BY <1>2, <3>1, <3>2
    <3>4. d # Top /\ d \in Items /\ d \in Above[e] /\ d \in Above[c]
      BY <1>0, <2>1, <3>3, AboveParent, Parents
    <3>5. (c = d \/ c \in Above[d]) \/ (e = d \/ e \in Above[d])
      BY <1>0, <2>1, <3>3, AboveParent
    <3>6. d \in Above[d]
      BY <1>0, <2>1, <3>4, <3>5, AboveTrans
    <3> QED
      BY <3>4, <3>6, NotAboveItself
  <2> QED
    BY <1>0, <2>1, <2>2 DEF Under
<1> QED
  BY <1>1, <1>2 DEF ChildrenOf

\* Counting in parts, those left out in which there is nothing to count.
LEMMA CountSplit ==
  ASSUME NEW d \in Places, NEW D \in SUBSET Kids(d), NEW X \in SUBSET Items,
         \A c \in Kids(d) : c \notin D => Under(c) \cap X = {},
         NEW g, \A c \in D : g[c] = Cardinality(Under(c) \cap X)
  PROVE  /\ Cardinality(Under(d) \cap X) =
              Cardinality(ChildrenOf(d) \cap X) + SumFunctionOnSet(g, D)
         /\ SumFunctionOnSet(g, D) \in Nat
<1> DEFINE F == [c \in D |-> Under(c) \cap X]
           rest == UNION {F[c] : c \in D}
<1>1. IsFiniteSet(Items) /\ IsFiniteSet(D)
  <2>1. D \in SUBSET Items
    BY Parents DEF Kids
  <2> QED
    BY <2>1, TreeAssumption, FS_Subset
<1>2. SumFunctionOnSet(g, D) = Cardinality(rest)
  <2>1. F \in [D -> SUBSET Items]
    BY DEF Under
  <2>2. \A c, e \in D : c # e => F[c] \cap F[e] = {}
    BY UnderApart
  <2>3. \A c \in D : g[c] = Cardinality(F[c])
    OBVIOUS
  <2> HIDE DEF F
  <2> QED
    BY <1>1, <2>1, <2>2, <2>3, SumOfParts
<1>3. PICK here, below : here = ChildrenOf(d) \cap X /\ below = rest
  OBVIOUS
<1>4. Under(d) \cap X = here \cup below
  BY <1>3, UnderSplit
<1>5. here \cap below = {}
  BY <1>3, UnderApart
<1>6. IsFiniteSet(here) /\ IsFiniteSet(below)
  <2>1. here \in SUBSET Items /\ below \in SUBSET Items
    BY <1>3
  <2> QED
    BY <1>1, <2>1, FS_Subset
<1>7. Cardinality(here \cup below) = Cardinality(here) + Cardinality(below)
  <2>1. Cardinality(here \cup below) =
          Cardinality(here) + Cardinality(below) - Cardinality(here \cap below)
    BY <1>6, FS_Union
  <2>2. Cardinality(here) \in Nat /\ Cardinality(below) \in Nat
    BY <1>6, FS_CardinalityType
  <2>3. Cardinality(here \cap below) = 0
    BY <1>5, FS_EmptySet
  <2> QED
    BY <2>1, <2>2, <2>3
<1>8. Cardinality(below) \in Nat
  BY <1>6, FS_CardinalityType
<1> HIDE DEF F
<1> QED
  BY <1>2, <1>3, <1>4, <1>7, <1>8
-----------------------------------------------------------------------------
(* The walk *)

\* What a walk from d finds if it misses nothing.
Tally(d) ==
  [adds |-> Cardinality(Under(d) \cap {i \in Items : Added(i)}),
   mods |-> Cardinality(Under(d) \cap {i \in Items : Changed(i)}),
   dels |-> Cardinality(Under(d) \cap {i \in Items : Deleted(i)})]

\* One level of the walk, of which w says what it found further down.
Level(w, d) ==
  [adds |-> Cardinality({i \in ChildrenOf(d) : Added(i)}) +
              SumFunction([c \in DirChildren(d) |-> w[c].adds]),
   mods |-> Cardinality({i \in ChildrenOf(d) : Changed(i)}) +
              SumFunction([c \in DirChildren(d) |-> w[c].mods]),
   dels |-> Cardinality({i \in ChildrenOf(d) : Deleted(i)}) +
              SumFunction([c \in DirChildren(d) |-> w[c].dels])]

LEMMA WalkedLevel ==
  ASSUME NEW w, w = [d \in Places |-> Level(w, d)]
  PROVE  Walked = [d \in Places |-> Level(Walked, d)]
BY DEF Walked, Level, Places

\* The folders that the walk does not enter have no changes in them.
Entered ==
  \A d \in Places : \A c \in Kids(d) : c \notin DirChildren(d) =>
    \A i \in Under(c) : ~ Added(i) /\ ~ Changed(i) /\ ~ Deleted(i)

LEMMA TallyLevel ==
  ASSUME Entered, NEW d \in Places, NEW w, \A c \in DirChildren(d) : w[c] = Tally(c)
  PROVE  Tally(d) = Level(w, d)
<1>0. DirChildren(d) \in SUBSET Kids(d)
  BY DEF DirChildren, Kids, ChildrenOf
<1>1. Tally(d).adds = Level(w, d).adds
  <2> DEFINE X == {i \in Items : Added(i)}
             g == [c \in DirChildren(d) |-> w[c].adds]
  <2>1. \A c \in Kids(d) : c \notin DirChildren(d) => Under(c) \cap X = {}
    BY DEF Entered
  <2>2. ASSUME NEW c \in DirChildren(d)
        PROVE  g[c] = Cardinality(Under(c) \cap X)
    <3>1. g[c] = w[c].adds /\ w[c] = Tally(c)
      OBVIOUS
    <3>2. Tally(c).adds = Cardinality(Under(c) \cap X)
      BY DEF Tally
    <3> HIDE DEF g, X
    <3> QED
      BY <3>1, <3>2, Zenon
  <2>3. Cardinality(Under(d) \cap X) =
          Cardinality(ChildrenOf(d) \cap X) + SumFunctionOnSet(g, DirChildren(d))
    <3> HIDE DEF g
    <3>1. X \in SUBSET Items
      OBVIOUS
    <3> HIDE DEF X
    <3> QED
      BY <1>0, <2>1, <2>2, <3>1, CountSplit
  <2>4. SumFunctionOnSet(g, DirChildren(d)) = SumFunction(g)
    BY DEF SumFunction
  <2>5. ChildrenOf(d) \cap X = {i \in ChildrenOf(d) : Added(i)}
    BY DEF ChildrenOf
  <2> QED
    BY <2>3, <2>4, <2>5 DEF Tally, Level
<1>2. Tally(d).mods = Level(w, d).mods
  <2> DEFINE X == {i \in Items : Changed(i)}
             g == [c \in DirChildren(d) |-> w[c].mods]
  <2>1. \A c \in Kids(d) : c \notin DirChildren(d) => Under(c) \cap X = {}
    BY DEF Entered
  <2>2. ASSUME NEW c \in DirChildren(d)
        PROVE  g[c] = Cardinality(Under(c) \cap X)
    <3>1. g[c] = w[c].mods /\ w[c] = Tally(c)
      OBVIOUS
    <3>2. Tally(c).mods = Cardinality(Under(c) \cap X)
      BY DEF Tally
    <3> HIDE DEF g, X
    <3> QED
      BY <3>1, <3>2, Zenon
  <2>3. Cardinality(Under(d) \cap X) =
          Cardinality(ChildrenOf(d) \cap X) + SumFunctionOnSet(g, DirChildren(d))
    <3> HIDE DEF g
    <3>1. X \in SUBSET Items
      OBVIOUS
    <3> HIDE DEF X
    <3> QED
      BY <1>0, <2>1, <2>2, <3>1, CountSplit
  <2>4. SumFunctionOnSet(g, DirChildren(d)) = SumFunction(g)
    BY DEF SumFunction
  <2>5. ChildrenOf(d) \cap X = {i \in ChildrenOf(d) : Changed(i)}
    BY DEF ChildrenOf
  <2> QED
    BY <2>3, <2>4, <2>5 DEF Tally, Level
<1>3. Tally(d).dels = Level(w, d).dels
  <2> DEFINE X == {i \in Items : Deleted(i)}
             g == [c \in DirChildren(d) |-> w[c].dels]
  <2>1. \A c \in Kids(d) : c \notin DirChildren(d) => Under(c) \cap X = {}
    BY DEF Entered
  <2>2. ASSUME NEW c \in DirChildren(d)
        PROVE  g[c] = Cardinality(Under(c) \cap X)
    <3>1. g[c] = w[c].dels /\ w[c] = Tally(c)
      OBVIOUS
    <3>2. Tally(c).dels = Cardinality(Under(c) \cap X)
      BY DEF Tally
    <3> HIDE DEF g, X
    <3> QED
      BY <3>1, <3>2, Zenon
  <2>3. Cardinality(Under(d) \cap X) =
          Cardinality(ChildrenOf(d) \cap X) + SumFunctionOnSet(g, DirChildren(d))
    <3> HIDE DEF g
    <3>1. X \in SUBSET Items
      OBVIOUS
    <3> HIDE DEF X
    <3> QED
      BY <1>0, <2>1, <2>2, <3>1, CountSplit
  <2>4. SumFunctionOnSet(g, DirChildren(d)) = SumFunction(g)
    BY DEF SumFunction
  <2>5. ChildrenOf(d) \cap X = {i \in ChildrenOf(d) : Deleted(i)}
    BY DEF ChildrenOf
  <2> QED
    BY <2>3, <2>4, <2>5 DEF Tally, Level
<1> QED
  BY <1>1, <1>2, <1>3 DEF Tally, Level

\* What the recursion computes.
LEMMA WalkedTally ==
  ASSUME Entered, NEW d \in Places
  PROVE  Walked[d] = Tally(d)
<1> DEFINE w == [e \in Places |-> Tally(e)]
<1>0. \A e \in Places : \A c \in DirChildren(e) : c \in Places
  BY DEF DirChildren, Places
<1>1. w = [e \in Places |-> Level(w, e)]
  <2>1. \A e \in Places : Tally(e) = Level(w, e)
    <3>1. \A e \in Places : \A c \in DirChildren(e) : w[c] = Tally(c)
      BY <1>0
    <3> HIDE DEF w
    <3> QED
      BY <3>1, TallyLevel
  <2> QED
    BY <2>1
<1> HIDE DEF w
<1>2. Walked = [e \in Places |-> Level(Walked, e)]
  BY <1>1, WalkedLevel
<1> SUFFICES ASSUME Walked[d] # Tally(d) PROVE FALSE
  OBVIOUS
<1> DEFINE C == {e \in Places : Walked[e] # Tally(e)}
<1>3. PICK e \in C : \A c \in Dirs : Parent[c] = e => c \notin C
  <2>1. C \in SUBSET Places /\ C # {}
    OBVIOUS
  <2> HIDE DEF C
  <2> QED
    BY <2>1, Lowest
<1>4. \A c \in DirChildren(e) : Walked[c] = Tally(c)
  BY <1>0, <1>3 DEF DirChildren, ChildrenOf
<1>5. Tally(e) = Level(Walked, e)
  BY <1>4, TallyLevel
<1> QED
  BY <1>2, <1>3, <1>5

\* The recursion gets to a folder when it enters it and gets to the one it is in.
LEMMA ReachedStep ==
  ASSUME NEW d \in Dirs
  PROVE  Reached[d] <=> /\ d \in DirChildren(Parent[d])
                        /\ Parent[d] = Top \/ Reached[Parent[d]]
<1> DEFINE path(S) == \A e \in S : /\ e \in DirChildren(Parent[e])
                                   /\ Parent[e] = Top \/ Parent[e] \in S
           r == [e \in Dirs |-> \E S \in SUBSET Dirs : e \in S /\ path(S)]
<1>1. ASSUME NEW e \in Dirs
      PROVE  r[e] = (e \in DirChildren(Parent[e]) /\ (Parent[e] = Top \/ r[Parent[e]]))
  <2>0. e \in Items /\ (Parent[e] # Top => Parent[e] \in Dirs)
    BY Parents
  <2>1. ASSUME r[e]
        PROVE  e \in DirChildren(Parent[e]) /\ (Parent[e] = Top \/ r[Parent[e]])
    BY <2>0, <2>1
  <2>2. ASSUME e \in DirChildren(Parent[e]), Parent[e] = Top
        PROVE  r[e]
    <3>1. {e} \in SUBSET Dirs /\ e \in {e} /\ path({e})
      BY <2>2
    <3> QED
      BY <3>1
  <2>3. ASSUME e \in DirChildren(Parent[e]), Parent[e] # Top, r[Parent[e]]
        PROVE  r[e]
    <3>1. PICK S \in SUBSET Dirs : Parent[e] \in S /\ path(S)
      BY <2>0, <2>3
    <3>2. S \cup {e} \in SUBSET Dirs /\ e \in S \cup {e} /\ path(S \cup {e})
      BY <2>3, <3>1
    <3> QED
      BY <3>2
  <2>4. r[e] \in BOOLEAN
    OBVIOUS
  <2> HIDE DEF r
  <2> QED
    BY <2>1, <2>2, <2>3, <2>4
<1>2. r = [e \in Dirs |-> e \in DirChildren(Parent[e]) /\ (Parent[e] = Top \/ r[Parent[e]])]
  <2>1. r = [e \in Dirs |-> r[e]]
    OBVIOUS
  <2> HIDE DEF r
  <2> QED
    BY <1>1, <2>1
<1> HIDE DEF r
<1>3. Reached = [e \in Dirs |->
                   e \in DirChildren(Parent[e]) /\ (Parent[e] = Top \/ Reached[Parent[e]])]
  BY <1>2 DEF Reached
<1> QED
  BY <1>3
-----------------------------------------------------------------------------
(* The invariant *)

FateNames == {"kept", "modified", "deleted", "added", "absent"}
MadeNow == {"added", "modified", "deleted"}
WasNames == {"kept", "modified", "deleted"}
NowNames == {"kept", "modified", "added"}

Typed ==
  /\ versions \subseteq [item: Items, first: 1 .. scan, alive: BOOLEAN, counts: Counts]
  /\ scan \in 0 .. MaxScans /\ pc \in {"idle", "counting", "writing"}
  /\ fates \in [Items -> FateNames]
  /\ resumed \in BOOLEAN /\ faults \in 0 .. MaxFaults

\* An item has one version of a scan (the primary key of item_versions).
Keyed == \A v, w \in versions : v.item = w.item /\ v.first = w.first => v = w

\* The versions of this scan and the ones before say what the scan found of an item.
Fits(i) ==
  /\ AliveIn(Before(i, scan)) <=> fates[i] \in WasNames
  /\ \A v \in At(i, scan) : v.alive <=> fates[i] # "deleted"
  /\ fates[i] \in MadeNow => At(i, scan) # {}
  /\ fates[i] = "absent" => At(i, scan) = {}

\* Nothing is, or was, there without the folder it is in.
Rooted ==
  \A i \in Items : Parent[i] # Top =>
    /\ fates[i] \in WasNames => fates[Parent[i]] \in WasNames
    /\ fates[i] \in NowNames => fates[Parent[i]] \in NowNames

\* What was alive below a folder before the scan.
WasBelow(d) == Fated(d, "kept") + Fated(d, "modified") + Fated(d, "deleted")
NowBelow(d) == Fated(d, "kept") + Fated(d, "modified") + Fated(d, "added")

Based == \A d \in Dirs : \A v \in Before(d, scan) : Total(v.counts) = WasBelow(d)

\* Counts as the walk computes them. In a resumed scan the folders that were written
\* before the interrupt count as modified themselves.
Good(d, c) ==
  /\ c.adds = Fated(d, "added") /\ c.dels = Fated(d, "deleted")
  /\ c.mods \in Nat /\ c.unchanged \in Nat
  /\ c.mods + c.dels + c.unchanged = WasBelow(d)
  /\ ~resumed => c.mods = Fated(d, "modified")

\* Counts as the first three phases leave them.
Plain(d, c) ==
  /\ fates[d] \in MadeNow
  /\ c.adds = 0 /\ c.mods = 0 /\ c.dels = 0
  /\ fates[d] = "modified" => c.unchanged = WasBelow(d)
  /\ fates[d] # "modified" => c.unchanged = 0

Noted == \A d \in Dirs : \A v \in At(d, scan) : Good(d, v.counts) \/ Plain(d, v.counts)

\* Nothing below d was added, modified or deleted.
Still(d) == \A i \in Below(d) : fates[i] \notin MadeNow

Listed ==
  /\ pc # "writing" => writes = {}
  /\ \A w \in writes :
       /\ w.folder \in Dirs /\ w.counts \in Counts /\ Good(w.folder, w.counts)
       /\ fates[w.folder] # "absent" /\ ~ Still(w.folder)

Pending(d) == \E w \in writes : w.folder = d

Counted(d) ==
  /\ \A v \in At(d, scan) : Good(d, v.counts)
  /\ At(d, scan) = {} => Still(d)

Finished == pc # "counting" => \A d \in Dirs : Pending(d) \/ Counted(d)

\* A folder that was only kept has a version of the scan for what is below it,
OnlyForBelow == \A i \in Items : At(i, scan) # {} /\ fates[i] = "kept" => ~ Still(i)

\* and none before the counts are written.
NotYet ==
  pc = "counting" /\ ~resumed => \A i \in Items : fates[i] = "kept" => At(i, scan) = {}

Summed ==
  /\ totals \in [scan: 0 .. scan, adds: Nat, mods: Nat, dels: Nat]
  /\ pc # "idle" => totals.scan < scan
  /\ totals.scan = scan /\ scan > 0 =>
       totals.adds = Fates("added") /\ totals.dels = Fates("deleted")

CountInv ==
  /\ Typed /\ Keyed /\ (\A i \in Items : Fits(i)) /\ Rooted /\ Based /\ Noted /\ Listed
  /\ Finished /\ OnlyForBelow /\ NotYet /\ Summed
-----------------------------------------------------------------------------
(* Counting by fate *)

LEMMA SubsetsFinite ==
  ASSUME NEW S \in SUBSET Items
  PROVE  IsFiniteSet(S) /\ Cardinality(S) \in Nat /\ (Cardinality(S) = 0 <=> S = {})
BY TreeAssumption, FS_Subset, FS_CardinalityType, FS_EmptySet

LEMMA TwoParts ==
  ASSUME NEW S \in SUBSET Items, NEW T \in SUBSET Items, S \cap T = {}
  PROVE  Cardinality(S \cup T) = Cardinality(S) + Cardinality(T)
<1>1. Cardinality(S \cup T) = Cardinality(S) + Cardinality(T) - Cardinality(S \cap T)
  BY SubsetsFinite, FS_Union
<1>2. Cardinality(S) \in Nat /\ Cardinality(T) \in Nat
  BY SubsetsFinite
<1>3. Cardinality(S \cap T) = 0
  BY FS_EmptySet
<1> QED
  BY <1>1, <1>2, <1>3

\* Those of B of which f says x, and those of which it says one of three.
Share(f, B, x) == Cardinality({i \in B : f[i] = x})
Shares(f, B, a, b, c) == Cardinality({i \in B : f[i] \in {a, b, c}})

LEMMA ThreeParts ==
  ASSUME NEW f, NEW B \in SUBSET Items, NEW a, NEW b, NEW c, a # b, b # c, a # c
  PROVE  Shares(f, B, a, b, c) = Share(f, B, a) + Share(f, B, b) + Share(f, B, c)
<1>1. PICK A, C, D : /\ A = {i \in B : f[i] = a} /\ C = {i \in B : f[i] = b}
                     /\ D = {i \in B : f[i] = c}
  OBVIOUS
<1>2. A \in SUBSET Items /\ C \in SUBSET Items /\ D \in SUBSET Items /\ A \cup C \in SUBSET Items
  BY <1>1
<1>3. A \cap C = {} /\ (A \cup C) \cap D = {}
  BY <1>1
<1>4. Cardinality(A \cup C) = Cardinality(A) + Cardinality(C)
  BY <1>2, <1>3, TwoParts
<1>5. Cardinality((A \cup C) \cup D) = Cardinality(A \cup C) + Cardinality(D)
  BY <1>2, <1>3, TwoParts
<1>6. (A \cup C) \cup D = {i \in B : f[i] \in {a, b, c}}
  BY <1>1
<1> QED
  BY <1>1, <1>4, <1>5, <1>6 DEF Share, Shares

LEMMA FewerOf ==
  ASSUME NEW S \in SUBSET Items, NEW T \in SUBSET S
  PROVE  Cardinality(T) <= Cardinality(S)
BY SubsetsFinite, FS_Subset

LEMMA BelowItems == \A d : Below(d) \in SUBSET Items
BY DEF Below

LEMMA FatedNat ==
  ASSUME NEW d, NEW x
  PROVE  /\ Fated(d, x) \in Nat
         /\ Fated(d, x) = 0 <=> \A i \in Below(d) : fates[i] # x
<1>1. {i \in Below(d) : fates[i] = x} \in SUBSET Items
  BY DEF Below
<1> QED
  BY <1>1, SubsetsFinite DEF Fated

LEMMA WasNowBelow ==
  ASSUME NEW d
  PROVE  /\ WasBelow(d) = Cardinality({i \in Below(d) : fates[i] \in WasNames})
         /\ NowBelow(d) = Cardinality({i \in Below(d) : fates[i] \in NowNames})
         /\ WasBelow(d) \in Nat /\ NowBelow(d) \in Nat
<1>1. Below(d) \in SUBSET Items
  BY BelowItems
<1>2. PICK B : B = Below(d)
  OBVIOUS
<1>3. PICK f : f = fates
  OBVIOUS
<1> B \in SUBSET Items
  BY <1>1, <1>2
<1>3a. PICK a, b, c, e : a = "kept" /\ b = "modified" /\ c = "deleted" /\ e = "added"
  OBVIOUS
<1>3b. a # b /\ b # c /\ a # c /\ b # e /\ a # e
  BY <1>3a
<1>4. /\ Shares(f, B, a, b, c) = Share(f, B, a) + Share(f, B, b) + Share(f, B, c)
      /\ Shares(f, B, a, b, e) = Share(f, B, a) + Share(f, B, b) + Share(f, B, e)
  BY <1>3b, ThreeParts
<1>5. WasBelow(d) \in Nat /\ NowBelow(d) \in Nat
  BY FatedNat DEF WasBelow, NowBelow
<1> QED
  BY <1>2, <1>3, <1>3a, <1>4, <1>5
  DEF WasBelow, NowBelow, Fated, Share, Shares, WasNames, NowNames

LEMMA StillCounts ==
  ASSUME NEW d
  PROVE  Still(d) <=> /\ Fated(d, "added") = 0 /\ Fated(d, "modified") = 0
                      /\ Fated(d, "deleted") = 0
BY FatedNat DEF Still, MadeNow

\* What is below a folder that was not, or is not, there was, or is, not there either.
LEMMA BelowRooted ==
  ASSUME Rooted, NEW d \in Dirs, NEW i \in Below(d)
  PROVE  /\ fates[i] \in WasNames => fates[d] \in WasNames
         /\ fates[i] \in NowNames => fates[d] \in NowNames
<1> DEFINE C == {j \in Below(d) : ~ (/\ fates[j] \in WasNames => fates[d] \in WasNames
                                     /\ fates[j] \in NowNames => fates[d] \in NowNames)}
<1> SUFFICES ASSUME C # {} PROVE FALSE
  OBVIOUS
<1>1. PICK j \in C : Parent[j] \notin C
  <2>1. C \in SUBSET Items
    BY DEF Below
  <2> HIDE DEF C
  <2> QED
    BY <2>1, Highest
<1>2. j \in Items /\ d \in Above[j]
  BY DEF Below
<1>3. Parent[j] # Top /\ Parent[j] \in Items /\ (d = Parent[j] \/ d \in Above[Parent[j]])
  BY <1>2, AboveParent, Parents
<1>4. /\ fates[j] \in WasNames => fates[Parent[j]] \in WasNames
      /\ fates[j] \in NowNames => fates[Parent[j]] \in NowNames
  BY <1>2, <1>3 DEF Rooted
<1>5. d # Parent[j] => Parent[j] \in Below(d)
  BY <1>3 DEF Below
<1> QED
  BY <1>1, <1>3, <1>4, <1>5
-----------------------------------------------------------------------------
(* Versions *)

LEMMA OneRow ==
  ASSUME Typed, Keyed, NEW i, NEW s
  PROVE  /\ \A v, w \in At(i, s) : v = w
         /\ \A v, w \in Before(i, s) : v = w
<1>1. ASSUME NEW v \in Before(i, s), NEW w \in Before(i, s)
      PROVE  v = w
  <2>1. v \in versions /\ w \in versions /\ v.item = w.item
    BY DEF Before, RowsOf
  <2>2. v.first <= w.first /\ w.first <= v.first
    BY DEF Before
  <2>3. v.first \in Int /\ w.first \in Int
    BY <2>1 DEF Typed
  <2>4. v.first = w.first
    BY <2>2, <2>3
  <2> QED
    BY <2>1, <2>4 DEF Keyed
<1> QED
  BY <1>1 DEF At, RowsOf, Keyed

LEMMA CurrentIs ==
  ASSUME Typed, NEW i
  PROVE  /\ At(i, scan) # {} => Current(i) = At(i, scan)
         /\ At(i, scan) = {} => Current(i) = Before(i, scan)
<1>1. scan \in Nat /\ \A v \in versions : v.first \in 1 .. scan
  BY DEF Typed, FolderAssumption
<1>2. \A v \in RowsOf(i) : v.first \in 1 .. scan
  BY <1>1 DEF RowsOf
<1>3. ASSUME NEW u \in At(i, scan)
      PROVE  Current(i) = At(i, scan)
  BY <1>1, <1>2 DEF Current, Before, At
<1>4. ASSUME At(i, scan) = {}
      PROVE  \A v \in RowsOf(i) : v.first < scan /\ v.first < scan + 1
  BY <1>1, <1>2, <1>4 DEF At
<1>5. ASSUME At(i, scan) = {}
      PROVE  Current(i) = Before(i, scan)
  BY <1>4, <1>5 DEF Current, Before
<1> QED
  BY <1>3, <1>5

\* query_prev_alive finds the version before, and nothing when there is none.
LEMMA PrevAliveIs ==
  ASSUME Typed, Keyed, NEW i, NEW s
  PROVE  /\ \A v \in Before(i, s) : PrevAlive(i, s) = Total(v.counts)
         /\ Before(i, s) = {} => PrevAlive(i, s) = 0
<1> DEFINE g == [v \in Before(i, s) |-> Total(v.counts)]
<1>1. PrevAlive(i, s) = SumFunctionOnSet(g, Before(i, s))
  BY DEF PrevAlive, SumFunction
<1>2. ASSUME NEW v \in Before(i, s)
      PROVE  PrevAlive(i, s) = Total(v.counts)
  <2>1. Before(i, s) = {v}
    BY OneRow
  <2>2. g[v] = Total(v.counts)
    OBVIOUS
  <2>3. Total(v.counts) \in Int
    <3>1. v \in versions
      BY DEF Before, RowsOf
    <3>2. v.counts \in Counts
      BY <3>1 DEF Typed
    <3> QED
      BY <3>2 DEF Total, Counts
  <2> HIDE DEF g
  <2> QED
    BY <1>1, <2>1, <2>2, <2>3, SumOne
<1>3. ASSUME Before(i, s) = {}
      PROVE  PrevAlive(i, s) = 0
  <2> HIDE DEF g
  <2> QED
    BY <1>1, <1>3, FS_EmptySet, SumStep
<1> QED
  BY <1>2, <1>3
-----------------------------------------------------------------------------
(* What the walk finds *)

LEMMA ChangesAre ==
  ASSUME Typed, NEW i \in Items, Fits(i)
  PROVE  /\ Added(i) <=> fates[i] = "added"
         /\ Deleted(i) <=> fates[i] = "deleted"
         /\ Changed(i) => fates[i] \in {"kept", "modified"}
         /\ fates[i] = "modified" => Changed(i)
         /\ At(i, scan) = {} => ~ Changed(i)
<1>1. fates[i] \in FateNames
  BY DEF Typed
<1>2. AliveIn(Before(i, scan)) <=> fates[i] \in WasNames
  BY DEF Fits
<1>3. AliveIn(At(i, scan)) <=> At(i, scan) # {} /\ fates[i] # "deleted"
  BY DEF Fits, AliveIn
<1>4. /\ fates[i] \in MadeNow => At(i, scan) # {}
      /\ fates[i] = "absent" => At(i, scan) = {}
  BY DEF Fits
<1> QED
  BY <1>1, <1>2, <1>3, <1>4 DEF Added, Deleted, Changed, FateNames, WasNames, MadeNow

AllFit == \A i \in Items : Fits(i)

\* A folder that the walk does not enter was not there and is not, and so was nothing in it.
LEMMA NotEntered ==
  ASSUME Typed, AllFit, Rooted, NEW c \in Dirs, c \notin DirChildren(Parent[c])
  PROVE  /\ fates[c] = "absent"
         /\ \A i \in Below(c) : fates[i] = "absent"
<1>1. c \in Items /\ c \in ChildrenOf(Parent[c])
  BY Parents DEF ChildrenOf
<1>2. \A v \in Current(c) : ~ v.alive /\ v.first # scan
  BY <1>1 DEF DirChildren
<1>3. At(c, scan) = {}
  BY <1>2, CurrentIs DEF At
<1>4. ~ AliveIn(Before(c, scan))
  BY <1>2, <1>3, CurrentIs DEF AliveIn
<1>5. Fits(c) /\ fates[c] \in FateNames
  BY <1>1 DEF AllFit, Typed
<1>6. fates[c] = "absent"
  BY <1>3, <1>4, <1>5 DEF Fits, FateNames, WasNames, MadeNow
<1>7. ASSUME NEW i \in Below(c)
      PROVE  fates[i] = "absent"
  <2>1. fates[i] \notin WasNames /\ fates[i] \notin NowNames
    BY <1>6, BelowRooted DEF WasNames, NowNames
  <2>2. fates[i] \in FateNames
    BY DEF Below, Typed
  <2> QED
    BY <2>1, <2>2 DEF FateNames, WasNames, NowNames
<1> QED
  BY <1>6, <1>7

LEMMA UnderBelow == ASSUME NEW d \in Dirs PROVE Under(d) = Below(d)
BY Parents DEF Under, Below

LEMMA EntersAll ==
  ASSUME Typed, AllFit, Rooted
  PROVE  Entered
<1> SUFFICES ASSUME NEW d \in Places, NEW c \in Kids(d), c \notin DirChildren(d),
                    NEW i \in Under(c)
             PROVE  ~ Added(i) /\ ~ Changed(i) /\ ~ Deleted(i)
  BY DEF Entered
<1>1. c \in Dirs /\ Parent[c] = d
  BY DEF Kids
<1>2. i \in Below(c) /\ i \in Items
  BY <1>1, UnderBelow DEF Under
<1>3. fates[i] = "absent"
  BY <1>1, <1>2, NotEntered
<1> QED
  BY <1>2, <1>3, ChangesAre DEF AllFit

\* What the walk counts below a folder.
LEMMA WalkedIs ==
  ASSUME Typed, AllFit, Rooted, NEW d \in Dirs
  PROVE  /\ Walked[d].adds = Fated(d, "added")
         /\ Walked[d].dels = Fated(d, "deleted")
         /\ Walked[d].mods \in Nat
         /\ Walked[d].mods <= Fated(d, "kept") + Fated(d, "modified")
         /\ Fated(d, "modified") <= Walked[d].mods
         /\ (\A i \in Below(d) : fates[i] = "kept" => At(i, scan) = {}) =>
              Walked[d].mods = Fated(d, "modified")
<1> DEFINE C == {i \in Items : Changed(i)}
<1>1. Walked[d] = Tally(d)
  BY EntersAll, WalkedTally DEF Places
<1>2. Under(d) = Below(d) /\ Below(d) \in SUBSET Items
  BY UnderBelow, BelowItems
<1>3. \A i \in Below(d) : Fits(i) /\ i \in Items
  BY <1>2 DEF AllFit
<1>4. Walked[d].adds = Fated(d, "added")
  <2>1. Under(d) \cap {i \in Items : Added(i)} = {i \in Below(d) : fates[i] = "added"}
    BY <1>2, <1>3, ChangesAre
  <2> QED
    BY <1>1, <2>1 DEF Tally, Fated
<1>5. Walked[d].dels = Fated(d, "deleted")
  <2>1. Under(d) \cap {i \in Items : Deleted(i)} = {i \in Below(d) : fates[i] = "deleted"}
    BY <1>2, <1>3, ChangesAre
  <2> QED
    BY <1>1, <2>1 DEF Tally, Fated
<1>6. PICK B : B = Below(d) \cap C
  OBVIOUS
<1>7. Walked[d].mods = Cardinality(B) /\ B \in SUBSET Items
  BY <1>1, <1>2, <1>6 DEF Tally
<1>8. PICK K, M : K = {i \in Below(d) : fates[i] = "kept"} /\ M = {i \in Below(d) : fates[i] = "modified"}
  OBVIOUS
<1>9. Fated(d, "kept") = Cardinality(K) /\ Fated(d, "modified") = Cardinality(M)
  BY <1>8 DEF Fated
<1>10. K \in SUBSET Items /\ M \in SUBSET Items /\ K \cup M \in SUBSET Items /\ K \cap M = {}
  BY <1>2, <1>8
<1>11. B \in SUBSET (K \cup M) /\ M \in SUBSET B
  BY <1>2, <1>3, <1>6, <1>8, ChangesAre
<1>12. Cardinality(B) <= Cardinality(K \cup M) /\ Cardinality(M) <= Cardinality(B)
  BY <1>7, <1>10, <1>11, FewerOf
<1>13. Cardinality(K \cup M) = Cardinality(K) + Cardinality(M)
  BY <1>10, TwoParts
<1>14. Cardinality(B) \in Nat
  BY <1>7, SubsetsFinite
<1>15. ASSUME \A i \in Below(d) : fates[i] = "kept" => At(i, scan) = {}
       PROVE  B = M
  <2>1. \A i \in B : i \in Below(d) /\ i \in Items /\ Fits(i) /\ Changed(i)
    BY <1>3, <1>6
  <2>2. \A i \in B : fates[i] \in {"kept", "modified"} /\ At(i, scan) # {}
    BY <2>1, ChangesAre
  <2>3. \A i \in B : i \in M
    BY <1>6, <1>8, <1>15, <2>1, <2>2
  <2> QED
    BY <1>11, <2>3
<1> QED
  BY <1>4, <1>5, <1>7, <1>9, <1>12, <1>13, <1>14, <1>15

LEMMA PrevIs ==
  ASSUME Typed, Keyed, AllFit, Rooted, Based, NEW d \in Dirs
  PROVE  PrevAlive(d, scan) = WasBelow(d)
<1>1. CASE Before(d, scan) = {}
  <2>1. PrevAlive(d, scan) = 0
    BY <1>1, PrevAliveIs
  <2>2. fates[d] \notin WasNames
    BY <1>1, Parents DEF AllFit, Fits, AliveIn
  <2>3. \A i \in Below(d) : fates[i] \notin WasNames
    BY <2>2, BelowRooted
  <2>4. \A i \in Below(d) : fates[i] # "kept" /\ fates[i] # "modified" /\ fates[i] # "deleted"
    BY <2>3 DEF WasNames
  <2>5. Fated(d, "kept") = 0 /\ Fated(d, "modified") = 0 /\ Fated(d, "deleted") = 0
    BY <2>4, FatedNat
  <2> QED
    BY <2>1, <2>5 DEF WasBelow
<1>2. ASSUME NEW v \in Before(d, scan)
      PROVE  PrevAlive(d, scan) = WasBelow(d)
  BY PrevAliveIs DEF Based
<1> QED
  BY <1>1, <1>2

LEMMA ReachedAll ==
  ASSUME Typed, AllFit, Rooted, NEW d \in Dirs, ~ Reached[d]
  PROVE  /\ fates[d] = "absent"
         /\ \A i \in Below(d) : fates[i] = "absent"
<1> DEFINE C == {e \in Dirs : ~ Reached[e] /\ fates[e] # "absent"}
<1>1. C = {}
  <2> SUFFICES ASSUME C # {} PROVE FALSE
    OBVIOUS
  <2>1. PICK e \in C : Parent[e] \notin C
    <3>1. C \in SUBSET Items
      BY Parents
    <3> HIDE DEF C
    <3> QED
      BY <3>1, Highest
  <2>2. e \in DirChildren(Parent[e])
    BY <2>1, NotEntered
  <2>3. Parent[e] # Top /\ ~ Reached[Parent[e]] /\ Parent[e] \in Dirs
    BY <2>1, <2>2, ReachedStep, Parents
  <2>4. fates[Parent[e]] = "absent"
    BY <2>1, <2>3
  <2>5. fates[e] \in FateNames /\ fates[e] # "absent" /\ e \in Below(Parent[e])
    <3>1. Parent[e] \in Above[e]
      BY <2>1, <2>3, AboveParent, Parents
    <3> QED
      BY <2>1, <3>1, Parents DEF Typed, Below
  <2>6. fates[e] \notin WasNames /\ fates[e] \notin NowNames
    BY <2>3, <2>4, <2>5, BelowRooted DEF WasNames, NowNames
  <2> QED
    BY <2>5, <2>6 DEF FateNames, WasNames, NowNames
<1>2. fates[d] = "absent"
  BY <1>1
<1>3. ASSUME NEW i \in Below(d)
      PROVE  fates[i] = "absent"
  <2>1. fates[i] \notin WasNames /\ fates[i] \notin NowNames
    BY <1>2, BelowRooted DEF WasNames, NowNames
  <2>2. fates[i] \in FateNames
    BY DEF Below, Typed
  <2> QED
    BY <2>1, <2>2 DEF FateNames, WasNames, NowNames
<1> QED
  BY <1>2, <1>3

\* The counts the walk computes for a folder.
Tallied(d) ==
  [adds |-> Walked[d].adds, mods |-> Walked[d].mods, dels |-> Walked[d].dels,
   unchanged |-> PrevAlive(d, scan) - Walked[d].mods - Walked[d].dels]

LEMMA TalliedGood ==
  ASSUME Typed, Keyed, AllFit, Rooted, Based, NotYet, pc = "counting", NEW d \in Dirs
  PROVE  Good(d, Tallied(d)) /\ Tallied(d) \in Counts
<1>1. PICK k, m, a, e : /\ k = Fated(d, "kept") /\ m = Fated(d, "modified")
                        /\ a = Fated(d, "added") /\ e = Fated(d, "deleted")
  OBVIOUS
<1>2. k \in Nat /\ m \in Nat /\ a \in Nat /\ e \in Nat
  BY <1>1, FatedNat
<1>3. PICK n : n = Walked[d].mods
  OBVIOUS
<1>4. n \in Nat /\ n <= k + m /\ Walked[d].adds = a /\ Walked[d].dels = e
  BY <1>1, <1>3, WalkedIs
<1>5. ~resumed => n = m
  BY <1>1, <1>3, WalkedIs, BelowItems DEF NotYet
<1>6. PrevAlive(d, scan) = k + m + e /\ WasBelow(d) = k + m + e
  BY <1>1, PrevIs DEF WasBelow
<1>7. PICK u : u = (k + m + e) - n - e
  OBVIOUS
<1>8. u \in Nat /\ n + e + u = k + m + e
  BY <1>2, <1>4, <1>7
<1>9. Tallied(d) = [adds |-> a, mods |-> n, dels |-> e, unchanged |-> u]
  BY <1>3, <1>4, <1>6, <1>7 DEF Tallied
<1>10. Tallied(d) \in Counts
  BY <1>2, <1>4, <1>8, <1>9 DEF Counts
<1>11. Good(d, Tallied(d))
  BY <1>1, <1>4, <1>5, <1>6, <1>8, <1>9 DEF Good
<1> QED
  BY <1>10, <1>11

LEMMA WritesAre ==
  /\ \A w \in FolderWrites :
       /\ w.folder \in Dirs /\ w.counts = Tallied(w.folder) /\ Reached[w.folder]
       /\ Walked[w.folder].adds + Walked[w.folder].mods + Walked[w.folder].dels > 0
  /\ \A d \in Dirs :
       Reached[d] /\ Walked[d].adds + Walked[d].mods + Walked[d].dels > 0 =>
         \E w \in FolderWrites : w.folder = d
<1> DEFINE C == {c \in Dirs : Reached[c] /\ Walked[c].adds + Walked[c].mods + Walked[c].dels > 0}
<1>1. FolderWrites = {[folder |-> d, counts |-> Tallied(d)] : d \in C}
  BY DEF FolderWrites, Tallied
<1>2. ASSUME NEW w \in FolderWrites
      PROVE  w.folder \in C /\ w.counts = Tallied(w.folder)
  <2>1. PICK d \in C : w = [folder |-> d, counts |-> Tallied(d)]
    BY <1>1
  <2>2. w.folder = d /\ w.counts = Tallied(d)
    BY <2>1
  <2> QED
    BY <2>2
<1>3. ASSUME NEW d \in C
      PROVE  \E w \in FolderWrites : w.folder = d
  <2>1. [folder |-> d, counts |-> Tallied(d)] \in FolderWrites
    BY <1>1
  <2> QED
    BY <2>1
<1> QED
  BY <1>2, <1>3

\* A folder with no version of this scan but for its own sake is right as it is, when
\* nothing changed below it.
LEMMA PlainGood ==
  ASSUME Typed, AllFit, Rooted, NEW d \in Dirs, NEW c, Plain(d, c), c \in Counts, Still(d)
  PROVE  Good(d, c)
<1>1. PICK k, m, a, e : /\ k = Fated(d, "kept") /\ m = Fated(d, "modified")
                        /\ a = Fated(d, "added") /\ e = Fated(d, "deleted")
  OBVIOUS
<1>2. k \in Nat /\ m = 0 /\ a = 0 /\ e = 0
  BY <1>1, FatedNat, StillCounts
<1>3. WasBelow(d) = k
  BY <1>1, <1>2 DEF WasBelow
<1>4. ASSUME fates[d] # "modified"
      PROVE  k = 0
  <2>1. fates[d] \notin WasNames \/ fates[d] \notin NowNames
    BY <1>4 DEF Plain, MadeNow, WasNames, NowNames
  <2>2. \A i \in Below(d) : fates[i] # "kept"
    BY <2>1, BelowRooted DEF WasNames, NowNames
  <2> QED
    BY <1>1, <2>2, FatedNat
<1>5. /\ c.adds = 0 /\ c.mods = 0 /\ c.dels = 0
      /\ fates[d] = "modified" => c.unchanged = k
      /\ fates[d] # "modified" => c.unchanged = 0
  BY <1>3 DEF Plain
<1>6. c.unchanged = k
  BY <1>4, <1>5
<1> QED
  BY <1>1, <1>2, <1>3, <1>5, <1>6 DEF Good

\* What the walk leaves out is right as it is.
LEMMA UnwrittenCounted ==
  ASSUME CountInv, pc = "counting", NEW d \in Dirs, \A w \in FolderWrites : w.folder # d
  PROVE  Counted(d)
<1>1. Typed /\ Keyed /\ AllFit /\ Rooted /\ Based /\ Noted /\ NotYet
  BY DEF CountInv, AllFit
<1>2. Still(d)
  <2>1. CASE ~ Reached[d]
    BY <1>1, <2>1, ReachedAll DEF Still, MadeNow
  <2>2. CASE Reached[d]
    <3>1. ~ (Walked[d].adds + Walked[d].mods + Walked[d].dels > 0)
      BY <2>2, WritesAre
    <3>2. /\ Walked[d].adds = Fated(d, "added") /\ Walked[d].dels = Fated(d, "deleted")
          /\ Walked[d].mods \in Nat /\ Fated(d, "modified") <= Walked[d].mods
      BY <1>1, WalkedIs
    <3>3. /\ Fated(d, "added") \in Nat /\ Fated(d, "deleted") \in Nat
          /\ Fated(d, "modified") \in Nat
      BY FatedNat
    <3>4. Fated(d, "added") = 0 /\ Fated(d, "deleted") = 0 /\ Fated(d, "modified") = 0
      BY <3>1, <3>2, <3>3
    <3> QED
      BY <3>4, StillCounts
  <2> QED
    BY <2>1, <2>2
<1>3. ASSUME NEW v \in At(d, scan)
      PROVE  Good(d, v.counts)
  <2>1. v.counts \in Counts
    BY <1>1 DEF At, RowsOf, Typed
  <2>2. Good(d, v.counts) \/ Plain(d, v.counts)
    BY <1>1 DEF Noted
  <2>3. PICK c : c = v.counts
    OBVIOUS
  <2>4. Plain(d, c) => Good(d, c)
    BY <1>1, <1>2, <2>1, <2>3, PlainGood
  <2> QED
    BY <2>2, <2>3, <2>4
<1> QED
  BY <1>2, <1>3 DEF Counted
-----------------------------------------------------------------------------
(* The steps *)

LEMMA InitCount == Init => CountInv
<1> SUFFICES ASSUME Init PROVE CountInv
  OBVIOUS
<1>1. Typed
  <2>1. fates \in [Items -> FateNames]
    BY DEF Init, FateNames
  <2>2. scan \in 0 .. MaxScans /\ faults \in 0 .. MaxFaults
    BY FolderAssumption DEF Init
  <2> QED
    BY <2>1, <2>2 DEF Init, Typed
<1>2. \A i : Before(i, scan) = {} /\ At(i, scan) = {}
  BY DEF Init, Before, At, RowsOf
<1>3. \A i \in Items : fates[i] = "absent"
  BY DEF Init
<1>4. Keyed
  BY DEF Init, Keyed
<1>5. \A i \in Items : Fits(i)
  BY <1>2, <1>3 DEF Fits, AliveIn, WasNames, MadeNow
<1>6. Rooted
  BY <1>3 DEF Rooted, WasNames, NowNames
<1>7. Based /\ Noted /\ OnlyForBelow /\ NotYet
  BY <1>2 DEF Based, Noted, OnlyForBelow, NotYet
<1>8. Listed
  BY DEF Init, Listed
<1>9. Finished
  BY <1>2, <1>3 DEF Finished, Counted, Still, Below, MadeNow
<1>10. Summed
  BY DEF Init, Summed
<1> QED
  BY <1>1, <1>4, <1>5, <1>6, <1>7, <1>8, <1>9, <1>10 DEF CountInv

\* A step that leaves the versions and what the scan found as they are.
LEMMA SameCounts ==
  ASSUME CountInv, UNCHANGED <<versions, scan, fates>>
  PROVE  /\ versions' \subseteq [item: Items, first: 1 .. scan', alive: BOOLEAN, counts: Counts]
         /\ scan' \in 0 .. MaxScans /\ fates' \in [Items -> FateNames]
         /\ Keyed' /\ (\A i \in Items : Fits(i)') /\ Rooted' /\ Based' /\ OnlyForBelow'
         /\ \A d, c : Plain(d, c)' <=> Plain(d, c)
         /\ \A d, c : (resumed => resumed') /\ Good(d, c) => Good(d, c)'
         /\ \A d : Still(d)' <=> Still(d)
         /\ \A d : At(d, scan)' = At(d, scan)
<1>1. /\ \A i : Before(i, scan)' = Before(i, scan) /\ At(i, scan)' = At(i, scan)
      /\ \A d, x : Fated(d, x)' = Fated(d, x)
      /\ \A d : Still(d)' <=> Still(d)
  BY DEF Before, At, RowsOf, Fated, Still
<1>2. \A d : WasBelow(d)' = WasBelow(d)
  BY <1>1 DEF WasBelow
<1>3. /\ versions' \subseteq [item: Items, first: 1 .. scan', alive: BOOLEAN, counts: Counts]
      /\ scan' \in 0 .. MaxScans /\ fates' \in [Items -> FateNames]
  BY DEF CountInv, Typed
<1>4. Keyed' /\ (\A i \in Items : Fits(i)') /\ Rooted'
  BY <1>1 DEF CountInv, Keyed, Fits, Rooted
<1>5. Based' /\ OnlyForBelow'
  BY <1>1, <1>2 DEF CountInv, Based, OnlyForBelow
<1>6. \A d, c : Plain(d, c)' <=> Plain(d, c)
  BY <1>2 DEF Plain
<1>7. \A d, c : (resumed => resumed') /\ Good(d, c) => Good(d, c)'
  BY <1>1, <1>2 DEF Good
<1> QED
  BY <1>1, <1>3, <1>4, <1>5, <1>6, <1>7

LEMMA CountFoldersKeeps == ASSUME CountInv, CountFolders PROVE CountInv'
<1>0. /\ UNCHANGED <<versions, scan, fates>> /\ pc = "counting" /\ pc' = "writing"
      /\ writes' = FolderWrites /\ UNCHANGED <<totals, resumed, faults>>
  BY DEF CountFolders
<1>a. /\ Typed /\ Keyed /\ AllFit /\ Rooted /\ Based /\ Noted /\ OnlyForBelow /\ NotYet
      /\ Summed
  BY DEF CountInv, AllFit
<1>1. Typed'
  BY <1>0, <1>a, SameCounts DEF Typed
<1>2. Keyed' /\ (\A i \in Items : Fits(i)') /\ Rooted' /\ Based' /\ OnlyForBelow'
  BY <1>0, SameCounts
<1>3. \A d, c : (Plain(d, c)' <=> Plain(d, c)) /\ (Good(d, c) => Good(d, c)')
  BY <1>0, SameCounts
<1>4. \A d : (Still(d)' <=> Still(d)) /\ At(d, scan)' = At(d, scan)
  BY <1>0, SameCounts
<1>5. Noted'
  BY <1>a, <1>3, <1>4 DEF Noted
<1>6. Listed'
  <2>1. ASSUME NEW w \in FolderWrites
        PROVE  /\ w.folder \in Dirs /\ w.counts \in Counts /\ Good(w.folder, w.counts)
               /\ fates[w.folder] # "absent" /\ ~ Still(w.folder)
    <3>1. PICK d : d = w.folder
      OBVIOUS
    <3>2. /\ d \in Dirs /\ w.counts = Tallied(d) /\ Reached[d]
          /\ Walked[d].adds + Walked[d].mods + Walked[d].dels > 0
      BY <3>1, WritesAre
    <3>3. Good(d, Tallied(d)) /\ Tallied(d) \in Counts
      BY <1>0, <1>a, <3>2, TalliedGood
    <3>4. ~ Still(d)
      <4> SUFFICES ASSUME Still(d) PROVE FALSE
        OBVIOUS
      <4>1. Fated(d, "added") = 0 /\ Fated(d, "deleted") = 0 /\ Fated(d, "modified") = 0
        BY StillCounts
      <4>2. PICK n : n = Walked[d].mods
        OBVIOUS
      <4>3. Walked[d].adds = 0 /\ Walked[d].dels = 0 /\ n \in Nat /\ n > 0
        BY <1>a, <3>2, <4>1, <4>2, WalkedIs
      <4>4. PICK i \in Below(d) : fates[i] = "kept" /\ At(i, scan) # {}
        BY <1>a, <3>2, <4>1, <4>2, <4>3, WalkedIs
      <4>5. ~ Still(i) /\ i \in Items /\ d \in Above[i]
        BY <1>a, <4>4 DEF OnlyForBelow, Below
      <4>6. PICK j \in Items : i \in Above[j] /\ fates[j] \in MadeNow
        BY <4>5 DEF Still, Below
      <4>7. d \in Above[j]
        BY <4>5, <4>6, AboveTrans
      <4> QED
        BY <4>6, <4>7 DEF Still, Below
    <3>5. fates[d] # "absent"
      <4> SUFFICES ASSUME fates[d] = "absent" PROVE Still(d)
        BY <3>4
      <4>1. \A i \in Below(d) : fates[i] \notin WasNames /\ fates[i] \notin NowNames
        BY <1>a, <3>2, BelowRooted DEF WasNames, NowNames
      <4> QED
        BY <4>1 DEF Still, MadeNow, WasNames, NowNames
    <3> QED
      BY <3>1, <3>2, <3>3, <3>4, <3>5
  <2> QED
    BY <1>0, <1>3, <1>4, <2>1 DEF Listed
<1>7. Finished'
  BY <1>0, <1>3, <1>4, UnwrittenCounted DEF Finished, Pending, Counted
<1>8. NotYet' /\ Summed'
  BY <1>0, <1>a DEF NotYet, Summed, Fates
<1> QED
  BY <1>1, <1>2, <1>5, <1>6, <1>7, <1>8 DEF CountInv

LEMMA CompleteKeeps == ASSUME CountInv, Complete PROVE CountInv'
<1>0. /\ UNCHANGED <<versions, scan, fates>> /\ pc = "writing" /\ pc' = "idle" /\ writes = {}
      /\ writes' = {} /\ totals' = ScanTotals /\ UNCHANGED <<resumed, faults>>
  BY DEF Complete
<1>a. Typed /\ AllFit /\ Noted /\ Finished /\ Summed
  BY DEF CountInv, AllFit
<1>1. Typed'
  BY <1>0, <1>a, SameCounts DEF Typed
<1>2. Keyed' /\ (\A i \in Items : Fits(i)') /\ Rooted' /\ Based' /\ OnlyForBelow'
  BY <1>0, SameCounts
<1>3. \A d, c : (Plain(d, c)' <=> Plain(d, c)) /\ (Good(d, c) => Good(d, c)')
  BY <1>0, SameCounts
<1>4. \A d : (Still(d)' <=> Still(d)) /\ At(d, scan)' = At(d, scan)
  BY <1>0, SameCounts
<1>5. Noted' /\ NotYet'
  BY <1>0, <1>a, <1>3, <1>4 DEF Noted, NotYet
<1>6. Listed'
  BY <1>0 DEF Listed
<1>7. Finished'
  BY <1>0, <1>a, <1>3, <1>4 DEF Finished, Pending, Counted
<1>8. Summed'
  <2>1. /\ {i \in Items : Added(i)} = {i \in Items : fates[i] = "added"}
        /\ {i \in Items : Deleted(i)} = {i \in Items : fates[i] = "deleted"}
    BY <1>a, ChangesAre DEF AllFit
  <2>2. PICK C : C = {i \in Items : Changed(i)} /\ C \in SUBSET Items
    OBVIOUS
  <2>3. Cardinality(C) \in Nat /\ \A x : Fates(x) \in Nat
    <3>1. \A x : {i \in Items : fates[i] = x} \in SUBSET Items
      OBVIOUS
    <3> QED
      BY <2>2, <3>1, SubsetsFinite DEF Fates
  <2>4. totals' = [scan |-> scan, adds |-> Fates("added"), mods |-> Cardinality(C),
                   dels |-> Fates("deleted")]
    BY <1>0, <2>1, <2>2 DEF ScanTotals, Fates
  <2>5. Fates("added")' = Fates("added") /\ Fates("deleted")' = Fates("deleted")
    BY <1>0 DEF Fates
  <2>6. scan \in 0 .. scan'
    BY <1>0, <1>a, FolderAssumption DEF Typed
  <2> QED
    BY <1>0, <2>3, <2>4, <2>5, <2>6 DEF Summed
<1> QED
  BY <1>1, <1>2, <1>5, <1>6, <1>7, <1>8 DEF CountInv

LEMMA ResumeKeeps == ASSUME CountInv, Resume PROVE CountInv'
<1>0. /\ UNCHANGED <<versions, scan, fates>> /\ pc = "writing" /\ pc' = "counting"
      /\ writes' = {} /\ resumed' = TRUE /\ faults < MaxFaults /\ faults' = faults + 1
      /\ UNCHANGED totals
  BY DEF Resume
<1>a. Typed /\ Noted /\ Summed
  BY DEF CountInv
<1>1. Typed'
  <2>1. faults' \in 0 .. MaxFaults
    BY <1>0, <1>a, FolderAssumption DEF Typed
  <2> QED
    BY <1>0, <2>1, SameCounts DEF Typed
<1>2. Keyed' /\ (\A i \in Items : Fits(i)') /\ Rooted' /\ Based' /\ OnlyForBelow'
  BY <1>0, SameCounts
<1>3. \A d, c : (Plain(d, c)' <=> Plain(d, c)) /\ (Good(d, c) => Good(d, c)')
  BY <1>0, SameCounts
<1>4. \A d : At(d, scan)' = At(d, scan)
  BY <1>0, SameCounts
<1>5. Noted' /\ NotYet'
  BY <1>0, <1>a, <1>3, <1>4 DEF Noted, NotYet
<1>6. Listed' /\ Finished'
  BY <1>0 DEF Listed, Finished
<1>7. Summed'
  BY <1>0, <1>a DEF Summed, Fates
<1> QED
  BY <1>1, <1>2, <1>5, <1>6, <1>7 DEF CountInv

\* Rollback takes the scan back to where it began.
LEMMA DiscardKeeps == ASSUME CountInv, Discard PROVE CountInv'
<1>0. /\ pc # "idle" /\ pc' = "idle" /\ writes' = {}
      /\ faults < MaxFaults /\ faults' = faults + 1
      /\ versions' = {v \in versions : v.first # scan}
      /\ fates' = [i \in Items |-> IF AliveIn(Before(i, scan)) THEN "kept" ELSE "absent"]
      /\ UNCHANGED <<scan, totals, resumed>>
  BY DEF Discard
<1>a. Typed /\ Keyed /\ AllFit /\ Rooted /\ Based /\ Summed
  BY DEF CountInv, AllFit
<1>1. \A i \in Items : fates'[i] = IF fates[i] \in WasNames THEN "kept" ELSE "absent"
  BY <1>0, <1>a DEF AllFit, Fits
<1>2. \A i \in Items : /\ fates'[i] \in WasNames <=> fates[i] \in WasNames
                       /\ fates'[i] \in NowNames <=> fates[i] \in WasNames
                       /\ fates'[i] \notin MadeNow
  BY <1>1 DEF WasNames, NowNames, MadeNow
<1>3. \A i : At(i, scan)' = {}
  BY <1>0 DEF At, RowsOf
<1>4. ASSUME NEW i
      PROVE  Before(i, scan)' = Before(i, scan)
  <2>1. scan \in Nat /\ \A v \in versions : v.first \in Int
    BY <1>a, FolderAssumption DEF Typed
  <2>2. \A v \in versions : v.first < scan => v \in versions'
    BY <1>0, <2>1
  <2>3. \A v \in RowsOf(i) : v.first < scan => v \in RowsOf(i)'
    BY <2>2 DEF RowsOf
  <2>4. RowsOf(i)' \subseteq RowsOf(i)
    BY <1>0 DEF RowsOf
  <2> QED
    BY <1>0, <2>3, <2>4 DEF Before
<1>5. Typed'
  <2>1. faults' \in 0 .. MaxFaults
    BY <1>0, <1>a, FolderAssumption DEF Typed
  <2>2. fates' \in [Items -> FateNames]
    BY <1>0 DEF FateNames
  <2> QED
    BY <1>0, <1>a, <2>1, <2>2 DEF Typed
<1>6. Keyed'
  BY <1>0, <1>a DEF Keyed
<1>7. \A i \in Items : Fits(i)'
  <2> TAKE i \in Items
  <2>1. AliveIn(Before(i, scan))' <=> fates'[i] \in WasNames
    BY <1>0, <1>2, <1>4, <1>a DEF AllFit, Fits, AliveIn
  <2> QED
    BY <1>0, <1>2, <1>3, <2>1 DEF Fits
<1>8. Rooted'
  BY <1>2, <1>a, Parents DEF Rooted
<1>9. Based'
  <2>1. ASSUME NEW d
        PROVE  WasBelow(d)' = WasBelow(d)
    <3>1. WasBelow(d) = Cardinality({i \in Below(d) : fates[i] \in WasNames})
      BY WasNowBelow
    <3>2. Fated(d, "kept")' = Cardinality({i \in Below(d) : fates'[i] = "kept"})
      BY DEF Fated
    <3>3. {i \in Below(d) : fates'[i] = "kept"} = {i \in Below(d) : fates[i] \in WasNames}
      BY <1>1, BelowItems
    <3>4. Fated(d, "modified")' = 0 /\ Fated(d, "deleted")' = 0
      <4>1. /\ {i \in Below(d) : fates'[i] = "modified"} = {}
            /\ {i \in Below(d) : fates'[i] = "deleted"} = {}
        BY <1>1, BelowItems
      <4> QED
        BY <4>1, FS_EmptySet DEF Fated
    <3>5. WasBelow(d) \in Nat
      BY WasNowBelow
    <3>6. WasBelow(d)' = Fated(d, "kept")' + Fated(d, "modified")' + Fated(d, "deleted")'
      BY DEF WasBelow
    <3>7. Fated(d, "kept")' = WasBelow(d)
      BY <3>1, <3>2, <3>3, Zenon
    <3> QED
      BY <3>4, <3>5, <3>6, <3>7
  <2> QED
    BY <1>0, <1>4, <1>a, <2>1 DEF Based
<1>10. Noted' /\ OnlyForBelow' /\ NotYet'
  BY <1>0, <1>3 DEF Noted, OnlyForBelow, NotYet
<1>11. Listed'
  BY <1>0 DEF Listed
<1>12. Finished'
  <2>1. \A d : Still(d)'
    BY <1>2, BelowItems DEF Still
  <2> QED
    BY <1>3, <2>1 DEF Finished, Counted
<1>13. Summed'
  <2>1. totals.scan < scan
    BY <1>0, <1>a DEF Summed
  <2>2. totals.scan # scan
    <3>1. totals.scan \in Int /\ scan \in Int
      BY <1>a DEF Summed, Typed
    <3> QED
      BY <2>1, <3>1
  <2> QED
    BY <1>0, <1>a, <2>2 DEF Summed
<1> QED
  BY <1>5, <1>6, <1>7, <1>8, <1>9, <1>10, <1>11, <1>12, <1>13 DEF CountInv

\* What a write does to the rows: the folder's version of this scan has its counts, and
\* nothing else changes.
LEMMA WriteRow ==
  ASSUME CountInv, NEW w \in writes, ApplyWrite(w), NEW d, d = w.folder, NEW c, c = w.counts
  PROVE  \E n \in [item: Items, first: 1 .. scan, alive: BOOLEAN, counts: Counts] :
           /\ versions' = (versions \ At(d, scan)) \cup {n}
           /\ n.item = d /\ n.first = scan /\ n.counts = c
           /\ n.alive <=> fates[d] # "deleted"
<1>a. Typed /\ Keyed /\ AllFit /\ Listed
  BY DEF CountInv, AllFit
<1>b. d \in Dirs /\ d \in Items /\ c \in Counts /\ fates[d] # "absent" /\ fates[d] \in FateNames
  BY <1>a, Parents DEF Listed, Typed
<1>c. Fits(d)
  BY <1>a, <1>b DEF AllFit
<1>1. CASE At(d, scan) # {}
  <2>0. PICK u : u \in At(d, scan)
    BY <1>1
  <2>1. At(d, scan) = {u}
    BY <1>a, <2>0, OneRow
  <2>2. /\ u \in [item: Items, first: 1 .. scan, alive: BOOLEAN, counts: Counts]
        /\ u.item = d /\ u.first = scan
    BY <1>a, <2>1 DEF At, RowsOf, Typed
  <2>3. u.alive <=> fates[d] # "deleted"
    BY <1>c, <2>1 DEF Fits
  <2>4. PICK n : n = [u EXCEPT !.counts = c]
    OBVIOUS
  <2>5. versions' = (versions \ At(d, scan)) \cup {n}
    BY <1>1, <2>1, <2>4 DEF ApplyWrite, WriteCounts
  <2>6. n \in [item: Items, first: 1 .. scan, alive: BOOLEAN, counts: Counts]
    BY <1>b, <2>2, <2>4
  <2>7. n.item = u.item /\ n.first = u.first /\ n.alive = u.alive /\ n.counts = c
    BY <2>2, <2>4
  <2> QED
    BY <2>2, <2>3, <2>5, <2>6, <2>7
<1>2. CASE At(d, scan) = {}
  <2>1. fates[d] = "kept" /\ AliveIn(Before(d, scan)) /\ Current(d) = Before(d, scan)
    BY <1>2, <1>a, <1>b, <1>c, CurrentIs DEF Fits, FateNames, MadeNow, WasNames
  <2>2. PICK v \in Before(d, scan) : v.alive
    BY <2>1 DEF AliveIn
  <2>3. Current(d) = {v}
    BY <1>a, <2>1, <2>2, OneRow
  <2>4. PICK n : n = Version(d, scan, v.alive, c)
    OBVIOUS
  <2>5. versions' = (versions \ At(d, scan)) \cup {n}
    BY <1>2, <2>3, <2>4 DEF ApplyWrite, WriteCounts
  <2>6. v.alive \in BOOLEAN /\ v.first \in 1 .. scan /\ v.first < scan
    BY <1>a, <2>2 DEF Before, RowsOf, Typed
  <2>7. scan \in 1 .. scan
    BY <1>a, <2>6, FolderAssumption DEF Typed
  <2>8. n \in [item: Items, first: 1 .. scan, alive: BOOLEAN, counts: Counts]
    BY <1>b, <2>4, <2>6, <2>7 DEF Version
  <2>9. n.item = d /\ n.first = scan /\ n.alive = v.alive /\ n.counts = c
    BY <2>4 DEF Version
  <2> QED
    BY <2>1, <2>2, <2>5, <2>8, <2>9
<1> QED
  BY <1>1, <1>2

LEMMA WriteKeeps ==
  ASSUME CountInv, NEW w \in writes, ApplyWrite(w) PROVE CountInv'
<1>1. PICK d, c : d = w.folder /\ c = w.counts
  OBVIOUS
<1>2. PICK n \in [item: Items, first: 1 .. scan, alive: BOOLEAN, counts: Counts] :
        /\ versions' = (versions \ At(d, scan)) \cup {n}
        /\ n.item = d /\ n.first = scan /\ n.counts = c
        /\ n.alive <=> fates[d] # "deleted"
  BY <1>1, WriteRow
<1>3. /\ pc = "writing" /\ writes' = writes \ {w}
      /\ UNCHANGED <<scan, pc, totals, fates, resumed, faults>>
  BY DEF ApplyWrite
<1>a. /\ Typed /\ Keyed /\ AllFit /\ Rooted /\ Based /\ Noted /\ Listed /\ Finished
      /\ OnlyForBelow /\ NotYet /\ Summed
  BY DEF CountInv, AllFit
<1>b. d \in Dirs /\ Good(d, c) /\ fates[d] # "absent" /\ ~ Still(d)
  BY <1>1, <1>a DEF Listed
<1>4. At(d, scan)' = {n}
  BY <1>2, <1>3 DEF At, RowsOf
<1>5. \A i : i # d => At(i, scan)' = At(i, scan)
  BY <1>2, <1>3 DEF At, RowsOf
<1>6. ASSUME NEW i
      PROVE  Before(i, scan)' = Before(i, scan)
  <2>1. scan \in Nat
    BY <1>a, FolderAssumption DEF Typed
  <2>2. \A v \in versions : v.first < scan => v \in versions'
    BY <1>2, <2>1 DEF At
  <2>3. \A v \in versions' : v.first < scan => v \in versions
    BY <1>2, <2>1
  <2>4. \A v : v \in RowsOf(i) /\ v.first < scan <=> v \in RowsOf(i)' /\ v.first < scan
    BY <2>2, <2>3 DEF RowsOf
  <2> QED
    BY <1>3, <2>4 DEF Before
<1>7. Typed'
  BY <1>2, <1>3, <1>a DEF Typed
<1>8. Keyed'
  <2>1. ASSUME NEW v \in versions, v \notin At(d, scan), v.item = d, v.first = scan
        PROVE  FALSE
    BY <2>1 DEF At, RowsOf
  <2> QED
    BY <1>2, <1>a, <2>1 DEF Keyed
<1>9. /\ \A e, x : Fated(e, x)' = Fated(e, x)
      /\ \A e : Still(e)' <=> Still(e)
  BY <1>3 DEF Fated, Still
<1>10. \A e : WasBelow(e)' = WasBelow(e)
  BY <1>9 DEF WasBelow
<1>11. /\ \A e, x : Good(e, x)' <=> Good(e, x)
       /\ \A e, x : Plain(e, x)' <=> Plain(e, x)
  BY <1>3, <1>9, <1>10 DEF Good, Plain
<1>12. \A i \in Items : Fits(i)'
  <2> TAKE i \in Items
  <2>1. Fits(i)
    BY <1>a DEF AllFit
  <2>2. CASE i # d
    BY <1>3, <1>5, <1>6, <2>1, <2>2 DEF Fits
  <2>3. CASE i = d
    <3>1. \A v \in At(d, scan)' : v.alive <=> fates[d] # "deleted"
      BY <1>2, <1>4
    <3> QED
      BY <1>3, <1>4, <1>6, <1>b, <2>1, <2>3, <3>1 DEF Fits
  <2> QED
    BY <2>2, <2>3
<1>13. Rooted'
  BY <1>3, <1>a DEF Rooted
<1>14. Based'
  BY <1>3, <1>6, <1>10, <1>a DEF Based
<1>15. Noted'
  <2> SUFFICES ASSUME NEW e \in Dirs, NEW v \in At(e, scan)'
               PROVE  Good(e, v.counts)' \/ Plain(e, v.counts)'
    BY DEF Noted
  <2>1. CASE e = d
    BY <1>2, <1>4, <1>11, <1>b, <2>1
  <2>2. CASE e # d
    BY <1>5, <1>11, <1>a, <2>2 DEF Noted
  <2> QED
    BY <2>1, <2>2
<1>16. Listed'
  BY <1>3, <1>9, <1>11, <1>a DEF Listed
<1>17. Finished'
  <2> SUFFICES ASSUME NEW e \in Dirs
               PROVE  Pending(e)' \/ Counted(e)'
    BY DEF Finished
  <2>1. CASE e = d
    <3>1. \A v \in At(d, scan)' : Good(d, v.counts)'
      BY <1>2, <1>4, <1>11, <1>b
    <3> QED
      BY <1>4, <2>1, <3>1 DEF Counted
  <2>2. CASE e # d
    <3>1. Pending(e) => Pending(e)'
      BY <1>1, <1>3, <2>2 DEF Pending
    <3>2. Counted(e) => Counted(e)'
      BY <1>5, <1>9, <1>11, <2>2 DEF Counted
    <3> QED
      BY <1>3, <1>a, <3>1, <3>2 DEF Finished
  <2> QED
    BY <2>1, <2>2
<1>18. OnlyForBelow'
  <2> SUFFICES ASSUME NEW i \in Items, At(i, scan)' # {}, fates'[i] = "kept"
               PROVE  ~ Still(i)'
    BY DEF OnlyForBelow
  <2> QED
    BY <1>3, <1>5, <1>9, <1>a, <1>b DEF OnlyForBelow
<1>19. NotYet' /\ Summed'
  BY <1>3, <1>a DEF NotYet, Summed, Fates
<1> QED
  BY <1>7, <1>8, <1>12, <1>13, <1>14, <1>15, <1>16, <1>17, <1>18, <1>19 DEF CountInv

LEMMA AliveIs ==
  ASSUME Typed, NEW i \in Items, Fits(i)
  PROVE  IsAlive(i) <=> fates[i] \in NowNames
<1>1. fates[i] \in FateNames
  BY DEF Typed
<1>2. CASE At(i, scan) # {}
  <2>1. IsAlive(i) <=> fates[i] # "deleted"
    BY <1>2, CurrentIs DEF IsAlive, AliveIn, Fits
  <2> QED
    BY <1>1, <1>2, <2>1 DEF Fits, FateNames, NowNames
<1>3. CASE At(i, scan) = {}
  <2>1. IsAlive(i) <=> fates[i] \in WasNames
    BY <1>3, CurrentIs DEF IsAlive, Fits
  <2> QED
    BY <1>1, <1>3, <2>1 DEF Fits, FateNames, NowNames, WasNames, MadeNow
<1> QED
  BY <1>2, <1>3

\* Between two scans the newest version of a folder tells what is alive below it.
LEMMA SettledTotal ==
  ASSUME CountInv, pc = "idle", NEW d \in Dirs, NEW v \in Current(d)
  PROVE  Total(v.counts) = NowBelow(d)
<1>a. Typed /\ Based /\ Finished /\ Listed
  BY DEF CountInv
<1>1. Counted(d)
  BY <1>a DEF Finished, Pending, Listed
<1>2. PICK k, m, a, e : /\ k = Fated(d, "kept") /\ m = Fated(d, "modified")
                        /\ a = Fated(d, "added") /\ e = Fated(d, "deleted")
  OBVIOUS
<1>3. k \in Nat /\ m \in Nat /\ a \in Nat /\ e \in Nat
  BY <1>2, FatedNat
<1>4. WasBelow(d) = k + m + e /\ NowBelow(d) = k + m + a
  BY <1>2 DEF WasBelow, NowBelow
<1>5. CASE At(d, scan) # {}
  <2>1. PICK c : c = v.counts
    OBVIOUS
  <2>2. Good(d, c)
    BY <1>1, <1>5, <1>a, <2>1, CurrentIs DEF Counted
  <2>3. c.adds = a /\ c.mods \in Nat /\ c.unchanged \in Nat
    BY <1>2, <2>2 DEF Good
  <2>4. c.mods + e + c.unchanged = k + m + e
    BY <1>2, <1>4, <2>2 DEF Good
  <2>5. PICK n, u : n = c.mods /\ u = c.unchanged
    OBVIOUS
  <2>6. Total(c) = a + n + u
    BY <2>3, <2>5 DEF Total
  <2>7. n \in Nat /\ u \in Nat /\ n + e + u = k + m + e
    BY <2>3, <2>4, <2>5
  <2> QED
    BY <1>3, <1>4, <2>1, <2>6, <2>7
<1>6. CASE At(d, scan) = {}
  <2>1. a = 0 /\ e = 0
    BY <1>1, <1>2, <1>6, StillCounts DEF Counted
  <2>2. Total(v.counts) = WasBelow(d)
    BY <1>6, <1>a, CurrentIs DEF Based
  <2> QED
    BY <1>3, <1>4, <2>1, <2>2
<1> QED
  BY <1>5, <1>6

\* What the first three phases leave.
LEMMA FateIs ==
  ASSUME NEW i, NEW f \in {"absent", "same", "changed"}
  PROVE  /\ Fate(i, f) \in FateNames
         /\ Fate(i, f) \in WasNames <=> IsAlive(i)
         /\ Fate(i, f) \in NowNames <=> f # "absent"
BY DEF Fate, FateNames, WasNames, NowNames

LEMMA NewVersionsAre ==
  ASSUME CountInv, pc = "idle", scan < MaxScans, NEW i \in Items, NEW fate \in FateNames,
         NEW s, s = scan + 1, fate = "modified" => IsAlive(i)
  PROVE  \A v \in NewVersions(i, fate, s) :
           /\ v \in [item: Items, first: 1 .. s, alive: BOOLEAN, counts: Counts]
           /\ v.item = i /\ v.first = s
           /\ v.alive <=> fate # "deleted"
           /\ fate \in MadeNow
           /\ v.counts.adds = 0 /\ v.counts.mods = 0 /\ v.counts.dels = 0
           /\ fate # "modified" => v.counts.unchanged = 0
           /\ fate = "modified" /\ i \in Dirs => v.counts.unchanged = NowBelow(i)
<1>a. Typed /\ Keyed
  BY DEF CountInv
<1>0. s \in 1 .. s
  BY <1>a, FolderAssumption DEF Typed
<1>1. NoCounts \in Counts
  BY DEF NoCounts, Counts
<1>2. CASE fate = "modified"
  <2>1. PICK v : v \in Current(i)
    BY <1>2 DEF IsAlive, AliveIn
  <2>2. PICK n : n = PrevAlive(i, s)
    OBVIOUS
  <2>3. n = Total(v.counts)
    BY <1>a, <2>1, <2>2, PrevAliveIs DEF Current
  <2>4. v.counts \in Counts
    BY <1>a, <2>1 DEF Current, Before, RowsOf, Typed
  <2>5. n \in Nat
    BY <2>3, <2>4 DEF Total, Counts
  <2>6. i \in Dirs => n = NowBelow(i)
    BY <2>1, <2>3, SettledTotal
  <2>7. PICK c : c = IF i \in Dirs THEN [NoCounts EXCEPT !.unchanged = n] ELSE NoCounts
    OBVIOUS
  <2>8. /\ c \in Counts /\ c.adds = 0 /\ c.mods = 0 /\ c.dels = 0
        /\ i \in Dirs => c.unchanged = n
    BY <2>5, <2>7 DEF NoCounts, Counts
  <2>9. PICK v1 : v1 = Version(i, s, TRUE, c)
    OBVIOUS
  <2>10. NewVersions(i, fate, s) = {v1}
    BY <1>2, <2>2, <2>7, <2>9 DEF NewVersions, Modified
  <2>11. /\ v1 \in [item: Items, first: 1 .. s, alive: BOOLEAN, counts: Counts]
         /\ v1.item = i /\ v1.first = s /\ v1.alive = TRUE /\ v1.counts = c
    BY <1>0, <2>8, <2>9 DEF Version
  <2> QED
    BY <1>2, <2>6, <2>8, <2>10, <2>11 DEF MadeNow
<1>3. CASE fate = "added"
  <2>1. PICK v1 : v1 = Version(i, s, TRUE, NoCounts)
    OBVIOUS
  <2>2. NewVersions(i, fate, s) = {v1}
    BY <1>3, <2>1 DEF NewVersions, Fresh
  <2>3. /\ v1 \in [item: Items, first: 1 .. s, alive: BOOLEAN, counts: Counts]
        /\ v1.item = i /\ v1.first = s /\ v1.alive = TRUE /\ v1.counts = NoCounts
    BY <1>0, <1>1, <2>1 DEF Version
  <2> QED
    BY <1>3, <2>2, <2>3 DEF NoCounts, MadeNow
<1>4. CASE fate = "deleted"
  <2>1. PICK v1 : v1 = Version(i, s, FALSE, NoCounts)
    OBVIOUS
  <2>2. NewVersions(i, fate, s) = {v1}
    BY <1>4, <2>1 DEF NewVersions, Tombstone
  <2>3. /\ v1 \in [item: Items, first: 1 .. s, alive: BOOLEAN, counts: Counts]
        /\ v1.item = i /\ v1.first = s /\ v1.alive = FALSE /\ v1.counts = NoCounts
    BY <1>0, <1>1, <2>1 DEF Version
  <2> QED
    BY <1>4, <2>2, <2>3 DEF NoCounts, MadeNow
<1>5. CASE fate \notin MadeNow
  BY <1>5 DEF NewVersions, MadeNow
<1> QED
  BY <1>2, <1>3, <1>4, <1>5 DEF MadeNow

LEMMA NewVersionsOne ==
  ASSUME NEW i, NEW fate, NEW s
  PROVE  /\ \A v, w \in NewVersions(i, fate, s) : v = w
         /\ fate \in MadeNow => NewVersions(i, fate, s) # {}
         /\ fate \notin MadeNow => NewVersions(i, fate, s) = {}
BY DEF NewVersions, MadeNow

LEMMA ScanKeeps == ASSUME CountInv, ScanItems PROVE CountInv'
<1>a. /\ Typed /\ Keyed /\ AllFit /\ Rooted /\ Based /\ Noted /\ Listed /\ Finished
      /\ OnlyForBelow /\ NotYet /\ Summed
  BY DEF CountInv, AllFit
<1>1. PICK found \in Findings :
        /\ fates' = [i \in Items |-> Fate(i, found[i])]
        /\ versions' = versions \cup
                         UNION {NewVersions(i, Fate(i, found[i]), scan + 1) : i \in Items}
  BY DEF ScanItems
<1>2. PICK s : s = scan + 1
  OBVIOUS
<1>3. /\ pc = "idle" /\ scan < MaxScans /\ scan' = s /\ pc' = "counting"
      /\ resumed' = FALSE /\ UNCHANGED <<totals, writes, faults>>
  BY <1>2 DEF ScanItems
<1>4. PICK f : f = fates'
  OBVIOUS
<1>5. f = [i \in Items |-> Fate(i, found[i])] /\ \A i \in Items : f[i] = Fate(i, found[i])
  BY <1>1, <1>4
<1>6. ASSUME NEW i \in Items
      PROVE  /\ f[i] \in FateNames
             /\ f[i] \in WasNames <=> fates[i] \in NowNames
             /\ f[i] \in NowNames <=> found[i] # "absent"
             /\ f[i] = "modified" => IsAlive(i)
  <2>1. found[i] \in {"absent", "same", "changed"}
    BY DEF Findings
  <2>2. f[i] = Fate(i, found[i])
    BY <1>5
  <2>3. IsAlive(i) <=> fates[i] \in NowNames
    BY <1>a, AliveIs DEF AllFit
  <2> QED
    BY <2>1, <2>2, <2>3, FateIs DEF WasNames
<1> DEFINE new(i) == NewVersions(i, f[i], s)
<1>7. versions' = versions \cup UNION {new(i) : i \in Items}
  BY <1>1, <1>2, <1>5
<1>8. ASSUME NEW i \in Items, NEW v \in new(i)
      PROVE  /\ v \in [item: Items, first: 1 .. s, alive: BOOLEAN, counts: Counts]
             /\ v.item = i /\ v.first = s
             /\ v.alive <=> f[i] # "deleted"
             /\ f[i] \in MadeNow
             /\ v.counts.adds = 0 /\ v.counts.mods = 0 /\ v.counts.dels = 0
             /\ f[i] # "modified" => v.counts.unchanged = 0
             /\ f[i] = "modified" /\ i \in Dirs => v.counts.unchanged = NowBelow(i)
  BY <1>2, <1>3, <1>6, <1>8, NewVersionsAre
<1>9. ASSUME NEW i
      PROVE  /\ \A v, w \in new(i) : v = w
             /\ f[i] \in MadeNow => new(i) # {}
             /\ f[i] \notin MadeNow => new(i) = {}
  BY NewVersionsOne
<1> HIDE DEF new
<1>10. scan \in Nat /\ s \in Nat /\ scan < s /\ \A v \in versions : v.first \in 1 .. scan
  BY <1>2, <1>a, FolderAssumption DEF Typed
<1>11. \A v \in versions' : v \in versions \/ (v \in new(v.item) /\ v.item \in Items /\ v.first = s)
  BY <1>7, <1>8
<1>12. ASSUME NEW i \in Items
       PROVE  At(i, scan)' = new(i)
  <2>1. \A v \in At(i, scan)' : v \in new(i)
    BY <1>3, <1>10, <1>11 DEF At, RowsOf
  <2>2. \A v \in new(i) : v \in At(i, scan)'
    BY <1>3, <1>7, <1>8 DEF At, RowsOf
  <2> QED
    BY <2>1, <2>2
<1>13. ASSUME NEW i
       PROVE  Before(i, scan)' = Current(i)
  <2>1. \A v : v \in RowsOf(i)' /\ v.first < s <=> v \in RowsOf(i) /\ v.first < s
    BY <1>7, <1>8, <1>10, <1>11 DEF RowsOf
  <2> QED
    BY <1>2, <1>3, <2>1 DEF Current, Before
<1>14. Typed'
  <2>1. \A v \in versions : v \in [item: Items, first: 1 .. s, alive: BOOLEAN, counts: Counts]
    <3>1. 1 .. scan \subseteq 1 .. s
      BY <1>10
    <3> QED
      BY <1>a, <3>1 DEF Typed
  <2>2. \A v \in UNION {new(i) : i \in Items} :
          v \in [item: Items, first: 1 .. s, alive: BOOLEAN, counts: Counts]
    BY <1>8
  <2>3. s \in 0 .. MaxScans
    BY <1>2, <1>3, <1>10, FolderAssumption
  <2>4. f \in [Items -> FateNames]
    BY <1>5, <1>6
  <2> QED
    BY <1>3, <1>4, <1>7, <1>a, <2>1, <2>2, <2>3, <2>4 DEF Typed
<1>15. Keyed'
  <2> SUFFICES ASSUME NEW v \in versions', NEW w \in versions', v.item = w.item,
                      v.first = w.first
               PROVE  v = w
    BY DEF Keyed
  <2>1. CASE v.first = s
    <3>0. \A u \in versions : u.first # s
      BY <1>10
    <3>1. v \notin versions /\ w \notin versions
      BY <2>1, <3>0
    <3> QED
      BY <1>9, <1>11, <3>1
  <2>2. CASE v.first # s
    <3>1. v \in versions /\ w \in versions
      BY <1>11, <2>2
    <3> QED
      BY <1>a, <3>1 DEF Keyed
  <2> QED
    BY <2>1, <2>2
<1>16. \A i \in Items : Fits(i)'
  <2> TAKE i \in Items
  <2>1. AliveIn(Before(i, scan))' <=> IsAlive(i)
    BY <1>13 DEF IsAlive, AliveIn
  <2>2. IsAlive(i) <=> f[i] \in WasNames
    BY <1>6, <1>a, AliveIs DEF AllFit
  <2>3. \A v \in At(i, scan)' : v.alive <=> f[i] # "deleted"
    BY <1>8, <1>12
  <2>4. f[i] \in MadeNow => At(i, scan)' # {}
    BY <1>9, <1>12
  <2>5. f[i] = "absent" => At(i, scan)' = {}
    BY <1>9, <1>12 DEF MadeNow
  <2> QED
    BY <1>4, <2>1, <2>2, <2>3, <2>4, <2>5 DEF Fits
<1>17. Rooted'
  <2> SUFFICES ASSUME NEW i \in Items, Parent[i] # Top
               PROVE  /\ f[i] \in WasNames => f[Parent[i]] \in WasNames
                      /\ f[i] \in NowNames => f[Parent[i]] \in NowNames
    BY <1>4 DEF Rooted
  <2>1. Parent[i] \in Items
    BY Parents
  <2>2. fates[i] \in NowNames => fates[Parent[i]] \in NowNames
    BY <1>a DEF Rooted
  <2>3. found[i] # "absent" => found[Parent[i]] # "absent"
    BY DEF Findings
  <2> QED
    BY <1>6, <2>1, <2>2, <2>3
<1>18. ASSUME NEW d
       PROVE  WasBelow(d)' = NowBelow(d)
  <2>1. PICK B : B = Below(d) /\ B \in SUBSET Items
    BY BelowItems
  <2>2. PICK k, m, e : k = "kept" /\ m = "modified" /\ e = "deleted"
    OBVIOUS
  <2>3. k # m /\ m # e /\ k # e
    BY <2>2
  <2>4. Shares(f, B, k, m, e) = Share(f, B, k) + Share(f, B, m) + Share(f, B, e)
    BY <2>1, <2>3, ThreeParts
  <2>5. WasBelow(d)' = Fated(d, "kept")' + Fated(d, "modified")' + Fated(d, "deleted")'
    BY DEF WasBelow
  <2>6. \A x : Fated(d, x)' = Share(f, B, x)
    BY <1>4, <2>1 DEF Fated, Share
  <2>7. WasBelow(d)' = Shares(f, B, k, m, e)
    BY <2>2, <2>4, <2>5, <2>6
  <2>8. {i \in B : f[i] \in {k, m, e}} = {i \in Below(d) : fates[i] \in NowNames}
    BY <1>6, <2>1, <2>2 DEF WasNames
  <2>9. Shares(f, B, k, m, e) = NowBelow(d)
    BY <2>8, WasNowBelow DEF Shares
  <2> QED
    BY <2>7, <2>9
<1>19. Based'
  <2> SUFFICES ASSUME NEW d \in Dirs, NEW v \in Before(d, scan)'
               PROVE  Total(v.counts) = WasBelow(d)'
    BY DEF Based
  <2> QED
    BY <1>3, <1>13, <1>18, SettledTotal
<1>20. Noted'
  <2> SUFFICES ASSUME NEW d \in Dirs, NEW v \in At(d, scan)'
               PROVE  Plain(d, v.counts)'
    BY DEF Noted
  <2>1. v \in new(d) /\ d \in Items
    BY <1>12, Parents
  <2> QED
    BY <1>4, <1>8, <1>18, <2>1 DEF Plain
<1>21. Listed' /\ Finished'
  BY <1>3, <1>a DEF Listed, Finished
<1>22. OnlyForBelow' /\ NotYet'
  <2>1. \A i \in Items : f[i] = "kept" => At(i, scan)' = {}
    BY <1>9, <1>12 DEF MadeNow
  <2> QED
    BY <1>4, <2>1 DEF OnlyForBelow, NotYet
<1>23. Summed'
  <2>1. totals \in [scan: 0 .. s, adds: Nat, mods: Nat, dels: Nat]
    <3>1. 0 .. scan \subseteq 0 .. s
      BY <1>10
    <3> QED
      BY <1>a, <3>1 DEF Summed
  <2>2. totals.scan < s /\ totals.scan # s
    <3>1. totals.scan \in 0 .. scan
      BY <1>a DEF Summed
    <3> QED
      BY <1>10, <3>1
  <2> QED
    BY <1>3, <2>1, <2>2 DEF Summed
<1> QED
  BY <1>14, <1>15, <1>16, <1>17, <1>19, <1>20, <1>21, <1>22, <1>23 DEF CountInv
-----------------------------------------------------------------------------
(* What holds in every state *)

\* CountInv holds in every state, for every tree, whatever scans find and wherever their
\* last phase is interrupted.
THEOREM CountInvariant == Spec => []CountInv
<1>1. CountInv /\ [Next]_vars => CountInv'
  <2> SUFFICES ASSUME CountInv, [Next]_vars PROVE CountInv'
    OBVIOUS
  <2>1. CASE ScanItems
    BY <2>1, ScanKeeps
  <2>2. CASE CountFolders
    BY <2>2, CountFoldersKeeps
  <2>3. CASE Complete
    BY <2>3, CompleteKeeps
  <2>4. CASE Resume
    BY <2>4, ResumeKeeps
  <2>5. CASE Discard
    BY <2>5, DiscardKeeps
  <2>6. ASSUME NEW w \in writes, ApplyWrite(w) PROVE CountInv'
    BY <2>6, WriteKeeps
  <2>7. CASE UNCHANGED vars
    <3>0. UNCHANGED <<versions, scan, fates>> /\ UNCHANGED <<pc, totals, writes, resumed, faults>>
      BY <2>7 DEF vars
    <3>1. /\ Typed' /\ Keyed' /\ (\A i \in Items : Fits(i)') /\ Rooted' /\ Based'
          /\ OnlyForBelow'
      BY <3>0, SameCounts DEF CountInv, Typed
    <3>2. \A d, c : (Plain(d, c)' <=> Plain(d, c)) /\ (Good(d, c) => Good(d, c)')
      BY <3>0, SameCounts
    <3>3. \A d : (Still(d)' <=> Still(d)) /\ At(d, scan)' = At(d, scan)
      BY <3>0, SameCounts
    <3>4. Noted' /\ Listed'
      BY <3>0, <3>2, <3>3 DEF CountInv, Noted, Listed
    <3>5. Finished' /\ NotYet' /\ Summed'
      BY <3>0, <3>2, <3>3 DEF CountInv, Finished, Pending, Counted, NotYet, Summed, Fates
    <3> QED
      BY <3>1, <3>4, <3>5 DEF CountInv
  <2> QED
    BY <2>1, <2>2, <2>3, <2>4, <2>5, <2>6, <2>7 DEF Next
<1> QED
  BY <1>1, InitCount, PTL DEF Spec

\* Every state is well formed: no count is negative, the unchanged ones included, which
\* walk_folder_counts computes by subtraction.
THEOREM CountTypes == Spec => []TypeOK
<1>1. CountInv => TypeOK
  <2> SUFFICES ASSUME CountInv PROVE TypeOK
    OBVIOUS
  <2>1. Typed /\ Listed /\ Summed
    BY DEF CountInv
  <2> QED
    BY <2>1 DEF Typed, Listed, Summed, TypeOK, FateNames
<1> QED
  BY <1>1, CountInvariant, PTL

\* The newest version of a folder says how many living items are below it, in any tree,
\* however old the version is.
THEOREM TotalsTell == Spec => []TotalsAlive
<1>1. CountInv => TotalsAlive
  <2> SUFFICES ASSUME CountInv, Settled, NEW d \in Dirs, NEW v \in Current(d)
               PROVE  Total(v.counts) = Cardinality({i \in Below(d) : IsAlive(i)})
    BY DEF TotalsAlive
  <2>1. Typed /\ AllFit /\ pc = "idle"
    BY DEF CountInv, AllFit, Settled
  <2>2. Total(v.counts) = NowBelow(d)
    BY <2>1, SettledTotal
  <2>3. {i \in Below(d) : IsAlive(i)} = {i \in Below(d) : fates[i] \in NowNames}
    BY <2>1, AliveIs, BelowItems DEF AllFit
  <2> QED
    BY <2>2, <2>3, WasNowBelow
<1> QED
  BY <1>1, CountInvariant, PTL

LEMMA SettledCounted ==
  ASSUME CountInv, pc = "idle", NEW d \in Dirs
  PROVE  Counted(d)
BY DEF CountInv, Finished, Pending, Listed

\* A folder gets a version of a scan just when something about it or below it changed.
LEMMA VersionsTell == CountInv => VersionIffChange
<1> SUFFICES ASSUME CountInv, Settled, NEW d \in Dirs
             PROVE  At(d, scan) # {} <=> \E i \in Below(d) \cup {d} : fates[i] \in MadeNow
  BY DEF VersionIffChange, MadeNow
<1>1. Counted(d)
  BY SettledCounted DEF Settled
<1>2. d \in Items /\ Fits(d) /\ fates[d] \in FateNames /\ OnlyForBelow
  BY Parents DEF CountInv, Typed
<1>3. ASSUME At(d, scan) # {}, fates[d] \notin MadeNow
      PROVE  ~ Still(d)
  BY <1>2, <1>3 DEF Fits, FateNames, MadeNow, OnlyForBelow
<1> QED
  BY <1>1, <1>2, <1>3 DEF Counted, Still, Fits

\* In any tree, through interrupts and discarded scans: what folders and the scan count
\* as added and deleted is what the scan found, and so is what a living folder counts as
\* modified and unchanged if the scan was not resumed; and folders have versions just
\* where there is something to count.
THEOREM CountsTell == Spec => []CountsExact
<1>1. CountInv => FolderCountsExact
  <2> SUFFICES ASSUME CountInv, Settled, NEW d \in Dirs, NEW v \in At(d, scan)
               PROVE  /\ v.counts.adds = Fated(d, "added") /\ v.counts.dels = Fated(d, "deleted")
                      /\ v.alive /\ ~resumed =>
                           /\ v.counts.mods = Fated(d, "modified")
                           /\ v.counts.unchanged = Fated(d, "kept")
    BY DEF FolderCountsExact
  <2>1. PICK c : c = v.counts
    OBVIOUS
  <2>2. Good(d, c)
    BY <2>1, SettledCounted DEF Settled, Counted
  <2>3. PICK k, m, e, u : /\ k = Fated(d, "kept") /\ m = Fated(d, "modified")
                          /\ e = Fated(d, "deleted") /\ u = c.unchanged
    OBVIOUS
  <2>4. k \in Nat /\ m \in Nat /\ e \in Nat /\ u \in Nat
    BY <2>2, <2>3, FatedNat DEF Good
  <2>5. ASSUME ~resumed
        PROVE  c.mods = m /\ u = k
    <3>1. c.mods = m /\ c.dels = e
      BY <2>2, <2>3, <2>5 DEF Good
    <3>2. m + e + u = k + m + e
      BY <2>2, <2>3, <3>1 DEF Good, WasBelow
    <3> QED
      BY <2>4, <3>1, <3>2
  <2> QED
    BY <2>1, <2>2, <2>3, <2>5 DEF Good
<1>2. CountInv => ScanTotalsExact
  BY DEF CountInv, Summed, ScanTotalsExact
<1> QED
  BY <1>1, <1>2, VersionsTell, CountInvariant, PTL DEF CountsExact
=============================================================================
