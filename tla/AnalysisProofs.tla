--------------------------- MODULE AnalysisProofs ---------------------------
(***************************************************************************)
(* The high water mark is safe for every number of files and threads and   *)
(* every size of batches and channel.                                      *)
(***************************************************************************)
EXTENDS AnalysisPhase, FiniteSetTheorems, WellFoundedInduction, TLAPS

Handled(i) == file[i] \in {"written", "blank"}

Busy(w) == worker[w].at \in {"reading", "writing", "completing"}

Quiet == \A w \in Workers : worker[w].at \in Ended

\* What a run of the phase has fetched so far.
Fetched(i) == i <= cursor \/ i \in batch

(***************************************************************************)
(* While somebody is in the phase, every fetched file that is not handled  *)
(* is in flight, so the least one in flight bounds what is done; each file *)
(* in flight is in one place only; and the mark stays below all of them,   *)
(* so that none falls behind it by failing.                                *)
(***************************************************************************)
Accounted == \A i \in Files : Fetched(i) /\ ~Handled(i) => i \in inFlight

InOrder ==
  /\ \A i \in inFlight : Fetched(i) /\ hwm < i
  /\ batch = {} => hwm <= cursor
  /\ \A b \in batch : cursor < b
  /\ \A b \in batch, i \in Files : cursor < i /\ i < b /\ ~Handled(i) => i \in batch
  /\ pc = "send" <=> batch # {}

OnePlace ==
  /\ batch \subseteq inFlight /\ queue \subseteq inFlight
  /\ \A i \in queue : i <= cursor
  /\ \A w \in Workers : Busy(w) =>
       /\ worker[w].file \in inFlight
       /\ worker[w].file <= cursor
       /\ worker[w].file \notin queue
       /\ \A v \in Workers : v # w /\ Busy(v) => worker[v].file # worker[w].file
       /\ worker[w].at = "completing" => Handled(worker[w].file)

InPhase == Accounted /\ InOrder /\ OnePlace

HwmInv ==
  /\ TypeOK
  /\ HwmSafe
  /\ scan = "open" /\ pc \in {"off", "left"} => Quiet
  /\ pc # "off" => scan = "open" /\ InPhase
-----------------------------------------------------------------------------
LEMMA LeastIsLeast ==
  ASSUME NEW S \in SUBSET Nat, S # {}
  PROVE  Least(S) \in S /\ \A j \in S : Least(S) <= j
<1>1. \A n, k \in Nat : n < k => <<n, k>> \in OpToRel(<, Nat)
  BY Zenon DEF OpToRel
<1>2. PICK R : IsWellFoundedOn(R, Nat) /\ \A n, k \in Nat : n < k => <<n, k>> \in R
  BY <1>1, NatLessThanWellFounded, Zenon
<1>3. PICK k \in S : \A n \in S : ~ (<<n, k>> \in R)
  <2>1. IsWellFoundedOn(R, Nat)
    BY <1>2
  <2> QED
    BY <2>1, WFMin, Zenon
<1>4. ASSUME NEW n \in S PROVE k <= n
  <2>1. n \in Nat /\ k \in Nat /\ ~ (n < k)
    BY <1>2, <1>3
  <2> QED
    BY <2>1
<1> QED
  BY <1>3, <1>4 DEF Least

\* A batch takes the candidates in order: none is skipped.
LEMMA NextBatchInOrder ==
  ASSUME cursor \in Nat
  PROVE  /\ NextBatch \subseteq Candidates(cursor)
         /\ \A b \in NextBatch, i \in Candidates(cursor) : i < b => i \in NextBatch
<1> DEFINE all == Candidates(cursor)
           UpTo(i) == {j \in all : j <= i}
<1>1. IsFiniteSet(Files)
  BY FS_Interval, AnalysisAssumption DEF Files
<1>2. SUFFICES ASSUME NEW b \in NextBatch, NEW i \in all, i < b
               PROVE  i \in NextBatch
  BY DEF NextBatch
<1>3. b \in all /\ Cardinality(UpTo(b)) <= BatchSize
  BY DEF NextBatch
<1>4. UpTo(i) \subseteq UpTo(b) /\ UpTo(b) \subseteq Files
  BY <1>2, <1>3, AnalysisAssumption DEF Candidates, Files
<1>5. IsFiniteSet(UpTo(b))
  BY <1>1, <1>4, FS_Subset
<1>6. /\ Cardinality(UpTo(i)) <= Cardinality(UpTo(b))
      /\ Cardinality(UpTo(i)) \in Nat /\ Cardinality(UpTo(b)) \in Nat
  <2> HIDE DEF UpTo
  <2> QED
    BY <1>4, <1>5, FS_Subset, FS_CardinalityType
<1> QED
  BY <1>3, <1>6, AnalysisAssumption DEF NextBatch
-----------------------------------------------------------------------------
LEMMA NumFilesNat ==
  /\ NumFiles \in Nat /\ Files \subseteq Nat \ {0}
  /\ \A i \in Nat : i <= NumFiles <=> i \in Files \/ i = 0
BY AnalysisAssumption DEF Files

LEMMA StartPhaseInv == HwmInv /\ StartPhase => HwmInv'
<1> SUFFICES ASSUME HwmInv, StartPhase PROVE HwmInv'
  OBVIOUS
<1>1. TypeOK'
  BY NumFilesNat DEF HwmInv, TypeOK, StartPhase, db, Ended
<1>2. HwmSafe'
  BY DEF HwmInv, HwmSafe, StartPhase, db
<1>3. InPhase'
  <2>1. Accounted'
    BY NumFilesNat DEF HwmInv, HwmSafe, TypeOK, StartPhase, db, Accounted, Fetched, Handled
  <2>2. InOrder'
    BY DEF HwmInv, TypeOK, StartPhase, db, InOrder
  <2>3. OnePlace'
    BY DEF StartPhase, OnePlace, Busy
  <2> QED
    BY <2>1, <2>2, <2>3 DEF InPhase
<1> QED
  BY <1>1, <1>2, <1>3 DEF HwmInv, StartPhase, db

LEMMA FetchInv == HwmInv /\ Fetch => HwmInv'
<1> SUFFICES ASSUME HwmInv, Fetch PROVE HwmInv'
  OBVIOUS
<1>1. /\ NextBatch \subseteq Candidates(cursor)
      /\ \A b \in NextBatch, i \in Candidates(cursor) : i < b => i \in NextBatch
      /\ cursor \in Nat /\ hwm \in Nat
  <2>1. cursor \in Nat /\ hwm \in Nat
    BY NumFilesNat DEF HwmInv, TypeOK
  <2> QED
    BY <2>1, NextBatchInOrder
<1>2. \A i \in NextBatch : i \in Files /\ cursor < i
  BY <1>1 DEF Candidates
<1>3. TypeOK'
  BY <1>2 DEF HwmInv, TypeOK, Fetch, db
<1>4. HwmSafe'
  BY DEF HwmInv, HwmSafe, Fetch, db
<1>5. InPhase'
  <2>1. InPhase /\ batch = {} /\ hwm <= cursor
    BY DEF HwmInv, InPhase, InOrder, Fetch
  <2>2. Accounted'
    BY <2>1 DEF InPhase, Fetch, db, Accounted, Fetched, Handled
  <2>3. InOrder'
    <3>1. \A i \in inFlight' : (Fetched(i) /\ hwm < i)'
      <4>1. ASSUME NEW i \in inFlight PROVE i <= cursor /\ hwm < i
        BY <2>1 DEF InPhase, InOrder, Fetched
      <4>2. ASSUME NEW i \in NextBatch PROVE i \in batch' /\ hwm < i
        <5>1. i \in Nat /\ cursor < i
          BY <1>2, NumFilesNat
        <5> QED
          BY <1>1, <2>1, <5>1 DEF Fetch
      <4> QED
        BY <4>1, <4>2 DEF Fetch, db, Fetched
    <3>2. \A b \in batch', i \in Files : cursor < i /\ i < b /\ ~Handled(i) => i \in batch'
      BY <1>1 DEF Fetch, Handled, Candidates
    <3> QED
      BY <1>2, <3>1, <3>2 DEF Fetch, db, InOrder, Handled
  <2>4. OnePlace'
    BY <2>1 DEF InPhase, Fetch, db, OnePlace, Busy, Handled
  <2> QED
    BY <2>2, <2>3, <2>4 DEF InPhase
<1> QED
  BY <1>3, <1>4, <1>5 DEF HwmInv, Fetch, db

LEMMA SendInv == HwmInv /\ Send => HwmInv'
<1> SUFFICES ASSUME HwmInv, Send PROVE HwmInv'
  OBVIOUS
<1>1. InPhase /\ scan = "open" /\ batch # {} /\ batch \subseteq Nat
  BY NumFilesNat DEF HwmInv, TypeOK, InPhase, InOrder, Send
<1>2. PICK b \in batch : b = Least(batch) /\ \A j \in batch : b <= j
  BY <1>1, LeastIsLeast
<1>3. /\ cursor' = b /\ batch' = batch \ {b} /\ queue' = queue \cup {b}
      /\ UNCHANGED <<db, worker, inFlight, intr>>
      /\ pc' \in {"fetch", "send"} /\ (pc' = "send" <=> batch' # {})
      /\ b \in Files /\ b \in Nat /\ cursor \in Nat /\ hwm \in Nat /\ cursor < b
  BY <1>1, <1>2, NumFilesNat DEF Send, HwmInv, TypeOK, InPhase, InOrder
<1>4. TypeOK'
  BY <1>3, NumFilesNat DEF HwmInv, TypeOK, db
<1>5. HwmSafe'
  BY <1>3 DEF HwmInv, HwmSafe, db
<1>6. Accounted'
  <2> SUFFICES ASSUME NEW i \in Files, i <= b \/ i \in batch, ~Handled(i)
               PROVE  i \in inFlight
    BY <1>3 DEF Accounted, Fetched, Handled, db
  <2>1. Fetched(i)
    BY <1>1, <1>2, <1>3, NumFilesNat DEF InPhase, InOrder, Fetched
  <2> QED
    BY <1>1, <2>1 DEF InPhase, Accounted
<1>7. InOrder'
  <2>1. \A i \in inFlight : (i <= b \/ i \in batch') /\ hwm < i
    <3> SUFFICES ASSUME NEW i \in inFlight PROVE (i <= b \/ i \in batch') /\ hwm < i
      OBVIOUS
    <3>1. (i <= cursor \/ i \in batch) /\ hwm < i /\ i \in Nat
      BY <1>1, NumFilesNat DEF InPhase, InOrder, Fetched, HwmInv, TypeOK
    <3> QED
      BY <1>3, <3>1
  <2>2. hwm <= b
    BY <1>1, <1>3 DEF InPhase, OnePlace, InOrder
  <2>3. \A c \in batch' : b < c
    BY <1>1, <1>2, <1>3
  <2>4. \A c \in batch', i \in Files : b < i /\ i < c /\ ~Handled(i) => i \in batch'
    BY <1>1, <1>3, NumFilesNat DEF InPhase, InOrder
  <2> QED
    BY <1>3, <2>1, <2>2, <2>3, <2>4 DEF InOrder, Fetched, Handled, db
<1>8. OnePlace'
  <2>1. b \in inFlight /\ \A w \in Workers : Busy(w) => worker[w].file # b
    BY <1>1, <1>3, NumFilesNat DEF InPhase, OnePlace, HwmInv, TypeOK
  <2>2. \A i \in queue \cup {b} : i <= b
    BY <1>1, <1>3, NumFilesNat DEF InPhase, OnePlace, HwmInv, TypeOK
  <2>3. \A w \in Workers : Busy(w) => worker[w].file <= b
    BY <1>1, <1>3, NumFilesNat DEF InPhase, OnePlace, HwmInv, TypeOK
  <2> QED
    BY <1>1, <1>3, <2>1, <2>2, <2>3 DEF InPhase, OnePlace, Busy, Handled, db
<1> QED
  BY <1>1, <1>3, <1>4, <1>5, <1>6, <1>7, <1>8 DEF HwmInv, InPhase, db

\* The dispatcher's other steps, and those of the task.
LEMMA DispatcherInv ==
  HwmInv /\ (EndLoop \/ LeavePhase \/ OnStopped \/ OnError \/ OnPaused) => HwmInv'
<1> SUFFICES ASSUME HwmInv PROVE
      EndLoop \/ LeavePhase \/ OnStopped \/ OnError \/ OnPaused => HwmInv'
  OBVIOUS
<1>1. CASE EndLoop
  <2>1. TypeOK' /\ HwmSafe'
    BY <1>1 DEF HwmInv, TypeOK, HwmSafe, EndLoop, db
  <2>2. InPhase'
    BY <1>1 DEF HwmInv, EndLoop, db, InPhase, Accounted, InOrder, OnePlace, Fetched,
                Handled, Busy
  <2> QED
    BY <1>1, <2>1, <2>2 DEF HwmInv, EndLoop, db
<1>2. CASE LeavePhase
  <2>1. TypeOK' /\ HwmSafe'
    BY <1>2 DEF HwmInv, TypeOK, HwmSafe, LeavePhase
  <2>2. Quiet'
    BY <1>2 DEF LeavePhase, Joined, Quiet
  <2>3. pc' # "off" => scan' = "open" /\ InPhase'
    BY <1>2 DEF HwmInv, LeavePhase, Joined, InPhase, Accounted, InOrder, OnePlace,
                Fetched, Handled, Busy
  <2> QED
    BY <2>1, <2>2, <2>3 DEF HwmInv
<1>3. CASE OnStopped \/ OnError
  <2>1. pc' = "off" /\ scan' \in {"stopped", "error"}
    BY <1>3 DEF OnStopped, OnError, Discard
  <2>2. TypeOK'
    BY <1>3 DEF HwmInv, TypeOK, OnStopped, OnError, Discard
  <2> QED
    BY <2>1, <2>2 DEF HwmInv, HwmSafe
<1>4. CASE OnPaused
  BY <1>4 DEF HwmInv, TypeOK, HwmSafe, OnPaused, db, Quiet
<1> QED
  BY <1>1, <1>2, <1>3, <1>4

\* The workers' steps that leave the files and the tracker alone.
LEMMA WorkerInv ==
  ASSUME HwmInv, NEW w \in Workers, Receive(w) \/ Exit(w) \/ Read(w)
  PROVE  HwmInv'
<1>1. /\ UNCHANGED <<db, dispatcher, inFlight, intr>>
      /\ worker[w].at \notin Ended
  BY DEF Receive, Exit, Read, Step, Ended
<1>2. pc # "off" \/ scan # "open"
  BY <1>1 DEF HwmInv, Quiet
<1>3. HwmSafe' /\ (scan = "open" /\ pc \in {"off", "left"} => Quiet)'
  BY <1>1 DEF HwmInv, HwmSafe, Quiet, db, dispatcher
<1>4. TypeOK'
  <2>1. CASE Receive(w)
    <3>1. Least(queue) \in queue
      BY <2>1, NumFilesNat, LeastIsLeast DEF Receive, HwmInv, TypeOK
    <3>2. Least(queue) \in 0 .. NumFiles
      <4>1. Least(queue) \in Files
        BY <3>1 DEF HwmInv, TypeOK
      <4> QED
        BY <4>1, AnalysisAssumption DEF Files
    <3>3. queue' \subseteq Files
      BY <2>1 DEF HwmInv, TypeOK, Receive
    <3> QED
      BY <1>1, <2>1, <3>2, <3>3 DEF HwmInv, TypeOK, Receive, db, dispatcher
  <2>2. CASE Exit(w) \/ Read(w)
    BY <1>1, <2>2 DEF HwmInv, TypeOK, Exit, Read, Step, db, dispatcher, Ended
  <2> QED
    BY <2>1, <2>2
<1>5. ASSUME pc # "off" PROVE InPhase'
  <2>1. InPhase
    BY <1>5 DEF HwmInv
  <2>2. Accounted' /\ InOrder'
    BY <1>1, <2>1 DEF InPhase, Accounted, InOrder, Fetched, Handled, db, dispatcher
  <2>3. OnePlace'
    <3>1. CASE Receive(w)
      <4>1. Least(queue) \in queue
        BY <3>1, NumFilesNat, LeastIsLeast DEF Receive, HwmInv, TypeOK
      <4>2. \A v \in Workers : v # w => worker'[v] = worker[v]
        BY <3>1 DEF Receive, HwmInv, TypeOK
      <4>3. worker'[w] = [at |-> "reading", file |-> Least(queue)]
        BY <3>1 DEF Receive, HwmInv, TypeOK
      <4>4. queue' = queue \ {Least(queue)}
        BY <3>1 DEF Receive
      <4> QED
        BY <1>1, <2>1, <4>1, <4>2, <4>3, <4>4
           DEF InPhase, OnePlace, Busy, Handled, db, dispatcher
    <3>2. CASE Exit(w) \/ Read(w)
      <4>1. \A v \in Workers : v # w => worker'[v] = worker[v]
        BY <3>2 DEF Exit, Read, Step, HwmInv, TypeOK
      <4>2. /\ worker'[w].file = worker[w].file
            /\ worker'[w].at \in {"gone", "writing", "idle"}
            /\ worker'[w].at = "writing" => worker[w].at = "reading"
            /\ queue' = queue
        BY <3>2 DEF Exit, Read, Step, HwmInv, TypeOK
      <4> QED
        BY <1>1, <2>1, <4>1, <4>2
           DEF InPhase, OnePlace, Busy, Handled, db, dispatcher
    <3> QED
      BY <3>1, <3>2
  <2> QED
    BY <2>2, <2>3 DEF InPhase
<1> QED
  BY <1>1, <1>3, <1>4, <1>5 DEF HwmInv, db, dispatcher

\* A transaction for a file in a worker's hands moves it to or from the handled
\* files; the mark is below it either way.
LEMMA PersistInv ==
  ASSUME HwmInv, NEW w \in Workers,
         \/ \E outcome \in {"written", "blank"} : Persist(w, outcome)
         \/ PersistFails(w) \/ PersistPanics(w)
  PROVE  HwmInv'
<1> DEFINE i == worker[w].file
<1>1. PICK to, outcome :
        /\ Step(w, "writing", to)
        /\ file' = [file EXCEPT ![i] = outcome]
        /\ to \in {"completing", "idle", "dead"}
        /\ outcome \in {"written", "blank", "lost"}
        /\ to = "completing" => outcome # "lost"
  BY DEF Persist, PersistFails, PersistPanics
<1>2. UNCHANGED <<scan, hwm, dispatcher, queue, inFlight, intr>>
  BY DEF Persist, PersistFails, PersistPanics
<1>3. /\ worker[w].at = "writing" /\ worker'[w].at = to /\ worker'[w].file = i
      /\ \A v \in Workers : v # w => worker'[v] = worker[v]
  BY <1>1 DEF Step, HwmInv, TypeOK
<1>4. TypeOK'
  BY <1>1, <1>2 DEF HwmInv, TypeOK, Step, dispatcher, Ended
<1>5. CASE scan # "open"
  BY <1>2, <1>4, <1>5 DEF HwmInv, HwmSafe, dispatcher
<1>6. CASE scan = "open"
  <2>1. pc \notin {"off", "left"} /\ InPhase
    BY <1>3, <1>6 DEF HwmInv, Quiet, Ended
  <2>2. i \in inFlight /\ i \in Files /\ hwm < i
    BY <1>3, <2>1 DEF InPhase, OnePlace, InOrder, Busy, HwmInv, TypeOK
  <2>3. /\ \A j \in Files : j # i => file'[j] = file[j]
        /\ file'[i] = outcome
    BY <1>1, <2>2 DEF HwmInv, TypeOK
  <2>4. HwmSafe'
    BY <1>2, <2>2, <2>3, NumFilesNat DEF HwmInv, HwmSafe, TypeOK, Files
  <2>5. Accounted'
    BY <1>2, <2>1, <2>2, <2>3 DEF InPhase, Accounted, Fetched, Handled, dispatcher
  <2>6. InOrder'
    <3>1. \A b \in batch, j \in Files : cursor < j /\ j < b /\ ~Handled(j)' => j \in batch
      <4>1. i <= cursor
        BY <1>3, <2>1 DEF InPhase, OnePlace, Busy
      <4> QED
        BY <2>1, <2>3, <4>1, NumFilesNat DEF InPhase, InOrder, Handled, HwmInv, TypeOK
    <3> QED
      BY <1>2, <2>1, <3>1 DEF InPhase, InOrder, Fetched, Handled, dispatcher
  <2>7. OnePlace'
    <3>1. \A v \in Workers : v # w /\ Busy(v) => worker[v].file # i
      BY <1>3, <2>1 DEF InPhase, OnePlace, Busy
    <3> QED
      BY <1>1, <1>2, <1>3, <2>1, <2>2, <2>3, <3>1
         DEF InPhase, OnePlace, Busy, Handled, dispatcher, HwmInv, TypeOK
  <2> QED
    BY <1>2, <1>4, <1>6, <2>1, <2>4, <2>5, <2>6, <2>7 DEF HwmInv, InPhase, dispatcher
<1> QED
  BY <1>5, <1>6

\* The mark moves to just below the next file in flight, or to the last one done.
LEMMA CompleteItemInv ==
  ASSUME HwmInv, NEW w \in Workers, CompleteItem(w)
  PROVE  HwmInv'
<1> DEFINE i == worker[w].file
<1>1. /\ worker[w].at = "completing" /\ worker'[w].at = "idle"
      /\ \A v \in Workers : v # w => worker'[v] = worker[v]
      /\ inFlight' = inFlight \ {i}
      /\ UNCHANGED <<scan, file, dispatcher, queue, intr>>
      /\ hwm' = IF scan = "open" THEN NewHwm(i) ELSE hwm
  BY DEF CompleteItem, Step, HwmInv, TypeOK
<1>2. worker' \in [Workers -> [at : Ended \cup {"idle", "reading", "writing", "completing"},
                             file : 0 .. NumFiles]]
  BY DEF CompleteItem, Step, HwmInv, TypeOK
<1>3. CASE scan # "open"
  BY <1>1, <1>2, <1>3 DEF HwmInv, TypeOK, HwmSafe, dispatcher
<1>4. CASE scan = "open"
  <2>1. pc \notin {"off", "left"} /\ InPhase
    BY <1>1, <1>4 DEF HwmInv, Quiet, Ended
  <2>2. i \in inFlight /\ Handled(i) /\ i <= cursor /\ hwm < i
    BY <1>1, <2>1 DEF InPhase, OnePlace, InOrder, Busy
  <2>3. /\ inFlight \subseteq Nat /\ inFlight \subseteq Files
        /\ hwm \in Nat /\ cursor \in Nat /\ i \in Nat /\ i <= NumFiles
        /\ hwm <= NumFiles
    BY <2>2, NumFilesNat DEF HwmInv, TypeOK
  \* Whatever is below the least file in flight is handled.
  <2>4. ASSUME NEW n \in inFlight, \A j \in inFlight : n <= j \/ j = i,
               NEW j \in Files, j < n
        PROVE  Handled(j)
    <3>1. Fetched(n)
      BY <2>1 DEF InPhase, InOrder
    <3>2. Handled(j) \/ Fetched(j)
      BY <2>1, <2>3, <2>4, <3>1, NumFilesNat DEF InPhase, InOrder, Fetched
    <3>3. Handled(j) \/ j \in inFlight
      BY <2>1, <3>2 DEF InPhase, Accounted
    <3> QED
      BY <2>2, <2>3, <2>4, <3>3
  <2>5. /\ hwm' \in Nat /\ hwm' <= NumFiles
        /\ \A j \in inFlight' : hwm' < j
        /\ batch = {} => hwm' <= cursor
        /\ \A j \in Files : j <= hwm' => Handled(j)
    <3>1. hwm' = NewHwm(i) /\ \A j \in Files : j <= hwm => Handled(j)
      BY <1>1, <1>4, <2>3 DEF HwmInv, HwmSafe, Handled, Files
    <3>2. CASE i # Least(inFlight)
      <4>1. hwm' = hwm
        BY <3>1, <3>2 DEF NewHwm
      <4> QED
        BY <1>1, <2>1, <2>3, <3>1, <4>1 DEF InPhase, InOrder
    <3>3. CASE inFlight = {i} /\ i = Least(inFlight)
      <4>1. hwm' = i /\ inFlight' = {}
        BY <1>1, <3>1, <3>3 DEF NewHwm
      <4>2. \A j \in Files : j < i \/ j = i => Handled(j)
        BY <2>2, <2>4, <3>3
      <4>3. \A j \in Files : j <= i => j < i \/ j = i
        <5>1. i \in Nat
          BY <2>3
        <5> HIDE DEF i
        <5> QED
          BY <5>1, NumFilesNat
      <4> HIDE DEF i
      <4> QED
        BY <2>2, <2>3, <4>1, <4>2, <4>3
    <3>4. CASE inFlight # {i} /\ i = Least(inFlight)
      <4> DEFINE n == Least(inFlight \ {i})
      <4>1. n \in inFlight \ {i} /\ \A j \in inFlight \ {i} : n <= j
        <5>1. inFlight \ {i} # {} /\ inFlight \ {i} \in SUBSET Nat
          BY <2>2, <2>3, <3>4
        <5> QED
          BY <5>1, LeastIsLeast
      <4>2. i <= n /\ n \in Nat /\ n # i
        BY <2>2, <2>3, <3>4, <4>1, LeastIsLeast
      <4>3. hwm' = n - 1
        BY <3>1, <3>4 DEF NewHwm
      <4>4. batch = {} => n <= cursor
        BY <2>1, <4>1 DEF InPhase, InOrder, Fetched
      <4>5. \A j \in Files : j < n => Handled(j)
        BY <2>4, <4>1
      <4>6. n <= NumFiles
        BY <2>3, <4>1, NumFilesNat
      <4> HIDE DEF n
      <4> QED
        BY <1>1, <2>2, <2>3, <4>1, <4>2, <4>3, <4>4, <4>5, <4>6, NumFilesNat
    <3> QED
      BY <3>2, <3>3, <3>4
  <2>6. TypeOK'
    <3>1. hwm' \in 0 .. NumFiles
      BY <2>5, NumFilesNat
    <3> QED
      BY <1>1, <1>2, <3>1 DEF HwmInv, TypeOK, dispatcher
  <2>7. HwmSafe'
    BY <1>1, <2>5, NumFilesNat DEF HwmSafe, Handled, Files
  <2>8. Accounted'
    BY <1>1, <2>1, <2>2 DEF InPhase, Accounted, Fetched, Handled, dispatcher
  <2>9. InOrder'
    BY <1>1, <2>1, <2>5 DEF InPhase, InOrder, Fetched, Handled, dispatcher
  <2>10. OnePlace'
    <3>1. i \notin queue /\ i \notin batch
      BY <1>1, <2>1, <2>2, <2>3, NumFilesNat DEF InPhase, OnePlace, InOrder, Busy, HwmInv, TypeOK
    <3>2. \A v \in Workers : v # w /\ Busy(v) => worker[v].file # i
      BY <1>1, <2>1 DEF InPhase, OnePlace, Busy
    <3> QED
      BY <1>1, <2>1, <3>1, <3>2 DEF InPhase, OnePlace, Busy, Handled, dispatcher
  <2> QED
    BY <1>1, <2>1, <1>4, <2>6, <2>7, <2>8, <2>9, <2>10 DEF HwmInv, InPhase, dispatcher
<1> QED
  BY <1>3, <1>4

LEMMA FaultInv ==
  HwmInv /\ (FetchFails \/ Crash \/ \E who \in {"stop", "pause"} : Interrupt(who)) => HwmInv'
<1> SUFFICES ASSUME HwmInv PROVE
      FetchFails \/ Crash \/ (\E who \in {"stop", "pause"} : Interrupt(who)) => HwmInv'
  OBVIOUS
<1>1. CASE Crash
  BY <1>1, NumFilesNat, AnalysisAssumption
     DEF Crash, HwmInv, TypeOK, HwmSafe, Quiet, NoThreads, db, Ended
<1>2. CASE FetchFails \/ \E who \in {"stop", "pause"} : Interrupt(who)
  <2>1. /\ UNCHANGED <<db, cursor, batch, queue, worker, inFlight>>
        /\ pc # "off" /\ (pc' = pc \/ (pc = "fetch" /\ pc' = "failed"))
        /\ intr' \in {"no", "stop", "pause"}
    BY <1>2 DEF FetchFails, Interrupt, dispatcher, HwmInv, TypeOK
  <2>2. TypeOK' /\ HwmSafe' /\ (scan = "open" /\ pc \in {"off", "left"} => Quiet)'
    BY <2>1 DEF HwmInv, TypeOK, HwmSafe, Quiet, db
  <2>3. InPhase'
    BY <2>1 DEF HwmInv, InPhase, Accounted, InOrder, OnePlace, Fetched, Handled, Busy, db
  <2> QED
    BY <2>1, <2>2, <2>3 DEF HwmInv, db
<1> QED
  BY <1>1, <1>2

LEMMA InitHwmInv == Init => HwmInv
BY NumFilesNat, AnalysisAssumption DEF Init, HwmInv, TypeOK, HwmSafe, Quiet, NoThreads, Ended

LEMMA NextHwmInv == HwmInv /\ [Next]_vars => HwmInv'
<1> SUFFICES ASSUME HwmInv, [Next]_vars PROVE HwmInv'
  OBVIOUS
<1>1. CASE UNCHANGED vars
  BY <1>1 DEF vars, HwmInv, TypeOK, HwmSafe, Quiet, InPhase, Accounted, InOrder,
              OnePlace, Fetched, Handled, Busy
<1>2. CASE Dispatch
  BY <1>2, StartPhaseInv, FetchInv, SendInv, DispatcherInv DEF Dispatch
<1>3. CASE \E w \in Workers : Work(w) \/ PersistFails(w)
  BY <1>3, WorkerInv, PersistInv, CompleteItemInv DEF Work
<1>4. CASE FetchFails \/ Crash \/ \E who \in {"stop", "pause"} : Interrupt(who)
  BY <1>4, FaultInv
<1> QED
  BY <1>1, <1>2, <1>3, <1>4 DEF Next

\* However many files and threads there are, and whatever the sizes of batches and
\* channel: no run of the phase, resumed after any pauses and crashes, lets the high
\* water mark of an open scan pass a file whose analysis is not committed.
THEOREM HighWaterMarkSafe == Spec => []HwmSafe
<1>1. HwmInv => HwmSafe
  BY DEF HwmInv
<1> QED
  BY InitHwmInv, NextHwmInv, <1>1, PTL DEF Spec
-----------------------------------------------------------------------------
(***************************************************************************)
(* No file is analyzed twice: what waits in the channel or is yet to be    *)
(* sent has no results, and no two threads hold the same file, also while  *)
(* those that a failed fetch left behind still drain the channel.          *)
(***************************************************************************)
Distinct ==
  \A w \in Workers : Busy(w) =>
    /\ worker[w].file \in Files /\ worker[w].file \notin queue
    /\ \A v \in Workers : v # w /\ Busy(v) => worker[v].file # worker[w].file

TwiceInv ==
  /\ \A i \in queue : file[i] # "written"
  /\ pc # "off" => \A i \in batch : file[i] # "written"
  /\ Distinct
  /\ NeverTwice

\* The dispatcher and the task: what it fetches has no results, and what it sends
\* is above all that was sent before.
LEMMA DispatchTwice ==
  ASSUME HwmInv, TwiceInv, Dispatch
  PROVE  TwiceInv'
<1>1. CASE StartPhase
  <2>1. /\ queue' = {} /\ batch' = {}
        /\ \A w \in Workers : worker'[w].at \in {"idle", "none"}
    BY <1>1 DEF StartPhase
  <2> QED
    BY <2>1 DEF TwiceInv, Distinct, NeverTwice, Busy
<1>2. CASE Fetch
  <2>1. \A i \in batch' : file[i] # "written"
    BY <1>2 DEF Fetch, NextBatch, Candidates
  <2> QED
    BY <1>2, <2>1 DEF Fetch, TwiceInv, Distinct, NeverTwice, Busy, db
<1>3. CASE Send
  <2>1. InPhase /\ pc = "send" /\ batch # {} /\ batch \in SUBSET Nat
    BY <1>3, NumFilesNat DEF HwmInv, TypeOK, InPhase, InOrder, Send
  <2>2. PICK b \in batch : b = Least(batch)
    BY <2>1, LeastIsLeast
  <2>3. /\ batch' = batch \ {b} /\ queue' = queue \cup {b}
        /\ UNCHANGED <<file, worker>>
    BY <1>3, <2>2 DEF Send, db
  <2>4. \A w \in Workers : Busy(w) => worker[w].file # b
    BY <2>1, <2>2, NumFilesNat DEF InPhase, InOrder, OnePlace, HwmInv, TypeOK
  <2> QED
    BY <2>1, <2>3, <2>4 DEF TwiceInv, Distinct, NeverTwice, Busy
<1>4. CASE EndLoop \/ LeavePhase \/ OnPaused
  <2>1. pc # "off" /\ UNCHANGED <<file, batch, queue, worker>>
    BY <1>4 DEF EndLoop, LeavePhase, Joined, OnPaused, db
  <2> QED
    BY <2>1 DEF TwiceInv, Distinct, NeverTwice, Busy
<1>5. CASE OnStopped \/ OnError
  <2>1. /\ file' = [i \in Files |-> "todo"] /\ pc' = "off"
        /\ UNCHANGED <<queue, worker>>
    BY <1>5 DEF OnStopped, OnError, Discard
  <2>2. queue \subseteq Files
    BY DEF HwmInv, TypeOK
  <2>3. \A i \in Files : file'[i] # "written"
    BY <2>1
  <2> QED
    BY <2>1, <2>2, <2>3 DEF TwiceInv, Distinct, NeverTwice, Busy
<1> QED
  BY <1>1, <1>2, <1>3, <1>4, <1>5 DEF Dispatch

\* A thread takes from the channel what no other holds, and what it stores is the
\* file in its hands.
LEMMA WorkTwice ==
  ASSUME HwmInv, TwiceInv, NEW w \in Workers, Work(w) \/ PersistFails(w)
  PROVE  TwiceInv'
<1>1. CASE Receive(w)
  <2>1. /\ queue \in SUBSET Nat /\ queue \subseteq Files /\ queue # {}
        /\ worker' = [worker EXCEPT ![w] = [at |-> "reading", file |-> Least(queue)]]
        /\ queue' = queue \ {Least(queue)}
        /\ UNCHANGED <<file, pc, batch>>
    BY <1>1, NumFilesNat DEF Receive, HwmInv, TypeOK, db, dispatcher
  <2>2. Least(queue) \in queue
    BY <2>1, LeastIsLeast
  <2>3. /\ \A v \in Workers : v # w => worker'[v] = worker[v]
        /\ worker'[w].at = "reading" /\ worker'[w].file = Least(queue)
    BY <2>1 DEF HwmInv, TypeOK
  <2> DEFINE i == Least(queue)
  <2>4. i \in queue /\ i \in Files /\ file[i] # "written"
    BY <2>1, <2>2 DEF TwiceInv
  <2> HIDE DEF i
  <2>5. Distinct'
    BY <2>1, <2>3, <2>4 DEF i, TwiceInv, Distinct, Busy
  <2>6. NeverTwice'
    BY <2>1, <2>3, <2>4 DEF i, TwiceInv, NeverTwice
  <2> QED
    BY <2>1, <2>5, <2>6 DEF TwiceInv
<1>2. CASE Exit(w) \/ Read(w) \/ CompleteItem(w)
  <2>1. UNCHANGED <<file, pc, batch, queue>>
    BY <1>2 DEF Exit, Read, CompleteItem, db, dispatcher
  <2>2. /\ \A v \in Workers : v # w => worker'[v] = worker[v]
        /\ worker'[w].file = worker[w].file
        /\ worker'[w].at \in {"gone", "idle", "writing"}
        /\ worker'[w].at = "writing" => worker[w].at = "reading"
    BY <1>2 DEF Exit, Read, CompleteItem, Step, HwmInv, TypeOK
  <2> QED
    BY <2>1, <2>2 DEF TwiceInv, Distinct, NeverTwice, Busy
<1>3. CASE (\E outcome \in {"written", "blank"} : Persist(w, outcome))
           \/ PersistFails(w) \/ PersistPanics(w)
  <2> DEFINE i == worker[w].file
  <2>1. PICK outcome, to :
          /\ file' = [file EXCEPT ![i] = outcome]
          /\ Step(w, "writing", to) /\ to \in {"completing", "idle", "dead"}
    BY <1>3 DEF Persist, PersistFails, PersistPanics
  <2>2. UNCHANGED <<pc, batch, queue>>
    BY <1>3 DEF Persist, PersistFails, PersistPanics, dispatcher
  <2>3. /\ worker[w].at = "writing" /\ worker'[w].at = to /\ worker'[w].file = i
        /\ \A v \in Workers : v # w => worker'[v] = worker[v]
    BY <2>1 DEF Step, HwmInv, TypeOK
  <2>4. \A j \in Files : j # i => file'[j] = file[j]
    BY <2>1 DEF HwmInv, TypeOK
  <2>5. i \notin queue /\ \A v \in Workers : v # w /\ Busy(v) => worker[v].file # i
    BY <2>3 DEF TwiceInv, Distinct, Busy
  <2>6. pc # "off" => i \notin batch
    <3> SUFFICES ASSUME pc # "off" PROVE i \notin batch
      OBVIOUS
    <3>1. i <= cursor /\ \A b \in batch : cursor < b
      BY <2>3 DEF HwmInv, InPhase, InOrder, OnePlace, Busy
    <3>2. i \in Nat /\ cursor \in Nat /\ batch \subseteq Nat
      BY <2>3, NumFilesNat DEF HwmInv, TypeOK, TwiceInv, Distinct, Busy
    <3> HIDE DEF i
    <3> QED
      BY <3>1, <3>2
  <2>7. batch \subseteq Files /\ queue \subseteq Files
    BY DEF HwmInv, TypeOK
  <2> QED
    BY <2>1, <2>2, <2>3, <2>4, <2>5, <2>6, <2>7 DEF TwiceInv, Distinct, NeverTwice, Busy
<1> QED
  BY <1>1, <1>2, <1>3 DEF Work

LEMMA NextTwice == HwmInv /\ TwiceInv /\ [Next]_vars => TwiceInv'
<1> SUFFICES ASSUME HwmInv, TwiceInv, [Next]_vars PROVE TwiceInv'
  OBVIOUS
<1>1. CASE UNCHANGED vars
  BY <1>1 DEF vars, TwiceInv, Distinct, NeverTwice, Busy
<1>2. CASE Dispatch
  BY <1>2, DispatchTwice
<1>3. CASE \E w \in Workers : Work(w) \/ PersistFails(w)
  BY <1>3, WorkTwice
<1>4. CASE Crash
  BY <1>4 DEF Crash, NoThreads, TwiceInv, Distinct, NeverTwice, Busy
<1>5. CASE FetchFails \/ \E who \in {"stop", "pause"} : Interrupt(who)
  <2>1. pc # "off" /\ UNCHANGED <<file, batch, queue, worker>>
    BY <1>5 DEF FetchFails, Interrupt, db, dispatcher
  <2> QED
    BY <2>1 DEF TwiceInv, Distinct, NeverTwice, Busy
<1> QED
  BY <1>1, <1>2, <1>3, <1>4, <1>5 DEF Next

\* Whatever the number of threads and the sizes of batches and channel, no thread
\* analyzes a file whose results are stored: not a file that another thread
\* finished, not one that was finished before a pause or a crash, and not after a
\* failed fetch has left threads behind.
THEOREM NoFileTwice == Spec => []NeverTwice
<1>1. Init => TwiceInv
  BY DEF Init, NoThreads, TwiceInv, Distinct, NeverTwice, Busy
<1>2. TwiceInv => NeverTwice
  BY DEF TwiceInv
<1> QED
  BY InitHwmInv, NextHwmInv, NextTwice, <1>1, <1>2, PTL DEF Spec

\* When a stopped scan has been rolled back, no thread is left that could write for
\* it, however many there were and whatever they were doing when it was stopped: the
\* phase is left with the pool joined only (run_analysis_phase).
THEOREM StoppedIsQuiet == Spec => []StoppedLeavesNothing
<1>1. Init => StoppedLeavesNothing
  BY DEF Init, StoppedLeavesNothing
<1>2. HwmInv /\ StoppedLeavesNothing /\ [Next]_vars => StoppedLeavesNothing'
  <2> SUFFICES ASSUME HwmInv, StoppedLeavesNothing, [Next]_vars
               PROVE  StoppedLeavesNothing'
    OBVIOUS
  <2>1. CASE OnStopped
    <3>1. Quiet /\ UNCHANGED worker /\ file' = [i \in Files |-> "todo"]
      BY <2>1 DEF OnStopped, Discard, HwmInv
    <3> QED
      BY <3>1 DEF StoppedLeavesNothing, Quiet
  <2>2. CASE ~ OnStopped /\ scan # "stopped"
    <3>1. scan' # "stopped"
      BY <2>2 DEF Next, vars, db, Dispatch, Work, StartPhase, Fetch, EndLoop, Send, LeavePhase,
                  OnError, OnPaused, Discard, Receive, Exit, Read, Persist, PersistFails,
                  PersistPanics, CompleteItem, FetchFails, Interrupt, Crash
    <3> QED
      BY <3>1 DEF StoppedLeavesNothing
  <2>3. CASE ~ OnStopped /\ scan = "stopped"
    <3>1. pc = "off" /\ Quiet
      BY <2>3 DEF HwmInv, StoppedLeavesNothing, Quiet
    <3>2. ~ Dispatch
      BY <2>3, <3>1 DEF Dispatch, StartPhase, Fetch, EndLoop, Send, LeavePhase, Joined,
                        OnError, OnPaused
    <3>3. \A w \in Workers : ~ (Work(w) \/ PersistFails(w))
      BY <3>1 DEF Quiet, Ended, Work, Receive, Exit, Read, Persist, PersistFails,
                  PersistPanics, CompleteItem, Step
    <3>4. UNCHANGED vars
      BY <3>1, <3>2, <3>3 DEF Next, FetchFails, Interrupt, Crash
    <3> QED
      BY <2>3, <3>4 DEF vars, StoppedLeavesNothing
  <2> QED
    BY <2>1, <2>2, <2>3
<1> QED
  BY InitHwmInv, NextHwmInv, <1>1, <1>2, PTL DEF Spec
-----------------------------------------------------------------------------
(***************************************************************************)
(* No file is forgotten: one that is fetched and untouched is in the       *)
(* channel or in the hands of a thread, until somebody interrupts; and a   *)
(* thread that ended by itself saw the channel empty.                      *)
(***************************************************************************)
Held(w, i) == worker[w].at \in {"reading", "writing"} /\ worker[w].file = i

Waiting(i) == i \in queue \/ \E w \in Workers : Held(w, i)

Sent == \A i \in Files : file[i] = "todo" /\ (i <= cursor \/ pc = "join") => Waiting(i)

Drained == (\E w \in Workers : worker[w].at = "gone") => queue = {} /\ pc \notin {"fetch", "send"}

TriedInv ==
  /\ pc # "off" => (Uninterrupted => Sent) /\ Drained
  /\ scan = "advanced" => pc = "off" /\ Quiet
  /\ EveryFileTried

\* A batch comes out empty when there is nothing left only.
LEMMA NoneLeft ==
  ASSUME cursor \in Nat, NextBatch = {}
  PROVE  Candidates(cursor) = {}
<1> SUFFICES ASSUME Candidates(cursor) # {} PROVE FALSE
  OBVIOUS
<1>1. Candidates(cursor) \in SUBSET Nat
  BY NumFilesNat DEF Candidates
<1>2. PICK k \in Candidates(cursor) : \A j \in Candidates(cursor) : k <= j
  BY <1>1, LeastIsLeast
<1>3. {j \in Candidates(cursor) : j <= k} = {k}
  BY <1>1, <1>2
<1>4. Cardinality({k}) = 1
  BY FS_Singleton
<1>5. Cardinality({j \in Candidates(cursor) : j <= k}) <= BatchSize
  BY <1>3, <1>4, AnalysisAssumption
<1> QED
  BY <1>2, <1>5 DEF NextBatch

LEMMA DispatchTried ==
  ASSUME HwmInv, HwmInv', TriedInv, Dispatch
  PROVE  TriedInv'
<1>1. CASE StartPhase
  <2>1. /\ scan' = scan /\ scan = "open" /\ pc' = "fetch" /\ cursor' = hwm /\ file' = file
        /\ \A w \in Workers : worker'[w].at \in {"idle", "none"}
    BY <1>1 DEF StartPhase, db
  <2>2. \A i \in Files : i <= hwm => file[i] # "todo"
    BY <2>1, NumFilesNat DEF HwmInv, HwmSafe, TypeOK, Files
  <2>3. Sent' /\ Drained'
    BY <2>1, <2>2 DEF Sent, Drained
  <2> QED
    BY <2>1, <2>3 DEF TriedInv, EveryFileTried
<1>2. CASE Fetch
  <2>1. /\ UNCHANGED <<scan, file, cursor, queue, worker, intr>>
        /\ pc = "fetch" /\ pc' = "send" /\ scan = "open"
    BY <1>2 DEF Fetch, db, HwmInv
  <2>2. (Uninterrupted => Sent)' /\ Drained'
    BY <2>1 DEF TriedInv, Sent, Drained, Waiting, Held, Uninterrupted
  <2> QED
    BY <2>1, <2>2 DEF TriedInv, EveryFileTried
<1>3. CASE Send
  <2>1. /\ InPhase /\ scan = "open" /\ pc = "send" /\ batch # {} /\ batch \in SUBSET Nat
        /\ cursor \in Nat
    BY <1>3, NumFilesNat DEF HwmInv, TypeOK, InPhase, InOrder, Send
  <2>2. PICK b \in batch : b = Least(batch) /\ \A j \in batch : b <= j
    BY <2>1, LeastIsLeast
  <2>3. /\ cursor' = b /\ queue' = queue \cup {b} /\ pc' \in {"fetch", "send"}
        /\ UNCHANGED <<scan, file, worker, intr>>
    BY <1>3, <2>2 DEF Send, db
  <2>4. b \in Files /\ b \in Nat
    BY <2>1 DEF HwmInv, TypeOK
  <2>5. ASSUME Uninterrupted, NEW i \in Files, file[i] = "todo", i <= b
        PROVE  i \in queue \cup {b} \/ \E w \in Workers : Held(w, i)
    <3>1. i \in Nat
      BY NumFilesNat
    <3>2. CASE i <= cursor
      BY <2>1, <2>5, <3>2 DEF TriedInv, Sent, Waiting
    <3>3. CASE cursor < i /\ i < b
      <4>1. i \in batch
        BY <2>1, <2>5, <3>3 DEF InPhase, InOrder, Handled
      <4> QED
        BY <2>2, <2>4, <3>1, <3>3, <4>1
    <3> QED
      BY <2>1, <2>4, <2>5, <3>1, <3>2, <3>3
  <2>6. (Uninterrupted => Sent)'
    BY <2>3, <2>5 DEF Sent, Waiting, Held, Uninterrupted
  <2>7. Drained'
    BY <2>1, <2>3 DEF TriedInv, Drained
  <2> QED
    BY <2>1, <2>3, <2>6, <2>7 DEF TriedInv, EveryFileTried
<1>4. CASE EndLoop
  <2>1. /\ UNCHANGED <<scan, file, cursor, queue, worker, intr>>
        /\ pc = "fetch" /\ pc' = "join" /\ scan = "open"
        /\ Uninterrupted => NextBatch = {}
        /\ cursor \in Nat
    BY <1>4, NumFilesNat DEF EndLoop, db, HwmInv, TypeOK
  <2>2. ASSUME Uninterrupted, NEW i \in Files, file[i] = "todo"
        PROVE  Waiting(i)
    <3>1. Candidates(cursor) = {}
      BY <2>1, <2>2, NoneLeft
    <3>2. ~ (i > cursor)
      BY <2>2, <3>1 DEF Candidates
    <3> QED
      BY <2>1, <2>2, <3>2, NumFilesNat DEF TriedInv, Sent
  <2>3. (Uninterrupted => Sent)' /\ Drained'
    BY <2>1, <2>2 DEF TriedInv, Sent, Drained, Waiting, Held, Uninterrupted
  <2> QED
    BY <2>1, <2>3 DEF TriedInv, EveryFileTried
<1>5. CASE LeavePhase
  <2>1. /\ pc = "join" /\ \A w \in Workers : worker[w].at \in Ended
        /\ UNCHANGED <<file, queue, worker, intr>> /\ scan = "open"
    BY <1>5 DEF LeavePhase, Joined, HwmInv
  <2>2. CASE Uninterrupted
    <3>1. scan' = "advanced" /\ pc' = "off"
      BY <1>5, <2>2 DEF LeavePhase
    <3>2. \A w \in Workers, i \in Files : ~Held(w, i)
      BY <2>1 DEF Held, Ended
    <3>3. (\E w \in Workers : worker[w].at = "gone") => \A i \in Files : file[i] # "todo"
      BY <2>1, <2>2, <3>2 DEF TriedInv, Sent, Drained, Waiting
    <3> QED
      BY <2>1, <3>1, <3>3 DEF TriedInv, EveryFileTried, Quiet
  <2>3. CASE ~Uninterrupted
    BY <1>5, <2>1, <2>3 DEF LeavePhase, TriedInv, Drained, EveryFileTried, Uninterrupted
  <2> QED
    BY <2>2, <2>3
<1>6. CASE OnStopped \/ OnError
  <2>1. pc' = "off" /\ scan' \in {"stopped", "error"}
    BY <1>6 DEF OnStopped, OnError, Discard
  <2> QED
    BY <2>1 DEF TriedInv, EveryFileTried
<1>7. CASE OnPaused
  <2>1. pc' = "off" /\ pc # "off" /\ UNCHANGED <<scan, file, worker>>
    BY <1>7 DEF OnPaused, db
  <2> QED
    BY <2>1 DEF TriedInv, EveryFileTried
<1> QED
  BY <1>1, <1>2, <1>3, <1>4, <1>5, <1>6, <1>7 DEF Dispatch

\* A thread lets a file go without an attempt after an interrupt only.
LEMMA WorkTried ==
  ASSUME HwmInv, TriedInv, NEW w \in Workers, Work(w) \/ PersistFails(w)
  PROVE  TriedInv'
<1>1. /\ UNCHANGED <<scan, pc, cursor, intr>> /\ worker[w].at \notin Ended
  BY DEF Work, Receive, Exit, Read, Persist, PersistFails, PersistPanics, CompleteItem, Step,
         Ended, db, dispatcher
<1>2. scan # "advanced"
  BY <1>1 DEF TriedInv, Quiet
<1>3. ASSUME pc # "off" PROVE (Uninterrupted => Sent)' /\ Drained'
  <2>1. InPhase /\ Drained /\ (Uninterrupted => Sent)
    BY <1>3 DEF HwmInv, TriedInv
  <2>2. CASE Receive(w)
    <3>1. /\ queue \in SUBSET Nat /\ queue # {}
          /\ worker' = [worker EXCEPT ![w] = [at |-> "reading", file |-> Least(queue)]]
          /\ queue' = queue \ {Least(queue)} /\ file' = file /\ worker[w].at = "idle"
      BY <2>2, NumFilesNat DEF Receive, HwmInv, TypeOK, db
    <3>2. PICK i \in queue : i = Least(queue)
      BY <3>1, LeastIsLeast
    <3>3. /\ \A v \in Workers : v # w => worker'[v] = worker[v]
          /\ worker'[w].at = "reading" /\ worker'[w].file = i
      BY <3>1, <3>2 DEF HwmInv, TypeOK
    <3>4. \A j : Waiting(j) => Waiting(j)'
      BY <3>1, <3>2, <3>3 DEF Waiting, Held
    <3>5. Drained'
      BY <1>1, <2>1, <3>1, <3>3 DEF Drained
    <3> QED
      BY <1>1, <2>1, <3>1, <3>4, <3>5 DEF Sent, Uninterrupted
  <2>3. CASE Exit(w) \/ Read(w) \/ CompleteItem(w)
    <3>1. /\ UNCHANGED <<file, queue>>
          /\ \A v \in Workers : v # w => worker'[v] = worker[v]
          /\ worker'[w].file = worker[w].file
      BY <2>3 DEF Exit, Read, CompleteItem, Step, HwmInv, TypeOK, db
    <3>2. Uninterrupted => \A j : Waiting(j) => Waiting(j)'
      <4>1. /\ worker[w].at # "writing"
            /\ Uninterrupted /\ worker[w].at = "reading" => worker'[w].at = "writing"
        BY <2>3 DEF Exit, Read, CompleteItem, Step, HwmInv, TypeOK
      <4>2. Uninterrupted => \A v \in Workers : \A j : Held(v, j) => Held(v, j)'
        BY <3>1, <4>1 DEF Held
      <4> QED
        BY <3>1, <4>2 DEF Waiting
    <3>3. Drained'
      <4>1. worker'[w].at = "gone" => queue = {} /\ pc \notin {"fetch", "send"}
        BY <2>3 DEF Exit, Read, CompleteItem, Step, HwmInv, TypeOK
      <4> QED
        BY <1>1, <2>1, <3>1, <4>1 DEF Drained
    <3> QED
      BY <1>1, <2>1, <3>1, <3>2, <3>3 DEF Sent, Uninterrupted
  <2>4. CASE (\E outcome \in {"written", "blank"} : Persist(w, outcome))
             \/ PersistFails(w) \/ PersistPanics(w)
    <3> DEFINE i == worker[w].file
    <3>1. PICK outcome, to :
            /\ file' = [file EXCEPT ![i] = outcome] /\ outcome # "todo"
            /\ Step(w, "writing", to) /\ to \in {"completing", "idle", "dead"}
      BY <2>4 DEF Persist, PersistFails, PersistPanics
    <3>2. queue' = queue
      BY <2>4 DEF Persist, PersistFails, PersistPanics
    <3>3. /\ \A v \in Workers : v # w => worker'[v] = worker[v]
          /\ worker'[w].at = to
      BY <3>1 DEF Step, HwmInv, TypeOK
    <3>4. i \in Files /\ file'[i] # "todo" /\ \A j \in Files : j # i => file'[j] = file[j]
      <4>1. i \in inFlight
        BY <2>1, <3>1 DEF InPhase, OnePlace, Busy, Step
      <4> QED
        BY <3>1, <4>1 DEF HwmInv, TypeOK
    <3>5. \A j \in Files : j # i /\ Waiting(j) => Waiting(j)'
      BY <3>2, <3>3 DEF Waiting, Held
    <3>6. Drained'
      BY <1>1, <2>1, <3>1, <3>2, <3>3 DEF Drained
    <3> HIDE DEF i
    <3> QED
      BY <1>1, <2>1, <3>4, <3>5, <3>6 DEF Sent, Uninterrupted
  <2> QED
    BY <2>2, <2>3, <2>4 DEF Work
<1> QED
  BY <1>1, <1>2, <1>3 DEF TriedInv, EveryFileTried

LEMMA NextTried == HwmInv /\ HwmInv' /\ TriedInv /\ [Next]_vars => TriedInv'
<1> SUFFICES ASSUME HwmInv, HwmInv', TriedInv, [Next]_vars PROVE TriedInv'
  OBVIOUS
<1>1. CASE UNCHANGED vars
  BY <1>1 DEF vars, TriedInv, Sent, Drained, Waiting, Held, Quiet, EveryFileTried, Uninterrupted
<1>2. CASE Dispatch
  BY <1>2, DispatchTried
<1>3. CASE \E w \in Workers : Work(w) \/ PersistFails(w)
  BY <1>3, WorkTried
<1>4. CASE Crash
  <2>1. pc # "off" /\ pc' = "off" /\ scan' = scan /\ scan = "open"
    BY <1>4 DEF Crash, db, HwmInv
  <2> QED
    BY <2>1 DEF TriedInv, EveryFileTried
<1>5. CASE FetchFails \/ \E who \in {"stop", "pause"} : Interrupt(who)
  <2>1. /\ UNCHANGED <<scan, file, cursor, queue, worker>>
        /\ pc # "off" /\ scan = "open"
        /\ \/ pc = "fetch" /\ pc' = "failed" /\ intr' = intr
           \/ pc' = pc /\ intr' # "no"
    BY <1>5 DEF FetchFails, Interrupt, db, dispatcher, HwmInv
  <2>2. (Uninterrupted => Sent)' /\ Drained'
    BY <2>1 DEF TriedInv, Sent, Drained, Waiting, Held, Uninterrupted
  <2> QED
    BY <2>1, <2>2 DEF TriedInv, EveryFileTried
<1> QED
  BY <1>1, <1>2, <1>3, <1>4, <1>5 DEF Next

\* A phase that ends uninterrupted has handed every file to a thread, in this run or
\* an earlier one, however many files and threads there are and whichever of them
\* fail, as long as one thread lives to see the channel empty.
THEOREM NoFileForgotten == Spec => []EveryFileTried
<1>1. Init => TriedInv
  BY DEF Init, TriedInv, EveryFileTried
<1>2. TriedInv => EveryFileTried
  BY DEF TriedInv
<1> QED
  BY InitHwmInv, NextHwmInv, NextTried, <1>1, <1>2, PTL DEF Spec
=============================================================================
