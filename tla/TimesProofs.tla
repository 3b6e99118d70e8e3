---------------------------- MODULE TimesProofs ----------------------------
(***************************************************************************)
(* The calculations of ScheduleTimes, for every length of a day, every     *)
(* calendar, every zone and every schedule.                                *)
(***************************************************************************)
EXTENDS ScheduleTimes, FiniteSetTheorems, WellFoundedInduction, TLAPS

(***************************************************************************)
(* A non-empty set of naturals has a least member: how every search of the *)
(* calculations ends, and how the lemmas about recursion are proved.       *)
(***************************************************************************)
LEMMA LeastOf ==
  ASSUME NEW S \in SUBSET Nat, S # {}
  PROVE  \E k \in S : \A n \in S : k <= n
<1>1. \A n, k \in Nat : n < k => <<n, k>> \in OpToRel(<, Nat)
  BY Zenon DEF OpToRel
<1>2. PICK R : IsWellFoundedOn(R, Nat) /\ \A n, k \in Nat : n < k => <<n, k>> \in R
  BY <1>1, NatLessThanWellFounded, Zenon
<1>3. PICK k \in S : \A n \in S : ~ (<<n, k>> \in R)
  <2>1. IsWellFoundedOn(R, Nat)
    BY <1>2
  <2>q. QED
    BY <2>1, WFMin, Zenon
<1>4. ASSUME NEW n \in S PROVE k <= n
  <2>1. n \in Nat /\ k \in Nat /\ ~ (n < k)
    BY <1>2, <1>3
  <2>q. QED
    BY <2>1
<1>q. QED
  BY <1>4

\* The least member, as the searches choose it.
LEMMA FirstOf ==
  ASSUME NEW S \in SUBSET Nat, S # {}
  PROVE  LET n == CHOOSE n \in S : \A k \in S : n <= k
         IN n \in S /\ \A k \in S : n <= k
BY LeastOf
-----------------------------------------------------------------------------
(* Days *)

\* The instant, on the clock, at which a day begins.
Midnight(q) == q * DayLength

LEMMA Multiples ==
  ASSUME NEW d \in Nat, d > 0, NEW p \in Int, NEW q \in Int
  PROVE  /\ p * d \in Int
         /\ (p + q) * d = p * d + q * d
         /\ p < q => p * d + d <= q * d
         /\ p >= 0 => p * d >= 0
BY Z3

LEMMA Division ==
  ASSUME NEW d \in Nat, d > 0, NEW t \in Int
  PROVE  /\ t \div d \in Int
         /\ (t \div d) * d <= t /\ t < (t \div d) * d + d
         /\ t % d = t - (t \div d) * d
BY Z3

\* Days follow each other, each DayLength long.
LEMMA Midnights ==
  ASSUME NEW p \in Int, NEW q \in Int
  PROVE  /\ DayLength \in Nat /\ DayLength > 1
         /\ Midnight(p) \in Int
         /\ Midnight(p + q) = Midnight(p) + q * DayLength
         /\ p < q => Midnight(p) + DayLength <= Midnight(q)
         /\ p >= 0 => Midnight(p) >= 0
BY CalendarAssumption, Multiples DEF Midnight

LEMMA MidnightType ==
  /\ \A q \in Int : Midnight(q) \in Int
  /\ \A q \in Nat : Midnight(q) \in Nat
<1>1. \A q \in Int : Midnight(q) \in Int
  BY Midnights
<1>2. ASSUME NEW q \in Nat PROVE Midnight(q) \in Nat
  <2>1. Midnight(q) \in Int /\ Midnight(q) >= 0
    BY Midnights
  <2>q. QED
    BY <2>1
<1>q. QED
  BY <1>1, <1>2

LEMMA MidnightOrder ==
  \A p, q \in Int : p < q => Midnight(p) + DayLength <= Midnight(q)
BY Midnights

LEMMA OnDay ==
  ASSUME NEW t \in Int
  PROVE  /\ t \div DayLength \in Int
         /\ Midnight(t \div DayLength) <= t /\ t < Midnight(t \div DayLength) + DayLength
         /\ t % DayLength = t - Midnight(t \div DayLength)
BY CalendarAssumption, Division DEF Midnight

\* The day is the only one whose hours include the instant.
LEMMA TheDay ==
  ASSUME NEW t \in Int, NEW q \in Int, Midnight(q) <= t, t < Midnight(q) + DayLength
  PROVE  t \div DayLength = q /\ t % DayLength = t - Midnight(q)
<1> DEFINE p == t \div DayLength
<1>1. p \in Int /\ Midnight(p) <= t /\ t < Midnight(p) + DayLength /\ t % DayLength = t - Midnight(p)
  BY OnDay
<1>2. /\ DayLength \in Nat /\ Midnight(p) \in Int /\ Midnight(q) \in Int
      /\ p < q => Midnight(p) + DayLength <= Midnight(q)
      /\ q < p => Midnight(q) + DayLength <= Midnight(p)
  BY <1>1, Midnights
<1> HIDE DEF p
<1>3. p = q
  BY <1>1, <1>2
<1>q. QED
  BY <1>1, <1>3 DEF p
-----------------------------------------------------------------------------
(* Clocks *)

ZoneType == [change : Nat, by : {-1, 0, 1}]

LEMMA ZoneFacts ==
  ASSUME NEW z \in Zones
  PROVE  /\ z.change \in Nat /\ z.by \in {-1, 0, 1} /\ z.change + z.by >= 0
         /\ \A t \in Nat : Local(z, t) \in Nat
         /\ \A t, u \in Nat : t <= u => Local(z, t) <= Local(z, u)
<1>1. z.change \in Nat /\ z.by \in {-1, 0, 1} /\ z.change + z.by >= 0
  BY CalendarAssumption
<1>q. QED
  BY <1>1 DEF Local

\* single() finds an instant at which clocks show the hour, and fails only for the
\* hour that clocks skip or repeat.
LEMMA SingleFacts ==
  ASSUME NEW z \in Zones, NEW local \in Nat
  PROVE  /\ \/ Single(z, local) \in Nat /\ Local(z, Single(z, local)) = local
            \/ Single(z, local) = Failed
         /\ Single(z, local) = Failed =>
              \/ z.by = 1 /\ local = z.change
              \/ z.by = -1 /\ local = z.change - 1
<1> DEFINE S == Instants(z, local)
<1>1. z.change \in Nat /\ z.by \in {-1, 0, 1} /\ z.change + z.by >= 0
  BY ZoneFacts
<1>2. S \subseteq Nat /\ (\A t \in S : Local(z, t) = local)
  BY DEF Instants
<1>3. IsFiniteSet(S)
  <2>1. IsFiniteSet({local - 1} \cup {local})
    BY FS_Singleton, FS_AddElement
  <2>2. IsFiniteSet(({local - 1} \cup {local}) \cup {local + 1})
    BY <2>1, FS_AddElement
  <2>q. QED
    BY <2>2, FS_Subset DEF Instants
<1>4. Cardinality(S) = 1 <=> \E t : S = {t}
  BY <1>3, FS_Singleton
<1>5. CASE \E t : S = {t}
  <2>1. Single(z, local) \in S
    BY <1>4, <1>5 DEF Single
  <2>2. Single(z, local) # Failed
    BY <1>2, <2>1 DEF Failed
  <2>q. QED
    BY <1>2, <2>1, <2>2
<1>6. CASE ~ \E t : S = {t}
  <2>1. Single(z, local) = Failed
    BY <1>4, <1>6 DEF Single
  <2>2. ASSUME ~ (z.by = 1 /\ local = z.change), ~ (z.by = -1 /\ local = z.change - 1)
        PROVE  FALSE
    <3>1. CASE z.by = 0
      <4>1. S = {local}
        BY <1>1, <3>1 DEF Instants, Local
      <4>q. QED
        BY <4>1, <1>6
    <3>2. CASE z.by = 1 /\ local < z.change
      <4>1. S = {local}
        BY <1>1, <3>2 DEF Instants, Local
      <4>q. QED
        BY <4>1, <1>6
    <3>3. CASE z.by = 1 /\ local > z.change
      <4>1. S = {local - 1}
        BY <1>1, <3>3 DEF Instants, Local
      <4>q. QED
        BY <4>1, <1>6
    <3>4. CASE z.by = -1 /\ local < z.change - 1
      <4>1. S = {local}
        BY <1>1, <3>4 DEF Instants, Local
      <4>q. QED
        BY <4>1, <1>6
    <3>5. CASE z.by = -1 /\ local > z.change - 1
      <4>1. S = {local + 1}
        BY <1>1, <3>5 DEF Instants, Local
      <4>q. QED
        BY <4>1, <1>6
    <3>q. QED
      BY <1>1, <2>2, <3>1, <3>2, <3>3, <3>4, <3>5
  <2>q. QED
    BY <2>1, <2>2
<1>q. QED
  BY <1>5, <1>6

\* An hour on a day, as instants: the clock shows it, or it is skipped or repeated
\* on that day.
LEMMA HourFacts ==
  ASSUME NEW z \in Zones, NEW q \in Nat, NEW h \in 0 .. DayLength - 1
  PROVE  LET t == Single(z, q * DayLength + h)
         IN /\ \/ /\ t \in Nat /\ Local(z, t) = Midnight(q) + h
                  /\ DayAt(z, t) = q /\ Local(z, t) % DayLength = h
               \/ t = Failed
            /\ t = Failed => z.by # 0 /\ ChangeDay(z) = q
<1> DEFINE local == Midnight(q) + h
<1> DEFINE t == Single(z, local)
<1>1. DayLength \in Nat /\ h \in Nat /\ h < DayLength
  BY CalendarAssumption
<1>0. Midnight(q) \in Nat
  BY MidnightType
<1>2. local \in Nat /\ local \div DayLength = q /\ local % DayLength = h
  <2>1. local \in Nat /\ Midnight(q) <= local /\ local < Midnight(q) + DayLength
    BY <1>0, <1>1
  <2>2. local - Midnight(q) = h
    BY <1>0, <1>1
  <2> HIDE DEF local
  <2>q. QED
    BY <2>1, <2>2, TheDay
<1>3. z.change \in Nat /\ z.by \in {-1, 0, 1}
  BY ZoneFacts
<1>4. /\ \/ t \in Nat /\ Local(z, t) = local
         \/ t = Failed
      /\ t = Failed => \/ z.by = 1 /\ local = z.change
                       \/ z.by = -1 /\ local = z.change - 1
  BY <1>2, SingleFacts
<1>5. t = Single(z, q * DayLength + h)
  BY DEF Midnight
<1> HIDE DEF t, local
<1>6. t = Failed => z.by # 0 /\ ChangeDay(z) = q
  BY <1>2, <1>3, <1>4 DEF ChangeDay
<1>7. t # Failed => DayAt(z, t) = q /\ Local(z, t) % DayLength = h
  BY <1>2, <1>4 DEF DayAt
<1>q. QED
  BY <1>4, <1>5, <1>6, <1>7 DEF local

\* The day of an instant, and that the day goes up with the instant.
LEMMA DayAtFacts ==
  ASSUME NEW z \in Zones, NEW t \in Nat
  PROVE  /\ DayAt(z, t) \in Nat
         /\ Midnight(DayAt(z, t)) <= Local(z, t)
         /\ Local(z, t) < Midnight(DayAt(z, t)) + DayLength
         /\ Local(z, t) % DayLength = Local(z, t) - Midnight(DayAt(z, t))
<1>1. Local(z, t) \in Nat
  BY ZoneFacts
<1>2. /\ DayAt(z, t) \in Int
      /\ Midnight(DayAt(z, t)) <= Local(z, t)
      /\ Local(z, t) < Midnight(DayAt(z, t)) + DayLength
      /\ Local(z, t) % DayLength = Local(z, t) - Midnight(DayAt(z, t))
  BY <1>1, OnDay DEF DayAt
<1>3. DayAt(z, t) < 0 => Midnight(DayAt(z, t)) + DayLength <= 0
  <2>1. Midnight(0) = 0
    BY CalendarAssumption DEF Midnight
  <2>q. QED
    BY <1>2, <2>1, Midnights
<1>4. Midnight(DayAt(z, t)) \in Int /\ DayLength \in Nat
  BY <1>2, Midnights
<1>q. QED
  BY <1>1, <1>2, <1>3, <1>4
-----------------------------------------------------------------------------
(* Months *)

\* The days of month k, counted through the years.
LengthOf(k) == MonthLengths[(k % YearLength) + 1]

LEMMA YearFacts ==
  /\ YearLength \in Nat /\ YearLength > 0
  /\ Months \in Nat /\ MaxNow \in Nat
  /\ \A i \in 1 .. YearLength : MonthLengths[i] \in Nat /\ MonthLengths[i] > 0
BY CalendarAssumption DEF YearLength

LEMMA LengthFacts ==
  ASSUME NEW k \in Nat
  PROVE  (k % YearLength) + 1 \in 1 .. YearLength /\ LengthOf(k) \in Nat /\ LengthOf(k) > 0
<1> DEFINE y == YearLength
<1>1. y \in Nat /\ y > 0
  BY YearFacts
<1>2. k % y = k - (k \div y) * y /\ (k \div y) * y <= k /\ k < (k \div y) * y + y /\ k \div y \in Int
  BY <1>1, Division
<1>3. (k \div y) * y \in Int
  BY <1>1, <1>2, Multiples
<1>4. (k % y) + 1 \in 1 .. y
  BY <1>1, <1>2, <1>3
<1>q. QED
  BY <1>4, YearFacts DEF LengthOf

IsMonthStart(f, n) ==
  f = [m \in 0 .. n |-> IF m = 0 THEN 0 ELSE f[m - 1] + MonthLengths[((m - 1) % YearLength) + 1]]

\* Month by month, the recursion of MonthStart has a solution.
LEMMA MonthStartExists == \A n \in Nat : \E f : IsMonthStart(f, n)
<1> DEFINE Bad == {n \in Nat : ~ \E f : IsMonthStart(f, n)}
<1> SUFFICES ASSUME Bad # {} PROVE FALSE
  OBVIOUS
<1>1. PICK n \in Bad : \A k \in Bad : n <= k
  BY LeastOf
<1>2. n # 0
  <2>1. IsMonthStart([m \in 0 .. 0 |-> 0], 0)
    BY DEF IsMonthStart
  <2>q. QED
    BY <1>1, <2>1
<1>3. PICK f : IsMonthStart(f, n - 1)
  BY <1>1, <1>2
<1> DEFINE step(g, m) == g[m - 1] + MonthLengths[((m - 1) % YearLength) + 1]
<1> DEFINE g == [m \in 0 .. n |-> IF m = n THEN step(f, n) ELSE f[m]]
<1>4. \A m \in 0 .. n - 1 : f[m] = IF m = 0 THEN 0 ELSE step(f, m)
  BY <1>3 DEF IsMonthStart
<1>5. \A m \in 0 .. n : g[m] = IF m = 0 THEN 0 ELSE step(g, m)
  <2> SUFFICES ASSUME NEW m \in 0 .. n PROVE g[m] = IF m = 0 THEN 0 ELSE step(g, m)
    OBVIOUS
  <2>1. CASE m = 0
    BY <1>1, <1>2, <1>4, <2>1
  <2>2. CASE m # 0
    <3>1. g[m - 1] = f[m - 1]
      BY <1>1, <2>2
    <3>q. QED
      BY <1>1, <1>4, <2>2, <3>1
  <2>q. QED
    BY <2>1, <2>2
<1>6. g = [m \in 0 .. n |-> IF m = 0 THEN 0 ELSE step(g, m)]
  <2>1. \A m \in 0 .. n : g[m] = [k \in 0 .. n |-> IF k = 0 THEN 0 ELSE step(g, k)][m]
    BY <1>5
  <2>2. DOMAIN g = 0 .. n /\ g = [m \in 0 .. n |-> g[m]]
    OBVIOUS
  <2> HIDE DEF g, step
  <2>q. QED
    BY <2>1, <2>2
<1>7. IsMonthStart(g, n)
  BY <1>6, Zenon DEF IsMonthStart
<1>q. QED
  BY <1>1, <1>7

\* Each month starts when the one before is over.
LEMMA MonthStartDef ==
  /\ MonthStart[0] = 0
  /\ \A k \in 0 .. Months - 1 : MonthStart[k + 1] = MonthStart[k] + LengthOf(k)
<1>1. Months \in Nat
  BY YearFacts
<1>2. IsMonthStart(MonthStart, Months)
  BY <1>1, MonthStartExists, Zenon DEF MonthStart, IsMonthStart
<1>3. \A m \in 0 .. Months :
        MonthStart[m] = IF m = 0 THEN 0
                        ELSE MonthStart[m - 1] + MonthLengths[((m - 1) % YearLength) + 1]
  BY <1>2 DEF IsMonthStart
<1>4. ASSUME NEW k \in 0 .. Months - 1 PROVE MonthStart[k + 1] = MonthStart[k] + LengthOf(k)
  <2>1. k + 1 \in 0 .. Months /\ k + 1 # 0 /\ (k + 1) - 1 = k
    BY <1>1
  <2>q. QED
    BY <1>3, <2>1 DEF LengthOf
<1>q. QED
  BY <1>1, <1>3, <1>4

LEMMA MonthStartType == \A k \in 0 .. Months : MonthStart[k] \in Nat
<1> DEFINE Bad == {k \in 0 .. Months : MonthStart[k] \notin Nat}
<1> SUFFICES ASSUME Bad # {} PROVE FALSE
  OBVIOUS
<1>0. Months \in Nat
  BY YearFacts
<1>1. PICK k \in Bad : \A l \in Bad : k <= l
  <2>1. Bad \subseteq Nat
    BY <1>0
  <2>q. QED
    BY <2>1, LeastOf
<1>2. k # 0
  BY <1>1, MonthStartDef
<1>3. k - 1 \in 0 .. Months - 1 /\ MonthStart[k - 1] \in Nat
  BY <1>0, <1>1, <1>2
<1>4. MonthStart[k] = MonthStart[k - 1] + LengthOf(k - 1)
  BY <1>0, <1>1, <1>3, MonthStartDef
<1>q. QED
  BY <1>1, <1>3, <1>4, LengthFacts

\* A later month starts when an earlier one is over, or later.
LEMMA MonthsInOrder ==
  \A j, k \in 0 .. Months : j < k => MonthStart[j + 1] <= MonthStart[k]
<1> SUFFICES ASSUME NEW j \in 0 .. Months,
                    NEW l \in 0 .. Months, j < l, ~ (MonthStart[j + 1] <= MonthStart[l])
             PROVE  FALSE
  OBVIOUS
<1> DEFINE Bad == {k \in 0 .. Months : j < k /\ ~ (MonthStart[j + 1] <= MonthStart[k])}
<1>0. Months \in Nat /\ Bad \subseteq Nat /\ Bad # {}
  BY YearFacts
<1>1. PICK k \in Bad : \A n \in Bad : k <= n
  BY <1>0, LeastOf
<1>2. k # j + 1
  BY <1>0, <1>1, MonthStartType
<1>3. k - 1 \in 0 .. Months - 1 /\ MonthStart[j + 1] <= MonthStart[k - 1]
  BY <1>0, <1>1, <1>2
<1>4. MonthStart[k] = MonthStart[k - 1] + LengthOf(k - 1)
  BY <1>0, <1>1, <1>3, MonthStartDef
<1>5. MonthStart[k - 1] \in Nat /\ LengthOf(k - 1) \in Nat /\ MonthStart[j + 1] \in Nat
  BY <1>0, <1>1, <1>3, MonthStartType, LengthFacts
<1>q. QED
  BY <1>1, <1>3, <1>4, <1>5

\* Every day before the end of the calendar is in one month.
LEMMA MonthOfFacts ==
  ASSUME NEW day \in Nat, NEW last \in 0 .. Months, day < MonthStart[last]
  PROVE  /\ MonthOf(day) \in 0 .. last - 1
         /\ MonthStart[MonthOf(day)] <= day /\ day < MonthStart[MonthOf(day) + 1]
<1> DEFINE S == {k \in 0 .. Months : day < MonthStart[k]}
<1>0. Months \in Nat /\ S \subseteq Nat /\ S # {} /\ last \in S
  BY YearFacts
<1>1. PICK k \in S : \A n \in S : k <= n
  BY <1>0, LeastOf
<1>2. k # 0
  BY <1>1, MonthStartDef
<1>3. k - 1 \in 0 .. Months - 1 /\ k - 1 \in 0 .. last - 1 /\ (k - 1) + 1 = k
  BY <1>0, <1>1, <1>2
<1>4. MonthStart[k - 1] <= day /\ day < MonthStart[k]
  <2>1. k - 1 \notin S
    BY <1>1, <1>3
  <2>q. QED
    BY <1>0, <1>1, <1>3, <2>1, MonthStartType
<1>5. /\ MonthOf(day) \in 0 .. Months - 1
      /\ MonthStart[MonthOf(day)] <= day /\ day < MonthStart[MonthOf(day) + 1]
  BY <1>3, <1>4 DEF MonthOf
<1>6. MonthOf(day) < last
  <2>1. ASSUME last <= MonthOf(day) PROVE FALSE
    <3>1. MonthStart[last] <= MonthStart[MonthOf(day)]
      <4>1. CASE last = MonthOf(day)
        BY <4>1, MonthStartType
      <4>2. CASE last < MonthOf(day)
        <5>1. MonthStart[last + 1] <= MonthStart[MonthOf(day)] /\ last \in 0 .. Months - 1
          BY <1>0, <1>5, <4>2, MonthsInOrder
        <5>2. MonthStart[last + 1] = MonthStart[last] + LengthOf(last)
          BY <5>1, MonthStartDef
        <5>q. QED
          BY <1>0, <1>5, <5>1, <5>2, MonthStartType, LengthFacts
      <4>q. QED
        BY <1>0, <1>5, <2>1, <4>1, <4>2
    <3>q. QED
      BY <1>0, <1>5, <3>1, MonthStartType
  <2>q. QED
    BY <1>0, <1>5, <2>1
<1>q. QED
  BY <1>0, <1>5, <1>6

LEMMA TheMonth ==
  ASSUME NEW day \in Nat, NEW k \in 0 .. Months - 1,
         MonthStart[k] <= day, day < MonthStart[k + 1]
  PROVE  MonthOf(day) = k
<1> DEFINE m == MonthOf(day)
<1>0. Months \in Nat /\ k + 1 \in 0 .. Months
  BY YearFacts
<1>1. m \in 0 .. k /\ MonthStart[m] <= day /\ day < MonthStart[m + 1]
  <2>1. MonthOf(day) \in 0 .. (k + 1) - 1
    BY <1>0, MonthOfFacts
  <2>q. QED
    BY <1>0, <2>1, MonthOfFacts
<1> HIDE DEF m
<1>2. ~ (m < k)
  <2>1. ASSUME m < k PROVE MonthStart[m + 1] <= MonthStart[k]
    BY <1>0, <1>1, <2>1, MonthsInOrder
  <2>2. m \in 0 .. Months /\ m + 1 \in 0 .. Months
    BY <1>0, <1>1
  <2>q. QED
    BY <1>0, <1>1, <2>1, <2>2, MonthStartType
<1>q. QED
  BY <1>0, <1>1, <1>2 DEF m

\* The month that is n after month m, in the year and the place calculate_next_monthly
\* gives it, is month m + n.
LEMMA YearAndMonth ==
  ASSUME NEW y \in Nat, y > 0, NEW m \in Nat, NEW n \in Nat
  PROVE  LET year == m \div y
             month == (m % y) + 1
         IN /\ (year + (month + n - 1) \div y) * y + (((month + n - 1) % y) + 1) - 1 = m + n
            /\ (month + n - 1) % y = (m + n) % y
<1> DEFINE year == m \div y
           rest == m % y
           over == (rest + n) \div y
           place == (rest + n) % y
<1>1. year \in Int /\ rest = m - year * y /\ year * y <= m /\ m < year * y + y
  BY Division
<1>2. year * y \in Int /\ rest \in Nat
  BY <1>1, Multiples
<1>3. over \in Int /\ place = (rest + n) - over * y /\ over * y <= rest + n /\ rest + n < over * y + y
  BY <1>2, Division
<1>4. over * y \in Int /\ (year + over) * y = year * y + over * y /\ year + over \in Int
  BY <1>1, <1>3, Multiples
<1> HIDE DEF year, rest, over, place
<1>5. (year + over) * y + place = m + n
  BY <1>1, <1>2, <1>3, <1>4
<1>6. place = (m + n) % y
  <2> DEFINE q == (m + n) \div y
  <2>1. q \in Int /\ (m + n) % y = (m + n) - q * y /\ q * y <= m + n /\ m + n < q * y + y
    BY Division
  <2>2. /\ q * y \in Int /\ (year + over) * y \in Int
        /\ q < year + over => q * y + y <= (year + over) * y
        /\ year + over < q => (year + over) * y + y <= q * y
    BY <1>4, <2>1, Multiples
  <2>3. (year + over) * y <= m + n /\ m + n < (year + over) * y + y
    BY <1>1, <1>2, <1>3, <1>4
  <2> HIDE DEF q
  <2>4. q = year + over
    BY <1>4, <2>1, <2>2, <2>3
  <2>q. QED
    BY <1>1, <1>2, <1>3, <1>4, <2>1, <2>4
<1>7. rest + 1 + n - 1 = rest + n /\ place + 1 - 1 = place /\ place \in Int
  BY <1>2, <1>3, <1>4
<1>8. /\ (year + (rest + 1 + n - 1) \div y) * y + (((rest + 1 + n - 1) % y) + 1) - 1 = m + n
      /\ (rest + 1 + n - 1) % y = (m + n) % y
  <2>1. (rest + 1 + n - 1) \div y = over /\ (rest + 1 + n - 1) % y = place
    BY <1>7 DEF over, place
  <2>2. (year + over) * y + (place + 1) - 1 = m + n
    BY <1>4, <1>5, <1>7
  <2>q. QED
    BY <1>6, <2>1, <2>2
<1>q. QED
  BY <1>8 DEF year, rest

\* The day of a monthly schedule in month k, as an instant: none when the month lacks
\* the day, or clocks skip or repeat the hour.
Slot(z, p, k) ==
  IF p.day > LengthOf(k) THEN Failed
  ELSE Single(z, (MonthStart[k] + p.day - 1) * DayLength + p.hour)

\* The months that NextMonthly looks at.
LEMMA MonthlySlots ==
  ASSUME NEW z \in Zones, NEW p, NEW from, MonthOf(DayAt(z, from)) \in Nat
  PROVE  LET m == MonthOf(DayAt(z, from))
             future == {n \in 0 .. YearLength - 1 : Slot(z, p, m + n) > from}
         IN NextMonthly(z, p, from) =
              IF future = {} THEN Failed
              ELSE Slot(z, p, m + (CHOOSE n \in future : \A k \in future : n <= k))
<1> DEFINE m == MonthOf(DayAt(z, from))
           year == m \div YearLength
           month == (m % YearLength) + 1
           candidate(n) == InMonth(z, year + (month + n - 1) \div YearLength,
                                   TargetMonth(month, n), p.day, p.hour)
           future == {n \in 0 .. YearLength - 1 : candidate(n) > from}
           slots == {n \in 0 .. YearLength - 1 : Slot(z, p, m + n) > from}
<1>1. ASSUME NEW n \in 0 .. YearLength - 1 PROVE candidate(n) = Slot(z, p, m + n)
  <2>1. YearLength \in Nat /\ YearLength > 0 /\ n \in Nat /\ m \in Nat
    BY YearFacts
  <2>2. /\ (year + (month + n - 1) \div YearLength) * YearLength
             + (((month + n - 1) % YearLength) + 1) - 1 = m + n
        /\ (month + n - 1) % YearLength = (m + n) % YearLength
    BY <2>1, YearAndMonth
  <2>3. MonthLengths[TargetMonth(month, n)] = LengthOf(m + n)
    BY <2>2 DEF TargetMonth, LengthOf
  <2>4. MonthStart[(year + (month + n - 1) \div YearLength) * YearLength
                     + TargetMonth(month, n) - 1] = MonthStart[m + n]
    BY <2>2 DEF TargetMonth
  <2> HIDE DEF m, year, month
  <2>q. QED
    BY <2>3, <2>4 DEF InMonth, Slot
<1>2. NextMonthly(z, p, from) =
        IF future = {} THEN Failed
        ELSE candidate(CHOOSE n \in future : \A k \in future : n <= k)
  BY DEF NextMonthly
<1>3. future = slots
  BY <1>1
<1>4. slots # {} => (CHOOSE n \in slots : \A k \in slots : n <= k) \in 0 .. YearLength - 1
  <2>1. slots \subseteq Nat
    BY YearFacts
  <2> DEFINE first == CHOOSE n \in slots : \A k \in slots : n <= k
  <2>2. ASSUME slots # {} PROVE first \in slots
    <3> HIDE DEF slots
    <3>q. QED
      BY <2>1, <2>2, FirstOf
  <2>q. QED
    BY <2>2
<1> HIDE DEF m, candidate, future
<1>q. QED
  BY <1>1, <1>2, <1>3, <1>4 DEF m

\* An instant on a later day is later, whatever clocks did in between.
LEMMA LaterDay ==
  ASSUME NEW z \in Zones, NEW t \in Nat, NEW u \in Nat, t <= u
  PROVE  DayAt(z, t) <= DayAt(z, u)
<1> DEFINE p == DayAt(z, t)
           q == DayAt(z, u)
<1>1. Local(z, t) \in Nat /\ Local(z, u) \in Nat /\ Local(z, t) <= Local(z, u)
  BY ZoneFacts
<1>2. p \in Nat /\ Midnight(p) <= Local(z, t) /\ q \in Nat /\ Local(z, u) < Midnight(q) + DayLength
  BY DayAtFacts
<1> HIDE DEF p, q
<1>3. Midnight(p) \in Nat /\ Midnight(q) \in Nat /\ DayLength \in Nat
  BY <1>2, MidnightType, CalendarAssumption
<1>4. q < p => Midnight(q) + DayLength <= Midnight(p)
  BY <1>2, Midnights
<1>5. p <= q
  BY <1>1, <1>2, <1>3, <1>4
<1>q. QED
  BY <1>5 DEF p, q

\* Two of the months that follow month m within a year have the day.
LEMMA TwoMonths ==
  ASSUME NEW m \in Nat, NEW day \in Nat, NEW a \in 1 .. YearLength,
         day >= 1, day <= MonthLengths[a]
  PROVE  \E j, k \in 1 .. YearLength - 1 :
           j # k /\ day <= LengthOf(m + j) /\ day <= LengthOf(m + k)
<1> DEFINE y == YearLength
           c == (m % y) + 1
           q == m \div y
           Has(i) == i \in 1 .. y /\ i # c /\ day <= MonthLengths[i]
           ahead(i) == IF i > c THEN i - c ELSE i - c + y
<1>1. y \in Nat /\ y > 0
  BY YearFacts
<1>2. q \in Int /\ m = q * y + c - 1 /\ c \in 1 .. y /\ q * y \in Int
  <2>1. q \in Int /\ m % y = m - q * y /\ q * y <= m /\ m < q * y + y
    BY <1>1, Division
  <2>2. q * y \in Int
    BY <1>1, <2>1, Multiples
  <2> HIDE DEF q
  <2>q. QED
    BY <1>1, <2>1, <2>2
<1>3. \E i, l : i # l /\ Has(i) /\ Has(l)
  <2>1. PICK k, l \in (1 .. y) \ {a} :
          k # l /\ day <= MonthLengths[k] /\ day <= MonthLengths[l]
    <3>1. MonthLengths[a] \in Nat
      BY YearFacts
    <3>2. day \in 1 .. MonthLengths[a]
      BY <3>1
    <3>q. QED
      BY <3>2, DaysAssumption
  <2> HIDE DEF c
  <2>2. CASE c = k
    BY <2>1, <2>2
  <2>3. CASE c # k /\ c = l
    BY <2>1, <2>3
  <2>4. CASE c # k /\ c # l
    BY <2>1, <2>4
  <2>q. QED
    BY <2>2, <2>3, <2>4
<1>4. ASSUME NEW i, Has(i)
      PROVE  ahead(i) \in 1 .. y - 1 /\ (m + ahead(i)) % y = i - 1
  <2>0. i \in 1 .. y /\ i # c
    BY <1>4
  <2> HIDE DEF c, q, y
  <2>1. ahead(i) \in 1 .. y - 1
    BY <1>1, <1>2, <2>0
  <2> DEFINE t == m + ahead(i)
             r == t \div y
             over == IF i > c THEN q ELSE q + 1
  <2>2. over \in Int /\ over * y \in Int /\ t = over * y + i - 1
    <3>1. (q + 1) * y = q * y + y
      <4>1. 1 * y = y
        BY <1>1
      <4>2. (q + 1) * y = q * y + 1 * y
        BY <1>1, <1>2, Multiples
      <4>q. QED
        BY <4>1, <4>2
    <3>2. CASE i > c
      BY <1>1, <1>2, <2>0, <3>2
    <3>3. CASE ~ (i > c)
      <4>1. over = q + 1 /\ ahead(i) = i - c + y
        BY <3>3
      <4>2. over * y = q * y + y
        BY <3>1, <4>1
      <4>q. QED
        BY <1>1, <1>2, <2>0, <4>1, <4>2
    <3>q. QED
      BY <3>2, <3>3
  <2>3. t \in Int
    BY <2>1, <1>1
  <2>4. r \in Int /\ t % y = t - r * y /\ r * y <= t /\ t < r * y + y
    BY <1>1, <2>3, Division
  <2>5. r * y \in Int /\ (r < over => r * y + y <= over * y) /\ (over < r => over * y + y <= r * y)
    BY <1>1, <2>2, <2>4, Multiples
  <2> HIDE DEF t, r, over
  <2>6. r = over
    BY <1>1, <2>0, <2>2, <2>3, <2>4, <2>5
  <2>7. t % y = i - 1
    BY <2>0, <2>2, <2>3, <2>4, <2>5, <2>6
  <2>q. QED
    BY <2>1, <2>7 DEF t
<1>5. PICK i, l : i # l /\ Has(i) /\ Has(l)
  BY <1>3
<1>6. ahead(i) \in 1 .. y - 1 /\ (m + ahead(i)) % y = i - 1
  BY <1>4, <1>5
<1>7. ahead(l) \in 1 .. y - 1 /\ (m + ahead(l)) % y = l - 1
  BY <1>4, <1>5
<1>8. i \in 1 .. y /\ l \in 1 .. y /\ day <= MonthLengths[i] /\ day <= MonthLengths[l]
  BY <1>5
<1>9. LengthOf(m + ahead(i)) = MonthLengths[i] /\ LengthOf(m + ahead(l)) = MonthLengths[l]
  <2>1. (i - 1) + 1 = i /\ (l - 1) + 1 = l
    BY <1>1, <1>8
  <2> HIDE DEF ahead
  <2>q. QED
    BY <1>6, <1>7, <2>1 DEF LengthOf
<1>10. ahead(i) # ahead(l)
  <2> HIDE DEF ahead
  <2>q. QED
    BY <1>5, <1>6, <1>7, <1>8
<1>q. QED
  BY <1>6, <1>7, <1>8, <1>9, <1>10

\* What a monthly schedule that validate accepts has.
MonthlyPlan(p) ==
  /\ p.type = "monthly" /\ p.hour \in 0 .. DayLength - 1
  /\ p.day \in Nat /\ p.day >= 1
  /\ \E a \in 1 .. YearLength : p.day <= MonthLengths[a]

LEMMA MonthlyPlans ==
  ASSUME NEW p, ValidPlan(p), p.type = "monthly"
  PROVE  MonthlyPlan(p)
<1>1. PICK a \in 1 .. YearLength : p.day \in 1 .. MonthLengths[a]
  BY DEF ValidPlan
<1>2. MonthLengths[a] \in Nat
  BY YearFacts
<1>q. QED
  BY <1>1, <1>2 DEF ValidPlan, MonthlyPlan

\* The slot of month k is on its day, at its hour; it is missing only when the month
\* lacks the day or clocks are changed on it.
LEMMA SlotFacts ==
  ASSUME NEW z \in Zones, NEW p, MonthlyPlan(p), NEW k \in 0 .. Months - 1
  PROVE  /\ \/ /\ Slot(z, p, k) \in Nat /\ Wanted(z, p, Slot(z, p, k))
               /\ DayAt(z, Slot(z, p, k)) = MonthStart[k] + p.day - 1
               /\ Local(z, Slot(z, p, k)) = Midnight(MonthStart[k] + p.day - 1) + p.hour
               /\ p.day <= LengthOf(k)
            \/ Slot(z, p, k) = Failed
         /\ Slot(z, p, k) = Failed =>
              p.day > LengthOf(k) \/ (z.by # 0 /\ ChangeDay(z) = MonthStart[k] + p.day - 1)
<1>0. Months \in Nat /\ k \in Nat /\ k + 1 \in 0 .. Months /\ k \in 0 .. Months
  BY YearFacts
<1>1. MonthStart[k] \in Nat /\ LengthOf(k) \in Nat /\ MonthStart[k + 1] = MonthStart[k] + LengthOf(k)
  BY <1>0, MonthStartType, LengthFacts, MonthStartDef
<1>2. p.day \in Nat /\ p.day >= 1 /\ p.hour \in 0 .. DayLength - 1 /\ p.type = "monthly"
  BY DEF MonthlyPlan
<1>3. CASE p.day > LengthOf(k)
  BY <1>3 DEF Slot
<1>4. CASE p.day <= LengthOf(k)
  <2> DEFINE q == MonthStart[k] + p.day - 1
             t == Single(z, q * DayLength + p.hour)
  <2>1. Slot(z, p, k) = t
    BY <1>1, <1>2, <1>4 DEF Slot
  <2>2. q \in Nat /\ MonthStart[k] <= q /\ q < MonthStart[k + 1] /\ q - MonthStart[k] + 1 = p.day
    BY <1>1, <1>2, <1>4
  <2>3. MonthOf(q) = k
    <3> HIDE DEF q
    <3>q. QED
      BY <2>2, TheMonth
  <2>4. /\ \/ /\ t \in Nat /\ Local(z, t) = Midnight(q) + p.hour
              /\ DayAt(z, t) = q /\ Local(z, t) % DayLength = p.hour
           \/ t = Failed
        /\ t = Failed => z.by # 0 /\ ChangeDay(z) = q
    <3> HIDE DEF q
    <3>q. QED
      BY <1>2, <2>2, HourFacts
  <2> HIDE DEF q, t
  <2>5. t # Failed => Wanted(z, p, t)
    BY <1>2, <2>2, <2>3, <2>4 DEF Wanted
  <2>q. QED
    BY <1>4, <2>1, <2>4, <2>5 DEF q
<1>q. QED
  BY <1>1, <1>2, <1>3, <1>4

\* The month of a run that starts leaves room for a year.
LEMMA MonthRoom ==
  ASSUME NEW z \in Zones, NEW from \in 0 .. MaxNow
  PROVE  LET m == MonthOf(DayAt(z, from))
         IN /\ m \in Nat /\ m + YearLength <= Months - 1
            /\ MonthStart[m] <= DayAt(z, from) /\ DayAt(z, from) < MonthStart[m + 1]
<1> DEFINE q == DayAt(z, from)
           last == Months - YearLength
<1>1. from \in Nat /\ from <= MaxNow /\ MaxNow \in Nat /\ Months \in Nat /\ YearLength \in Nat
  BY YearFacts
<1>2. Local(z, from) <= from + 1 /\ Local(z, from) \in Nat
  BY <1>1, ZoneFacts DEF Local
<1>3. q \in Nat /\ Midnight(q) <= Local(z, from)
  BY <1>1, DayAtFacts
<1>4. last \in 0 .. Months
  BY <1>1, MonthsAssumption
<1>5. MonthStart[last] \in Nat
  BY <1>4, MonthStartType
<1>6. Local(z, from) < Midnight(MonthStart[last])
  <2>1. MaxNow + 1 < Midnight(MonthStart[last])
    BY MonthsAssumption DEF Midnight
  <2>2. Midnight(MonthStart[last]) \in Nat
    BY <1>5, MidnightType
  <2>q. QED
    BY <1>1, <1>2, <2>1, <2>2
<1> HIDE DEF q, last
<1>7. q < MonthStart[last]
  <2>1. Midnight(q) \in Nat /\ Midnight(MonthStart[last]) \in Nat /\ DayLength \in Nat
    BY <1>3, <1>5, MidnightType, CalendarAssumption
  <2>2. \A p \in Int : p < q => Midnight(p) + DayLength <= Midnight(q)
    BY <1>3, Midnights
  <2>q. QED
    BY <1>2, <1>3, <1>5, <1>6, <2>1, <2>2
<1>8. MonthOf(q) \in 0 .. last - 1 /\ MonthStart[MonthOf(q)] <= q /\ q < MonthStart[MonthOf(q) + 1]
  BY <1>3, <1>4, <1>7, MonthOfFacts
<1>9. MonthOf(q) \in Nat /\ MonthOf(q) + YearLength <= Months - 1
  BY <1>1, <1>8 DEF last
<1>q. QED
  BY <1>8, <1>9 DEF q

\* A later month's slot is on a later day, hence later.
LEMMA LaterMonth ==
  ASSUME NEW z \in Zones, NEW p, MonthlyPlan(p), NEW from \in 0 .. MaxNow,
         NEW n \in 1 .. YearLength - 1,
         Slot(z, p, MonthOf(DayAt(z, from)) + n) # Failed
  PROVE  Slot(z, p, MonthOf(DayAt(z, from)) + n) > from
<1> DEFINE m == MonthOf(DayAt(z, from))
           k == m + n
           t == Slot(z, p, k)
<1>1. /\ m \in Nat /\ m + YearLength <= Months - 1 /\ YearLength \in Nat /\ Months \in Nat
      /\ MonthStart[m] <= DayAt(z, from) /\ DayAt(z, from) < MonthStart[m + 1]
  BY MonthRoom, YearFacts
<1> HIDE DEF m
<1>2. k \in 0 .. Months - 1 /\ m \in 0 .. Months /\ k \in 0 .. Months /\ m + 1 \in 0 .. Months /\ m < k
  BY <1>1
<1>3. t \in Nat /\ DayAt(z, t) = MonthStart[k] + p.day - 1 /\ p.day \in Nat /\ p.day >= 1
  BY <1>2, SlotFacts DEF m, MonthlyPlan
<1>4. MonthStart[m + 1] <= MonthStart[k] /\ MonthStart[m + 1] \in Nat /\ MonthStart[k] \in Nat
  BY <1>2, MonthsInOrder, MonthStartType
<1>5. from \in Nat /\ DayAt(z, from) \in Nat
  BY DayAtFacts, YearFacts
<1> HIDE DEF k, t
<1>6. DayAt(z, t) \in Nat /\ (t <= from => DayAt(z, t) <= DayAt(z, from))
  BY <1>3, <1>5, LaterDay, DayAtFacts
<1>7. DayAt(z, from) < DayAt(z, t)
  BY <1>1, <1>3, <1>4, <1>5
<1>8. t > from
  BY <1>3, <1>5, <1>6, <1>7
<1>q. QED
  BY <1>8 DEF m, k, t

\* Some month within the year has a slot: two of them have the day, and clocks are not
\* changed on both.
LEMMA SomeSlot ==
  ASSUME NEW z \in Zones, NEW p, MonthlyPlan(p), NEW from \in 0 .. MaxNow
  PROVE  \E n \in 0 .. YearLength - 1 : Slot(z, p, MonthOf(DayAt(z, from)) + n) > from
<1> DEFINE m == MonthOf(DayAt(z, from))
<1>1. m \in Nat /\ m + YearLength <= Months - 1 /\ YearLength \in Nat /\ Months \in Nat
  BY MonthRoom, YearFacts
<1>2. p.day \in Nat /\ p.day >= 1
  BY DEF MonthlyPlan
<1>3. PICK j, k \in 1 .. YearLength - 1 :
        j # k /\ p.day <= LengthOf(m + j) /\ p.day <= LengthOf(m + k)
  <2>1. PICK a \in 1 .. YearLength : p.day <= MonthLengths[a]
    BY DEF MonthlyPlan
  <2> HIDE DEF m
  <2>q. QED
    BY <1>1, <1>2, <2>1, TwoMonths
<1>4. ASSUME NEW i \in 1 .. YearLength - 1, NEW l \in 1 .. YearLength - 1, i < l,
             p.day <= LengthOf(m + i), p.day <= LengthOf(m + l),
             Slot(z, p, m + i) = Failed, Slot(z, p, m + l) = Failed
      PROVE  FALSE
  <2> HIDE DEF m
  <2>1. /\ m + i \in 0 .. Months - 1 /\ m + l \in 0 .. Months - 1
        /\ m + i \in 0 .. Months /\ m + l \in 0 .. Months
        /\ m + i < m + l /\ m + i \in Nat /\ m + l \in Nat
    BY <1>1, <1>4
  <2>2. MonthStart[m + i] + p.day - 1 = MonthStart[m + l] + p.day - 1
    <3>1. LengthOf(m + i) \in Nat /\ LengthOf(m + l) \in Nat
      BY <2>1, LengthFacts
    <3>2. ~ (p.day > LengthOf(m + i)) /\ ~ (p.day > LengthOf(m + l))
      BY <1>2, <1>4, <3>1
    <3>3. ChangeDay(z) = MonthStart[m + i] + p.day - 1
      BY <1>4, <2>1, <3>2, SlotFacts
    <3>4. ChangeDay(z) = MonthStart[m + l] + p.day - 1
      BY <1>4, <2>1, <3>2, SlotFacts
    <3>q. QED
      BY <3>3, <3>4
  <2>3. /\ MonthStart[m + i + 1] <= MonthStart[m + l]
        /\ MonthStart[m + i + 1] = MonthStart[m + i] + LengthOf(m + i)
        /\ MonthStart[m + i] \in Nat /\ MonthStart[m + l] \in Nat
        /\ LengthOf(m + i) \in Nat /\ LengthOf(m + i) > 0
    BY <2>1, MonthsInOrder, MonthStartDef, MonthStartType, LengthFacts
  <2>q. QED
    BY <1>2, <2>2, <2>3
<1>5. Slot(z, p, m + j) # Failed \/ Slot(z, p, m + k) # Failed
  <2> HIDE DEF m
  <2>q. QED
    BY <1>3, <1>4
<1>6. Slot(z, p, m + j) > from \/ Slot(z, p, m + k) > from
  BY <1>3, <1>5, LaterMonth
<1>q. QED
  BY <1>1, <1>3, <1>6

\* calculate_next_monthly: always a run, later than from, at its hour and on its day.
LEMMA MonthlyFinds ==
  ASSUME NEW z \in Zones, NEW p, MonthlyPlan(p), NEW from \in 0 .. MaxNow
  PROVE  LET t == NextMonthly(z, p, from)
         IN t \in Nat /\ t > from /\ Wanted(z, p, t)
<1> DEFINE m == MonthOf(DayAt(z, from))
           future == {n \in 0 .. YearLength - 1 : Slot(z, p, m + n) > from}
           first == CHOOSE n \in future : \A k \in future : n <= k
<1>1. m \in Nat /\ m + YearLength <= Months - 1 /\ YearLength \in Nat /\ Months \in Nat
  BY MonthRoom, YearFacts
<1>2. future # {} /\ future \subseteq Nat
  BY <1>1, SomeSlot
<1>3. first \in future
  <2> HIDE DEF future
  <2>q. QED
    BY <1>2, FirstOf
<1>4. NextMonthly(z, p, from) = Slot(z, p, m + first)
  BY <1>1, <1>2, MonthlySlots
<1>5. Slot(z, p, m + first) > from /\ m + first \in 0 .. Months - 1
  <2> HIDE DEF m, first
  <2>q. QED
    BY <1>1, <1>3
<1>6. Slot(z, p, m + first) # Failed
  <2>1. ~ (Failed > from)
    BY YearFacts DEF Failed
  <2>q. QED
    BY <1>5, <2>1
<1>7. Slot(z, p, m + first) \in Nat /\ Wanted(z, p, Slot(z, p, m + first))
  <2> HIDE DEF m, first
  <2>q. QED
    BY <1>5, <1>6, SlotFacts
<1>q. QED
  BY <1>4, <1>5, <1>7

\* While clocks are not changed, it is the first.
LEMMA MonthlyFirst ==
  ASSUME NEW z \in Zones, z.by = 0, NEW p, MonthlyPlan(p), NEW from \in 0 .. MaxNow,
         NEW u \in Nat, from < u, u < NextMonthly(z, p, from), Wanted(z, p, u)
  PROVE  FALSE
<1> DEFINE m == MonthOf(DayAt(z, from))
           future == {n \in 0 .. YearLength - 1 : Slot(z, p, m + n) > from}
           first == CHOOSE n \in future : \A k \in future : n <= k
           t == Slot(z, p, m + first)
           q == DayAt(z, u)
           k == MonthOf(q)
<1>1. /\ m \in Nat /\ m + YearLength <= Months - 1 /\ YearLength \in Nat /\ Months \in Nat
      /\ MonthStart[m] <= DayAt(z, from) /\ DayAt(z, from) < MonthStart[m + 1] /\ from \in Nat
  BY MonthRoom, YearFacts
<1>2. future # {} /\ future \subseteq Nat
  BY <1>1, SomeSlot
<1>3. first \in future /\ \A n \in future : first <= n
  <2> HIDE DEF future
  <2>q. QED
    BY <1>2, FirstOf
<1>4. NextMonthly(z, p, from) = t
  BY <1>1, <1>2, MonthlySlots
<1>5. first \in 0 .. YearLength - 1 /\ t > from /\ t # Failed
  <2>1. ~ (Failed > from)
    BY YearFacts DEF Failed
  <2>2. first \in 0 .. YearLength - 1 /\ t > from
    BY <1>3
  <2>q. QED
    BY <2>1, <2>2
<1> HIDE DEF m, first, t
<1>6. /\ m + first \in 0 .. Months - 1 /\ m + first \in 0 .. Months /\ m + first + 1 \in 0 .. Months
      /\ m + first \in Nat /\ first \in Nat
  BY <1>1, <1>5
<1>7. /\ t \in Nat /\ DayAt(z, t) = MonthStart[m + first] + p.day - 1
      /\ p.day <= LengthOf(m + first) /\ p.day \in Nat /\ p.day >= 1
      /\ Local(z, t) = Midnight(MonthStart[m + first] + p.day - 1) + p.hour
      /\ p.hour \in 0 .. DayLength - 1 /\ p.type = "monthly"
  BY <1>5, <1>6, SlotFacts DEF t, MonthlyPlan
<1>8. /\ MonthStart[m + first] \in Nat /\ LengthOf(m + first) \in Nat
      /\ MonthStart[m + first + 1] = MonthStart[m + first] + LengthOf(m + first)
  BY <1>6, MonthStartType, LengthFacts, MonthStartDef
\* u is in a month from m to that of t, on the same day of it.
<1>9. q \in Nat /\ DayAt(z, from) <= q /\ q <= DayAt(z, t) /\ DayAt(z, from) \in Nat
  <2>1. u < t /\ from <= u /\ u <= t
    BY <1>1, <1>4, <1>7
  <2>q. QED
    BY <1>1, <1>7, <2>1, LaterDay, DayAtFacts
<1> HIDE DEF q
<1>10. k \in 0 .. m + first /\ MonthStart[k] <= q /\ q < MonthStart[k + 1]
  <2>1. q < MonthStart[m + first + 1] /\ m + first + 1 \in 0 .. Months
    BY <1>6, <1>7, <1>8, <1>9
  <2>2. k \in 0 .. (m + first + 1) - 1 /\ MonthStart[k] <= q /\ q < MonthStart[k + 1]
    BY <1>9, <2>1, MonthOfFacts
  <2>q. QED
    BY <1>6, <2>2
<1>11. q - MonthStart[k] + 1 = p.day /\ Local(z, u) % DayLength = p.hour
  BY <1>7 DEF Wanted, q
<1> HIDE DEF k
<1>12. /\ k \in 0 .. Months - 1 /\ k \in 0 .. Months /\ k + 1 \in 0 .. Months /\ k \in Nat
       /\ MonthStart[k] \in Nat /\ LengthOf(k) \in Nat
       /\ MonthStart[k + 1] = MonthStart[k] + LengthOf(k)
  <2>1. k \in 0 .. Months - 1 /\ k \in 0 .. Months /\ k + 1 \in 0 .. Months /\ k \in Nat
    BY <1>1, <1>6, <1>10
  <2>q. QED
    BY <2>1, MonthStartType, LengthFacts, MonthStartDef
<1>13. ~ (p.day > LengthOf(k)) /\ q = MonthStart[k] + p.day - 1
  BY <1>7, <1>9, <1>10, <1>11, <1>12
<1>14. Slot(z, p, k) = u
  <2>1. Slot(z, p, k) \in Nat /\ Local(z, Slot(z, p, k)) = Midnight(q) + p.hour
    BY <1>12, <1>13, SlotFacts, <1>7
  <2>2. Local(z, u) = u /\ Local(z, Slot(z, p, k)) = Slot(z, p, k)
    BY <2>1 DEF Local
  <2>3. u = Midnight(q) + p.hour
    <3>1. Local(z, u) % DayLength = Local(z, u) - Midnight(q) /\ Midnight(q) \in Int
      BY <1>9, DayAtFacts, MidnightType DEF q
    <3>q. QED
      BY <1>7, <1>11, <2>2, <3>1
  <2>q. QED
    BY <2>1, <2>2, <2>3
<1>15. m <= k
  <2>1. k < m => MonthStart[k + 1] <= MonthStart[m] /\ MonthStart[m] \in Nat
    <3>1. m \in 0 .. Months
      BY <1>1
    <3>q. QED
      BY <1>12, <3>1, MonthsInOrder, MonthStartType
  <2>q. QED
    BY <1>1, <1>9, <1>10, <1>12, <2>1
<1>16. k # m + first
  <2>1. u # t
    BY <1>4, <1>7
  <2>q. QED
    BY <1>14, <2>1 DEF t
<1>17. k - m \in future /\ k - m < first
  <2>1. k - m \in 0 .. YearLength - 1 /\ m + (k - m) = k /\ k - m < first
    BY <1>1, <1>5, <1>6, <1>10, <1>12, <1>15, <1>16
  <2>q. QED
    BY <1>14, <2>1
<1>q. QED
  BY <1>3, <1>6, <1>17
-----------------------------------------------------------------------------
(* Days and weeks *)

HasHour(p) == p.hour \in 0 .. DayLength - 1

\* The hour of the day of an instant, as an instant.
LEMMA AtHourFacts ==
  ASSUME NEW z \in Zones, NEW p, HasHour(p), NEW t \in Nat
  PROVE  LET u == AtHour(z, t, p.hour)
             q == DayAt(z, t)
         IN /\ \/ /\ u \in Nat /\ Local(z, u) = Midnight(q) + p.hour
                  /\ DayAt(z, u) = q /\ Local(z, u) % DayLength = p.hour
               \/ u = Failed
            /\ u = Failed => z.by # 0 /\ ChangeDay(z) = q
<1> DEFINE q == DayAt(z, t)
<1>1. q \in Nat /\ p.hour \in 0 .. DayLength - 1
  BY DayAtFacts DEF HasHour
<1>2. AtHour(z, t, p.hour) = Single(z, q * DayLength + p.hour)
  BY DEF AtHour
<1> HIDE DEF q
<1>3. LET u == Single(z, q * DayLength + p.hour)
      IN /\ \/ /\ u \in Nat /\ Local(z, u) = Midnight(q) + p.hour
               /\ DayAt(z, u) = q /\ Local(z, u) % DayLength = p.hour
            \/ u = Failed
         /\ u = Failed => z.by # 0 /\ ChangeDay(z) = q
  BY <1>1, HourFacts
<1>q. QED
  BY <1>2, <1>3 DEF q

\* calculate_next_daily: never more than a day ahead; it fails only on the day that
\* clocks are changed.
LEMMA DailyFinds ==
  ASSUME NEW z \in Zones, NEW p, HasHour(p), NEW from \in Nat
  PROVE  LET t == NextDaily(z, p, from)
         IN /\ t = Failed => z.by # 0 /\ ChangeDay(z) = DayAt(z, from)
            /\ t # Failed =>
                 /\ t \in Nat /\ t <= from + DayLength
                 /\ t > (IF z.by < 0 THEN from + z.by ELSE from)
<1> DEFINE today == AtHour(z, from, p.hour)
           q == DayAt(z, from)
           t == NextDaily(z, p, from)
<1>1. /\ \/ today \in Nat /\ Local(z, today) = Midnight(q) + p.hour
         \/ today = Failed
      /\ today = Failed => z.by # 0 /\ ChangeDay(z) = q
  BY AtHourFacts
<1>2. /\ q \in Nat /\ Midnight(q) <= Local(z, from) /\ Local(z, from) < Midnight(q) + DayLength
      /\ DayLength \in Nat /\ DayLength > 1 /\ Midnight(q) \in Nat
  <2>1. /\ q \in Nat /\ Midnight(q) <= Local(z, from)
        /\ Local(z, from) < Midnight(q) + DayLength
    BY DayAtFacts
  <2> HIDE DEF q
  <2>q. QED
    BY <2>1, MidnightType, CalendarAssumption
<1>3. p.hour \in 0 .. DayLength - 1
  BY DEF HasHour
<1>4. t = IF today = Failed THEN Failed ELSE IF today > from THEN today ELSE today + DayLength
  BY DEF NextDaily
<1>5. z.change \in Nat /\ z.by \in {-1, 0, 1}
  BY ZoneFacts
<1>6. CASE today = Failed
  BY <1>1, <1>4, <1>6
<1>7. CASE today # Failed
  <2> HIDE DEF today, q, t
  <2>0. today \in Nat /\ Local(z, today) = Midnight(q) + p.hour
    BY <1>1, <1>7
  <2>1. t # Failed /\ t \in Nat /\ t = IF today > from THEN today ELSE today + DayLength
    BY <1>2, <1>4, <1>7, <2>0 DEF Failed
  <2>2. Local(z, today) <= Local(z, from) + DayLength - 1 /\ Local(z, from) <= Local(z, today) + DayLength - 1
    BY <1>2, <1>3, <2>0, ZoneFacts
  <2>3. today <= from + DayLength /\ today + DayLength > (IF z.by < 0 THEN from + z.by ELSE from)
    BY <1>2, <1>5, <2>0, <2>2 DEF Local
  <2>4. t <= from + DayLength /\ t > (IF z.by < 0 THEN from + z.by ELSE from)
    BY <1>2, <1>5, <2>0, <2>1, <2>3
  <2>q. QED
    BY <1>1, <2>1, <2>4 DEF t
<1>q. QED
  BY <1>6, <1>7

\* While clocks are not changed the hour is met, and never passed over.
LEMMA DailyFirst ==
  ASSUME NEW z \in Zones, z.by = 0, NEW p, HasHour(p), p.type = "daily", NEW from \in Nat
  PROVE  LET t == NextDaily(z, p, from)
         IN /\ Wanted(z, p, t)
            /\ \A u \in Nat : from < u /\ u < t => ~ Wanted(z, p, u)
<1> DEFINE today == AtHour(z, from, p.hour)
           q == DayAt(z, from)
           t == NextDaily(z, p, from)
<1>1. /\ today \in Nat /\ Local(z, today) = Midnight(q) + p.hour
      /\ today # Failed
  <2>1. today # Failed
    BY AtHourFacts
  <2>q. QED
    BY <2>1, AtHourFacts
<1>2. /\ q \in Nat /\ Midnight(q) <= from /\ from < Midnight(q) + DayLength
      /\ DayLength \in Nat /\ DayLength > 1 /\ Midnight(q) \in Nat
      /\ Midnight(q + 1) = Midnight(q) + DayLength /\ Midnight(q + 1) \in Nat
  <2>1. q \in Nat /\ Midnight(q) <= Local(z, from) /\ Local(z, from) < Midnight(q) + DayLength
    BY DayAtFacts
  <2>2. Midnight(q + 1) = Midnight(q) + DayLength
    <3>1. \A r \in Int : Midnight(r + 1) = Midnight(r) + 1 * DayLength
      BY Midnights
    <3>2. 1 * DayLength = DayLength
      BY CalendarAssumption
    <3>q. QED
      BY <2>1, <3>1, <3>2
  <2>3. Local(z, from) = from
    BY DEF Local
  <2>q. QED
    BY <2>1, <2>2, <2>3, MidnightType, CalendarAssumption
<1>3. p.hour \in 0 .. DayLength - 1
  BY DEF HasHour
<1>4. today = Midnight(q) + p.hour
  BY <1>1 DEF Local
<1>5. t = IF today > from THEN today ELSE today + DayLength
  BY <1>1 DEF NextDaily
<1> HIDE DEF today, q, t
<1>6. t = Midnight(q) + p.hour \/ t = Midnight(q + 1) + p.hour
  BY <1>1, <1>2, <1>3, <1>4, <1>5
<1>7. t \in Nat /\ t % DayLength = p.hour
  <2>1. ASSUME NEW r \in Nat, t = Midnight(r) + p.hour PROVE t \in Nat /\ t % DayLength = p.hour
    <3>1. Midnight(r) \in Nat
      BY MidnightType
    <3>2. t \in Nat /\ Midnight(r) <= t /\ t < Midnight(r) + DayLength /\ t - Midnight(r) = p.hour
      BY <1>2, <1>3, <2>1, <3>1
    <3>q. QED
      BY <3>2, TheDay
  <2>q. QED
    BY <1>2, <1>6, <2>1
<1>8. Wanted(z, p, t)
  BY <1>7 DEF Wanted, Local
<1>9. ASSUME NEW u \in Nat, from < u, u < t, Wanted(z, p, u) PROVE FALSE
  <2> DEFINE r == DayAt(z, u)
  <2>1. Local(z, u) = u /\ u % DayLength = p.hour
    BY <1>9 DEF Wanted, Local
  <2>2. r \in Nat /\ u = Midnight(r) + p.hour /\ Midnight(r) \in Nat
    <3>1. r \in Nat /\ u % DayLength = u - Midnight(r)
      BY <2>1, DayAtFacts
    <3>q. QED
      BY <2>1, <3>1, MidnightType
  <2>3. /\ r < q => Midnight(r) + DayLength <= Midnight(q)
        /\ q + 1 < r => Midnight(q + 1) + DayLength <= Midnight(r)
    <3> HIDE DEF r
    <3>1. q \in Int /\ q + 1 \in Int /\ r \in Int
      BY <1>2, <2>2
    <3>q. QED
      BY <3>1, MidnightOrder
  <2> HIDE DEF r
  <2>4. r = q \/ r = q + 1
    BY <1>2, <1>3, <1>6, <1>9, <2>2, <2>3
  <2>5. CASE r = q
    BY <1>2, <1>3, <1>4, <1>5, <1>6, <1>9, <2>2, <2>5
  <2>6. CASE r = q + 1
    BY <1>2, <1>3, <1>4, <1>5, <1>6, <1>9, <2>2, <2>6
  <2>q. QED
    BY <2>4, <2>5, <2>6
<1>q. QED
  BY <1>8, <1>9 DEF t

\* n days of hours later.
Ahead(from, n) == from + n * DayLength

\* So many days later the day is so many later, unless clocks are changed on the way.
LEMMA DaysAheadFacts ==
  ASSUME NEW z \in Zones, NEW from \in Nat, NEW n \in Nat
  PROVE  /\ Ahead(from, n) \in Nat /\ from <= Ahead(from, n)
         /\ \/ DayAt(z, Ahead(from, n)) = DayAt(z, from) + n
            \/ /\ z.by # 0
               /\ ChangeDay(z) \in DayAt(z, from) .. DayAt(z, from) + n
<1> DEFINE d == DayAt(z, from)
           c == Ahead(from, n)
           w == n * DayLength
<1>1. z.change \in Nat /\ z.by \in {-1, 0, 1}
  BY ZoneFacts
<1>2. w \in Nat /\ DayLength \in Nat /\ DayLength > 1
  <2>1. w \in Int /\ w >= 0
    BY CalendarAssumption, Multiples
  <2>q. QED
    BY <2>1, CalendarAssumption
<1>3. d \in Nat /\ Midnight(d) <= Local(z, from) /\ Local(z, from) < Midnight(d) + DayLength
  BY DayAtFacts
<1>4. Midnight(d) \in Nat /\ Midnight(d + n) = Midnight(d) + w /\ Midnight(d + n) \in Nat /\ d + n \in Nat
  <2> HIDE DEF d
  <2>1. \A p, q \in Int : Midnight(p + q) = Midnight(p) + q * DayLength
    BY Midnights
  <2>2. d \in Int /\ n \in Int /\ d + n \in Nat
    BY <1>3
  <2>3. Midnight(d + n) = Midnight(d) + w
    BY <2>1, <2>2
  <2>q. QED
    BY <1>3, <2>2, <2>3, MidnightType
<1>5. c = from + w
  BY DEF Ahead
<1> HIDE DEF d, c, w
<1>6. c \in Nat /\ from <= c
  BY <1>2, <1>5
<1>7. CASE Local(z, c) = Local(z, from) + w
  <2>1. Local(z, c) \in Nat
    BY <1>6, ZoneFacts
  <2>2. Midnight(d + n) <= Local(z, c) /\ Local(z, c) < Midnight(d + n) + DayLength
    BY <1>2, <1>3, <1>4, <1>7, <2>1, ZoneFacts
  <2>3. DayAt(z, c) = d + n
    BY <1>4, <2>1, <2>2, TheDay DEF DayAt
  <2>q. QED
    BY <1>6, <2>3 DEF d, c
<1>8. CASE Local(z, c) # Local(z, from) + w
  <2>1. z.by # 0 /\ from < z.change /\ z.change <= c /\ Local(z, from) = from
    BY <1>1, <1>2, <1>5, <1>6, <1>8 DEF Local
  <2> DEFINE edge == IF z.by < 0 THEN z.change - 1 ELSE z.change
             q == edge \div DayLength
  <2>2. edge \in Nat /\ from <= edge /\ edge <= c
    BY <1>1, <1>6, <2>1
  <2>3. ChangeDay(z) = q
    BY DEF ChangeDay
  <2> HIDE DEF edge
  <2>4. q \in Int /\ Midnight(q) <= edge /\ edge < Midnight(q) + DayLength /\ Midnight(q) \in Int
    BY <2>2, OnDay, MidnightType
  <2> HIDE DEF q
  <2>5. /\ q < d => Midnight(q) + DayLength <= Midnight(d)
        /\ d + n < q => Midnight(d + n) + DayLength <= Midnight(q)
    BY <1>3, <1>4, <2>4, MidnightOrder
  <2>6. d <= q /\ q <= d + n
    BY <1>2, <1>3, <1>4, <1>5, <2>1, <2>2, <2>4, <2>5
  <2>7. ChangeDay(z) \in d .. d + n
    BY <1>3, <1>4, <2>3, <2>4, <2>6
  <2>q. QED
    BY <1>6, <2>1, <2>7 DEF d, c
<1>q. QED
  BY <1>7, <1>8

\* Within a week every weekday comes.
LEMMA WeekdayComes ==
  ASSUME NEW d \in Nat, NEW w \in 0 .. 6
  PROVE  \E n \in 1 .. 7 : (d + n) % 7 = w
<1> DEFINE r == d % 7
           n == IF w > r THEN w - r ELSE w - r + 7
<1>1. r \in 0 .. 6
  OBVIOUS
<1>2. n \in 1 .. 7
  BY <1>1
<1>3. (d + n) % 7 = w
  BY <1>1
<1>q. QED
  BY <1>2, <1>3

WeeklyPlan(p) ==
  /\ p.type = "weekly" /\ HasHour(p)
  /\ p.days # {} /\ p.days \subseteq 0 .. WeekLength - 1

Matching(z, p, from) == {n \in DaysAhead : Weekday(z, Ahead(from, n)) \in p.days}
FirstMatch(z, p, from) ==
  CHOOSE n \in Matching(z, p, from) : \A k \in Matching(z, p, from) : n <= k

LEMMA WeeklyIs ==
  ASSUME NEW z \in Zones, NEW p, NEW from \in Nat
  PROVE  LET today == AtHour(z, from, p.hour)
             matching == Matching(z, p, from)
         IN /\ NextWeekly(z, p, from) =
                 IF today = Failed THEN Failed
                 ELSE IF Weekday(z, from) \in p.days /\ today > from THEN today
                 ELSE IF matching = {} THEN Failed
                 ELSE AtHour(z, Ahead(from, FirstMatch(z, p, from)), p.hour)
            /\ matching \subseteq Nat
            /\ matching # {} => /\ FirstMatch(z, p, from) \in matching
                                /\ \A k \in matching : FirstMatch(z, p, from) <= k
<1>1. Matching(z, p, from) \subseteq Nat
  BY DEF Matching, DaysAhead, WeekLength
<1>2. Matching(z, p, from) # {} =>
        /\ FirstMatch(z, p, from) \in Matching(z, p, from)
        /\ \A k \in Matching(z, p, from) : FirstMatch(z, p, from) <= k
  BY <1>1, FirstOf DEF FirstMatch
<1>3. NextWeekly(z, p, from) =
        IF AtHour(z, from, p.hour) = Failed THEN Failed
        ELSE IF Weekday(z, from) \in p.days /\ AtHour(z, from, p.hour) > from
             THEN AtHour(z, from, p.hour)
        ELSE IF Matching(z, p, from) = {} THEN Failed
        ELSE AtHour(z, Ahead(from, FirstMatch(z, p, from)), p.hour)
  BY DEF NextWeekly, Matching, FirstMatch, Ahead
<1>q. QED
  BY <1>1, <1>2, <1>3

\* calculate_next_weekly fails only when clocks are changed on the day or in the week
\* that follows it.
LEMMA WeeklyFails ==
  ASSUME NEW z \in Zones, NEW p, WeeklyPlan(p), NEW from \in Nat,
         NextWeekly(z, p, from) = Failed
  PROVE  z.by # 0 /\ ChangeDay(z) - DayAt(z, from) \in 0 .. WeekLength
<1> DEFINE today == AtHour(z, from, p.hour)
           d == DayAt(z, from)
           first == FirstMatch(z, p, from)
<1>1. /\ today = Failed => z.by # 0 /\ ChangeDay(z) = d
      /\ today # Failed => today \in Nat
      /\ d \in Nat /\ HasHour(p)
  <2>1. HasHour(p)
    BY DEF WeeklyPlan
  <2>2. d \in Nat
    BY DayAtFacts
  <2>q. QED
    BY <2>1, <2>2, AtHourFacts
<1>2. \A n \in 1 .. 7 :
        \/ DayAt(z, Ahead(from, n)) = d + n
        \/ z.by # 0 /\ ChangeDay(z) \in d .. d + n
  <2>1. 1 .. 7 \subseteq Nat
    OBVIOUS
  <2>q. QED
    BY <2>1, DaysAheadFacts
<1>3. CASE today = Failed
  <2> HIDE DEF d
  <2>1. ChangeDay(z) - d = 0
    BY <1>1, <1>3
  <2>q. QED
    BY <1>1, <1>3, <2>1 DEF WeekLength, d
<1>4. CASE Matching(z, p, from) = {}
  <2>1. PICK w \in 0 .. 6 : w \in p.days
    BY DEF WeeklyPlan, WeekLength
  <2>2. PICK n \in 1 .. 7 : (d + n) % 7 = w
    <3> HIDE DEF d
    <3>q. QED
      BY <1>1, WeekdayComes
  <2>3. DayAt(z, Ahead(from, n)) # d + n
    <3>1. DayAt(z, Ahead(from, n)) = d + n => n \in Matching(z, p, from)
      BY <2>1, <2>2 DEF Matching, DaysAhead, WeekLength, Weekday
    <3>q. QED
      BY <1>4, <3>1
  <2>4. z.by # 0 /\ ChangeDay(z) \in d .. d + n
    BY <1>2, <2>3
  <2> HIDE DEF d
  <2>5. ChangeDay(z) - d \in 0 .. 7
    BY <1>1, <2>2, <2>4
  <2>q. QED
    BY <2>4, <2>5 DEF WeekLength, d
<1>5. CASE today # Failed /\ Matching(z, p, from) # {}
  <2>1. /\ first \in Matching(z, p, from)
        /\ AtHour(z, Ahead(from, first), p.hour) = Failed
    <3>1. first \in Matching(z, p, from)
      BY <1>5, WeeklyIs
    <3>2. today # NextWeekly(z, p, from)
      BY <1>5
    <3>q. QED
      BY <1>5, <3>1, <3>2, WeeklyIs
  <2>2. first \in 1 .. 7
    BY <2>1 DEF Matching, DaysAhead, WeekLength
  <2>3. z.by # 0 /\ ChangeDay(z) = DayAt(z, Ahead(from, first))
    <3>1. Ahead(from, first) \in Nat
      <4>1. first \in Nat
        BY <2>2
      <4>q. QED
        BY <4>1, DaysAheadFacts
    <3>q. QED
      BY <1>1, <2>1, <3>1, AtHourFacts
  <2>4. DayAt(z, Ahead(from, first)) = d + first \/ ChangeDay(z) \in d .. d + first
    BY <1>2, <2>2
  <2> HIDE DEF d, first
  <2>5. ChangeDay(z) - d \in 0 .. 7
    BY <1>1, <2>2, <2>3, <2>4
  <2>q. QED
    BY <2>3, <2>5 DEF WeekLength, d
<1>q. QED
  BY <1>3, <1>4, <1>5

LEMMA WeeklyType ==
  ASSUME NEW z \in Zones, NEW p, WeeklyPlan(p), NEW from \in Nat,
         NextWeekly(z, p, from) # Failed
  PROVE  NextWeekly(z, p, from) \in Nat
<1>0. HasHour(p)
  BY DEF WeeklyPlan
<1>1. CASE NextWeekly(z, p, from) = AtHour(z, from, p.hour)
  BY <1>0, <1>1, AtHourFacts
<1>2. CASE /\ Matching(z, p, from) # {}
           /\ NextWeekly(z, p, from) = AtHour(z, Ahead(from, FirstMatch(z, p, from)), p.hour)
  <2> DEFINE c == Ahead(from, FirstMatch(z, p, from))
  <2>1. FirstMatch(z, p, from) \in Nat
    BY <1>2, WeeklyIs
  <2>2. c \in Nat
    BY <2>1, DaysAheadFacts
  <2> HIDE DEF c
  <2>3. AtHour(z, c, p.hour) # Failed => AtHour(z, c, p.hour) \in Nat
    BY <1>0, <2>2, AtHourFacts
  <2>q. QED
    BY <1>2, <2>3 DEF c
<1>q. QED
  BY <1>1, <1>2, WeeklyIs

\* While clocks are not changed the next run is on the first of the days that is left.
LEMMA WeeklyFirst ==
  ASSUME NEW z \in Zones, z.by = 0, NEW p, WeeklyPlan(p), NEW from \in Nat
  PROVE  LET t == NextWeekly(z, p, from)
         IN /\ t \in Nat /\ t > from /\ Wanted(z, p, t)
            /\ \A u \in Nat : from < u /\ u < t => ~ Wanted(z, p, u)
<1> DEFINE today == AtHour(z, from, p.hour)
           d == DayAt(z, from)
           t == NextWeekly(z, p, from)
           first == FirstMatch(z, p, from)
           k == IF Weekday(z, from) \in p.days /\ today > from THEN 0 ELSE first
           h == p.hour
<1>1. HasHour(p) /\ p.type = "weekly" /\ h \in Nat /\ h < DayLength /\ DayLength \in Nat
  BY CalendarAssumption DEF WeeklyPlan, HasHour
<1>2. t # Failed /\ t \in Nat /\ \A u \in Nat : Local(z, u) = u
  BY WeeklyFails, WeeklyType DEF Local
<1>3. d \in Nat /\ Midnight(d) <= from /\ from < Midnight(d) + DayLength /\ Midnight(d) \in Nat
  <2>1. d \in Nat /\ Midnight(d) <= Local(z, from) /\ Local(z, from) < Midnight(d) + DayLength
    BY DayAtFacts
  <2> HIDE DEF d
  <2>q. QED
    BY <1>2, <2>1, MidnightType
\* An hour of a day is one instant.
<1>4. ASSUME NEW u \in Nat
      PROVE  AtHour(z, u, h) \in Nat /\ AtHour(z, u, h) = Midnight(DayAt(z, u)) + h
  <2>1. AtHour(z, u, h) # Failed
    BY <1>1, AtHourFacts
  <2>2. AtHour(z, u, h) \in Nat /\ Local(z, AtHour(z, u, h)) = Midnight(DayAt(z, u)) + h
    BY <1>1, <2>1, AtHourFacts
  <2>q. QED
    BY <1>2, <2>2
<1>5. \A n \in Nat : Ahead(from, n) \in Nat /\ DayAt(z, Ahead(from, n)) = d + n
  BY DaysAheadFacts
<1>6. today \in Nat /\ today = Midnight(d) + h
  BY <1>4
<1>7. CASE Weekday(z, from) \in p.days /\ today > from
  <2>1. t = Midnight(d) + h /\ d % 7 \in p.days /\ d + 0 = d /\ t > from
    BY <1>3, <1>6, <1>7, WeeklyIs DEF Weekday, WeekLength, Failed
  <2>2. \A r \in Nat : r % 7 \in p.days /\ d <= r => r >= d
    OBVIOUS
  <2>3. ASSUME NEW u \in Nat, from < u, u < t, Wanted(z, p, u) PROVE FALSE
    <3> DEFINE r == DayAt(z, u)
    <3>1. r \in Nat /\ Midnight(r) <= u /\ u < Midnight(r) + DayLength /\ u = Midnight(r) + h
      <4>1. /\ r \in Nat /\ Midnight(r) <= Local(z, u) /\ Local(z, u) < Midnight(r) + DayLength
            /\ Local(z, u) % DayLength = Local(z, u) - Midnight(r)
        BY DayAtFacts
      <4>2. Local(z, u) % DayLength = h
        BY <2>3 DEF Wanted
      <4> HIDE DEF r
      <4>3. Midnight(r) \in Nat
        BY <4>1, MidnightType
      <4>q. QED
        BY <1>2, <4>1, <4>2, <4>3
    <3> HIDE DEF r
    <3>2. Midnight(r) \in Nat /\ (r < d => Midnight(r) + DayLength <= Midnight(d)) /\
          (d < r => Midnight(d) + DayLength <= Midnight(r))
      BY <1>3, <3>1, MidnightType, MidnightOrder
    <3>3. r = d
      BY <1>1, <1>3, <2>1, <2>3, <3>1, <3>2
    <3>q. QED
      BY <2>1, <2>3, <3>1, <3>3
  <2>4. Wanted(z, p, t)
    <3>1. Midnight(d) <= t /\ t < Midnight(d) + DayLength /\ t - Midnight(d) = h
      BY <1>1, <1>3, <2>1
    <3> HIDE DEF d, t
    <3>2. t \div DayLength = d /\ t % DayLength = t - Midnight(d)
      BY <1>2, <1>3, <3>1, TheDay
    <3>q. QED
      BY <1>1, <1>2, <2>1, <3>1, <3>2 DEF Wanted, DayAt, Weekday, WeekLength
  <2>q. QED
    BY <1>2, <2>1, <2>3, <2>4
<1>8. CASE ~ (Weekday(z, from) \in p.days /\ today > from)
  <2>1. /\ first \in 1 .. 7 /\ (d + first) % 7 \in p.days
        /\ \A n \in 1 .. 7 : (d + n) % 7 \in p.days => first <= n
        /\ t = Midnight(d + first) + h
    <3>1. Matching(z, p, from) # {} /\ t = AtHour(z, Ahead(from, first), h)
      BY <1>2, <1>6, <1>8, WeeklyIs
    <3>2. \A n \in 1 .. 7 : n \in Matching(z, p, from) <=> (d + n) % 7 \in p.days
      <4>1. 1 .. 7 \subseteq Nat
        OBVIOUS
      <4>q. QED
        BY <1>5, <4>1 DEF Matching, DaysAhead, WeekLength, Weekday
    <3>3. first \in Matching(z, p, from) /\ \A n \in Matching(z, p, from) : first <= n
      BY <3>1, WeeklyIs
    <3>4. first \in 1 .. 7 /\ first \in Nat
      BY <3>3 DEF Matching, DaysAhead, WeekLength
    <3>5. t = Midnight(d + first) + h
      BY <1>4, <1>5, <3>1, <3>4
    <3> HIDE DEF first, d, t
    <3>q. QED
      BY <3>2, <3>3, <3>4, <3>5
  <2> DEFINE e == d + first
  <2> HIDE DEF first
  <2>2. e \in Nat /\ Midnight(e) \in Nat /\ Midnight(d) + DayLength <= Midnight(e)
    <3> HIDE DEF d
    <3>1. e \in Nat /\ d < e
      BY <1>3, <2>1
    <3>q. QED
      BY <1>3, <3>1, MidnightType, MidnightOrder
  <2>3. t > from
    BY <1>1, <1>2, <1>3, <2>1, <2>2
  <2>4. Wanted(z, p, t)
    <3>1. Midnight(e) <= t /\ t < Midnight(e) + DayLength /\ t - Midnight(e) = h
      BY <1>1, <2>1, <2>2
    <3>0. e % 7 \in p.days
      BY <2>1
    <3> HIDE DEF e, t
    <3>2. t \div DayLength = e /\ t % DayLength = t - Midnight(e)
      BY <1>2, <2>2, <3>1, TheDay
    <3>q. QED
      BY <1>1, <1>2, <3>0, <3>1, <3>2 DEF Wanted, DayAt, Weekday, WeekLength
  <2>5. ASSUME NEW u \in Nat, from < u, u < t, Wanted(z, p, u) PROVE FALSE
    <3> DEFINE r == DayAt(z, u)
    <3>1. /\ r \in Nat /\ Midnight(r) <= u /\ u < Midnight(r) + DayLength /\ u = Midnight(r) + h
          /\ r % 7 \in p.days
      <4>1. /\ r \in Nat /\ Midnight(r) <= Local(z, u) /\ Local(z, u) < Midnight(r) + DayLength
            /\ Local(z, u) % DayLength = Local(z, u) - Midnight(r)
        BY DayAtFacts
      <4>2. Local(z, u) % DayLength = h /\ r % 7 \in p.days
        BY <1>1, <2>5 DEF Wanted, Weekday, WeekLength
      <4> HIDE DEF r
      <4>3. Midnight(r) \in Nat
        BY <4>1, MidnightType
      <4>q. QED
        BY <1>2, <4>1, <4>2, <4>3
    <3> HIDE DEF r
    <3>2. Midnight(r) \in Nat /\ (r < d => Midnight(r) + DayLength <= Midnight(d)) /\
          (e < r => Midnight(e) + DayLength <= Midnight(r))
      BY <1>3, <2>2, <3>1, MidnightType, MidnightOrder
    <3>3. d <= r /\ r < e
      <4>1. r # e
        BY <2>1, <2>5, <3>1
      <4>2. t = Midnight(e) + h /\ e \in Nat
        BY <2>1, <2>2
      <4> HIDE DEF e, d, t, h
      <4>3. ~ (r < d)
        BY <1>1, <1>3, <2>5, <3>1, <3>2
      <4>4. ~ (e < r)
        BY <1>1, <1>2, <2>2, <2>5, <3>1, <3>2, <4>2
      <4>q. QED
        BY <1>3, <3>1, <4>1, <4>2, <4>3, <4>4
    <3>4. CASE r = d
      <4>1. today > from /\ Weekday(z, from) \in p.days
        BY <1>6, <2>5, <3>1, <3>4 DEF Weekday, WeekLength
      <4>q. QED
        BY <1>8, <4>1
    <3>5. CASE d < r
      <4>1. first \in 1 .. 7 /\ d \in Nat /\ r \in Nat /\ r < d + first
        BY <1>3, <2>1, <3>1, <3>3
      <4>2. \A n \in 1 .. 7 : (d + n) % 7 \in p.days => first <= n
        BY <2>1
      <4>3. r % 7 \in p.days
        BY <3>1
      <4> HIDE DEF d, t, e, first, k, today, h
      <4>4. r - d \in 1 .. 7 /\ d + (r - d) = r /\ r - d < first
        BY <3>5, <4>1
      <4>q. QED
        BY <4>1, <4>2, <4>3, <4>4
    <3>q. QED
      BY <1>3, <3>1, <3>3, <3>4, <3>5
  <2>q. QED
    BY <1>2, <2>3, <2>4, <2>5
<1>q. QED
  BY <1>7, <1>8
-----------------------------------------------------------------------------
(* The schedule and its pending task *)

\* The task waits for the time computed when the one before was taken up; after a
\* refusal, none could be computed.
ComputedInv ==
  IF refused THEN NextScanTime(zone, plan, now) = Failed
  ELSE runAt = NextScanTime(zone, plan, now) /\ runAt # Failed

TimesInv == TypeOK /\ ValidPlan(plan) /\ ComputedInv

LEMMA PlanTypes ==
  ASSUME NEW p, ValidPlan(p)
  PROVE  \/ p.type = "interval" /\ p.every \in Nat \ {0}
         \/ p.type = "daily" /\ HasHour(p)
         \/ p.type = "weekly" /\ WeeklyPlan(p)
         \/ p.type = "monthly" /\ MonthlyPlan(p)
<1>1. p.type = "monthly" => MonthlyPlan(p)
  BY MonthlyPlans
<1>q. QED
  BY <1>1 DEF ValidPlan, HasHour, WeeklyPlan

LEMMA NextType ==
  ASSUME NEW z \in Zones, NEW p, ValidPlan(p), NEW from \in 0 .. MaxNow
  PROVE  NextScanTime(z, p, from) # Failed => NextScanTime(z, p, from) \in Nat
<1>0. from \in Nat
  OBVIOUS
<1>1. CASE p.type = "interval" /\ p.every \in Nat \ {0}
  <2>1. from + p.every \in Nat
    BY <1>0, <1>1
  <2>q. QED
    BY <1>1, <2>1 DEF NextScanTime
<1>2. CASE p.type = "daily" /\ HasHour(p)
  <2>1. NextDaily(z, p, from) # Failed => NextDaily(z, p, from) \in Nat
    BY <1>0, <1>2, DailyFinds
  <2>q. QED
    BY <1>2, <2>1 DEF NextScanTime
<1>3. CASE p.type = "weekly" /\ WeeklyPlan(p)
  <2>1. NextWeekly(z, p, from) # Failed => NextWeekly(z, p, from) \in Nat
    BY <1>0, <1>3, WeeklyType
  <2>q. QED
    BY <1>3, <2>1 DEF NextScanTime
<1>4. CASE p.type = "monthly" /\ MonthlyPlan(p)
  <2>1. NextMonthly(z, p, from) \in Nat
    BY <1>4, MonthlyFinds
  <2>q. QED
    BY <1>4, <2>1 DEF NextScanTime
<1>q. QED
  BY <1>1, <1>2, <1>3, <1>4, PlanTypes

LEMMA TimesInit == Init => TimesInv
<1> SUFFICES ASSUME Init PROVE TimesInv
  OBVIOUS
<1>1. /\ zone \in Zones /\ plan \in Plans /\ ValidPlan(plan) /\ now \in 0 .. MaxNow
      /\ runAt = NextScanTime(zone, plan, now) /\ runAt # Failed /\ refused = FALSE
  BY DEF Init
<1>2. runAt \in Nat
  BY <1>1, NextType
<1>q. QED
  BY <1>1, <1>2 DEF TimesInv, TypeOK, ComputedInv

LEMMA TimesStep == ASSUME TimesInv, [Next]_vars PROVE TimesInv'
<1> USE DEF TimesInv, TypeOK
<1>1. CASE UNCHANGED vars
  BY <1>1 DEF vars, ComputedInv
<1>2. CASE Next
  <2>1. TakeUp
    BY <1>2 DEF Next, Activate, Refuse
  <2>2. now' \in 0 .. MaxNow /\ zone' = zone /\ plan' = plan
    <3>1. PICK delay \in 0 .. MaxDelay :
            now' = (IF runAt > now THEN runAt ELSE now) + delay
      BY <2>1 DEF TakeUp
    <3>2. MaxDelay \in Nat /\ MaxNow \in Nat
      BY CalendarAssumption
    <3>3. now' \in Nat
      BY <3>1, <3>2
    <3>q. QED
      BY <2>1, <3>2, <3>3 DEF TakeUp
  <2>3. CASE Activate
    <3>1. runAt' = NextScanTime(zone, plan, now') /\ runAt' # Failed /\ refused' = FALSE
      BY <2>3 DEF Activate
    <3>2. runAt' \in Nat
      BY <2>2, <3>1, NextType
    <3>q. QED
      BY <2>2, <3>1, <3>2 DEF ComputedInv
  <2>4. CASE Refuse
    <3>1. NextScanTime(zone, plan, now') = Failed /\ refused' = TRUE /\ runAt' = runAt
      BY <2>4 DEF Refuse
    <3>q. QED
      BY <2>2, <3>1 DEF ComputedInv
  <2>q. QED
    BY <1>2, <2>3, <2>4 DEF Next
<1>q. QED
  BY <1>1, <1>2

\* The time of the pending task is what the calculation gave when the schedule was
\* created or its last task was taken up (create_and_queue, activate_task).
THEOREM TimesInvariant == Spec => []TimesInv
BY TimesInit, TimesStep, PTL DEF Spec

\* Without a change of clocks the pending task is due at the first instant after the
\* last run that the schedule asks for, and is never refused: for every length of a
\* day, every calendar in which no day is rare, and every plan that validate accepts.
THEOREM FirstIsFound == Spec => []NextIsFirst
<1>1. ASSUME TimesInv PROVE NextIsFirst
  <2> SUFFICES ASSUME zone.by = 0, plan.type # "interval"
               PROVE  /\ ~ refused /\ runAt > now /\ Wanted(zone, plan, runAt)
                      /\ \A t \in now + 1 .. runAt - 1 : ~ Wanted(zone, plan, t)
    BY DEF NextIsFirst
  <2> DEFINE t == NextScanTime(zone, plan, now)
  <2>1. zone \in Zones /\ now \in 0 .. MaxNow /\ now \in Nat /\ ValidPlan(plan) /\ runAt \in Nat
    BY <1>1 DEF TimesInv, TypeOK
  <2>2. /\ t # Failed /\ t > now /\ Wanted(zone, plan, t)
        /\ \A u \in Nat : now < u /\ u < t => ~ Wanted(zone, plan, u)
    <3>1. CASE plan.type = "daily" /\ HasHour(plan)
      <4>1. t = NextDaily(zone, plan, now)
        BY <3>1 DEF NextScanTime
      <4>2. t # Failed /\ t > now
        BY <2>1, <3>1, <4>1, DailyFinds
      <4>q. QED
        BY <2>1, <3>1, <4>1, <4>2, DailyFirst
    <3>2. CASE plan.type = "weekly" /\ WeeklyPlan(plan)
      <4>1. t = NextWeekly(zone, plan, now)
        BY <3>2 DEF NextScanTime
      <4>2. t # Failed
        BY <2>1, <3>2, <4>1, WeeklyFails
      <4>q. QED
        BY <2>1, <3>2, <4>1, <4>2, WeeklyFirst
    <3>3. CASE plan.type = "monthly" /\ MonthlyPlan(plan)
      <4>1. t = NextMonthly(zone, plan, now)
        BY <3>3 DEF NextScanTime
      <4>2. t \in Nat /\ t > now /\ Wanted(zone, plan, t)
        BY <2>1, <3>3, <4>1, MonthlyFinds
      <4>3. \A u \in Nat : now < u /\ u < t => ~ Wanted(zone, plan, u)
        <5> HIDE DEF t
        <5>q. QED
          BY <2>1, <3>3, <4>1, MonthlyFirst
      <4>q. QED
        BY <4>2, <4>3 DEF Failed
    <3>q. QED
      BY <2>1, <3>1, <3>2, <3>3, PlanTypes
  <2>3. ~ refused /\ runAt = t
    BY <1>1, <2>2 DEF TimesInv, ComputedInv
  <2>4. \A u \in now + 1 .. runAt - 1 : u \in Nat /\ now < u /\ u < runAt
    BY <2>1
  <2> HIDE DEF t
  <2>q. QED
    BY <2>2, <2>3, <2>4
<1>q. QED
  BY <1>1, TimesInvariant, PTL

\* Whatever is done to clocks, a daily task is due within a day, and a monthly one at
\* its hour and on its day.
THEOREM KeptEverywhere == Spec => []KeptInEveryZone
<1>1. ASSUME TimesInv PROVE KeptInEveryZone
  <2>1. zone \in Zones /\ now \in 0 .. MaxNow /\ now \in Nat /\ ValidPlan(plan)
    BY <1>1 DEF TimesInv, TypeOK
  <2>2. DailyWithinADay
    <3> SUFFICES ASSUME plan.type = "daily", ~ refused
                 PROVE  /\ runAt > (IF zone.by < 0 THEN now + zone.by ELSE now)
                        /\ runAt <= now + DayLength
      BY DEF DailyWithinADay
    <3>1. HasHour(plan)
      BY <2>1, PlanTypes
    <3>2. runAt = NextDaily(zone, plan, now) /\ runAt # Failed
      BY <1>1 DEF TimesInv, ComputedInv, NextScanTime
    <3>q. QED
      BY <2>1, <3>1, <3>2, DailyFinds
  <2>3. MonthlyAtItsTime
    <3> SUFFICES ASSUME plan.type = "monthly" PROVE runAt > now /\ Wanted(zone, plan, runAt)
      BY DEF MonthlyAtItsTime
    <3>1. MonthlyPlan(plan)
      BY <2>1, MonthlyPlans
    <3>2. NextScanTime(zone, plan, now) = NextMonthly(zone, plan, now)
      BY DEF NextScanTime
    <3>3. /\ NextMonthly(zone, plan, now) \in Nat /\ NextMonthly(zone, plan, now) > now
          /\ Wanted(zone, plan, NextMonthly(zone, plan, now))
      BY <2>1, <3>1, MonthlyFinds
    <3>4. runAt = NextMonthly(zone, plan, now)
      <4>1. NextMonthly(zone, plan, now) # Failed
        BY <3>3 DEF Failed
      <4>q. QED
        BY <1>1, <3>2, <4>1 DEF TimesInv, ComputedInv
    <3>q. QED
      BY <3>3, <3>4
  <2>q. QED
    BY <2>2, <2>3 DEF KeptInEveryZone
<1>q. QED
  BY <1>1, TimesInvariant, PTL

\* A due task is refused for a change of clocks only: on its day (daily), from a week
\* before it (weekly); never a monthly one, and never one of an interval.
THEOREM RefusalsExplained == Spec => []RefusedNearChange
<1>1. ASSUME TimesInv PROVE RefusedNearChange
  <2> SUFFICES ASSUME refused
               PROVE  \/ plan.type = "daily" /\ ChangeDay(zone) - DayAt(zone, now) = 0
                      \/ /\ plan.type = "weekly"
                         /\ ChangeDay(zone) - DayAt(zone, now) \in 0 .. WeekLength
    BY DEF RefusedNearChange
  <2>1. /\ zone \in Zones /\ now \in 0 .. MaxNow /\ now \in Nat /\ ValidPlan(plan)
        /\ NextScanTime(zone, plan, now) = Failed
    BY <1>1 DEF TimesInv, TypeOK, ComputedInv
  <2>2. CASE plan.type = "interval" /\ plan.every \in Nat \ {0}
    <3>1. now + plan.every = Failed
      BY <2>1, <2>2 DEF NextScanTime
    <3>q. QED
      BY <2>1, <2>2, <3>1 DEF Failed
  <2>3. CASE plan.type = "daily" /\ HasHour(plan)
    <3>1. ChangeDay(zone) = DayAt(zone, now) /\ DayAt(zone, now) \in Nat
      BY <2>1, <2>3, DailyFinds, DayAtFacts DEF NextScanTime
    <3>q. QED
      BY <2>3, <3>1
  <2>4. CASE plan.type = "weekly" /\ WeeklyPlan(plan)
    <3>1. NextWeekly(zone, plan, now) = Failed
      BY <2>1, <2>4 DEF NextScanTime
    <3>q. QED
      BY <2>1, <2>4, <3>1, WeeklyFails
  <2>5. CASE plan.type = "monthly" /\ MonthlyPlan(plan)
    <3>1. NextMonthly(zone, plan, now) = Failed
      BY <2>1, <2>5 DEF NextScanTime
    <3>q. QED
      BY <2>1, <2>5, <3>1, MonthlyFinds DEF Failed
  <2>q. QED
    BY <2>1, <2>2, <2>3, <2>4, <2>5, PlanTypes
<1>q. QED
  BY <1>1, TimesInvariant, PTL
=============================================================================
