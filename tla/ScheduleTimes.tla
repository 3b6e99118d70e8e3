--------------------------- MODULE ScheduleTimes ---------------------------
(***************************************************************************)
(* When a schedule runs next (schedules.rs), through a change of the local *)
(* time, and what comes of it when each run computes the next one.         *)
(*                                                                         *)
(* Time is counted in hours, of which a day has DayLength; a time of day   *)
(* is one of them.  A zone is an instant at which local clocks are put     *)
(* forward or back by an hour, or not at all.  Days count from 0, which is *)
(* the first of a month, of a year and of a week.                          *)
(***************************************************************************)
EXTENDS Integers, FiniteSets, Sequences

CONSTANTS
  DayLength,     \* 24 in the code
  MonthLengths,  \* the days of each month of a year
  Zones,         \* [change: the instant, by: hours]
  Plans,         \* the schedules to look at
  Months,        \* bound: months of the calendar
  MaxNow,        \* bound: the last instant at which a run starts
  MaxDelay       \* bound: hours a run waits in the queue

WeekLength == 7
YearLength == Len(MonthLengths)
Failed == -1

ASSUME CalendarAssumption ==
  /\ DayLength \in Nat \ {0, 1}
  /\ MonthLengths \in Seq(Nat \ {0}) /\ YearLength > 0
  /\ Zones \subseteq [change : Nat, by : {-1, 0, 1}]
  /\ \A z \in Zones : z.change + z.by >= 0
  /\ Months \in Nat /\ MaxNow \in Nat /\ MaxDelay \in Nat

\* A day that one month has, two others have too: even the 31st comes in seven.
ASSUME DaysAssumption ==
  \A m \in 1 .. YearLength : \A day \in 1 .. MonthLengths[m] :
    \E k, l \in (1 .. YearLength) \ {m} : k # l /\ day <= MonthLengths[k] /\ day <= MonthLengths[l]

\* Schedule::validate: each type has its own fields, and no others.
ValidPlan(p) ==
  \/ /\ p.type = "interval" /\ DOMAIN p = {"type", "every"}
     /\ p.every \in Nat \ {0}
  \/ /\ p.type = "daily" /\ DOMAIN p = {"type", "hour"}
     /\ p.hour \in 0 .. DayLength - 1
  \/ /\ p.type = "weekly" /\ DOMAIN p = {"type", "hour", "days"}
     /\ p.hour \in 0 .. DayLength - 1
     /\ p.days # {} /\ p.days \subseteq 0 .. WeekLength - 1
  \/ /\ p.type = "monthly" /\ DOMAIN p = {"type", "hour", "day"}
     /\ p.hour \in 0 .. DayLength - 1
     /\ \E m \in 1 .. YearLength : p.day \in 1 .. MonthLengths[m]
-----------------------------------------------------------------------------
(* Local time: chrono::Local *)

Local(z, t) == IF t < z.change THEN t ELSE t + z.by
DayAt(z, t) == Local(z, t) \div DayLength
Weekday(z, t) == DayAt(z, t) % WeekLength

Instants(z, local) ==
  {t \in {local - 1, local, local + 1} : t >= 0 /\ Local(z, t) = local}

\* single(): none for an hour that is skipped or that comes twice.
Single(z, local) ==
  IF Cardinality(Instants(z, local)) = 1 THEN CHOOSE t \in Instants(z, local) : TRUE
                                         ELSE Failed

\* with_hour, with_minute
AtHour(z, t, hour) == Single(z, DayAt(z, t) * DayLength + hour)
-----------------------------------------------------------------------------
(* The calendar *)

MonthStart[m \in 0 .. Months] ==
  IF m = 0 THEN 0 ELSE MonthStart[m - 1] + MonthLengths[((m - 1) % YearLength) + 1]

\* The calendar has room for a year after the last run.
ASSUME MonthsAssumption ==
  Months >= YearLength /\ MaxNow + 1 < MonthStart[Months - YearLength] * DayLength

MonthOf(day) ==
  CHOOSE m \in 0 .. Months - 1 : MonthStart[m] <= day /\ day < MonthStart[m + 1]

\* with_ymd_and_hms(..).single()
InMonth(z, year, month, day, hour) ==
  IF day > MonthLengths[month] THEN Failed
  ELSE Single(z, (MonthStart[year * YearLength + month - 1] + day - 1) * DayLength + hour)
-----------------------------------------------------------------------------
(* calculate_next_scan_time *)

NextDaily_Early(z, p, from) ==
  LET today == AtHour(z, from, p.hour)
  IN IF today = Failed THEN Failed
     ELSE IF today >= from THEN today ELSE today + DayLength

NextDaily(z, p, from) ==
  LET today == AtHour(z, from, p.hour)
  IN IF today = Failed THEN Failed
     ELSE IF today > from THEN today ELSE today + DayLength

DaysAhead_Short == 1 .. WeekLength - 1

DaysAhead == 1 .. WeekLength

NextWeekly(z, p, from) ==
  LET today == AtHour(z, from, p.hour)
      candidate(n) == from + n * DayLength
      matching == {n \in DaysAhead : Weekday(z, candidate(n)) \in p.days}
  IN IF today = Failed THEN Failed
     ELSE IF Weekday(z, from) \in p.days /\ today > from THEN today
     ELSE IF matching = {} THEN Failed
     ELSE AtHour(z, candidate(CHOOSE n \in matching : \A k \in matching : n <= k), p.hour)

TargetMonth(month, offset) == ((month + offset - 1) % YearLength) + 1

NextMonthly_FirstOnly(z, p, from) ==
  LET m == MonthOf(DayAt(z, from))
      year == m \div YearLength
      month == (m % YearLength) + 1
      candidate(n) == InMonth(z, year + (month + n - 1) \div YearLength,
                              TargetMonth(month, n), p.day, p.hour)
  IN IF candidate(0) = Failed \/ candidate(0) > from THEN candidate(0) ELSE candidate(1)

NextMonthly(z, p, from) ==
  LET m == MonthOf(DayAt(z, from))
      year == m \div YearLength
      month == (m % YearLength) + 1
      candidate(n) == InMonth(z, year + (month + n - 1) \div YearLength,
                              TargetMonth(month, n), p.day, p.hour)
      future == {n \in 0 .. YearLength - 1 : candidate(n) > from}
  IN IF future = {} THEN Failed
     ELSE candidate(CHOOSE n \in future : \A k \in future : n <= k)

NextScanTime(z, p, from) ==
  CASE p.type = "interval" -> from + p.every
    [] p.type = "daily" -> NextDaily(z, p, from)
    [] p.type = "weekly" -> NextWeekly(z, p, from)
    [] p.type = "monthly" -> NextMonthly(z, p, from)
-----------------------------------------------------------------------------
VARIABLES zone, plan,
  now,     \* when the schedule was created, or its task was last taken up
  runAt,   \* of its pending task
  refused  \* the task was due, and could not be started

vars == <<zone, plan, now, runAt, refused>>

\* create_and_queue makes no schedule whose first run cannot be computed.
Init ==
  /\ zone \in Zones /\ plan \in {p \in Plans : ValidPlan(p)}
  /\ now \in 0 .. MaxNow
  /\ runAt = NextScanTime(zone, plan, now) /\ runAt # Failed
  /\ refused = FALSE

\* get_next_task: the task is taken up when it is due, or later.
TakeUp ==
  /\ \E delay \in 0 .. MaxDelay :
       now' = (IF runAt > now THEN runAt ELSE now) + delay
  /\ now' <= MaxNow
  /\ UNCHANGED <<zone, plan>>

\* activate_task: it runs, and the next one waits.
Activate ==
  /\ TakeUp
  /\ NextScanTime(zone, plan, now') # Failed
  /\ runAt' = NextScanTime(zone, plan, now') /\ refused' = FALSE

\* The next run cannot be computed: the transaction is undone, to be tried again.
Refuse ==
  /\ TakeUp
  /\ NextScanTime(zone, plan, now') = Failed
  /\ refused' = TRUE /\ UNCHANGED runAt

Next == Activate \/ Refuse

Spec == Init /\ [][Next]_vars
-----------------------------------------------------------------------------
\* Every state is well formed (the fields of scan_schedules and tasks).
TypeOK ==
  /\ zone \in Zones /\ plan \in Plans
  /\ now \in 0 .. MaxNow /\ runAt \in Nat /\ refused \in BOOLEAN

\* What the user asked for: the hour of the day, on the right days.
Wanted(z, p, t) ==
  LET day == DayAt(z, t)
      m == MonthOf(day)
  IN /\ Local(z, t) % DayLength = p.hour
     /\ p.type = "weekly" => Weekday(z, t) \in p.days
     /\ p.type = "monthly" => day - MonthStart[m] + 1 = p.day

\* The day on which an hour is skipped, or comes twice.
ChangeDay(z) == (IF z.by < 0 THEN z.change - 1 ELSE z.change) \div DayLength

\* While clocks are not changed, the next run is at the first instant after now that
\* the schedule asks for, over ends of weeks, months and years and months that lack
\* the day (calculate_next_daily, _weekly, _monthly), and a due task is never refused.
NextIsFirst ==
  zone.by = 0 /\ plan.type # "interval" =>
    /\ ~refused /\ runAt > now /\ Wanted(zone, plan, runAt)
    /\ \A t \in now + 1 .. runAt - 1 : ~Wanted(zone, plan, t)

\* Even when clocks are changed, a daily run that is activated leaves one at most a day
\* ahead, and behind by less than what clocks are put back (calculate_next_daily adds
\* 24 hours, and never finds the day after).
DailyWithinADay ==
  plan.type = "daily" /\ ~refused =>
    /\ runAt > (IF zone.by < 0 THEN now + zone.by ELSE now)
    /\ runAt <= now + DayLength

\* A monthly run is always at its time and on its day: a month where clocks skip or
\* repeat that hour of that day is left out (calculate_next_monthly tries the next).
MonthlyAtItsTime == plan.type = "monthly" => runAt > now /\ Wanted(zone, plan, runAt)

\* What is left of the plan in every zone, daily and monthly.
KeptInEveryZone == DailyWithinADay /\ MonthlyAtItsTime

\* A due task is refused only for a change of clocks: a daily one on the day itself,
\* a weekly one from a week before, a monthly one never (the ? in the calculations).
RefusedNearChange ==
  refused =>
    LET ahead == ChangeDay(zone) - DayAt(zone, now)
    IN \/ plan.type = "daily" /\ ahead = 0
       \/ plan.type = "weekly" /\ ahead \in 0 .. WeekLength
-----------------------------------------------------------------------------
(* What the documents say *)

\* web_ui/setup.md:36: "Run at a specific time each day".
DailyAtItsTime == plan.type = "daily" => Wanted(zone, plan, runAt)

\* schedules.rs:282: "Calculate the next run time for this schedule starting from a
\* reference time": a run time that is not later than the reference is not the next.
NextIsLater == ~refused => runAt > now

\* getting_started/first_steps.md:50: "Scheduled scans will run automatically based on
\* your configuration": a task that is due can be started.
DueStarts == ~refused
=============================================================================
