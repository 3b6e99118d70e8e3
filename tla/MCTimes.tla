------------------------------ MODULE MCTimes ------------------------------
(***************************************************************************)
(* Small instances of ScheduleTimes: days of four hours, and years of      *)
(* four months, one of which lacks the days 5 and 6.                       *)
(***************************************************************************)
EXTENDS ScheduleTimes

YearOfFour == <<6, 4, 6, 6>>

NoChange == {[change |-> 0, by |-> 0]}
AnyChange == [change : 24 .. 40, by : {-1, 1}]
AnyZone == NoChange \cup AnyChange

Daily == [type : {"daily"}, hour : 0 .. 4]
Weekly == [type : {"weekly"}, hour : 0 .. 4, days : {{}, {0}, {1, 2}, {0, 3, 6}}]
Monthly == [type : {"monthly"}, hour : 0 .. 4, day : 0 .. 7]
Interval == [type : {"interval"}, every : {-1, 0, 1, 5}]

AnyPlan == Daily \cup Weekly \cup Monthly \cup Interval
DailyAndWeekly == Daily \cup Weekly
=============================================================================
