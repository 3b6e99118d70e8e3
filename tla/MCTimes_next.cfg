\* Every kind of schedule; clocks are changed at any hour of four days, or never.
SPECIFICATION Spec
CONSTANTS
  DayLength = 4
  MonthLengths <- YearOfFour
  Months = 12
  MaxNow = 90
  MaxDelay = 3
  Zones <- AnyZone
  Plans <- AnyPlan
INVARIANTS
  NextIsFirst
  KeptInEveryZone
  RefusedNearChange
CHECK_DEADLOCK FALSE
