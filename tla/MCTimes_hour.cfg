SPECIFICATION Spec
CONSTANTS
  DayLength = 4
  MonthLengths <- YearOfFour
  Months = 12
  MaxNow = 100
  MaxDelay = 3
  Zones <- AnyChange
  Plans <- Daily
INVARIANTS
  DailyAtItsTime
CHECK_DEADLOCK FALSE
