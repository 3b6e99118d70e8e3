SPECIFICATION Spec
CONSTANTS
  DayLength = 4
  MonthLengths <- YearOfFour
  Months = 12
  MaxNow = 100
  MaxDelay = 3
  Zones <- AnyChange
  Plans <- DailyAndWeekly
INVARIANTS
  NextIsLater
CHECK_DEADLOCK FALSE
