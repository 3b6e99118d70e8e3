\* What a page shows of two scans, through one pause, shutdown, crash or error and one stop, under fairness.
SPECIFICATION FairFeed
CONSTANTS
  Roots = {r1}
  Settings = {s1}
  Null = null
  MaxSchedules = 0
  MaxTasks = 2
  MaxWait = 1
  MaxTime = 1
  MaxInterrupts = 1
  MaxFaults = 1
  MaxBroken = 0
  Capacity = 2
  MaxMishaps = 1
PROPERTIES
  TaskShownTrue
  EndSeen
  StopHitsSeen
CHECK_DEADLOCK FALSE
