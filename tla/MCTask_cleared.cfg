SPECIFICATION FairSpec
CONSTANTS
  Roots = {r1}
  Settings = {s1}
  Null = null
  MaxSchedules = 0
  MaxTasks = 1
  MaxWait = 1
  MaxTime = 1
  MaxInterrupts = 0
  MaxFaults = 0
  MaxBroken = 1
PROPERTIES
  TaskIsCleared
CHECK_DEADLOCK FALSE
