\* What documents say of pages and TLC refutes: keep the property of interest.
SPECIFICATION FairFeed
CONSTANTS
  Roots = {r1}
  Settings = {s1}
  Null = null
  MaxSchedules = 0
  MaxTasks = 2
  MaxWait = 1
  MaxTime = 2
  MaxInterrupts = 1
  MaxFaults = 0
  MaxBroken = 0
  Capacity = 2
  MaxMishaps = 2
PROPERTIES
  PauseShown
  PausedTaskGone
  IdleShown
CHECK_DEADLOCK FALSE
