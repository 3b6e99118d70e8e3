\* What becomes of each task and each schedule over two pauses or shutdowns, under fairness.
SPECIFICATION FairSpec
CONSTANTS
  Roots = {r1}
  Settings = {s1}
  Null = null
  MaxSchedules = 2
  MaxTasks = 2
  MaxWait = 1
  MaxTime = 2
  MaxInterrupts = 2
  MaxFaults = 1
  MaxBroken = 0
INVARIANTS
  OnePendingPerSchedule
  StoppedOnRequest
PROPERTIES
  LivesOnce
  ManualScanStarts
CHECK_DEADLOCK FALSE
