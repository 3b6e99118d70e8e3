SPECIFICATION Spec
CONSTANTS
  Roots = {r1}
  Settings = {s1}
  Null = null
  MaxSchedules = 0
  MaxTasks = 2
  MaxWait = 1
  MaxTime = 1
  MaxInterrupts = 1
  MaxFaults = 1
  MaxBroken = 1
INVARIANTS
  OneOpenScanPerRoot
CHECK_DEADLOCK FALSE
