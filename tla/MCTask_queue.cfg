\* A running task, the next and one that overtakes it, while pauses, crashes and
\* failures inside and outside of scans come between.
SPECIFICATION Spec
CONSTANTS
  Roots = {r1}
  Settings = {s1}
  Null = null
  MaxSchedules = 1
  MaxTasks = 3
  MaxWait = 1
  MaxTime = 2
  MaxInterrupts = 1
  MaxFaults = 1
  MaxBroken = 1
INVARIANTS
  TypeOK
  OneRunning
  RootOutlivesTasks
  FinishedScanEnded
PROPERTIES
  NoStartInPause
CHECK_DEADLOCK FALSE
