\* What documents say of tasks and TLC refutes: keep the invariant of interest.
SPECIFICATION Spec
CONSTANTS
  Roots = {r1}
  Settings = {s1, s2}
  Null = null
  MaxSchedules = 1
  MaxTasks = 2
  MaxWait = 1
  MaxTime = 2
  MaxInterrupts = 1
  MaxFaults = 1
  MaxBroken = 0
INVARIANTS
  PendingFollowsSchedule
  RootCanBeDeleted
  CompletedSuccessfully
CHECK_DEADLOCK FALSE
