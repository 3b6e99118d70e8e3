\* Two workers, batches of two, a narrow channel, one panic, two faults.
SPECIFICATION FairSpec
CONSTANTS
  NumFiles = 4
  Threads = 2
  BatchSize = 2
  Capacity = 1
  MaxPanics = 1
  MaxFaults = 2
INVARIANTS
  HwmSafe
  NeverTwice
  StoppedLeavesNothing
  EveryFileTried
PROPERTIES
  PhaseEnds
CHECK_DEADLOCK FALSE
