\* Every thread panics.
SPECIFICATION FairSpec
CONSTANTS
  NumFiles = 4
  Threads = 2
  BatchSize = 2
  Capacity = 1
  MaxPanics = 2
  MaxFaults = 1
PROPERTIES
  InterruptExits
CHECK_DEADLOCK FALSE
