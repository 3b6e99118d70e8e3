\* A fetch fails while workers are busy.
SPECIFICATION Spec
CONSTANTS
  NumFiles = 3
  Threads = 2
  BatchSize = 2
  Capacity = 2
  MaxPanics = 0
  MaxFaults = 1
INVARIANTS
  ErrorLeavesNothing
CHECK_DEADLOCK FALSE
