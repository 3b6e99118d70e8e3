\* What comments of the upgrades say and TLC refutes: keep the property of interest.
\* NoOverlaps takes more scans than can be gone through: set SPECIFICATION TurnsSpec,
\* Files = {f, g}, Parent <- Wide, MayFind <- Either, LastScan = 6, MaxCrashes = 0.
SPECIFICATION Spec
CONSTANTS
  f = f
  g = g
  d = d
  e = e
  top = top
  hash1 = hash1
  hash2 = hash2
  Absent = Absent
  None = None
  Files = {f}
  Folders = {d, e}
  Validated = {f}
  Root = top
  Parent <- Deep
  MayFind <- Few
  LastScan = 4
  MaxCrashes = 1
INVARIANTS
  NoOverlaps
  NoGaps
  AllFilesCounted
  PhantomsNotCounted
  BaselineCountsRows
PROPERTIES
  RecountsAgree
CHECK_DEADLOCK FALSE
