SPECIFICATION Spec
CONSTANTS
  f = f
  g = g
  d = d
  e = e
  top = top
  hash1 = hash1
  hash2 = hash2
  Absent = Absent
  None = None
  Files = {f}
  Folders = {d, e}
  Validated = {f}
  Root = top
  Parent <- Deep
  MayFind <- Few
  LastScan = 4
  MaxCrashes = 1
INVARIANTS
  ItemsAsFound
  VersionsInOrder
  Mended
  HashesKept
CHECK_DEADLOCK FALSE
