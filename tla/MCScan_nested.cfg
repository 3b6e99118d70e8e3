\* A file in a directory, with analysis and folder counts.
SPECIFICATION FairSpec
CONSTANTS
  d = d  f = f  u = u
  r1 = r1  r2 = r2
  m1 = m1  m2 = m2  none = none
  h1 = h1  h2 = h2
  Roots = {r1}
  Items = {d, f}
  Dirs = {d}
  Files = {f}
  HasValidator = {f}
  RootOf <- NestedRootOf
  Above <- NestedAbove
  Metas = {m1}
  NoMeta = none
  Hashes = {h1}
  AnalysisSpecs <- NewHashes
  MaxScans = 3
  MaxFaults = 1
INVARIANTS
  TypeOK
  WindowsOrdered
  ReadersAgree
PROPERTIES
  ScanEnds
  AtomicScans
  CompletedViewsFixed
CHECK_DEADLOCK FALSE
